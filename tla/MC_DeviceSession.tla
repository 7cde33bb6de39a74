------------------------- MODULE MC_DeviceSession -------------------------
(***************************************************************************)
(* Small instances of DeviceSession for TLC: devices and settings are      *)
(* model values.  Every behaviour has a plan, which says what the user     *)
(* does: manage ports, links and cables, or save and load scenes and       *)
(* profiles.  Together they are every control.                             *)
(***************************************************************************)
EXTENDS DeviceSession

VARIABLE plan

mcVars == <<vars, plan>>

Plans == {"devices", "file"}

DevicesUser ==
  \/ \E id \in DOMAIN endpoints : SetOpen(id) \/ SetClosed(id)
  \/ \E pair \in Matrix : Link(pair) \/ Unlink(pair)
  \/ Panic \/ RefreshDevices \/ AddCable
  \/ \E c \in cables : RemoveCable(c)

FileUser ==
  \/ \E id \in DOMAIN endpoints : SetClosed(id)
  \/ \E pair \in Matrix : Link(pair) \/ Unlink(pair)
  \/ \E pair \in DOMAIN links, setting \in Settings : SetSetting(pair, setting)
  \/ \E name \in SceneNames : SaveScene(name) \/ RecallScene(name)
  \/ SaveProfile \/ LoadProfile \/ Restart

MCInit == Init /\ plan \in Plans

MCNext ==
  /\ plan' = plan
  /\ \/ Engine
     \/ World /\ (plan = "file" => changes = 0)
     \/ plan = "devices" /\ DevicesUser
     \/ plan = "file" /\ FileUser

MCSpec ==
  /\ MCInit /\ [][MCNext]_mcVars
  /\ SF_vars(PollHotplug /\ plan' = plan)
  /\ WF_vars((\E id \in reopen : Reopen(id)) /\ plan' = plan)
  /\ WF_vars((\E pair \in todo : LoadLink(pair)) /\ plan' = plan)
===========================================================================

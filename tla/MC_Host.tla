------------------------------- MODULE MC_Host -------------------------------
(***************************************************************************)
(* McpStdio, ClockMaster and ScriptHost for TLC: what runs in the program  *)
(* beside the thru path.  Every behaviour has a focus, since none of them  *)
(* reads what another one writes: the window's agents, a second process,   *)
(* the clock master, or the script.  The window and the second process     *)
(* touch only where one probes whether the other listens, so the window's  *)
(* tools are explored with no second process, and the process's tools      *)
(* while the window's agents call nothing.                                 *)
(***************************************************************************)
EXTENDS McpStdio, ClockMaster, ScriptHost

CONSTANTS MasterClicks, ScriptClicks   \* bounds on the user's clicks

VARIABLES focus, clicks

mcVars == <<vars, masterVars, scriptVars, focus, clicks>>

Counter == Program(TRUE, "count", 2)
MCPrograms == {Empty, Counter, Program(TRUE, "keep", -1), Program(TRUE, "fail", 0), Program(FALSE, "return", 0)}

AgentStep ==
  /\ StdioNext
  /\ focus = "window" => UNCHANGED stdioVars
  /\ focus = "process" => UNCHANGED <<calls, portVars>>

MasterClick == Start \/ Continue \/ Stop \/ Enable \/ PickDest \/ (\E bpm \in Tempi : set_bpm(bpm))
MasterTick == \E late \in LateBy, got \in 0..CatchUp : TickMaster(late, got)

\* A file with a program is loaded where there is none yet.
ScriptClick ==
  \/ \E program \in Programs : Edit(program) \/ (clicks = 0 /\ LoadText(program))
  \/ Apply \/ SetEnabled \/ SaveProfile \/ LoadProfile \/ Restart
ScriptRuns == Process \/ Tick \/ (\E ms \in 1..2 : Wait(ms))

Clicked(bound, A) == clicks < bound /\ clicks' = clicks + 1 /\ A
Unclicked(A) == clicks' = clicks /\ A

MCInit ==
  /\ StdioInit /\ MasterInit /\ ScriptInit /\ clicks = 0
  /\ focus \in {"window", "process", "master", "script"}
  /\ focus # "process" => inputs = "free"

MCNext ==
  /\ focus' = focus
  /\ \/ focus \in {"window", "process"} /\ Unclicked(AgentStep) /\ UNCHANGED <<masterVars, scriptVars>>
     \/ /\ focus = "master" /\ UNCHANGED <<vars, scriptVars>>
        /\ Clicked(MasterClicks, MasterClick) \/ Unclicked(MasterTick)
     \/ /\ focus = "script" /\ UNCHANGED <<vars, masterVars>>
        /\ Clicked(ScriptClicks, ScriptClick) \/ Unclicked(ScriptRuns)

Agent(A) == focus \in {"window", "process"} /\ Unclicked(A) /\ UNCHANGED <<stdioVars, masterVars, scriptVars, focus>>
Script(A) == focus = "script" /\ Unclicked(A) /\ UNCHANGED <<vars, masterVars, focus>>

\* A thread that can go on does; one that keeps finding the lock free in
\* between gets it some time.  The engine may never get it, but ends its tick.
\* Where no other thread is modelled it ticks again and again, and time goes on.
MCFairness ==
  /\ SF_mcVars(Agent(Ui))
  /\ WF_mcVars(Agent(TickEnds))
  /\ WF_mcVars(Agent(Drain))
  /\ \A a \in Agents : SF_mcVars(Agent(Handler(a))) /\ WF_mcVars(Agent(Unlock(a)))
  /\ WF_mcVars(Script(Tick))
  /\ WF_mcVars(Script(Wait(1)))

MCSpec == MCInit /\ [][MCNext]_mcVars /\ MCFairness
=============================================================================

------------------------------ MODULE McpStdio ------------------------------
(***************************************************************************)
(* `midi-forge mcp` (crates/midi-forge-app/src/mcp/stdio.rs, attach.rs and *)
(* StandaloneHost of host.rs): a second process that either passes its     *)
(* agent's tools on to the window's server or opens the MIDI ports itself. *)
(* While it is attached its agent is one of the sessions of McpServer: the *)
(* proxy passes every call on and keeps nothing.                           *)
(***************************************************************************)
EXTENDS McpServer

CONSTANT MaxPolled    \* bound: messages captured for it

ASSUME PolledAssumption == MaxPolled \in Nat

VARIABLES kind,       \* where the process is
          flags,      \* McpFlags
          own_armed,  \* StandaloneHost.armed
          own_open,   \* StandaloneHost.open_outputs
          inputs,     \* who has the input: WinMM gives it to one process
          waiting,    \* messages in the backend's channel, not polled
          seen,       \* those the monitor, live view and trackers have
          own_sent    \* StandaloneHost.sent: the last

flagVars == <<flags, own_armed>>
ownVars == <<own_open, waiting, seen, own_sent>>
stdioVars == <<kind, flagVars, ownVars, inputs>>
vars == <<serverModuleVars, stdioVars>>

Flags == [arm : BOOLEAN, attach : BOOLEAN, standalone : BOOLEAN]
NoFlags == [arm |-> FALSE, attach |-> FALSE, standalone |-> FALSE]

\* run and serve: the window is probed unless --standalone is given.
Serve ==
  /\ kind = "off"
  /\ flags' \in Flags
  /\ kind' = IF flags'.standalone THEN "opening" ELSE "probing"
  /\ UNCHANGED <<serverModuleVars, own_armed, ownVars, inputs>>

\* probe_gui: whether the port accepts within 100 ms.
Answers == IF server = "serving" THEN BOOLEAN ELSE {FALSE}

\* session_plan: attach to a window that answers, else open the ports, with
\* or without --attach.
Plan ==
  /\ kind = "probing"
  /\ \E gui_listening \in Answers : kind' = IF gui_listening THEN "connecting" ELSE "opening"
  /\ UNCHANGED <<serverModuleVars, flagVars, ownVars, inputs>>

\* attach::connect, which fails if the server stopped meanwhile.
Connect ==
  /\ kind = "connecting"
  /\ kind' = IF server = "serving" THEN "attached" ELSE "off"
  /\ UNCHANGED <<serverModuleVars, flagVars, ownVars, inputs>>

\* from_default, auto_open_inputs and --arm.  An input that is in use, or
\* refused, stays closed.
OpenOwn ==
  /\ kind = "opening"
  /\ kind' = "standalone" /\ own_armed' = flags.arm
  /\ inputs' \in IF inputs = "free" THEN {"free", "stdio"} ELSE {inputs}
  /\ UNCHANGED <<serverModuleVars, flags, ownVars>>

\* The window opens or closes the input.
WindowInput ==
  /\ inputs' \in CASE inputs = "free" -> {"window"} [] inputs = "window" -> {"free"} [] OTHER -> {}
  /\ UNCHANGED <<serverModuleVars, kind, flagVars, ownVars>>

Arrive ==
  /\ kind = "standalone" /\ inputs = "stdio" /\ seen + waiting < MaxPolled
  /\ waiting' = waiting + 1
  /\ UNCHANGED <<serverModuleVars, kind, flagVars, own_open, seen, own_sent, inputs>>

\* with_host polls before it runs a tool.
Polls == seen' = seen + waiting /\ waiting' = 0

\* A reading tool, a sending tool, and set_port_open, on the process's host.
OwnRead ==
  /\ kind = "standalone" /\ Polls
  /\ UNCHANGED <<serverModuleVars, kind, flagVars, own_open, own_sent, inputs>>

\* StandaloneHost::require_armed
OwnGate == own_armed

\* StandaloneHost::send and send_sysex: the output is opened first; the driver
\* may refuse that, and then the packet.
OwnSend ==
  /\ kind = "standalone" /\ Polls
  /\ \/ UNCHANGED <<own_open, own_sent>>
     \/ /\ OwnGate
        /\ \E o \in Outputs : own_open' = own_open \cup {o} /\ own_sent' \in {own_sent, <<o, seen'>>}
  /\ UNCHANGED <<serverModuleVars, kind, flagVars, inputs>>

\* An output, or the input.
OwnSetPortOpen ==
  /\ kind = "standalone" /\ OwnGate /\ Polls
  /\ \/ /\ \E o \in Outputs : own_open' \in {own_open \cup {o}, own_open \ {o}}
        /\ UNCHANGED inputs
     \/ /\ inputs' \in CASE inputs = "free" -> {"stdio"} [] inputs = "stdio" -> {"free"} [] OTHER -> {}
        /\ UNCHANGED own_open
  /\ UNCHANGED <<serverModuleVars, kind, flagVars, own_sent>>

\* The agent goes: the process ends and lets go of its ports.
Leave ==
  /\ kind \in {"attached", "standalone"}
  /\ kind' = "off" /\ flags' = NoFlags /\ own_armed' = FALSE
  /\ own_open' = {} /\ waiting' = 0 /\ seen' = 0 /\ own_sent' = None
  /\ inputs' = IF inputs = "stdio" THEN "free" ELSE inputs
  /\ UNCHANGED serverModuleVars

-----------------------------------------------------------------------------
StdioInit ==
  /\ Init
  /\ kind = "off" /\ flags = NoFlags /\ own_armed = FALSE
  /\ own_open = {} /\ waiting = 0 /\ seen = 0 /\ own_sent = None
  /\ inputs \in {"free", "window"}

StdioStep ==
  \/ Serve \/ Plan \/ Connect \/ OpenOwn \/ WindowInput
  \/ Arrive \/ OwnRead \/ OwnSend \/ OwnSetPortOpen \/ Leave

StdioNext == (Next /\ UNCHANGED stdioVars) \/ StdioStep

-----------------------------------------------------------------------------
(* Properties.                                                             *)

\* Each process writes only while its own gate is open: --arm opens the gate
\* of a process with its own ports, and never the window's; and there only if
\* it was given at the start.
EachGateHolds ==
  [][/\ written' # written => agent_armed
     /\ own_sent' # own_sent /\ own_sent' # None => flags.arm]_vars
=============================================================================

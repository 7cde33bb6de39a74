----------------------------- MODULE McpServer -----------------------------
(***************************************************************************)
(* The agent server of the window (crates/midi-forge-app/src/mcp/http.rs,  *)
(* host.rs, tools.rs, and sync_mcp_http in app.rs): the user-interface     *)
(* thread, the engine thread and one handler for each agent session share  *)
(* one engine behind one lock.  A tool is several calls on LiveHost, and   *)
(* each takes the lock anew: what one found out may have changed before    *)
(* the next.                                                               *)
(***************************************************************************)
EXTENDS Naturals, FiniteSets

CONSTANTS Agents,     \* agent sessions
          Outputs,    \* output endpoints
          None,       \* no owner, no reply
          MaxCalls    \* bound: tools called

ASSUME NoneAssumption == None \notin Agents \cup Outputs /\ MaxCalls \in Nat

VARIABLES lock,          \* who holds the engine's lock
          ui,            \* where the user-interface thread is
          engine,        \* where the engine thread is
          agent_listen,  \* the "Agent" box
          agent_armed,   \* the "Arm writes" box
          agent_status,  \* it shows the address of the server
          server,        \* the server thread: "off", "serving", "draining"
          handle,        \* MidiForgeApp.mcp is set
          endpoints,     \* the listed outputs
          open_outputs,  \* the open ones
          call,          \* by session, the tool it is running
          calls,         \* tools called so far
          written        \* what the last write sent, to which output

boxes == <<agent_listen, agent_armed, agent_status>>
serverVars == <<server, handle>>
portVars == <<endpoints, open_outputs>>
callVars == <<call, calls, written>>
serverModuleVars == <<lock, ui, engine, boxes, serverVars, portVars, callVars>>

\* "send" is send_note, send_cc, identity and the panic of a named output.
Tools == {"read", "send", "panic", "set_port_open"}

\* A session's call: its tool, its next step, the packets it has still to send,
\* each <<output, number>>, those sent and, for the properties, the outputs
\* open ever since it began.
NoCall == [tool |-> "none", next |-> "idle", todo |-> {}, done |-> {}, steady |-> {}]
Steady(o) == [a \in Agents |-> [call[a] EXCEPT !.steady = @ \cap o]]
Packets == 1..2

-----------------------------------------------------------------------------
(* The user-interface thread: a frame under the lock, then sync_mcp_http.  *)

FrameBegins ==
  /\ ui = "frame" /\ lock = None
  /\ lock' = "ui" /\ ui' = "drawing"
  /\ UNCHANGED <<engine, boxes, serverVars, portVars, callVars>>

\* Ticking a box, opening or closing an output, a rescan that finds other
\* outputs.
TickListen ==
  /\ ui = "drawing" /\ agent_listen' = ~ agent_listen
  /\ UNCHANGED <<agent_armed, agent_status, portVars, callVars>>

TickArm ==
  /\ ui = "drawing" /\ agent_armed' = ~ agent_armed
  /\ UNCHANGED <<agent_listen, agent_status, portVars, callVars>>

ToggleOutput ==
  /\ ui = "drawing"
  /\ \E o \in endpoints :
       /\ open_outputs' = IF o \in open_outputs THEN open_outputs \ {o} ELSE open_outputs \cup {o}
       /\ call' = Steady(open_outputs')
  /\ UNCHANGED <<boxes, endpoints, calls, written>>

Rescan ==
  /\ ui = "drawing"
  /\ endpoints' \in SUBSET Outputs
  /\ open_outputs' = open_outputs \cap endpoints'
  /\ call' = Steady(open_outputs')
  /\ UNCHANGED <<boxes, calls, written>>

FrameEnds ==
  /\ \/ TickListen \/ TickArm \/ ToggleOutput \/ Rescan
     \/ ui = "drawing" /\ UNCHANGED <<boxes, portVars, callVars>>
  /\ lock' = None /\ ui' = "sync"
  /\ UNCHANGED <<engine, serverVars>>

\* sync_mcp_http reads the box and lets go of the lock before it starts or
\* stops the server; only this thread changes the box.
Sync ==
  /\ ui = "sync" /\ lock = None
  /\ ui' = CASE agent_listen /\ ~ handle -> "spawn"
             [] ~ agent_listen /\ handle -> "shutdown"
             [] OTHER -> "frame"
  /\ UNCHANGED <<lock, engine, boxes, serverVars, portVars, callVars>>

\* http::spawn waits until the thread is listening or could not bind.
SpawnListens ==
  /\ ui = "spawn"
  /\ server' = "serving" /\ ui' = "listening"
  /\ UNCHANGED <<lock, engine, boxes, handle, portVars, callVars>>

SpawnFails ==
  /\ ui = "spawn"
  /\ ui' = "refused"
  /\ UNCHANGED <<lock, engine, boxes, serverVars, portVars, callVars>>

\* What the frame shows then, under the lock again.
ShowListening ==
  /\ ui = "listening" /\ lock = None
  /\ agent_status' = TRUE /\ handle' = TRUE /\ ui' = "frame"
  /\ UNCHANGED <<lock, engine, agent_listen, agent_armed, server, portVars, callVars>>

ShowRefused ==
  /\ ui = "refused" /\ lock = None
  /\ agent_listen' = FALSE /\ agent_status' = FALSE /\ ui' = "frame"
  /\ UNCHANGED <<lock, engine, agent_armed, serverVars, portVars, callVars>>

\* Bug: the box is read and the server stopped under one lock.
CancelLocked ==
  /\ ui = "shutdown" /\ lock = None
  /\ server' = "draining" /\ handle' = FALSE /\ ui' = "join" /\ lock' = "ui"
  /\ UNCHANGED <<engine, boxes, portVars, callVars>>

\* McpHttpHandle::shutdown: cancel, then join.
Cancel ==
  /\ ui = "shutdown"
  /\ server' = "draining" /\ handle' = FALSE /\ ui' = "join"
  /\ UNCHANGED <<lock, engine, boxes, portVars, callVars>>

Joined ==
  /\ ui = "join" /\ server = "off"
  /\ ui' = "clear" /\ lock' = IF lock = "ui" THEN None ELSE lock
  /\ UNCHANGED <<engine, boxes, serverVars, portVars, callVars>>

ClearStatus ==
  /\ ui = "clear" /\ lock = None
  /\ agent_status' = FALSE /\ ui' = "frame"
  /\ UNCHANGED <<lock, engine, agent_listen, agent_armed, serverVars, portVars, callVars>>

\* Graceful shutdown: the server's thread ends after its last handler.
Drain ==
  /\ server = "draining" /\ \A a \in Agents : call[a].next = "idle"
  /\ server' = "off"
  /\ UNCHANGED <<lock, ui, engine, boxes, handle, portVars, callVars>>

-----------------------------------------------------------------------------
(* The engine thread: a tick if the lock is free, once a millisecond.      *)

TickBegins ==
  /\ engine = "sleep" /\ lock = None
  /\ lock' = "engine" /\ engine' = "tick"
  /\ UNCHANGED <<ui, boxes, serverVars, portVars, callVars>>

\* A tick may poll for devices and find others.
TickEnds ==
  /\ engine = "tick"
  /\ lock' = None /\ engine' = "sleep"
  /\ \/ UNCHANGED <<portVars, call>>
     \/ /\ endpoints' \in SUBSET Outputs
        /\ open_outputs' = open_outputs \cap endpoints'
        /\ call' = Steady(open_outputs')
  /\ UNCHANGED <<ui, boxes, serverVars, calls, written>>

-----------------------------------------------------------------------------
(* Tools.  Each step is one call on LiveHost: it takes the lock, does its  *)
(* work and gives the lock back in the next step.                          *)

Begin(a, tool) ==
  /\ server = "serving" /\ call[a].next = "idle" /\ calls < MaxCalls
  /\ calls' = calls + 1
  /\ call' = [call EXCEPT ![a] = [NoCall EXCEPT !.tool = tool, !.steady = open_outputs,
                                  !.next = IF tool = "read" THEN "read" ELSE "armed"]]
  /\ UNCHANGED <<lock, ui, engine, boxes, serverVars, portVars, written>>

\* A step of the session's tool at the point p, under the lock.
Locked(a, p) == call[a].next = p /\ lock = None /\ lock' = a
Goes(a, p) == call' = [call EXCEPT ![a].next = p]
KeepsRest == UNCHANGED <<ui, engine, boxes, serverVars, calls>>

\* The reading tools.
Read(a) ==
  /\ Locked(a, "read") /\ Goes(a, "ok")
  /\ KeepsRest /\ UNCHANGED <<portVars, written>>

\* require_armed
RequireArmed(a) ==
  /\ Locked(a, "armed")
  /\ Goes(a, CASE ~ agent_armed -> "err"
               [] call[a].tool = "panic" -> "open"
               [] call[a].tool = "send" -> "list"
               [] call[a].tool = "set_port_open" -> "write")
  /\ KeepsRest /\ UNCHANGED <<portVars, written>>

\* tools::panic: the open outputs, or all if none is open ...
ListOpen(a) ==
  /\ Locked(a, "open")
  /\ call' = [call EXCEPT ![a].next = "list", ![a].todo = open_outputs]
  /\ KeepsRest /\ UNCHANGED <<portVars, written>>

\* Bug: without an open output the first one listed is silenced, and else
\* the first one open.
OneTarget(a) == {{o} : o \in endpoints}

\* ... and those of them still listed; "send" finds one output.
Targets(a) ==
  IF call[a].tool = "send" THEN {{o} : o \in endpoints}
  ELSE {IF call[a].todo = {} THEN endpoints ELSE endpoints \cap call[a].todo}

List(a) ==
  /\ Locked(a, "list")
  /\ \/ /\ Targets(a) \subseteq {{}} /\ Goes(a, "err")
     \/ \E targets \in Targets(a) \ {{}} :
          call' = [call EXCEPT ![a].next = "write", ![a].todo = targets \X Packets]
  /\ KeepsRest /\ UNCHANGED <<portVars, written>>

\* Bug: the write trusts the check at the beginning of the tool.
Trusting == TRUE

\* LiveHost's own check.
StillArmed == agent_armed

\* LiveHost::send and send_sysex: refused when writes were disarmed since or
\* the output is listed no more; opens the output, which may fail, and the
\* driver may still refuse the packet.
Write(a) ==
  /\ call[a].tool \in {"send", "panic"} /\ Locked(a, "write")
  /\ \E packet \in call[a].todo :
       LET o == packet[1]
           left == call[a].todo \ {packet}
       IN \/ /\ StillArmed /\ o \in endpoints
             /\ written' = <<a, packet, calls>>
             /\ open_outputs' = open_outputs \cup {o}
             /\ call' = [call EXCEPT ![a].todo = left, ![a].done = @ \cup {packet},
                                     ![a].next = IF left = {} THEN "ok" ELSE "write"]
          \/ /\ Goes(a, "err") /\ UNCHANGED written
             /\ \/ UNCHANGED open_outputs
                \/ StillArmed /\ o \in endpoints /\ open_outputs' = open_outputs \cup {o}
  /\ KeepsRest /\ UNCHANGED endpoints

\* LiveHost::set_port_open of an output.
SetPortOpen(a) ==
  /\ call[a].tool = "set_port_open" /\ Locked(a, "write")
  /\ \/ /\ StillArmed
        /\ \E o \in endpoints :
             /\ open_outputs' \in {open_outputs \cup {o}, open_outputs \ {o}}
             /\ written' = <<a, <<o, 0>>, calls>>
        /\ call' = [Steady(open_outputs') EXCEPT ![a].next = "ok"]
     \/ Goes(a, "err") /\ UNCHANGED <<written, open_outputs>>
  /\ KeepsRest /\ UNCHANGED endpoints

Unlock(a) ==
  /\ lock = a /\ lock' = None
  /\ UNCHANGED <<ui, engine, boxes, serverVars, portVars, callVars>>

\* The reply, after the last unlock.
Reply(a) ==
  /\ call[a].next \in {"ok", "err"} /\ lock # a
  /\ call' = [call EXCEPT ![a] = NoCall]
  /\ UNCHANGED <<lock, ui, engine, boxes, serverVars, portVars, calls, written>>

-----------------------------------------------------------------------------
Init ==
  /\ lock = None /\ ui = "frame" /\ engine = "sleep"
  /\ agent_listen = FALSE /\ agent_armed = FALSE /\ agent_status = FALSE
  /\ server = "off" /\ handle = FALSE
  /\ endpoints = Outputs /\ open_outputs = {}
  /\ call = [a \in Agents |-> NoCall] /\ calls = 0 /\ written = None

Ui ==
  \/ FrameBegins \/ FrameEnds \/ Sync
  \/ SpawnListens \/ SpawnFails \/ ShowListening \/ ShowRefused
  \/ Cancel \/ Joined \/ ClearStatus

Engine == TickBegins \/ TickEnds

Handler(a) ==
  \/ Read(a) \/ RequireArmed(a) \/ ListOpen(a) \/ List(a)
  \/ Write(a) \/ SetPortOpen(a) \/ Reply(a)

Next ==
  \/ Ui \/ Engine \/ Drain
  \/ \E a \in Agents :
       \/ \E tool \in Tools : Begin(a, tool)
       \/ Handler(a)
       \/ Unlock(a)

Spec == Init /\ [][Next]_serverModuleVars

-----------------------------------------------------------------------------
(* Properties.                                                             *)

TypeOK ==
  /\ lock \in Agents \cup {None, "ui", "engine"}
  /\ open_outputs \subseteq endpoints /\ endpoints \subseteq Outputs

\* A panic that replies with success silenced every output that was open all
\* the time since it was called, whatever the user opened, closed, disarmed
\* or unplugged meanwhile.
PanicIsComplete ==
  \A a \in Agents : call[a].tool = "panic" /\ call[a].next = "ok" => call[a].steady \X Packets \subseteq call[a].done

\* The user interface never waits for ever: not in the join of the server's
\* thread while handlers wait for the lock, nor for the lock itself.
FramesGoOn == ui # "frame" ~> ui = "frame"
=============================================================================

----------------------------- MODULE Host_proofs -----------------------------
(***************************************************************************)
(* Proofs about what runs in the program beside the thru path: the agent   *)
(* server with its second process, the clock master and the script host,   *)
(* for any agents, outputs, tempi, delays, programs and bounds.            *)
(***************************************************************************)
EXTENDS McpStdio, ClockMaster, ScriptHost, FiniteSetTheorems, SequenceTheorems, WellFoundedInduction, TLAPS

-----------------------------------------------------------------------------
(* A panic that replies with success is complete.  The argument follows    *)
(* the outputs that stay open from the call to the reply: they are among   *)
(* what the panic reads as open, then among what it finds listed, and what *)
(* it has not sent to them yet is still in its list.                       *)

Points == {"idle", "read", "armed", "open", "list", "write", "ok", "err"}
Sent == Outputs \X Packets
Call == [tool : Tools \cup {"none"}, next : Points, todo : SUBSET (Outputs \cup Sent), done : SUBSET Sent,
         steady : SUBSET Outputs]

Ports == open_outputs \subseteq endpoints /\ endpoints \subseteq Outputs

\* What is known of one call: between two steps the outputs open ever since it
\* began are open.
CallInv(c) ==
  /\ c.tool = "none" => c.next = "idle"
  /\ c.next = "read" => c.tool = "read"
  /\ c.tool = "read" => c.next \in {"read", "ok", "err"}
  /\ c.next = "write" /\ c.tool # "set_port_open" => c.todo \subseteq Sent
  /\ c.steady \subseteq open_outputs
  /\ c.tool = "panic" /\ c.next = "list" => c.steady \subseteq c.todo
  /\ c.tool = "panic" /\ c.next = "write" => c.steady \X Packets \subseteq c.todo \cup c.done
  /\ c.tool = "panic" /\ c.next = "ok" => c.steady \X Packets \subseteq c.done

PanicInv == Ports /\ call \in [Agents -> Call] /\ \A a \in Agents : CallInv(call[a])

LEMMA PanicInitially == Init => PanicInv
BY DEF Init, PanicInv, Ports, Call, CallInv, NoCall, Tools, Points

\* A step that touches neither the ports nor a call.
LEMMA QuietKeeps ==
  ASSUME PanicInv, UNCHANGED <<portVars, call>>
  PROVE  PanicInv'
BY DEF PanicInv, Ports, CallInv, portVars

\* A call after the set of open outputs became o.
Narrowed(c, o) == [c EXCEPT !.steady = @ \cap o]

LEMMA NarrowedKeeps ==
  ASSUME NEW c \in Call, NEW o \in SUBSET Outputs
  PROVE  /\ Narrowed(c, o) \in Call
         /\ Narrowed(c, o).tool = c.tool /\ Narrowed(c, o).next = c.next
         /\ Narrowed(c, o).todo = c.todo /\ Narrowed(c, o).done = c.done
         /\ Narrowed(c, o).steady = c.steady \cap o
BY DEF Narrowed, Call

\* Outputs are opened, closed or lost, and every call hears of it.
LEMMA PortsKeep ==
  ASSUME PanicInv, endpoints' \subseteq Outputs, open_outputs' \subseteq endpoints', call' = Steady(open_outputs')
  PROVE  PanicInv'
<1>1. open_outputs' \in SUBSET Outputs /\ call \in [Agents -> Call]
  BY DEF PanicInv
<1>2. \A a \in Agents : call'[a] = Narrowed(call[a], open_outputs')
  BY DEF Steady, Narrowed
<1>3. call' \in [Agents -> Call]
  <2>1. \A a \in Agents : Narrowed(call[a], open_outputs') \in Call
    BY <1>1, NarrowedKeeps
  <2>2. call' = [a \in Agents |-> Narrowed(call[a], open_outputs')]
    BY DEF Steady, Narrowed
  <2> QED BY <2>1, <2>2
<1>4. ASSUME NEW a \in Agents PROVE CallInv(call[a])'
  <2> DEFINE c == call[a]
             d == Narrowed(c, open_outputs')
  <2>1. c \in Call /\ CallInv(c) /\ call'[a] = d
    BY <1>1, <1>2 DEF PanicInv
  <2> HIDE DEF c, d
  <2>2. d.tool = c.tool /\ d.next = c.next /\ d.todo = c.todo /\ d.done = c.done /\ d.steady = c.steady \cap open_outputs'
    BY <1>1, <2>1, NarrowedKeeps DEF d
  <2>3. d.steady \X Packets \subseteq c.steady \X Packets
    BY <2>2
  <2> QED BY <2>1, <2>2, <2>3 DEF CallInv
<1> QED BY <1>3, <1>4 DEF PanicInv, Ports

\* One session's call goes on; the outputs may only have grown.
LEMMA OneCallKeeps ==
  ASSUME PanicInv, endpoints' = endpoints, open_outputs \subseteq open_outputs', open_outputs' \subseteq endpoints,
         NEW a \in Agents, NEW c \in Call, call' = [call EXCEPT ![a] = c], CallInv(c)'
  PROVE  PanicInv'
<1>1. call' \in [Agents -> Call]
  BY DEF PanicInv
<1>2. ASSUME NEW b \in Agents, b # a PROVE CallInv(call[b])'
  <2>1. CallInv(call[b]) /\ call'[b] = call[b]
    BY <1>2 DEF PanicInv
  <2> QED BY <2>1 DEF CallInv
<1>3. CallInv(call[a])'
  <2>1. call'[a] = c
    BY DEF PanicInv
  <2> QED BY <2>1 DEF CallInv
<1> QED BY <1>1, <1>2, <1>3 DEF PanicInv, Ports

\* The window's and the engine's steps.
LEMMA ThreadsKeep ==
  ASSUME PanicInv, Ui \/ Engine \/ Drain
  PROVE  PanicInv'
<1> USE DEF callVars
<1>1. CASE FrameEnds
  <2>1. CASE UNCHANGED <<portVars, call>>
    BY <2>1, QuietKeeps
  <2>2. CASE ToggleOutput
    BY <2>2, PortsKeep DEF ToggleOutput, PanicInv, Ports
  <2>3. CASE Rescan
    BY <2>3, PortsKeep DEF Rescan
  <2> QED BY <1>1, <2>1, <2>2, <2>3 DEF FrameEnds, TickListen, TickArm
<1>2. CASE TickEnds
  <2>1. CASE UNCHANGED <<portVars, call>>
    BY <2>1, QuietKeeps
  <2>2. CASE endpoints' \in SUBSET Outputs /\ open_outputs' = open_outputs \cap endpoints' /\ call' = Steady(open_outputs')
    BY <2>2, PortsKeep
  <2> QED BY <1>2, <2>1, <2>2 DEF TickEnds
<1>3. CASE ~ FrameEnds /\ ~ TickEnds
  <2>1. UNCHANGED <<portVars, call>>
    BY <1>3 DEF Ui, Engine, Drain, FrameBegins, Sync, SpawnListens, SpawnFails, ShowListening, ShowRefused, Cancel,
                Joined, ClearStatus, TickBegins
  <2> QED BY <2>1, QuietKeeps
<1> QED BY <1>1, <1>2, <1>3

\* A tool that goes on to its next point p.
LEMMA GoesKeeps ==
  ASSUME PanicInv, NEW a \in Agents, NEW p \in {"open", "list", "write", "ok", "err"},
         Goes(a, p), UNCHANGED portVars, call[a].tool # "none",
         call[a].tool = "panic" => p \in {"open", "err"},
         call[a].tool = "read" => p = "ok",
         p = "write" => call[a].tool = "set_port_open"
  PROVE  PanicInv'
<1>1. call[a] \in Call /\ CallInv(call[a])
  BY DEF PanicInv
<1>2. PICK c \in Call : c = [call[a] EXCEPT !.next = p]
  BY <1>1 DEF Call, Points
<1>3. CallInv(c)
  BY <1>1, <1>2 DEF Call, CallInv
<1>4. call' = [call EXCEPT ![a] = c] /\ endpoints' = endpoints /\ open_outputs' = open_outputs
  BY <1>2 DEF Goes, portVars
<1>5. CallInv(c)'
  BY <1>3, <1>4 DEF CallInv
<1> QED BY <1>4, <1>5, OneCallKeeps DEF PanicInv, Ports

\* The first steps of a tool.
LEMMA StartKeeps ==
  ASSUME PanicInv, NEW a \in Agents, (\E tool \in Tools : Begin(a, tool)) \/ Read(a) \/ RequireArmed(a) \/ ListOpen(a)
  PROVE  PanicInv'
<1> USE DEF callVars, portVars
<1>1. call[a] \in Call /\ CallInv(call[a]) /\ open_outputs \in SUBSET Outputs /\ open_outputs \subseteq endpoints
  BY DEF PanicInv, Ports
<1>2. ASSUME NEW tool \in Tools, Begin(a, tool) PROVE PanicInv'
  <2>1. PICK c \in Call : c = [NoCall EXCEPT !.tool = tool, !.steady = open_outputs,
                                            !.next = IF tool = "read" THEN "read" ELSE "armed"]
    <3>1. [NoCall EXCEPT !.tool = tool, !.steady = open_outputs, !.next = IF tool = "read" THEN "read" ELSE "armed"] \in Call
      BY <1>1 DEF NoCall, Call, Tools, Points
    <3> QED BY <3>1
  <2>2. CallInv(c)
    BY <1>1, <2>1 DEF NoCall, CallInv, Tools
  <2>3. call' = [call EXCEPT ![a] = c] /\ UNCHANGED <<endpoints, open_outputs>>
    BY <1>2, <2>1 DEF Begin
  <2>4. CallInv(c)'
    BY <2>2, <2>3 DEF CallInv
  <2> QED BY <1>1, <2>3, <2>4, OneCallKeeps
<1>3. CASE Read(a)
  <2>1. call[a].tool = "read" /\ Goes(a, "ok")
    BY <1>1, <1>3 DEF Read, Locked, CallInv
  <2> QED BY <1>3, <2>1, GoesKeeps DEF Read
<1>4. CASE RequireArmed(a)
  <2>1. call[a].tool \in {"send", "panic", "set_port_open"}
    BY <1>1, <1>4 DEF RequireArmed, Locked, CallInv, Call, Tools
  <2>2. \/ Goes(a, "err")
        \/ call[a].tool = "panic" /\ Goes(a, "open")
        \/ call[a].tool # "panic" /\ Goes(a, "list")
        \/ call[a].tool = "set_port_open" /\ Goes(a, "write")
    BY <1>4, <2>1 DEF RequireArmed
  <2> QED BY <1>4, <2>1, <2>2, GoesKeeps DEF RequireArmed
<1>5. CASE ListOpen(a)
  <2>1. PICK c \in Call : c = [call[a] EXCEPT !.next = "list", !.todo = open_outputs]
    BY <1>1 DEF Call, Points
  <2>2. call' = [call EXCEPT ![a] = c] /\ UNCHANGED <<endpoints, open_outputs>>
    BY <1>5, <2>1 DEF ListOpen
  <2>3. CallInv(c)'
    BY <1>1, <1>5, <2>1, <2>2 DEF ListOpen, Locked, Call, CallInv
  <2> QED BY <1>1, <2>2, <2>3, OneCallKeeps
<1> QED BY <1>2, <1>3, <1>4, <1>5

\* What the tool finds listed.
LEMMA ListKeeps ==
  ASSUME PanicInv, NEW a \in Agents, List(a)
  PROVE  PanicInv'
<1>1. /\ call[a] \in Call /\ CallInv(call[a]) /\ call[a].next = "list"
      /\ call[a].steady \subseteq endpoints /\ endpoints \subseteq Outputs /\ open_outputs \subseteq endpoints
  BY DEF PanicInv, Ports, CallInv, List, Locked
<1>2. call[a].tool \in {"send", "panic", "set_port_open"}
  BY <1>1 DEF CallInv, Call, Tools
<1>3. CASE Goes(a, "err")
  BY <1>2, <1>3, GoesKeeps DEF List
<1>4. ASSUME NEW targets \in Targets(a),
             call' = [call EXCEPT ![a].next = "write", ![a].todo = targets \X Packets]
      PROVE  PanicInv'
  <2>1. targets \subseteq endpoints /\ (call[a].tool = "panic" => call[a].steady \subseteq targets)
    BY <1>1, <1>2 DEF Targets, CallInv
  <2>2. targets \X Packets \subseteq Sent
    BY <1>1, <2>1 DEF Sent
  <2>3. PICK c \in Call : c = [call[a] EXCEPT !.next = "write", !.todo = targets \X Packets]
    BY <1>1, <2>2 DEF Call, Points
  <2>4. call' = [call EXCEPT ![a] = c] /\ UNCHANGED <<endpoints, open_outputs>>
    BY <1>4, <2>3 DEF List, portVars
  <2>5. c.tool = call[a].tool /\ c.steady = call[a].steady /\ c.next = "write" /\ c.todo = targets \X Packets
    BY <1>1, <2>3 DEF Call
  <2>6. c.tool = "panic" => c.steady \X Packets \subseteq c.todo
    BY <2>1, <2>5
  <2>7. CallInv(c)'
    BY <1>1, <1>2, <2>2, <2>4, <2>5, <2>6 DEF CallInv
  <2> QED BY <1>1, <2>4, <2>7, OneCallKeeps
<1> QED BY <1>3, <1>4 DEF List

\* One packet goes out, or the tool gives up.
LEMMA WriteKeeps ==
  ASSUME PanicInv, NEW a \in Agents, Write(a)
  PROVE  PanicInv'
<1>1. /\ call[a] \in Call /\ CallInv(call[a]) /\ call[a].next = "write" /\ call[a].tool \in {"send", "panic"}
      /\ endpoints \subseteq Outputs /\ open_outputs \subseteq endpoints /\ endpoints' = endpoints
  BY DEF PanicInv, Ports, Write, Locked
<1>2. PICK packet \in call[a].todo :
        LET o == packet[1]
            left == call[a].todo \ {packet}
        IN \/ /\ StillArmed /\ o \in endpoints
              /\ written' = <<a, packet, calls>>
              /\ open_outputs' = open_outputs \cup {o}
              /\ call' = [call EXCEPT ![a].todo = left, ![a].done = @ \cup {packet},
                                      ![a].next = IF left = {} THEN "ok" ELSE "write"]
           \/ /\ Goes(a, "err") /\ UNCHANGED written
              /\ \/ UNCHANGED open_outputs
                 \/ StillArmed /\ o \in endpoints /\ open_outputs' = open_outputs \cup {o}
  BY DEF Write
<1> DEFINE o == packet[1]
           left == call[a].todo \ {packet}
<1>3. open_outputs \subseteq open_outputs' /\ open_outputs' \subseteq endpoints
  BY <1>1, <1>2
<1>4. CASE Goes(a, "err")
  <2>1. PICK c \in Call : c = [call[a] EXCEPT !.next = "err"]
    BY <1>1 DEF Call, Points
  <2>2. call' = [call EXCEPT ![a] = c]
    BY <1>4, <2>1 DEF Goes
  <2>3. CallInv(c)'
    BY <1>1, <1>3, <2>1 DEF Call, CallInv
  <2> QED BY <1>1, <1>3, <2>2, <2>3, OneCallKeeps
<1>5. CASE call' = [call EXCEPT ![a].todo = left, ![a].done = @ \cup {packet},
                                ![a].next = IF left = {} THEN "ok" ELSE "write"]
  <2>1. packet \in Sent
    BY <1>1 DEF CallInv
  <2>2. PICK c \in Call : c = [call[a] EXCEPT !.todo = left, !.done = @ \cup {packet},
                                             !.next = IF left = {} THEN "ok" ELSE "write"]
    BY <1>1, <2>1 DEF Call, Points
  <2>3. call' = [call EXCEPT ![a] = c]
    BY <1>5, <2>2
  <2>4. /\ c.tool = call[a].tool /\ c.steady = call[a].steady /\ c.todo = left /\ c.done = call[a].done \cup {packet}
        /\ c.next = IF left = {} THEN "ok" ELSE "write"
    BY <1>1, <2>2 DEF Call
  <2>5. c.tool = "panic" => c.steady \X Packets \subseteq left \cup c.done
    BY <1>1, <2>4 DEF CallInv
  <2>6. CallInv(c)'
    BY <1>1, <1>3, <2>4, <2>5 DEF CallInv
  <2> QED BY <1>1, <1>3, <2>3, <2>6, OneCallKeeps
<1> QED BY <1>2, <1>4, <1>5

LEMMA SetPortOpenKeeps ==
  ASSUME PanicInv, NEW a \in Agents, SetPortOpen(a)
  PROVE  PanicInv'
<1>1. /\ call \in [Agents -> Call] /\ call[a].tool = "set_port_open"
      /\ endpoints \subseteq Outputs /\ open_outputs \subseteq endpoints /\ endpoints' = endpoints
  BY DEF PanicInv, Ports, SetPortOpen
<1>2. CASE Goes(a, "err") /\ UNCHANGED open_outputs
  BY <1>1, <1>2, GoesKeeps DEF portVars
<1>3. CASE /\ \E o \in endpoints : open_outputs' \in {open_outputs \cup {o}, open_outputs \ {o}}
           /\ call' = [Steady(open_outputs') EXCEPT ![a].next = "ok"]
  <2>1. open_outputs' \subseteq endpoints
    BY <1>1, <1>3
  <2>2. \A b \in Agents : /\ b # a => call'[b] = Narrowed(call[b], open_outputs')
                          /\ b = a => call'[b] = [Narrowed(call[b], open_outputs') EXCEPT !.next = "ok"]
    BY <1>3 DEF Steady, Narrowed
  <2>3. call' = [b \in Agents |-> call'[b]]
    BY <1>3 DEF Steady
  <2>4. ASSUME NEW b \in Agents PROVE call'[b] \in Call /\ CallInv(call[b])'
    <3> DEFINE c == Narrowed(call[b], open_outputs')
    <3>1. call[b] \in Call /\ CallInv(call[b])
      BY DEF PanicInv
    <3>2. /\ c \in Call /\ c.tool = call[b].tool /\ c.next = call[b].next /\ c.todo = call[b].todo
          /\ c.done = call[b].done /\ c.steady = call[b].steady \cap open_outputs'
      BY <1>1, <2>1, <3>1, NarrowedKeeps
    <3>3. c.steady \X Packets \subseteq call[b].steady \X Packets
      BY <3>2
    <3> HIDE DEF c
    <3>4. CASE b # a
      <4>1. call'[b] = c
        BY <2>2, <3>4 DEF c
      <4> QED BY <3>1, <3>2, <3>3, <4>1 DEF CallInv
    <3>5. CASE b = a
      <4>1. call'[b] = [c EXCEPT !.next = "ok"]
        BY <2>2, <3>5 DEF c
      <4>2. call'[b] \in Call /\ call'[b].tool = "set_port_open" /\ call'[b].next = "ok" /\ call'[b].steady = c.steady
        BY <1>1, <3>2, <3>5, <4>1 DEF Call, Points
      <4> QED BY <3>2, <4>2 DEF CallInv
    <3> QED BY <3>4, <3>5
  <2> QED BY <1>1, <2>1, <2>3, <2>4 DEF PanicInv, Ports
<1> QED BY <1>2, <1>3 DEF SetPortOpen

LEMMA ReplyKeeps ==
  ASSUME PanicInv, NEW a \in Agents, Reply(a)
  PROVE  PanicInv'
<1>1. NoCall \in Call /\ CallInv(NoCall)'
  BY DEF NoCall, Call, CallInv, Points
<1>2. call' = [call EXCEPT ![a] = NoCall] /\ UNCHANGED <<endpoints, open_outputs>>
  BY DEF Reply, portVars
<1> QED BY <1>1, <1>2, OneCallKeeps DEF PanicInv, Ports

\* A panic that replies with success silenced every output that was open all
\* the time since it was called (mcp/tools.rs, panic), whatever the window,
\* the engine thread and the other sessions did between its steps.
THEOREM PanicReachesAll == Spec => []PanicIsComplete
<1>1. Init => PanicInv
  BY PanicInitially
<1>2. PanicInv /\ [Next]_serverModuleVars => PanicInv'
  <2> SUFFICES ASSUME PanicInv, [Next]_serverModuleVars PROVE PanicInv'
    OBVIOUS
  <2>1. CASE Ui \/ Engine \/ Drain
    BY <2>1, ThreadsKeep
  <2>2. ASSUME NEW a \in Agents, (\E tool \in Tools : Begin(a, tool)) \/ Handler(a) \/ Unlock(a) PROVE PanicInv'
    <3>1. CASE Unlock(a)
      BY <3>1, QuietKeeps DEF Unlock, callVars
    <3>2. CASE (\E tool \in Tools : Begin(a, tool)) \/ Handler(a)
      BY <3>2, StartKeeps, ListKeeps, WriteKeeps, SetPortOpenKeeps, ReplyKeeps DEF Handler
    <3> QED BY <2>2, <3>1, <3>2
  <2>3. CASE UNCHANGED serverModuleVars
    BY <2>3, QuietKeeps DEF serverModuleVars, callVars
  <2> QED BY <2>1, <2>2, <2>3 DEF Next
<1>3. PanicInv => PanicIsComplete
  BY DEF PanicInv, CallInv, PanicIsComplete
<1> QED BY <1>1, <1>2, <1>3, PTL DEF Spec

-----------------------------------------------------------------------------
(* The arm gates of both processes.                                        *)

\* A process of its own is armed only between its start and its end, and only
\* if it was given --arm.
OwnInv == own_armed => kind = "standalone" /\ flags.arm

LEMMA OwnStep == OwnInv /\ [StdioNext]_vars => OwnInv'
BY DEF OwnInv, StdioNext, vars, stdioVars, flagVars, ownVars, StdioStep, Serve, Plan, Connect, OpenOwn,
       WindowInput, Arrive, OwnRead, OwnSend, OwnSetPortOpen, Leave

\* What a tool of the window writes, it writes armed.
LEMMA WindowWritesArmed ==
  ASSUME Next, written' # written
  PROVE  agent_armed
<1>1. \E a \in Agents : Write(a) \/ SetPortOpen(a)
  BY DEF Next, Ui, Engine, Drain, FrameBegins, FrameEnds, TickListen, TickArm, ToggleOutput, Rescan, Sync,
         SpawnListens, SpawnFails, ShowListening, ShowRefused, Cancel, Joined, ClearStatus, TickBegins, TickEnds,
         Begin, Handler, Read, RequireArmed, ListOpen, List, Reply, Unlock, callVars
<1> QED BY <1>1 DEF Write, SetPortOpen, StillArmed

\* Each process writes only while its own gate is open (LiveHost::send and its
\* like, StandaloneHost::require_armed), for any agents and any number of
\* calls: --arm never opens the window's gate, nor the window's box that of a
\* process with its own ports.
THEOREM GatesHold == StdioInit /\ [][StdioNext]_vars => EachGateHolds
<1>1. StdioInit => OwnInv
  BY DEF StdioInit, OwnInv
<1>2. OwnInv /\ [StdioNext]_vars
        => [/\ written' # written => agent_armed
            /\ own_sent' # own_sent /\ own_sent' # None => flags.arm]_vars
  <2> SUFFICES ASSUME OwnInv, StdioNext
               PROVE  /\ written' # written => agent_armed
                      /\ own_sent' # own_sent /\ own_sent' # None => flags.arm
    OBVIOUS
  <2>1. CASE Next /\ UNCHANGED stdioVars
    BY <2>1, WindowWritesArmed DEF stdioVars, ownVars
  <2>2. CASE StdioStep
    <3>1. written' = written
      BY <2>2 DEF StdioStep, Serve, Plan, Connect, OpenOwn, WindowInput, Arrive, OwnRead, OwnSend, OwnSetPortOpen,
                  Leave, serverModuleVars, callVars
    <3>2. own_sent' # own_sent /\ own_sent' # None => OwnSend /\ OwnGate
      BY <2>2 DEF StdioStep, Serve, Plan, Connect, OpenOwn, WindowInput, Arrive, OwnRead, OwnSend, OwnSetPortOpen,
                  Leave, ownVars
    <3> QED BY <3>1, <3>2 DEF OwnGate, OwnInv
  <2> QED BY <2>1, <2>2 DEF StdioNext
<1> QED BY <1>1, OwnStep, <1>2, PTL DEF EachGateHolds

-----------------------------------------------------------------------------
(* The clock master keeps time.  While nothing disturbs it, the next clock *)
(* is due heard intervals after Start and was not yet due at the last      *)
(* poll; division then gives how many clocks belong to the time polled.    *)

\* A quotient is the number of whole divisors that fit.
LEMMA Quotient ==
  ASSUME NEW a \in Int, NEW d \in Nat \ {0}
  PROVE  /\ a \div d \in Int
         /\ d * (a \div d) <= a
         /\ a < d * (a \div d) + d
<1>1. a \div d \in Int /\ a % d \in 0..(d - 1) /\ a = d * (a \div d) + (a % d)
  OBVIOUS
<1> DEFINE q == a \div d
           r == a % d
           m == d * q
<1>2. m \in Int /\ r \in 0..(d - 1) /\ a = m + r
  BY <1>1
<1>3. m <= a /\ a < m + d
  <2> HIDE DEF m, r
  <2> QED BY <1>2
<1> QED BY <1>1, <1>3

\* ... and the only number that is.
LEMMA QuotientIs ==
  ASSUME NEW a \in Int, NEW d \in Nat \ {0}, NEW k \in Int, d * k <= a, a < d * k + d
  PROVE  a \div d = k
<1>1. PICK q \in Int : q = a \div d /\ d * q <= a /\ a < d * q + d
  BY Quotient
<1>2. ~ (q < k)
  <2> SUFFICES ASSUME q + 1 <= k PROVE FALSE
    BY <1>1
  <2>1. d * (q + 1) <= d * k
    OBVIOUS
  <2>2. d * (q + 1) = d * q + d
    OBVIOUS
  <2> QED BY <1>1, <2>1, <2>2
<1>3. ~ (k < q)
  <2> SUFFICES ASSUME k + 1 <= q PROVE FALSE
    BY <1>1
  <2>1. d * (k + 1) <= d * q
    OBVIOUS
  <2>2. d * (k + 1) = d * k + d
    OBVIOUS
  <2> QED BY <1>1, <2>1, <2>2
<1> QED BY <1>1, <1>2, <1>3

Beats == Tempi \cup {120}

\* A clock takes some time at every tempo.
LEMMA IntervalIsPositive ==
  \A bpm \in Beats : interval_of(bpm) \in Nat \ {0}
<1> SUFFICES ASSUME NEW bpm \in Beats PROVE interval_of(bpm) \in Nat \ {0}
  OBVIOUS
<1>1. bpm \in 20..400
  BY ClockMasterAssumption DEF Beats
<1>2. bpm \in Nat \ {0}
  BY <1>1
<1> DEFINE half == bpm \div 2
           all == 2500000 + half
<1>3. half \in Int /\ 2 * half <= bpm /\ bpm < 2 * half + 2
  BY <1>2, Quotient
<1>4. all \in Int /\ all > bpm
  BY <1>1, <1>3
<1> HIDE DEF all
<1>5. PICK q \in Int : q = all \div bpm /\ all < bpm * q + bpm
  BY <1>2, <1>4, Quotient
<1>6. q > 0
  <2> SUFFICES ASSUME q <= 0 PROVE FALSE
    BY <1>5
  <2>1. bpm * q <= 0
    BY <1>2
  <2> QED BY <1>2, <1>4, <1>5, <2>1
<1> QED BY <1>5, <1>6 DEF interval_of, all

-----------------------------------------------------------------------------
MasterType ==
  /\ host_ns \in Nat /\ heard \in Nat /\ started \in Int /\ polled \in Int
  /\ master \in [enabled : BOOLEAN, bpm : Beats, running : BOOLEAN, next_ns : Nat, ticks : Nat]
  /\ started <= host_ns /\ polled <= host_ns

\* The next clock is never further away than an interval, running or not: a
\* stopped master that goes on is late, not early.
Soon == \E bpm \in Beats : master.next_ns <= host_ns + interval_of(bpm)

\* Since Start every clock due was sent and heard.
OnTime ==
  smooth =>
    /\ master.next_ns = started + interval_ns * heard
    /\ master.ticks = heard
    /\ polled < started => heard = 0
    /\ polled >= started => polled < master.next_ns /\ master.next_ns <= polled + interval_ns

MasterInv == MasterType /\ Soon /\ OnTime

\* What a poll finds due: all clocks up to now, or a burst of CatchUp.
LEMMA DueClocks ==
  ASSUME MasterType, NEW now \in Nat, interval_ns \in Nat \ {0}
  PROVE  /\ DueAt(now) \in 0..CatchUp
         /\ DueAt(now) = 0 => ~ IsLive \/ master.next_ns > now
         /\ DueAt(now) > 0 => /\ IsLive
                              /\ master.next_ns + interval_ns * DueAt(now) <= now + interval_ns
                              /\ DueAt(now) < CatchUp => now < master.next_ns + interval_ns * DueAt(now)
<1> DEFINE late == now - master.next_ns
           missed == late \div interval_ns + 1
<1>1. master.next_ns \in Nat /\ CatchUp \in Nat \ {0}
  BY ClockMasterAssumption DEF MasterType
<1>2. CASE ~ IsLive \/ master.next_ns > now
  BY <1>1, <1>2 DEF DueAt
<1>3. CASE IsLive /\ master.next_ns <= now
  <2>1. late \in Nat
    BY <1>1, <1>3
  <2>2. PICK q \in Int : q = late \div interval_ns /\ interval_ns * q <= late /\ late < interval_ns * q + interval_ns
    <3> HIDE DEF late
    <3>1. late \in Int
      BY <2>1
    <3> QED BY <3>1, Quotient
  <2>3. q >= 0
    <3> SUFFICES ASSUME q + 1 <= 0 PROVE FALSE
      BY <2>2
    <3>1. interval_ns * (q + 1) <= 0
      OBVIOUS
    <3>2. interval_ns * (q + 1) = interval_ns * q + interval_ns
      OBVIOUS
    <3> QED BY <2>1, <2>2, <3>1, <3>2
  <2>4. DueAt(now) = IF q + 1 < CatchUp THEN q + 1 ELSE CatchUp
    BY <1>1, <1>3, <2>2 DEF DueAt
  <2>5. interval_ns * (q + 1) = interval_ns * q + interval_ns
    OBVIOUS
  <2>6. CASE q + 1 < CatchUp
    BY <1>1, <1>3, <2>1, <2>2, <2>3, <2>4, <2>5, <2>6
  <2>7. CASE CatchUp <= q + 1
    <3>1. interval_ns * CatchUp <= interval_ns * (q + 1)
      BY <1>1, <2>7
    <3>2. interval_ns * CatchUp \in Nat
      BY <1>1
    <3>3. DueAt(now) = CatchUp
      BY <1>1, <2>4, <2>7
    <3> HIDE DEF late
    <3> QED BY <1>1, <1>3, <2>1, <2>2, <2>5, <3>1, <3>2, <3>3 DEF late
  <2> QED BY <1>1, <2>2, <2>6, <2>7
<1> QED BY <1>1, <1>2, <1>3

LEMMA InitKeeps == MasterInit => MasterInv
<1> SUFFICES ASSUME MasterInit PROVE MasterInv
  OBVIOUS
<1>1. 120 \in Beats
  BY DEF Beats
<1>2. MasterType
  BY <1>1 DEF MasterInit, MasterType
<1>3. Soon
  BY <1>1, IntervalIsPositive DEF MasterInit, Soon
<1> QED BY <1>2, <1>3 DEF MasterInit, MasterInv, OnTime

\* A poll, late or not.
LEMMA TickKeeps ==
  ASSUME MasterInv, NEW late \in LateBy, NEW got \in 0..CatchUp, TickMaster(late, got)
  PROVE  MasterInv'
<1> DEFINE now == host_ns + late
           n == DueAt(now)
           I == interval_ns
<1>1. /\ late \in Nat /\ now \in Nat /\ CatchUp \in Nat \ {0} /\ now >= host_ns
      /\ MasterType /\ master.next_ns \in Nat /\ master.ticks \in Nat
      /\ heard \in Nat /\ started \in Int /\ polled \in Int
      /\ host_ns \in Nat /\ started <= host_ns /\ polled <= host_ns
  BY ClockMasterAssumption DEF MasterInv, MasterType
<1>2. master.bpm \in Beats /\ I \in Nat \ {0}
  BY <1>1, IntervalIsPositive DEF MasterType, interval_ns
<1>3. /\ n \in 0..CatchUp
      /\ n = 0 => ~ IsLive \/ master.next_ns > now
      /\ n > 0 => /\ IsLive
                  /\ master.next_ns + I * n <= now + I
                  /\ n < CatchUp => now < master.next_ns + I * n
  BY <1>1, <1>2, DueClocks
<1>4. /\ host_ns' = now
      /\ master' = [master EXCEPT !.ticks = @ + n, !.next_ns = NextClock(now, n)]
      /\ heard' = heard + got /\ started' = started
      /\ smooth' = (smooth /\ n < CatchUp /\ got = n)
      /\ polled' = IF IsLive THEN now ELSE polled
  BY DEF TickMaster
<1> HIDE DEF now, n, I
<1>5. n * I = I * n /\ I * n \in Nat
  BY <1>2, <1>3
<1>6. NextClock(now, n) = IF n = CatchUp THEN now + I ELSE master.next_ns + I * n
  BY <1>5 DEF NextClock, I
<1>7. NextClock(now, n) \in Nat
  BY <1>1, <1>2, <1>3, <1>5, <1>6 DEF MasterType
<1>8. MasterType'
  <2>1. master.ticks + n \in Nat /\ heard + got \in Nat
    BY <1>1, <1>3
  <2>2. master' \in [enabled : BOOLEAN, bpm : Beats, running : BOOLEAN, next_ns : Nat, ticks : Nat]
    BY <1>1, <1>4, <1>7, <2>1 DEF MasterType
  <2>3. host_ns' \in Nat /\ started' \in Int /\ polled' \in Int /\ started' <= host_ns' /\ polled' <= host_ns'
    BY <1>1, <1>4
  <2> QED BY <1>4, <2>1, <2>2, <2>3 DEF MasterType
<1>9. master'.next_ns = NextClock(now, n) /\ master'.ticks = master.ticks + n /\ master'.bpm = master.bpm
  BY <1>1, <1>4 DEF MasterType
<1>10. Soon'
  <2>1. CASE n = 0
    <3>1. NextClock(now, n) = master.next_ns
      BY <1>1, <1>2, <1>5, <1>6, <2>1 DEF MasterType
    <3>2. PICK bpm \in Beats : master.next_ns <= host_ns + interval_of(bpm)
      BY DEF MasterInv, Soon
    <3>3. interval_of(bpm) \in Nat
      BY IntervalIsPositive
    <3>4. master'.next_ns <= host_ns' + interval_of(bpm)
      BY <1>1, <1>4, <1>9, <3>1, <3>2, <3>3 DEF MasterType
    <3> QED BY <3>4 DEF Soon
  <2>2. CASE n > 0
    <3>1. NextClock(now, n) <= now + I
      <4>1. CASE n = CatchUp
        BY <1>1, <1>2, <1>6, <4>1
      <4>2. CASE n # CatchUp
        <5>1. master.next_ns + I * n <= now + I
          BY <1>3, <2>2
        <5> QED BY <1>6, <4>2, <5>1
      <4> QED BY <4>1, <4>2
    <3>2. I = interval_of(master.bpm)
      BY DEF I, interval_ns
    <3> QED BY <1>2, <1>4, <1>9, <3>1, <3>2 DEF Soon
  <2> QED BY <1>3, <2>1, <2>2
<1>11. interval_ns' = I
  BY <1>9 DEF interval_ns, I
<1>12. OnTime'
  <2> SUFFICES ASSUME smooth'
               PROVE  /\ master'.next_ns = started' + interval_ns' * heard'
                      /\ master'.ticks = heard'
                      /\ polled' < started' => heard' = 0
                      /\ polled' >= started' =>
                           polled' < master'.next_ns /\ master'.next_ns <= polled' + interval_ns'
    BY DEF OnTime
  <2>1. smooth /\ n < CatchUp /\ got = n
    BY <1>4
  <2>2. /\ master.next_ns = started + I * heard
        /\ master.ticks = heard
        /\ polled < started => heard = 0
        /\ polled >= started => polled < master.next_ns /\ master.next_ns <= polled + I
    BY <2>1 DEF MasterInv, OnTime, I
  <2>3. master'.next_ns = master.next_ns + I * n
    BY <1>1, <1>3, <1>6, <1>9, <2>1
  <2>4. I * (heard + n) = I * heard + I * n /\ I * heard \in Nat /\ heard \in Nat
    BY <1>1, <1>2, <1>3 DEF MasterType
  <2>5. CASE n = 0 /\ ~ IsLive
    <3>1. I * n = 0 /\ polled' = polled /\ started' = started
      BY <1>2, <1>4, <2>5
    <3>2. heard' = heard /\ master'.ticks = master.ticks /\ master'.next_ns = master.next_ns
      BY <1>1, <1>4, <1>9, <2>1, <2>3, <2>5, <3>1
    <3> QED BY <1>11, <2>2, <3>1, <3>2
  <2>6. CASE n = 0 /\ IsLive
    <3>1. I * n = 0 /\ polled' = now /\ now < master.next_ns
      BY <1>1, <1>2, <1>3, <1>4, <2>6
    <3>2. polled >= started
      <4> SUFFICES ASSUME polled < started PROVE FALSE
        BY <1>1
      <4>1. heard = 0 /\ I * heard = 0
        BY <1>2, <2>2
      <4>2. master.next_ns = started
        BY <1>1, <2>2, <4>1
      <4> QED BY <1>1, <3>1, <4>2
    <3>3. heard' = heard /\ master'.ticks = master.ticks /\ started' = started
      BY <1>1, <1>4, <1>9, <2>1, <2>6
    <3>4. master'.next_ns = master.next_ns
      BY <1>1, <2>3, <3>1
    <3>5. master.next_ns <= now + I /\ now >= started
      BY <1>1, <1>2, <2>2, <3>2
    <3> QED BY <1>1, <1>11, <2>2, <3>1, <3>3, <3>4, <3>5
  <2>7. CASE n > 0
    <3>1. polled' = now /\ now < master'.next_ns /\ master'.next_ns <= now + I
      <4>1. IsLive
        BY <1>3, <2>7
      <4>2. master.next_ns + I * n <= now + I /\ now < master.next_ns + I * n
        BY <1>3, <2>1, <2>7
      <4> QED BY <1>4, <2>3, <4>1, <4>2
    <3> QED BY <1>1, <1>3, <1>4, <1>5, <1>9, <1>11, <2>1, <2>2, <2>3, <2>4, <3>1 DEF MasterType
  <2> QED BY <1>3, <2>5, <2>6, <2>7
<1> QED BY <1>8, <1>10, <1>12 DEF MasterInv

\* The user's clicks.
LEMMA ClicksKeep ==
  ASSUME MasterInv, Start \/ Continue \/ Stop \/ Enable \/ PickDest \/ \E bpm \in Tempi : set_bpm(bpm)
  PROVE  MasterInv'
<1>1. MasterType /\ Soon /\ OnTime
  BY DEF MasterInv
<1>2. CASE Start \/ Continue
  <2>1. /\ master'.next_ns = host_ns /\ host_ns' = host_ns /\ master'.bpm = master.bpm
        /\ smooth' => heard' = 0 /\ master'.ticks = 0 /\ started' = host_ns /\ polled' = -1
    <3>1. CASE Start
      BY <1>1, <3>1 DEF Start, MasterType
    <3>2. CASE Continue
      BY <1>1, <3>2 DEF Continue, MasterType
    <3> QED BY <1>2, <3>1, <3>2
  <2>2. master.bpm \in Beats /\ interval_of(master.bpm) \in Nat \ {0} /\ host_ns \in Nat
    BY <1>1, IntervalIsPositive DEF MasterType
  <2>3. Soon'
    BY <2>1, <2>2 DEF Soon
  <2>4. MasterType'
    <3>1. CASE Start
      <4>1. master' \in [enabled : BOOLEAN, bpm : Beats, running : BOOLEAN, next_ns : Nat, ticks : Nat]
        BY <1>1, <3>1 DEF Start, MasterType
      <4>2. polled' \in Int /\ polled' <= host_ns' /\ started' \in Int /\ started' <= host_ns'
        BY <2>2, <3>1 DEF Start
      <4> QED BY <1>1, <3>1, <4>1, <4>2 DEF Start, MasterType
    <3>2. CASE Continue
      BY <1>1, <3>2 DEF Continue, MasterType
    <3> QED BY <1>2, <3>1, <3>2
  <2>5. interval_ns' \in Nat /\ interval_ns' * 0 = 0
    BY <2>1, <2>2 DEF interval_ns
  <2>6. smooth' => polled' < started'
    BY <2>1, <2>2
  <2>7. ASSUME smooth' PROVE master'.next_ns = started' + interval_ns' * heard'
    <3>1. heard' = 0 /\ master'.next_ns = host_ns /\ started' = host_ns
      BY <2>1, <2>7
    <3>2. interval_ns' * heard' = 0
      BY <2>5, <3>1
    <3> QED BY <2>2, <3>1, <3>2
  <2>8. OnTime'
    BY <2>1, <2>2, <2>6, <2>7 DEF OnTime
  <2> QED BY <2>3, <2>4, <2>8 DEF MasterInv
<1>3. CASE Stop \/ Enable \/ PickDest
  <2>1. /\ master'.next_ns = master.next_ns /\ master'.bpm = master.bpm /\ master'.ticks = master.ticks
        /\ UNCHANGED <<host_ns, heard, started, polled, smooth>>
    BY <1>1, <1>3 DEF Stop, Enable, PickDest, MasterType
  <2>2. MasterType'
    BY <1>1, <1>3 DEF Stop, Enable, PickDest, MasterType
  <2>3. interval_ns' = interval_ns
    BY <2>1 DEF interval_ns
  <2> QED BY <1>1, <2>1, <2>2, <2>3 DEF MasterInv, Soon, OnTime
<1>4. CASE \E bpm \in Tempi : set_bpm(bpm)
  <2>1. PICK bpm \in Tempi : set_bpm(bpm)
    BY <1>4
  <2> QED BY <1>1, <2>1 DEF set_bpm, Beats, MasterInv, MasterType, Soon, OnTime
<1> QED BY <1>2, <1>3, <1>4

\* What the invariant says of the time.
LEMMA KeepsTime == MasterInv => ClockKeepsTime
<1> SUFFICES ASSUME MasterInv PROVE ClockKeepsTime
  OBVIOUS
<1>1. interval_ns \in Nat \ {0} /\ heard \in Nat /\ started \in Int /\ polled \in Int
  BY IntervalIsPositive DEF MasterInv, MasterType, interval_ns
<1>2. ASSUME smooth, polled >= started
      PROVE  heard = (polled - started) \div interval_ns + 1 /\ master.ticks = heard
  <2>1. /\ master.ticks = heard
        /\ polled < started + interval_ns * heard
        /\ started + interval_ns * heard <= polled + interval_ns
    BY <1>2 DEF MasterInv, OnTime
  <2> DEFINE a == polled - started
             k == heard - 1
  <2>2. interval_ns * k = interval_ns * heard - interval_ns /\ interval_ns * heard \in Nat
    BY <1>1
  <2>3. a \in Int /\ k \in Int /\ interval_ns * k <= a /\ a < interval_ns * k + interval_ns
    BY <1>1, <2>1, <2>2
  <2>4. a \div interval_ns = k
    <3> HIDE DEF a, k
    <3> QED BY <1>1, <2>3, QuotientIs
  <2> QED BY <1>1, <2>1, <2>4
<1>3. Soon
  BY DEF MasterInv
<1> QED BY <1>2, <1>3 DEF ClockKeepsTime, Soon, Beats

-----------------------------------------------------------------------------
\* However late it is polled, the master keeps time, and its next clock is
\* never more than an interval away (ClockMaster::poll).
THEOREM MasterKeepsTime == MasterSpec => []ClockKeepsTime
<1>1. MasterInv /\ [MasterStep]_masterVars => MasterInv'
  <2> SUFFICES ASSUME MasterInv, [MasterStep]_masterVars PROVE MasterInv'
    OBVIOUS
  <2>1. CASE \E late \in LateBy, got \in 0..CatchUp : TickMaster(late, got)
    BY <2>1, TickKeeps
  <2>2. CASE Start \/ Continue \/ Stop \/ Enable \/ PickDest \/ \E bpm \in Tempi : set_bpm(bpm)
    BY <2>2, ClicksKeep
  <2>3. CASE UNCHANGED masterVars
    BY <2>3 DEF masterVars, MasterInv, MasterType, Soon, OnTime, interval_ns
  <2> QED BY <2>1, <2>2, <2>3 DEF MasterStep
<1> QED BY <1>1, InitKeeps, KeepsTime, PTL DEF MasterSpec

-----------------------------------------------------------------------------
(* A profile brings the script back: the program that runs is one that     *)
(* loads, and the file holds what was exported when it was saved.          *)

RunningLoads == lua.loads
FileIsExported == profile.saved => profile.running.loads /\ profile.state = Exported(profile.had)
ScriptInv == RunningLoads /\ FileIsExported

LEMMA ScriptInitially == ScriptInit => ScriptInv
BY DEF ScriptInit, ScriptInv, RunningLoads, FileIsExported, NoProfile, DEFAULT_SOURCE, Program

\* What a reload leaves running is a program that loads.
LEMMA ReloadKeeps ==
  ASSUME ScriptInv, NEW program, Reloaded(program), UNCHANGED profile
  PROVE  ScriptInv'
BY DEF ScriptInv, RunningLoads, FileIsExported, Reloaded

LEMMA ScriptStepKeeps == ScriptInv /\ [ScriptNext]_scriptVars => ScriptInv'
<1> SUFFICES ASSUME ScriptInv, [ScriptNext]_scriptVars PROVE ScriptInv'
  OBVIOUS
<1>1. CASE UNCHANGED <<lua, profile>>
  BY <1>1 DEF ScriptInv, RunningLoads, FileIsExported
<1>2. ASSUME NEW program \in Programs, LoadText(program) PROVE ScriptInv'
  BY <1>2, ReloadKeeps DEF LoadText
<1>3. CASE Apply
  BY <1>3, ReloadKeeps DEF Apply
<1>4. CASE SaveProfile
  <2>1. lua' = lua /\ profile'.running = lua /\ profile'.had = state /\ profile'.state = Exported(state)
    BY <1>4 DEF SaveProfile
  <2> QED BY <2>1 DEF ScriptInv, RunningLoads, FileIsExported, Exported
<1>5. CASE LoadProfile
  <2>1. profile' = profile /\ lua' = IF profile.source # Empty /\ profile.source.loads THEN profile.source ELSE lua
    BY <1>5 DEF LoadProfile
  <2> QED BY <2>1 DEF ScriptInv, RunningLoads, FileIsExported
<1>6. CASE Restart
  BY <1>6 DEF Restart, ScriptInv, RunningLoads, FileIsExported, DEFAULT_SOURCE, Program
<1>7. CASE SetEnabled \/ Process \/ Tick \/ (\E ms \in 1..LastTick : Wait(ms)) \/ (\E program \in Programs : Edit(program))
  BY <1>1, <1>7 DEF SetEnabled, Process, Tick, Wait, Edit
<1> QED BY <1>1, <1>2, <1>3, <1>4, <1>5, <1>6, <1>7 DEF ScriptNext, scriptVars

\* A profile that is loaded, in this session or after a restart, goes on with
\* the program and the state it was saved with (apply_profile_lua, then
\* import_state of engine.rs), if the editor showed what was running and
\* midi.state held integers under names.
THEOREM ProfilesRestoreScripts == ScriptSpec => ScriptComesBack
<1>1. ASSUME ScriptInv, LoadProfile, profile.source = profile.running, profile.source # Empty, Plain(profile.had)
      PROVE  lua' = profile.running /\ state' = profile.had /\ enabled' = profile.enabled
  <2>1. profile.source.loads /\ profile.state = profile.had
    BY <1>1 DEF ScriptInv, FileIsExported, LoadProfile, Plain
  <2> QED BY <1>1, <2>1 DEF LoadProfile, StateImported
<1>2. ScriptInv /\ [ScriptNext]_scriptVars
        => [LoadProfile /\ profile.source = profile.running /\ profile.source # Empty /\ Plain(profile.had)
            => lua' = profile.running /\ state' = profile.had /\ enabled' = profile.enabled]_scriptVars
  BY <1>1
<1> QED BY ScriptInitially, ScriptStepKeeps, <1>2, PTL DEF ScriptSpec, ScriptComesBack

-----------------------------------------------------------------------------
(* Induction over the numbers, from the least element of a well-founded    *)
(* order: a set of them with zero and every successor has them all.        *)

LEMMA EveryNatural ==
  ASSUME NEW T \in SUBSET Nat, 0 \in T, \A n \in T : n + 1 \in T
  PROVE  T = Nat
<1> DEFINE U == Nat \ T
           V == {1..u : u \in U}
           R == StrictSubsetOrdering(Nat)
           S == FiniteSubsetsOf(Nat)
<1> SUFFICES ASSUME U # {} PROVE FALSE
  OBVIOUS
<1>1. IsWellFoundedOn(R, S)
  BY FS_StrictSubsetOrderingWellFounded
<1>2. V \subseteq S /\ V # {}
  <2>1. ASSUME NEW u \in Nat PROVE 1..u \in S
    <3>1. 1..u \subseteq Nat /\ IsFiniteSet(1..u)
      BY FS_Interval
    <3> QED BY <3>1 DEF FiniteSubsetsOf
  <2> QED BY <2>1
<1>3. PICK v \in V : \A y \in V : ~ (<<y, v>> \in R)
  <2> HIDE DEF V, R, S
  <2> QED BY <1>1, <1>2, WFMin
<1>4. PICK x \in U : v = 1..x
  OBVIOUS
<1>5. x \in Nat /\ x # 0
  OBVIOUS
<1>6. x - 1 \in Nat /\ x - 1 \in T
  <2> SUFFICES ASSUME x - 1 \in U PROVE FALSE
    BY <1>5
  <2>1. 1..(x - 1) \in V
    OBVIOUS
  <2>2. 1..(x - 1) \subseteq 1..x /\ x \in 1..x /\ x \notin 1..(x - 1) /\ 1..x \subseteq Nat
    BY <1>5
  <2>3. <<1..(x - 1), v>> \in R
    BY <1>4, <2>2 DEF StrictSubsetOrdering
  <2> QED BY <1>3, <2>1, <2>3
<1> QED BY <1>5, <1>6

-----------------------------------------------------------------------------
(* Retained: what retain leaves of the timers.                             *)

\* One step of it, from the function r of the shorter beginnings.
RetainStep(r, n) ==
  CASE n = 0 -> <<>>
    [] n > 0 /\ IsDue(timers[n]) -> r[n - 1]
    [] n > 0 /\ ~ IsDue(timers[n]) -> Append(r[n - 1], timers[n])

\* There is a function that does this step everywhere, so Retained does.
LEMMA RetainedSteps ==
  ASSUME Len(timers) \in Nat
  PROVE  Retained = [n \in 0..Len(timers) |-> RetainStep(Retained, n)]
<1> DEFINE Steps(f, m) == f = [n \in 0..m |-> RetainStep(f, n)]
           T == {m \in Nat : \E f : Steps(f, m)}
<1>1. 0 \in T
  <2> DEFINE f == [n \in 0..0 |-> <<>>]
  <2>1. \A n \in 0..0 : RetainStep(f, n) = <<>>
    BY DEF RetainStep
  <2>2. Steps(f, 0)
    BY <2>1
  <2> QED BY <2>2
<1>2. ASSUME NEW m \in T PROVE m + 1 \in T
  <2>1. PICK f : Steps(f, m)
    OBVIOUS
  <2> DEFINE g == [n \in 0..(m + 1) |-> IF n <= m THEN f[n] ELSE RetainStep(f, n)]
  <2>2. ASSUME NEW n \in 0..(m + 1) PROVE g[n] = RetainStep(g, n)
    <3>1. n = 0 \/ n - 1 \in 0..m
      OBVIOUS
    <3>2. n # 0 => g[n - 1] = f[n - 1]
      BY <3>1
    <3>3. g[n] = RetainStep(f, n)
      BY <2>1
    <3> HIDE DEF g
    <3>4. RetainStep(g, n) = RetainStep(f, n)
      BY <3>2 DEF RetainStep
    <3> QED BY <3>3, <3>4
  <2>3. g = [n \in 0..(m + 1) |-> g[n]]
    OBVIOUS
  <2> HIDE DEF g
  <2>4. Steps(g, m + 1)
    BY <2>2, <2>3
  <2>5. \E f1 : Steps(f1, m + 1)
    <3> HIDE DEF Steps
    <3> QED BY <2>4
  <2> QED BY <2>5
<1>3. T = Nat
  <2> HIDE DEF T
  <2>1. T \subseteq Nat
    BY DEF T
  <2> QED BY <1>1, <1>2, <2>1, EveryNatural
<1>4. PICK f : f = [n \in 0..Len(timers) |-> RetainStep(f, n)]
  BY <1>3
<1> QED BY <1>4 DEF Retained, RetainStep

\* Timers in a sequence, no two of one call.
Timer == [id : Nat, due : Int]
OneEach(ts) == ts \in Seq(Timer) /\ \A i, j \in 1..Len(ts) : ts[i].id = ts[j].id => i = j

\* Retain keeps the timers of the first n that are not due, each of them once.
RetainsUpTo(n) ==
  LET r == Retained[n]
  IN /\ OneEach(r)
     /\ \A a \in 1..Len(r) : \E i \in 1..n : r[a] = timers[i] /\ ~ IsDue(timers[i])
     /\ \A i \in 1..n : ~ IsDue(timers[i]) => \E a \in 1..Len(r) : r[a] = timers[i]

LEMMA RetainsOnce ==
  ASSUME OneEach(timers)
  PROVE  RetainsUpTo(Len(timers))
<1> DEFINE T == {n \in Nat : n <= Len(timers) => RetainsUpTo(n)}
<1>1. /\ timers \in Seq(Timer) /\ Len(timers) \in Nat
      /\ \A n \in 0..Len(timers) : Retained[n] = RetainStep(Retained, n)
  BY RetainedSteps DEF OneEach
<1>2. 0 \in T
  <2>1. Retained[0] = <<>>
    BY <1>1 DEF RetainStep
  <2>2. OneEach(<<>>)
    BY DEF OneEach
  <2>3. RetainsUpTo(0)
    BY <2>1, <2>2 DEF RetainsUpTo
  <2> QED BY <2>3
<1>3. ASSUME NEW m \in T PROVE m + 1 \in T
  <2> SUFFICES ASSUME m + 1 <= Len(timers) PROVE RetainsUpTo(m + 1)
    OBVIOUS
  <2> DEFINE n == m + 1
             r == Retained[m]
             t == timers[n]
  <2>1. m \in Nat /\ n \in 1..Len(timers) /\ n - 1 = m /\ t \in Timer /\ RetainsUpTo(m)
    BY <1>1
  <2>2. Retained[n] = IF IsDue(t) THEN r ELSE Append(r, t)
    BY <1>1, <2>1 DEF RetainStep
  <2>3. /\ OneEach(r) /\ \A i \in 1..m : ~ IsDue(timers[i]) => \E a \in 1..Len(r) : r[a] = timers[i]
        /\ \A a \in 1..Len(r) : \E i \in 1..m : r[a] = timers[i] /\ ~ IsDue(timers[i])
    BY <2>1 DEF RetainsUpTo
  <2>4. 1..n = 1..m \cup {n} /\ n \notin 1..m
    BY <2>1
  <2> HIDE DEF r, n, t, T
  <2>5. CASE IsDue(t)
    <3>1. Retained[n] = r
      BY <2>2, <2>5
    <3> QED BY <2>3, <2>4, <2>5, <3>1 DEF RetainsUpTo, t, n
  <2>6. CASE ~ IsDue(t)
    <3> DEFINE q == Append(r, t)
    <3>1. Retained[n] = q
      BY <2>2, <2>6
    <3>2. /\ q \in Seq(Timer) /\ Len(r) \in Nat /\ Len(q) = Len(r) + 1 /\ q[Len(r) + 1] = t
          /\ \A a \in 1..Len(r) : q[a] = r[a]
      BY <2>1, <2>3, AppendProperties DEF OneEach
    <3>3. 1..Len(q) = 1..Len(r) \cup {Len(r) + 1} /\ Len(r) + 1 \notin 1..Len(r)
      BY <3>2
    <3> HIDE DEF q
    <3>4. \A a \in 1..Len(r) : r[a].id # t.id
      <4>1. ASSUME NEW a \in 1..Len(r), r[a].id = t.id PROVE FALSE
        <5>1. PICK i \in 1..m : r[a] = timers[i]
          BY <2>3
        <5>2. i \in 1..Len(timers) /\ i # n
          BY <1>1, <2>1, <2>4
        <5> QED BY <2>1, <4>1, <5>1, <5>2 DEF OneEach, t
      <4> QED BY <4>1
    <3>5. OneEach(q)
      <4>1. ASSUME NEW a \in 1..Len(q), NEW b \in 1..Len(q), q[a].id = q[b].id PROVE a = b
        BY <2>3, <3>2, <3>3, <3>4, <4>1 DEF OneEach
      <4> QED BY <3>2, <4>1 DEF OneEach
    <3>6. \A a \in 1..Len(q) : \E i \in 1..n : q[a] = timers[i] /\ ~ IsDue(timers[i])
      <4>1. ASSUME NEW a \in 1..Len(r) PROVE \E i \in 1..n : q[a] = timers[i] /\ ~ IsDue(timers[i])
        BY <2>3, <2>4, <3>2
      <4>2. n \in 1..n /\ q[Len(r) + 1] = timers[n] /\ ~ IsDue(timers[n])
        BY <2>4, <2>6, <3>2 DEF t
      <4> QED BY <3>3, <4>1, <4>2
    <3>7. \A i \in 1..n : ~ IsDue(timers[i]) => \E a \in 1..Len(q) : q[a] = timers[i]
      <4>1. ASSUME NEW i \in 1..m, ~ IsDue(timers[i]) PROVE \E a \in 1..Len(q) : q[a] = timers[i]
        BY <2>3, <3>2, <3>3, <4>1
      <4>2. \E a \in 1..Len(q) : q[a] = timers[n]
        BY <3>2, <3>3 DEF t
      <4> QED BY <2>4, <4>1, <4>2
    <3> QED BY <3>1, <3>5, <3>6, <3>7 DEF RetainsUpTo, n
  <2> QED BY <2>5, <2>6 DEF n
<1>4. T = Nat
  <2> HIDE DEF T
  <2>1. T \subseteq Nat
    BY DEF T
  <2> QED BY <1>2, <1>3, <2>1, EveryNatural
<1> QED BY <1>1, <1>4

-----------------------------------------------------------------------------
(* Every call of midi.after is pending once or was sent once.              *)

Sends == [id : Nat, due : Int, at : Int]
SentIds == {f.id : f \in fired}

TimerTypes ==
  /\ \A p \in Programs \cup {source, lua, profile.source} : p.after \in Int
  /\ {time, now_ns} \subseteq Int /\ scheduled \in Nat

TimerInv ==
  /\ TimerTypes
  /\ OneEach(timers)
  /\ fired \subseteq Sends /\ \A f, g \in fired : f.id = g.id => f = g
  /\ Pending \cap SentIds = {} /\ Pending \cup SentIds = 1..scheduled
  /\ \A f \in fired : f.due <= f.at

\* Counting those that each have a number of their own.
LEMMA TimersCounted == TimerInv => TimersOnce
<1> SUFFICES ASSUME TimerInv PROVE TimersOnce
  OBVIOUS
<1>1. /\ timers \in Seq(Timer) /\ Len(timers) \in Nat
      /\ \A i, j \in 1..Len(timers) : timers[i].id = timers[j].id => i = j
  BY DEF TimerInv, OneEach
<1>2. Cardinality(Pending) = Len(timers)
  <2> DEFINE b == [i \in 1..Len(timers) |-> timers[i].id]
  <2>1. Pending = {timers[i].id : i \in 1..Len(timers)}
    BY <1>1 DEF Pending
  <2>2. b \in Bijection(1..Len(timers), Pending)
    BY <1>1, <2>1 DEF Bijection, Injection, Surjection, IsInjective
  <2> QED BY <1>1, <2>2, FS_CountingElements DEF ExistsBijection
<1>3. Cardinality(fired) = Cardinality(SentIds)
  <2> DEFINE b == [f \in fired |-> f.id]
  <2>1. b \in Bijection(fired, SentIds)
    BY DEF Bijection, Injection, Surjection, IsInjective, TimerInv, SentIds
  <2>2. IsFiniteSet(SentIds)
    <3>1. IsFiniteSet(1..scheduled)
      BY FS_Interval DEF TimerInv, TimerTypes
    <3>2. SentIds \subseteq 1..scheduled
      BY DEF TimerInv
    <3> QED BY <3>1, <3>2, FS_Subset
  <2>3. IsFiniteSet(fired)
    BY <2>1, <2>2, FS_Injection DEF Bijection
  <2> HIDE DEF b
  <2> QED BY <2>1, <2>3, FS_Bijection DEF ExistsBijection
<1>4. \A f \in fired : f.at >= f.due
  BY DEF TimerInv, Sends
<1> QED BY <1>2, <1>3, <1>4 DEF TimersOnce, TimerInv, SentIds

\* What leaves the timers alone.
LEMMA TimersAlone ==
  ASSUME TimerInv, UNCHANGED <<timers, scheduled, fired>>, TimerTypes'
  PROVE  TimerInv'
<1>1. Pending' = Pending /\ SentIds' = SentIds
  BY DEF Pending, SentIds
<1>2. timers' = timers /\ scheduled' = scheduled /\ fired' = fired
  OBVIOUS
<1> QED BY <1>1, <1>2, Zenon DEF TimerInv, OneEach

\* One more call.
LEMMA ScheduleKeeps ==
  ASSUME TimerInv, Process
  PROVE  TimerInv'
<1>1. CASE ~ Schedules
  <2>1. UNCHANGED <<time, now_ns, source, lua, profile, timers, scheduled, fired>>
    BY <1>1 DEF Process
  <2>2. TimerTypes'
    BY <2>1 DEF TimerInv, TimerTypes
  <2> QED BY <2>1, <2>2, TimersAlone
<1>2. CASE Schedules
  <2> DEFINE t == [id |-> scheduled + 1, due |-> now_ns + lua.after]
             n == Len(timers)
  <2>1. /\ timers' = Append(timers, t) /\ scheduled' = scheduled + 1
        /\ UNCHANGED <<time, now_ns, source, lua, profile, fired>>
    BY <1>2 DEF Process, Scheduled
  <2>2. TimerTypes'
    BY <2>1 DEF TimerInv, TimerTypes
  <2>3. t \in Timer /\ t.id = scheduled + 1 /\ scheduled \in Nat
    BY DEF TimerInv, TimerTypes, Timer
  <2> HIDE DEF t
  <2>4. /\ timers' \in Seq(Timer) /\ n \in Nat /\ Len(timers') = n + 1 /\ timers'[n + 1] = t
        /\ \A i \in 1..n : timers'[i] = timers[i]
    BY <2>1, <2>3, AppendProperties DEF TimerInv, OneEach
  <2>5. 1..Len(timers') = 1..n \cup {n + 1} /\ n + 1 \notin 1..n
    BY <2>4
  <2>6. Pending = {timers[i].id : i \in 1..n} /\ Pending' = {timers'[i].id : i \in 1..Len(timers')}
    BY <2>4 DEF Pending, TimerInv, OneEach
  <2>7. Pending' = Pending \cup {t.id}
    BY <2>4, <2>5, <2>6
  <2>8. Pending \subseteq 1..scheduled /\ SentIds \subseteq 1..scheduled /\ t.id \notin 1..scheduled
    BY <2>3 DEF TimerInv
  <2>9. SentIds' = SentIds
    BY <2>1 DEF SentIds
  <2>10. 1..scheduled' = 1..scheduled \cup {t.id}
    BY <2>1, <2>3
  <2>11. OneEach(timers)'
    <3>1. ASSUME NEW i \in 1..n PROVE timers'[i].id # timers'[n + 1].id
      BY <2>4, <2>6, <2>8
    <3>2. ASSUME NEW i \in 1..Len(timers'), NEW j \in 1..Len(timers'), timers'[i].id = timers'[j].id PROVE i = j
      BY <2>4, <2>5, <3>1, <3>2 DEF TimerInv, OneEach
    <3> QED BY <2>4, <3>2 DEF OneEach
  <2>12. (Pending \cap SentIds = {} /\ Pending \cup SentIds = 1..scheduled)'
    BY <2>7, <2>8, <2>9, <2>10 DEF TimerInv
  <2> QED BY <2>1, <2>2, <2>11, <2>12 DEF TimerInv
<1> QED BY <1>1, <1>2

\* A tick sends those that are due and retains the others.
LEMMA TickRetains ==
  ASSUME TimerInv, Tick
  PROVE  TimerInv'
<1>1. TimerTypes' /\ scheduled' = scheduled
  BY DEF TimerInv, TimerTypes, Tick
<1>2. CASE ~ enabled
  <2>1. timers' = timers /\ fired' = fired
    BY <1>2 DEF Tick
  <2> QED BY <1>1, <2>1, TimersAlone
<1>3. CASE enabled
  <2> DEFINE r == Remaining
             Due == {j \in DOMAIN timers : IsDue(timers[j])}
             gone == {[id |-> timers[i].id, due |-> timers[i].due, at |-> time] : i \in Due}
  <2>1. timers' = r /\ fired' = fired \cup gone
    BY <1>3 DEF Tick
  <2>2. /\ timers \in Seq(Timer) /\ Len(timers) \in Nat /\ DOMAIN timers = 1..Len(timers) /\ time \in Int
        /\ \A i, j \in 1..Len(timers) : timers[i].id = timers[j].id => i = j
    BY DEF TimerInv, OneEach, TimerTypes
  <2>3. /\ OneEach(r)
        /\ \A a \in 1..Len(r) : \E i \in 1..Len(timers) : r[a] = timers[i] /\ ~ IsDue(timers[i])
        /\ \A i \in 1..Len(timers) : ~ IsDue(timers[i]) => \E a \in 1..Len(r) : r[a] = timers[i]
    BY RetainsOnce DEF TimerInv, RetainsUpTo, Remaining
  <2> HIDE DEF r
  <2>4. /\ \A i \in 1..Len(timers) : i \in Due <=> IsDue(timers[i])
        /\ Due \subseteq 1..Len(timers)
    BY <2>2
  <2> HIDE DEF Due
  <2> DEFINE GoneIds == {timers[i].id : i \in Due}
  <2>5. Pending' = {r[a].id : a \in 1..Len(r)} /\ Pending = {timers[i].id : i \in 1..Len(timers)}
    <3>1. DOMAIN timers' = 1..Len(r)
      BY <2>1, <2>3 DEF OneEach
    <3>2. Pending' = {timers'[a].id : a \in DOMAIN timers'}
      BY DEF Pending
    <3> QED BY <2>1, <2>2, <3>1, <3>2 DEF Pending
  <2>6. Pending' \cap GoneIds = {}
    <3>1. ASSUME NEW a \in 1..Len(r), NEW i \in Due PROVE r[a].id # timers[i].id
      <4>1. PICK j \in 1..Len(timers) : r[a] = timers[j] /\ ~ IsDue(timers[j])
        BY <2>3
      <4> QED BY <2>2, <2>4, <4>1
    <3> QED BY <2>5, <3>1
  <2>7. Pending' \cup GoneIds = Pending
    <3>1. ASSUME NEW a \in 1..Len(r) PROVE r[a].id \in Pending
      BY <2>3, <2>5
    <3>2. GoneIds \subseteq Pending
      BY <2>4, <2>5
    <3>3. ASSUME NEW i \in 1..Len(timers) PROVE timers[i].id \in Pending' \cup GoneIds
      <4>1. CASE i \in Due
        BY <4>1
      <4>2. CASE i \notin Due
        BY <2>3, <2>4, <2>5, <4>2
      <4> QED BY <4>1, <4>2
    <3> QED BY <2>5, <3>1, <3>2, <3>3
  <2>8. /\ \A i \in Due : \E f \in gone : f.id = timers[i].id
        /\ \A f \in gone : \E i \in Due : f = [id |-> timers[i].id, due |-> timers[i].due, at |-> time]
    <3>1. ASSUME NEW i \in Due PROVE \E f \in gone : f.id = timers[i].id
      <4>1. [id |-> timers[i].id, due |-> timers[i].due, at |-> time] \in gone
        OBVIOUS
      <4> HIDE DEF gone
      <4> QED BY <4>1
    <3> QED BY <3>1, Zenon
  <2> HIDE DEF gone
  <2>9. gone \subseteq Sends /\ \A f \in gone : f.due <= f.at
    <3>1. ASSUME NEW i \in Due
          PROVE  timers[i].id \in Nat /\ timers[i].due \in Int /\ timers[i].due <= time
      <4>1. i \in 1..Len(timers) /\ IsDue(timers[i])
        BY <2>4
      <4>2. timers[i] \in Timer
        BY <2>2, <4>1
      <4> QED BY <4>1, <4>2 DEF Timer, IsDue
    <3>2. ASSUME NEW f \in gone PROVE f \in Sends /\ f.due <= f.at
      BY <2>2, <2>8, <3>1 DEF Sends
    <3> QED BY <3>2
  <2>10. \A f, g \in gone : f.id = g.id => f = g
    BY <2>2, <2>4, <2>8
  <2>11. GoneIds = {f.id : f \in gone}
    BY <2>8
  <2> HIDE DEF GoneIds
  <2>12. SentIds' = SentIds \cup GoneIds
    BY <2>1, <2>11 DEF SentIds
  <2>13. (Pending \cap SentIds = {} /\ Pending \cup SentIds = 1..scheduled)'
    BY <1>1, <2>6, <2>7, <2>12 DEF TimerInv
  <2>14. \A f \in fired, g \in gone : f.id # g.id
    BY <2>7, <2>11 DEF TimerInv, SentIds
  <2>15. \A f, g \in fired' : f.id = g.id => f = g
    BY <2>1, <2>10, <2>14 DEF TimerInv
  <2>16. fired' \subseteq Sends /\ \A f \in fired' : f.due <= f.at
    BY <2>1, <2>9 DEF TimerInv
  <2>17. OneEach(timers)'
    BY <2>1, <2>3 DEF OneEach
  <2> QED BY <1>1, <2>13, <2>15, <2>16, <2>17 DEF TimerInv
<1> QED BY <1>2, <1>3

\* Reloads, saving, loading and waiting leave the timers alone; a restart has
\* none.
LEMMA TimerStep == TimerInv /\ [ScriptNext]_scriptVars => TimerInv'
<1> SUFFICES ASSUME TimerInv, [ScriptNext]_scriptVars PROVE TimerInv'
  OBVIOUS
<1>1. CASE UNCHANGED <<timers, scheduled, fired>> /\ TimerTypes'
  BY <1>1, TimersAlone
<1>2. ASSUME NEW program \in Programs, Edit(program) \/ LoadText(program) PROVE TimerInv'
  <2>1. TimerTypes'
    BY <1>2 DEF TimerInv, TimerTypes, Edit, LoadText, Reloaded
  <2> QED BY <1>1, <1>2, <2>1 DEF Edit, LoadText
<1>3. CASE Apply \/ SetEnabled \/ SaveProfile \/ LoadProfile
  <2>1. TimerTypes'
    BY <1>3 DEF TimerInv, TimerTypes, Apply, Reloaded, SetEnabled, SaveProfile, LoadProfile
  <2> QED BY <1>1, <1>3, <2>1 DEF Apply, SetEnabled, SaveProfile, LoadProfile
<1>4. ASSUME NEW ms \in 1..LastTick, Wait(ms) PROVE TimerInv'
  <2>1. TimerTypes'
    BY <1>4 DEF TimerInv, TimerTypes, Wait
  <2> QED BY <1>1, <1>4, <2>1 DEF Wait
<1>5. CASE Restart
  <2>1. TimerTypes'
    BY <1>5 DEF TimerInv, TimerTypes, Restart, DEFAULT_SOURCE, Program
  <2>2. OneEach(<<>>)
    BY DEF OneEach
  <2>3. Pending' = {} /\ SentIds' = {} /\ 1..scheduled' = {}
    BY <1>5 DEF Restart, Pending, SentIds
  <2>4. timers' = <<>> /\ fired' = {}
    BY <1>5 DEF Restart
  <2> QED BY <2>1, <2>2, <2>3, <2>4, Zenon DEF TimerInv
<1>6. CASE UNCHANGED scriptVars
  BY <1>1, <1>6 DEF scriptVars, TimerInv, TimerTypes
<1> QED BY <1>2, <1>3, <1>4, <1>5, <1>6, ScheduleKeeps, TickRetains DEF ScriptNext

LEMMA TimersInitially == ScriptInit => TimerInv
<1> SUFFICES ASSUME ScriptInit PROVE TimerInv
  OBVIOUS
<1>1. TimerTypes
  BY ScriptHostAssumption DEF ScriptInit, TimerTypes, DEFAULT_SOURCE, NoProfile, Empty, Program
<1>2. OneEach(<<>>)
  BY DEF OneEach
<1>3. timers = <<>> /\ fired = {} /\ Pending = {} /\ SentIds = {} /\ 1..scheduled = {}
  BY DEF ScriptInit, Pending, SentIds
<1> QED BY <1>1, <1>2, <1>3, Zenon DEF TimerInv

\* However programs are reloaded, disabled, saved and loaded, and however late
\* the ticks are, every call of midi.after is pending once or was sent once,
\* and not before its time (ScriptEngine::tick).
THEOREM TimersFireOnce == ScriptSpec => []TimersOnce
BY TimersInitially, TimerStep, TimersCounted, PTL DEF ScriptSpec
==============================================================================

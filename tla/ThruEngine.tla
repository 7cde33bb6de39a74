----------------------------- MODULE ThruEngine -----------------------------
(***************************************************************************)
(* The MIDI thru path of EngineInner: what one pass of the engine thread   *)
(* (EngineInner::tick) does with the events the backend captured, and what *)
(* the user's controls change in between.                                  *)
(*                                                                         *)
(* The engine thread takes the lock with try_lock and holds it for a tick; *)
(* the user interface takes it with lock and holds it while it draws and   *)
(* while its controls act.  The loops of drain_capture are unrolled into   *)
(* one step per event, per processed event and per destination; only the   *)
(* backend's capture threads run in between.                               *)
(*                                                                         *)
(* A message is its shape (what it does to which notes) and the number of  *)
(* the event it was captured as.  The ghost variables record what the      *)
(* instruments behind the outputs heard.                                   *)
(***************************************************************************)
EXTENDS Naturals, Sequences, FiniteSets

CONSTANTS
  Inputs,      \* capture ports
  Outputs,     \* destination ports
  Notes,       \* (channel, note) pairs, as numbers in BTreeSet order
  Channels,    \* the notes of each channel, as sets
  NoLink,      \* an input/output pair that is not linked
  Transforms,  \* what a link's filter and map can be set to
  Gaps,        \* values the user gives "Thru gap" (ms)
  MaxGap,      \* the largest gap the control accepts (50 in the code)
  Faulty,      \* outputs whose driver may refuse an open or a send
  UserOps,     \* controls the user touches in this instance
  QueueCap,    \* longest throttle queue (4096 in the code)
  HangCap,     \* most notes the hang tracker holds (256 in the code)
  MaxEvents,   \* bound: events with a number of their own
  MaxBacklog,  \* bound: events captured at once after those; 0 ends the traffic
  MaxTimers    \* bound: midi.after timers pending at once

VARIABLES
  lock,          \* who holds the Mutex of EngineInner: "free", "engine" or "ui"
  captured,      \* events in the backend's capture queue
  phase,         \* place in tick(), "idle" outside it
  batch,         \* capture_buf: the events of this tick still to process
  processed,     \* what the script made of the current event, still to route
  routed,        \* Router::route's result, still to deliver
  due,           \* timers of this tick still to route
  flushing,      \* destinations tick_throttle has still to visit
  links,         \* Router.links with their filter and map
  open_outputs,
  throttle_ms,
  throttle_q,
  throttle_at,   \* ms since the last throttled send, saturated at MaxGap
  mute_clock,
  script_on,     \* ScriptEngine.enabled
  timers,        \* ScriptEngine.timers; insertion order is the order of ids
  hang,          \* HangTracker.notes
  nextId,        \* ghost: number of the next captured event
  cur,           \* ghost: number of the last event drained
  sounding,      \* ghost: notes each instrument is playing
  lastSent,      \* ghost: number of the last captured message on each wire
  quiet,         \* ghost: ms since the last thru short sent while a gap was set
  broken,        \* ghost: outputs on which a send broke the thru gap
  astray,        \* ghost: notes each instrument may play unlisted, for a known cause
  panicMark      \* ghost: value of cur at the last panic

engine  == <<lock, captured, phase, batch, processed, routed, due, flushing>>
control == <<links, open_outputs, throttle_ms, mute_clock, script_on>>
queues  == <<throttle_q, throttle_at, timers, hang>>
wire    == <<sounding, lastSent, quiet, broken, astray>>
ghost   == <<nextId, cur, wire, panicMark>>
vars    == <<engine, control, queues, ghost>>

-----------------------------------------------------------------------------
(* Data                                                                    *)

NoteOps == {"on", "off"}

(* A note's on or off, CC 120/123 of a channel, and F8.                    *)
Shapes ==
  [op : NoteOps, notes : {{n} : n \in Notes}] \cup [op : {"silence"}, notes : Channels]
    \cup [op : {"clock"}, notes : {{}}]

Dropped == [op |-> "none", notes |-> {}]   \* a filter or map returned None

Pass == [s \in Shapes |-> s]      \* Filter::default with DataMap::default

Events  == [from : Inputs, shape : Shapes, id : Nat]
Packets == [to : Outputs, shape : Shapes, id : Nat]

ASSUME ThruConstants ==
  /\ Notes \subseteq Nat /\ Channels \subseteq SUBSET Notes
  /\ Pass \in Transforms
  /\ Transforms \subseteq [Shapes -> Shapes \cup {Dropped}]
  /\ NoLink \notin Transforms
  /\ MaxGap \in Nat \ {0} /\ Gaps \subseteq 0..MaxGap
  /\ Faulty \subseteq Outputs
  /\ QueueCap \in Nat \ {0} /\ HangCap \in Nat \ {0}
  /\ MaxEvents \in Nat /\ MaxBacklog \in Nat /\ MaxTimers \in Nat

(* Readiness compares elapsed time with the gap only, so a clock saturated *)
(* at the largest gap also stands for an absent throttle_at entry.         *)
Elapsed(ms) == IF ms < MaxGap THEN ms + 1 ELSE ms

(* The instrument behind an output.                                        *)
Hear(notes, shape) ==
  IF shape.op = "on" THEN notes \cup shape.notes ELSE notes \ shape.notes

(* What HangTracker's cap takes from the list again: its least note.       *)
Capped(notes, shape) ==
  LET heard == Hear(notes, shape)
  IN  IF Cardinality(heard) > HangCap THEN {n \in heard : \A m \in heard : n <= m} ELSE {}

(* Mutant of Track: a note-off removes its channel instead of its note.    *)
TrackByChannel(notes, shape) ==
  IF shape.op = "off"
  THEN notes \ UNION {c \in Channels : shape.notes \subseteq c}
  ELSE Hear(notes, shape) \ Capped(notes, shape)

(* HangTracker::push.                                                      *)
Track(notes, shape) == Hear(notes, shape) \ Capped(notes, shape)

(* Router::route: one message per link from the event's port that neither  *)
(* the filter nor the map drops.                                           *)
Route(event) ==
  {[to |-> o, shape |-> links[event.from][o][event.shape], id |-> event.id] :
     o \in {out \in Outputs : /\ links[event.from][out] # NoLink
                              /\ links[event.from][out][event.shape] # Dropped}}

(* drain_capture's mute test, on the processed event before routing.       *)
Muted(event) == mute_clock /\ event.shape.op = "clock"

-----------------------------------------------------------------------------
(* The wire                                                                *)

(* backend.send's possible answers: a closed port is NotFound.             *)
Answers(o) ==
  IF o \notin open_outputs THEN {FALSE}
  ELSE IF o \in Faulty THEN BOOLEAN ELSE {TRUE}

(* A message sent now would be too close to the one before.                *)
Breaks(o) == IF quiet[o] < throttle_ms THEN {o} ELSE {}

(* backend.send, as the instrument sees it: a refused send changes nothing.*)
Transmit(ok, o, shape) ==
  sounding' = IF ok THEN [sounding EXCEPT ![o] = Hear(@, shape)] ELSE sounding

(* backend.send of a captured message, and what it does to the gap.        *)
Send(ok, o, p) ==
  /\ Transmit(ok, o, p.shape)
  /\ lastSent' = IF ok THEN [lastSent EXCEPT ![o] = p.id] ELSE lastSent
  /\ quiet' = IF ok /\ throttle_ms > 0 THEN [quiet EXCEPT ![o] = 0] ELSE quiet
  /\ broken' = IF ok THEN broken \cup Breaks(o) ELSE broken

-----------------------------------------------------------------------------
(* Why the one hang list and an instrument may differ.  A message that is  *)
(* listed but not heard leaves playing the notes it ends.                  *)
Ends(shape) == IF shape.op = "on" THEN {} ELSE shape.notes

(* A queue at its limit loses its head unheard.                            *)
Overflow(o) == IF Len(throttle_q[o]) < QueueCap THEN {} ELSE Ends(Head(throttle_q[o]).shape)

(* A message sent at once may be refused, or overtake the queue.           *)
Overtaking(ok, o, shape) == IF ok /\ throttle_q[o] = << >> THEN {} ELSE Ends(shape)

(* What a message listed for o lets every output miss: the cap forgets a   *)
(* note, and the outputs it is not for do not hear it end.                 *)
Listing(o, shape, own) ==
  [u \in Outputs |-> Capped(hang, shape) \cup (IF u = o THEN own ELSE Ends(shape))]

(* A note that is listed again is no longer astray.                        *)
Stray(missed) == astray' = [o \in Outputs |-> (astray[o] \cup missed[o]) \ hang']

-----------------------------------------------------------------------------
(* Environment: capture threads and the passing of time                    *)

(* Events past MaxEvents share a number; they keep the traffic going.      *)
Capture(i, s) ==
  /\ nextId <= MaxEvents \/ Len(captured) < MaxBacklog
  /\ captured' = Append(captured, [from |-> i, shape |-> s, id |-> nextId])
  /\ nextId' = IF nextId <= MaxEvents THEN nextId + 1 ELSE nextId
  /\ UNCHANGED <<lock, phase, batch, processed, routed, due, flushing, control, queues,
                 cur, wire, panicMark>>

Elapse ==
  /\ \E o \in Outputs : throttle_at[o] < MaxGap \/ quiet[o] < MaxGap
  /\ throttle_at' = [o \in Outputs |-> Elapsed(throttle_at[o])]
  /\ quiet' = [o \in Outputs |-> Elapsed(quiet[o])]
  /\ UNCHANGED <<engine, control, throttle_q, timers, hang,
                 nextId, cur, sounding, lastSent, broken, astray, panicMark>>

-----------------------------------------------------------------------------
(* drain_capture                                                           *)

(* engine_loop's try_lock finds the lock free (else it sleeps a            *)
(* millisecond and tries again), and backend.poll moves everything         *)
(* captured so far into this tick's batch.                                 *)
TickBegin ==
  /\ lock = "free"
  /\ lock' = "engine"
  /\ phase' = "drain"
  /\ batch' = captured
  /\ captured' = << >>
  /\ UNCHANGED <<processed, routed, due, flushing, control, queues, ghost>>

(* A hook may drop, replace, or fan out an event ...                       *)
ScriptResults(e) ==
  LET made == {[from |-> i, shape |-> s, id |-> e.id] : i \in Inputs, s \in Shapes}
  IN  {<< >>} \cup {<<m>> : m \in made} \cup {<<e, m>> : m \in made}

(* ... and may call midi.after, whatever it returns (or even if it raises  *)
(* an error afterwards: the event then passes unchanged).                  *)
ScriptProcess(e) ==
  IF script_on
  THEN /\ processed' \in ScriptResults(e)
       /\ \/ UNCHANGED timers
          \/ /\ Cardinality(timers) < MaxTimers
             /\ \E i \in Inputs, s \in Shapes :
                  timers' = timers \cup {[from |-> i, shape |-> s, id |-> e.id]}
  ELSE processed' = <<e>> /\ UNCHANGED timers

DrainEvent ==
  /\ phase = "drain" /\ routed = {} /\ processed = << >> /\ batch # << >>
  /\ batch' = Tail(batch)
  /\ cur' = Head(batch).id
  /\ ScriptProcess(Head(batch))
  /\ UNCHANGED <<lock, captured, phase, routed, due, flushing, control,
                 throttle_q, throttle_at, hang,
                 nextId, wire, panicMark>>

RouteEvent ==
  /\ phase = "drain" /\ routed = {} /\ processed # << >>
  /\ processed' = Tail(processed)
  /\ routed' = IF Muted(Head(processed)) THEN {} ELSE Route(Head(processed))
  /\ UNCHANGED <<lock, captured, phase, batch, due, flushing, control, queues, ghost>>

(* Mutant of Enqueue: no bound.                                            *)
EnqueueUnbounded(q, p) == Append(q, p)

(* VecDeque::push_back behind the bound: a full queue loses its oldest.    *)
Enqueue(q, p) == Append(IF Len(q) >= QueueCap THEN Tail(q) ELSE q, p)

(* Mutant of Waits: a full queue is bypassed instead of losing its oldest. *)
WaitsUnlessFull(o) == throttle_ms > 0 /\ Len(throttle_q[o]) < QueueCap

Waits(o) == throttle_ms > 0

Deliver(p) ==
  /\ phase = "drain"
  /\ routed' = routed \ {p}
  /\ IF p.to \notin open_outputs
     THEN UNCHANGED <<throttle_q, hang, wire>>
     ELSE /\ hang' = Track(hang, p.shape)
          /\ IF Waits(p.to)
             THEN /\ throttle_q' = [throttle_q EXCEPT ![p.to] = Enqueue(@, p)]
                  /\ Stray(Listing(p.to, p.shape, Overflow(p.to)))
                  /\ UNCHANGED <<sounding, lastSent, quiet, broken>>
             ELSE /\ \E ok \in Answers(p.to) :
                       /\ Send(ok, p.to, p)
                       /\ Stray(Listing(p.to, p.shape, Overtaking(ok, p.to, p.shape)))
                  /\ UNCHANGED throttle_q
  /\ UNCHANGED <<lock, captured, phase, batch, processed, due, flushing, control,
                 throttle_at, timers, nextId, cur, panicMark>>

DrainEnd ==
  /\ phase = "drain" /\ routed = {} /\ processed = << >> /\ batch = << >>
  /\ phase' = "throttle"
  /\ flushing' = {o \in Outputs : throttle_q[o] # << >>}
  /\ UNCHANGED <<lock, captured, batch, processed, routed, due, control, queues, ghost>>

-----------------------------------------------------------------------------
(* tick_throttle                                                           *)

(* The head of a queue goes out; a refusal is its loss.                    *)
Pop(o) ==
  \E ok \in Answers(o) :
    /\ Send(ok, o, Head(throttle_q[o]))
    /\ astray' = IF ok THEN astray
                 ELSE [astray EXCEPT ![o] = @ \cup (Ends(Head(throttle_q[o]).shape) \ hang)]

(* Gap off: the whole backlog of a destination goes out, one pop at a time.*)
FlushAll(o) ==
  /\ phase = "throttle" /\ o \in flushing /\ throttle_ms = 0
  /\ Pop(o)
  /\ throttle_q' = [throttle_q EXCEPT ![o] = Tail(@)]
  /\ flushing' = IF Len(throttle_q[o]) = 1 THEN flushing \ {o} ELSE flushing
  /\ UNCHANGED <<lock, captured, phase, batch, processed, routed, due, control,
                 throttle_at, timers, hang, nextId, cur, panicMark>>

(* Mutant of Stamp: a destination whose queue runs empty is forgotten.     *)
StampBacklog(o) ==
  throttle_at' = [throttle_at EXCEPT ![o] = IF Len(throttle_q[o]) = 1 THEN MaxGap ELSE 0]

Stamp(o) == throttle_at' = [throttle_at EXCEPT ![o] = 0]

(* Mutant of Hold: the gap starts again at every look.                     *)
HoldRestarts(o) == throttle_at' = [throttle_at EXCEPT ![o] = 0]

Hold(o) == UNCHANGED throttle_at

(* Gap on: at most one message per destination and gap.                    *)
FlushOne(o) ==
  /\ phase = "throttle" /\ o \in flushing /\ throttle_ms > 0
  /\ flushing' = flushing \ {o}
  /\ IF throttle_at[o] >= throttle_ms
     THEN /\ Pop(o)
          /\ throttle_q' = [throttle_q EXCEPT ![o] = Tail(@)]
          /\ Stamp(o)
     ELSE Hold(o) /\ UNCHANGED <<throttle_q, wire>>
  /\ UNCHANGED <<lock, captured, phase, batch, processed, routed, due, control,
                 timers, hang, nextId, cur, panicMark>>

-----------------------------------------------------------------------------
(* tick_script_timers                                                      *)

(* What the on_idle hook may add after the due timers, numbered past every *)
(* captured event; clocks are filtered out of it.                          *)
IdleResults ==
  {{}} \cup {{[from |-> i, shape |-> s, id |-> MaxEvents + 1]} :
              i \in Inputs, s \in {t \in Shapes : t.op # "clock"}}

(* ScriptEngine::tick takes what is due in the order it was scheduled; due *)
(* times are abstracted to "any of them may be due".  A disabled script    *)
(* keeps its timers and is not asked.                                      *)
TimersBegin ==
  /\ phase = "throttle" /\ flushing = {}
  /\ phase' = "timers"
  /\ IF script_on
     THEN \E ripe \in SUBSET timers, idle \in IdleResults :
            due' = ripe \cup idle /\ timers' = timers \ ripe
     ELSE UNCHANGED <<due, timers>>
  /\ UNCHANGED <<lock, captured, batch, processed, routed, flushing, control,
                 throttle_q, throttle_at, hang, ghost>>

(* Neither the script hook nor the clock mute sees a timer's event ...     *)
TimerRoute ==
  /\ phase = "timers" /\ routed = {}
  /\ \E e \in due :
       /\ \A f \in due : e.id <= f.id
       /\ due' = due \ {e}
       /\ routed' = Route(e)
  /\ UNCHANGED <<lock, captured, phase, batch, processed, flushing, control, queues, ghost>>

(* ... and it is sent at once, past the throttle queue.                    *)
TimerDeliver(p) ==
  /\ phase = "timers"
  /\ routed' = routed \ {p}
  /\ IF p.to \notin open_outputs
     THEN UNCHANGED <<hang, sounding, astray>>
     ELSE /\ hang' = Track(hang, p.shape)
          /\ \E ok \in Answers(p.to) :
               /\ Transmit(ok, p.to, p.shape)
               /\ Stray(Listing(p.to, p.shape, Overtaking(ok, p.to, p.shape)))
  /\ UNCHANGED <<lock, captured, phase, batch, processed, due, flushing, control,
                 throttle_q, throttle_at, timers, nextId, cur,
                 lastSent, quiet, broken, panicMark>>

(* Mutant of TickEnd: the engine thread keeps the lock and goes round.     *)
TickEndKeepsLock ==
  /\ phase = "timers" /\ routed = {} /\ due = {}
  /\ phase' = "throttle"
  /\ UNCHANGED <<lock, captured, batch, processed, routed, due, flushing, control, queues, ghost>>

TickEnd ==
  /\ phase = "timers" /\ routed = {} /\ due = {}
  /\ phase' = "idle"
  /\ lock' = "free"
  /\ UNCHANGED <<captured, batch, processed, routed, due, flushing, control, queues, ghost>>

-----------------------------------------------------------------------------
(* The user interface: a frame waits for the lock, and the controls act    *)
(* while it is held                                                        *)

FrameBegin ==
  /\ lock = "free"
  /\ lock' = "ui"
  /\ UNCHANGED <<captured, phase, batch, processed, routed, due, flushing,
                 control, queues, ghost>>

FrameEnd ==
  /\ lock = "ui"
  /\ lock' = "free"
  /\ UNCHANGED <<captured, phase, batch, processed, routed, due, flushing,
                 control, queues, ghost>>

Uses(op) == op \in UserOps /\ lock = "ui"

(* set_thru(.., true): opens the output and adds a default link; an        *)
(* existing link keeps its filter and map.                                 *)
Link(i, o) ==
  /\ Uses("link")
  /\ open_outputs' = open_outputs \cup {o}
  /\ links' = IF links[i][o] = NoLink THEN [links EXCEPT ![i][o] = Pass] ELSE links
  /\ UNCHANGED <<engine, throttle_ms, mute_clock, script_on, queues, ghost>>

Unlink(i, o) ==
  /\ Uses("link")
  /\ links' = [links EXCEPT ![i][o] = NoLink]
  /\ UNCHANGED <<engine, open_outputs, throttle_ms, mute_clock, script_on, queues, ghost>>

(* Router::set_filter and set_map on an existing link.                     *)
SetMap(i, o, t) ==
  /\ Uses("map")
  /\ links[i][o] # NoLink
  /\ links' = [links EXCEPT ![i][o] = t]
  /\ UNCHANGED <<engine, open_outputs, throttle_ms, mute_clock, script_on, queues, ghost>>

OpenOutput(o) ==
  /\ Uses("open")
  /\ open_outputs' = open_outputs \cup {o}
  /\ UNCHANGED <<engine, links, throttle_ms, mute_clock, script_on, queues, ghost>>

CloseOutput(o) ==
  /\ Uses("close")
  /\ open_outputs' = open_outputs \ {o}
  /\ UNCHANGED <<engine, links, throttle_ms, mute_clock, script_on, queues, ghost>>

SetGap(g) ==
  /\ Uses("gap")
  /\ throttle_ms' = g
  /\ UNCHANGED <<engine, links, open_outputs, mute_clock, script_on, queues, ghost>>

SetMuteClock(b) ==
  /\ Uses("mute")
  /\ mute_clock' = b
  /\ UNCHANGED <<engine, links, open_outputs, throttle_ms, script_on, queues, ghost>>

(* send_inject: opens the output, lists the message and sends it at once.  *)
Inject(o, s) ==
  /\ Uses("inject")
  /\ open_outputs' = open_outputs \cup {o}
  /\ hang' = Track(hang, s)
  /\ \E ok \in IF o \in Faulty THEN BOOLEAN ELSE {TRUE} :
       /\ Transmit(ok, o, s)
       /\ Stray(Listing(o, s, Overtaking(ok, o, s)))
  /\ UNCHANGED <<engine, links, throttle_ms, mute_clock, script_on,
                 throttle_q, throttle_at, timers,
                 nextId, cur, lastSent, quiet, broken, panicMark>>

SetScript(b) ==
  /\ Uses("script")
  /\ script_on' = b
  /\ UNCHANGED <<engine, links, open_outputs, throttle_ms, mute_clock, queues, ghost>>

(* Mutant of ForgetQueues: the throttle queues survive.                    *)
KeepQueues == throttle_at' = [o \in Outputs |-> MaxGap] /\ UNCHANGED throttle_q

ForgetQueues ==
  /\ throttle_q' = [o \in Outputs |-> << >>]
  /\ throttle_at' = [o \in Outputs |-> MaxGap]

(* panic_now: opens every output it can, sends the 48 controllers and then *)
(* the hanging notes' offs to all that are open, and forgets notes and     *)
(* queues.  A refusing driver may have heard any part of that.             *)
PanicNow ==
  /\ Uses("panic")
  /\ \E opened \in SUBSET Faulty, left \in [Faulty -> SUBSET Notes] :
       /\ open_outputs' = open_outputs \cup (Outputs \ Faulty) \cup opened
       /\ sounding' = [o \in Outputs |->
                         IF o \notin Faulty THEN {}
                         ELSE IF o \in open_outputs' THEN sounding[o] \cap left[o]
                         ELSE sounding[o]]
  /\ hang' = {}
  /\ Stray([o \in Outputs |-> IF o \in Faulty THEN sounding'[o] ELSE {}])
  /\ ForgetQueues
  /\ panicMark' = cur
  /\ UNCHANGED <<engine, links, throttle_ms, mute_clock, script_on, timers,
                 nextId, cur, lastSent, quiet, broken>>

(* stuck_notes_panel's "Off hanging": offs to the open outputs only, past  *)
(* the throttle queues, which stay.                                        *)
OffHanging ==
  /\ Uses("off")
  /\ \E refused \in [Faulty -> SUBSET hang] :
       LET missed(o) == IF o \notin open_outputs THEN hang
                        ELSE IF o \in Faulty THEN refused[o] ELSE {}
       IN  /\ sounding' = [o \in Outputs |-> sounding[o] \ (hang \ missed(o))]
           /\ hang' = {}
           /\ Stray([o \in Outputs |-> IF throttle_q[o] = << >> THEN missed(o) ELSE hang])
  /\ UNCHANGED <<engine, control, throttle_q, throttle_at, timers,
                 nextId, cur, lastSent, quiet, broken, panicMark>>

-----------------------------------------------------------------------------
Init ==
  /\ lock = "free" /\ captured = << >> /\ phase = "idle" /\ batch = << >> /\ processed = << >>
  /\ routed = {} /\ due = {} /\ flushing = {}
  /\ links = [i \in Inputs |-> [o \in Outputs |-> NoLink]]
  /\ open_outputs = {}
  /\ throttle_ms = 0 /\ mute_clock = FALSE /\ script_on = FALSE
  /\ throttle_q = [o \in Outputs |-> << >>]
  /\ throttle_at = [o \in Outputs |-> MaxGap]
  /\ timers = {} /\ hang = {}
  /\ nextId = 1 /\ cur = 0 /\ panicMark = 0
  /\ sounding = [o \in Outputs |-> {}]
  /\ lastSent = [o \in Outputs |-> 0]
  /\ quiet = [o \in Outputs |-> MaxGap]
  /\ broken = {}
  /\ astray = [o \in Outputs |-> {}]

Drain == DrainEvent \/ RouteEvent \/ (\E p \in routed : Deliver(p)) \/ DrainEnd

Throttle == \E o \in Outputs : FlushAll(o) \/ FlushOne(o)

Timers == TimersBegin \/ TimerRoute \/ (\E p \in routed : TimerDeliver(p)) \/ TickEnd

Tick == Drain \/ Throttle \/ Timers

User ==
  \/ \E i \in Inputs, o \in Outputs :
       Link(i, o) \/ Unlink(i, o) \/ (\E t \in Transforms : SetMap(i, o, t))
  \/ \E o \in Outputs : OpenOutput(o) \/ CloseOutput(o) \/ (\E s \in Shapes : Inject(o, s))
  \/ \E g \in Gaps : SetGap(g)
  \/ \E b \in BOOLEAN : SetMuteClock(b) \/ SetScript(b)
  \/ PanicNow
  \/ OffHanging

Next ==
  \/ \E i \in Inputs, s \in Shapes : Capture(i, s)
  \/ Elapse
  \/ TickBegin \/ Tick
  \/ FrameBegin \/ User \/ FrameEnd

Spec == Init /\ [][Next]_vars

(* A tick that holds the lock goes on, a frame that holds it ends, and     *)
(* time passes.  Nothing makes the engine's try_lock succeed.              *)
FairSpec == Spec /\ WF_vars(Tick) /\ WF_vars(FrameEnd) /\ WF_vars(Elapse)

-----------------------------------------------------------------------------
(* Properties                                                              *)

(* The types of the engine's buffers, controls, queues and ghosts.         *)
EngineType ==
  /\ lock \in {"free", "engine", "ui"}
  /\ captured \in Seq(Events) /\ batch \in Seq(Events) /\ processed \in Seq(Events)
  /\ phase \in {"idle", "drain", "throttle", "timers"}
  /\ routed \subseteq Packets
  /\ due \subseteq Events /\ timers \subseteq Events
  /\ flushing \subseteq Outputs

ControlType ==
  /\ links \in [Inputs -> [Outputs -> Transforms \cup {NoLink}]]
  /\ open_outputs \subseteq Outputs
  /\ throttle_ms \in Gaps \cup {0}
  /\ mute_clock \in BOOLEAN /\ script_on \in BOOLEAN

QueueType ==
  /\ throttle_q \in [Outputs -> Seq(Packets)]
  /\ \A o \in Outputs : Len(throttle_q[o]) <= QueueCap
  /\ throttle_at \in [Outputs -> Nat]
  /\ hang \subseteq Notes

GhostType ==
  /\ nextId \in 1..(MaxEvents + 1)
  /\ cur \in Nat /\ panicMark \in Nat
  /\ sounding \in [Outputs -> SUBSET Notes]
  /\ lastSent \in [Outputs -> Nat]
  /\ quiet \in [Outputs -> Nat]
  /\ broken \subseteq Outputs
  /\ astray \in [Outputs -> SUBSET Notes]

(* Every variable holds what its Rust type and the bounds allow: numbered  *)
(* events in the engine's buffers, throttle queues within QueueCap.        *)
TypeOK == EngineType /\ ControlType /\ QueueType /\ GhostType

(* Short messages leave on each wire in the order they were captured, even *)
(* when some of them waited in a throttle queue: no step puts a message on *)
(* a wire behind a later one (drain_capture against tick_throttle).  It    *)
(* needs a gap that is never taken back to 0 while a backlog waits.        *)
WireInOrder == [][\A o \in Outputs : lastSent'[o] >= lastSent[o]]_vars

(* A panic is final for what the engine had drained when the button was    *)
(* pressed: an instrument that accepts every message plays again only once *)
(* an event drained later was sent to it, however long a message of before *)
(* the panic was on its way (panic_now and the queues it must forget).     *)
(* Events still in the backend's capture queue are drained later and       *)
(* sound; so do script timers, which survive a panic, and what is injected.*)
QuietSincePanic ==
  \A o \in Outputs \ Faulty : sounding[o] # {} => lastSent[o] > panicMark

(* What plays once a queue has gone out: a note that plays, or that a      *)
(* message in the queue starts, and that no later message there ends.      *)
Lasts(q, n, k) == \A j \in 1..Len(q) : j > k => n \notin Ends(q[j].shape)

Left(playing, q) ==
  {n \in Notes :
     \/ n \in playing /\ Lasts(q, n, 0)
     \/ \E k \in 1..Len(q) :
          q[k].shape.op = "on" /\ n \in q[k].shape.notes /\ Lasts(q, n, k)}

Settled(o) == Left(sounding[o], throttle_q[o])

(* hang.rs, one list for all outputs: a note that an instrument plays, or  *)
(* will play when its queue has gone out, is on the stuck-note list.  The  *)
(* only causes to miss one: the list was full; the note's end went to      *)
(* another output; it was refused, or lost from a full queue; it overtook  *)
(* the queue (gap turned off, script timer, inject, Off hanging); a panic  *)
(* or an Off hanging did not get through.                                  *)
MissedForACause == \A o \in Outputs : Settled(o) \subseteq hang \cup astray[o]

(* "Thru gap": consecutive captured messages on one wire are at least the  *)
(* gap apart, across ticks, gap changes and idle periods of the queue.     *)
(* It needs that there is no panic, which forgets when a message was sent; *)
(* what a script's timers send goes past the gap.                          *)
PacedThru == broken = {}

(* Strengthenings: what the engine's buffers hold in each phase, ...       *)
PhaseInv ==
  /\ phase # "drain" => batch = << >> /\ processed = << >>
  /\ phase \in {"idle", "throttle"} => routed = {}
  /\ phase # "timers" => due = {}
  /\ phase # "throttle" => flushing = {}
  /\ \A o \in flushing : throttle_q[o] # << >>
  /\ phase = "idle" <=> lock # "engine"

(* ... how captured events are numbered on their way through them, ...     *)
NumberInv ==
  /\ nextId = cur + Len(batch) + Len(captured) + 1
  /\ \A k \in 1..Len(batch) : batch[k].id = cur + k
  /\ \A k \in 1..Len(captured) : captured[k].id = cur + Len(batch) + k
  /\ \A k \in 1..Len(processed) : processed[k].id = cur
  /\ phase = "drain" => \A p \in routed : p.id = cur

(* ... that each wire is behind its queue, in order, and the queue behind  *)
(* the event being drained, ...                                            *)
InOrder(q, lo, hi) ==
  /\ \A k \in 1..Len(q) : lo <= q[k].id /\ q[k].id <= hi
  /\ \A j, k \in 1..Len(q) : j <= k => q[j].id <= q[k].id

QueueInv ==
  \A o \in Outputs :
    /\ lastSent[o] <= cur
    /\ throttle_ms = 0 => throttle_q[o] = << >>
    /\ InOrder(throttle_q[o], lastSent[o], cur)

(* ... and that a panic leaves nothing on its way.                         *)
PanicInv ==
  /\ panicMark <= cur
  /\ ~script_on /\ timers = {} /\ due = {}
  /\ phase = "timers" => routed = {}
  /\ cur = panicMark => processed = << >> /\ routed = {}
  /\ \A o \in Outputs : \A k \in 1..Len(throttle_q[o]) : throttle_q[o][k].id > panicMark
  /\ QuietSincePanic

OrderInv == TypeOK /\ PhaseInv /\ NumberInv /\ QueueInv
QuietInv == TypeOK /\ PhaseInv /\ NumberInv /\ PanicInv

(* What the operating system must do and no code ensures: the try_lock of  *)
(* every millisecond does not find the lock taken each time it is tried,   *)
(* although the lock is free again and again in between.                   *)
TryLockSucceeds == []<>(lock = "free") => []<>(lock = "engine")

(* If so, every captured event is drained, although the frames, the user   *)
(* and the traffic go on for ever: no tick and no frame keeps the lock,    *)
(* and no tick leaves an event behind.                                     *)
CaptureIsDrained == TryLockSucceeds => \A n \in 1..MaxEvents : nextId > n ~> cur >= n

Waiting(o, n) == \E k \in 1..Len(throttle_q[o]) : throttle_q[o][k].id = n

(* If so, every throttled message leaves its queue, sent, refused or       *)
(* pushed out by newer ones, whether the traffic goes on faster than the   *)
(* gap or stops, and however the gap changes (tick_throttle).              *)
QueuedLeaves ==
  TryLockSucceeds =>
    \A o \in Outputs, n \in 1..MaxEvents : Waiting(o, n) ~> ~Waiting(o, n)
=============================================================================

------------------------- MODULE ThruEngine_proofs --------------------------
(***************************************************************************)
(* Proofs about ThruEngine for every set of ports, notes and transforms    *)
(* and every bound: type correctness, per-wire ordering, the finality of a *)
(* panic, the stuck-note list and the thru gap.                            *)
(***************************************************************************)
EXTENDS ThruEngine, TLAPS

-----------------------------------------------------------------------------
(* Type correctness                                                        *)

\* A message is about notes.
LEMMA ShapeType ==
  ASSUME NEW s \in Shapes
  PROVE  s.notes \in SUBSET Notes
<1>1. CASE s \in [op : NoteOps, notes : {{n} : n \in Notes}]
  BY <1>1
<1>2. CASE s \in [op : {"silence"}, notes : Channels]
  <2>1. s.notes \in Channels
    BY <1>2
  <2>. QED
    BY <2>1, ThruConstants
<1>3. CASE s \in [op : {"clock"}, notes : {{}}]
  BY <1>3
<1>. QED
  BY <1>1, <1>2, <1>3 DEF Shapes

\* What sounds on a wire after a message are notes.
LEMMA HearType ==
  ASSUME NEW notes \in SUBSET Notes, NEW s \in Shapes
  PROVE  Hear(notes, s) \in SUBSET Notes
BY ShapeType DEF Hear

\* What the tracker lists after a message are notes.
LEMMA TrackType ==
  ASSUME NEW notes \in SUBSET Notes, NEW s \in Shapes
  PROVE  Track(notes, s) \in SUBSET Notes
BY HearType DEF Track

\* The notes a message ends, and those the cap forgets, are notes.
LEMMA EndsType ==
  ASSUME NEW s \in Shapes
  PROVE  Ends(s) \in SUBSET Notes /\ \A notes \in SUBSET Notes : Capped(notes, s) \in SUBSET Notes
<1>1. s.notes \in SUBSET Notes
  BY ShapeType
<1>2. ASSUME NEW notes \in SUBSET Notes
      PROVE  Capped(notes, s) \in SUBSET Notes
  BY HearType DEF Capped
<1>3. QED
  BY <1>1, <1>2 DEF Ends

(* A routed message is a packet for an output, with its event's number.    *)
LEMMA RouteType ==
  ASSUME TypeOK, NEW e \in Events
  PROVE  /\ Route(e) \subseteq Packets
         /\ \A p \in Route(e) : p.id = e.id
<1>1. SUFFICES ASSUME NEW p \in Route(e)
               PROVE  p \in Packets /\ p.id = e.id
  OBVIOUS
<1>2. PICK o \in Outputs :
        /\ p = [to |-> o, shape |-> links[e.from][o][e.shape], id |-> e.id]
        /\ links[e.from][o] # NoLink
        /\ links[e.from][o][e.shape] # Dropped
  BY <1>1 DEF Route
<1>3. e.from \in Inputs /\ e.shape \in Shapes /\ e.id \in Nat
  BY DEF Events
<1>4. links[e.from][o] \in [Shapes -> Shapes \cup {Dropped}]
  BY <1>2, <1>3, ThruConstants DEF TypeOK, ControlType
<1>5. QED
  BY <1>2, <1>3, <1>4 DEF Packets

(* Sending a packet leaves the instrument playing notes.                   *)
LEMMA TransmitType ==
  ASSUME TypeOK, NEW ok \in BOOLEAN, NEW o \in Outputs, NEW s \in Shapes,
         Transmit(ok, o, s)
  PROVE  sounding' \in [Outputs -> SUBSET Notes]
<1>1. Hear(sounding[o], s) \in SUBSET Notes
  BY HearType DEF TypeOK, GhostType
<1>2. QED
  BY <1>1 DEF Transmit, TypeOK, GhostType

\* So does the send of a captured message, which also numbers the wire.
LEMMA SendType ==
  ASSUME TypeOK, NEW o \in Outputs, NEW ok \in Answers(o), NEW p \in Packets, Send(ok, o, p)
  PROVE  /\ sounding' \in [Outputs -> SUBSET Notes]
         /\ lastSent' \in [Outputs -> Nat]
         /\ quiet' \in [Outputs -> Nat]
         /\ broken' \subseteq Outputs
<1>1. p.shape \in Shapes /\ p.id \in Nat
  BY DEF Packets
<1>2. /\ Transmit(ok, o, p.shape)
      /\ lastSent' = IF ok THEN [lastSent EXCEPT ![o] = p.id] ELSE lastSent
      /\ quiet' = IF ok /\ throttle_ms > 0 THEN [quiet EXCEPT ![o] = 0] ELSE quiet
      /\ broken' = IF ok THEN broken \cup Breaks(o) ELSE broken
  BY DEF Send
<1>3. ok \in BOOLEAN
  BY DEF Answers
<1>4. lastSent' \in [Outputs -> Nat]
  BY <1>1, <1>2 DEF TypeOK, GhostType
<1>5. quiet' \in [Outputs -> Nat]
  BY <1>2 DEF TypeOK, GhostType
<1>6. broken' \subseteq Outputs
  BY <1>2 DEF TypeOK, GhostType, Breaks
<1>7. QED
  BY <1>1, <1>2, <1>3, <1>4, <1>5, <1>6, TransmitType

\* What goes astray are notes.
LEMMA StrayType ==
  ASSUME TypeOK, NEW missed, \A o \in Outputs : missed[o] \in SUBSET Notes, Stray(missed)
  PROVE  astray' \in [Outputs -> SUBSET Notes]
<1>1. \A o \in Outputs : astray[o] \in SUBSET Notes
  BY DEF TypeOK, GhostType
<1>2. QED
  BY <1>1 DEF Stray

LEMMA ListingType ==
  ASSUME TypeOK, NEW o \in Outputs, NEW s \in Shapes, NEW own \in SUBSET Notes,
         Stray(Listing(o, s, own))
  PROVE  astray' \in [Outputs -> SUBSET Notes]
<1>1. Ends(s) \in SUBSET Notes /\ Capped(hang, s) \in SUBSET Notes
  BY EndsType DEF TypeOK, QueueType
<1>2. \A u \in Outputs : Listing(o, s, own)[u] \in SUBSET Notes
  BY <1>1 DEF Listing
<1>3. QED
  BY <1>2, StrayType

\* A message that overtakes a queue ends notes; a full queue loses a packet.
LEMMA OwnType ==
  ASSUME TypeOK, NEW o \in Outputs
  PROVE  /\ \A ok \in BOOLEAN, s \in Shapes : Overtaking(ok, o, s) \in SUBSET Notes
         /\ Overflow(o) \in SUBSET Notes
<1>1. \A ok \in BOOLEAN, s \in Shapes : Overtaking(ok, o, s) \in SUBSET Notes
  BY EndsType DEF Overtaking
<1>2. Overflow(o) \in SUBSET Notes
  <2>1. throttle_q[o] \in Seq(Packets) /\ QueueCap \in Nat \ {0}
    BY ThruConstants DEF TypeOK, QueueType
  <2>2. CASE Len(throttle_q[o]) < QueueCap
    BY <2>2 DEF Overflow
  <2>3. CASE ~ (Len(throttle_q[o]) < QueueCap)
    <3>1. Len(throttle_q[o]) \in Nat /\ Len(throttle_q[o]) >= 1
      BY <2>1, <2>3
    <3>2. Head(throttle_q[o]) \in Packets
      BY <2>1, <3>1
    <3>3. Ends(Head(throttle_q[o]).shape) \in SUBSET Notes
      BY <3>2, EndsType DEF Packets
    <3>. QED
      BY <2>3, <3>3 DEF Overflow
  <2>. QED
    BY <2>2, <2>3
<1>3. QED
  BY <1>1, <1>2

\* The head of a queue keeps the types, sent or refused.
LEMMA PopType ==
  ASSUME TypeOK, NEW o \in Outputs, throttle_q[o] # << >>, Pop(o)
  PROVE  /\ sounding' \in [Outputs -> SUBSET Notes]
         /\ lastSent' \in [Outputs -> Nat]
         /\ quiet' \in [Outputs -> Nat]
         /\ broken' \subseteq Outputs
         /\ astray' \in [Outputs -> SUBSET Notes]
<1>. DEFINE p == Head(throttle_q[o])
<1>1. p \in Packets
  <2>1. throttle_q[o] \in Seq(Packets)
    BY DEF TypeOK, QueueType
  <2>2. QED
    BY <2>1
<1>2. Ends(p.shape) \in SUBSET Notes
  BY <1>1, EndsType DEF Packets
<1>. HIDE DEF p
<1>3. PICK ok \in Answers(o) :
        /\ Send(ok, o, p)
        /\ astray' = IF ok THEN astray
                     ELSE [astray EXCEPT ![o] = @ \cup (Ends(p.shape) \ hang)]
  BY DEF Pop, p
<1>4. astray' \in [Outputs -> SUBSET Notes]
  BY <1>2, <1>3 DEF TypeOK, GhostType
<1>5. QED
  BY <1>1, <1>3, <1>4, SendType

(* A queue keeps its type and its bound.                                   *)
LEMMA EnqueueType ==
  ASSUME NEW q \in Seq(Packets), NEW p \in Packets, Len(q) <= QueueCap
  PROVE  Enqueue(q, p) \in Seq(Packets) /\ Len(Enqueue(q, p)) <= QueueCap
<1>1. CASE Len(q) >= QueueCap
  <2>1. q # << >>
    BY <1>1, ThruConstants
  <2>2. Tail(q) \in Seq(Packets) /\ Len(Tail(q)) = Len(q) - 1
    BY <2>1
  <2>3. QED
    BY <1>1, <2>2, ThruConstants DEF Enqueue
<1>2. CASE ~(Len(q) >= QueueCap)
  BY <1>2, ThruConstants DEF Enqueue
<1>3. QED
  BY <1>1, <1>2

(* What a hook makes of an event, and the timers it schedules, are events  *)
(* with that event's number.                                               *)
LEMMA ScriptType ==
  ASSUME TypeOK, NEW e \in Events, ScriptProcess(e)
  PROVE  /\ processed' \in Seq(Events) /\ timers' \subseteq Events
         /\ \A k \in 1..Len(processed') : processed'[k].id = e.id
<1>1. e.id \in Nat
  BY DEF Events
<1>2. ASSUME NEW i \in Inputs, NEW s \in Shapes
      PROVE  [from |-> i, shape |-> s, id |-> e.id] \in Events
  BY <1>1 DEF Events
<1>3. CASE script_on
  <2>1. processed' \in ScriptResults(e)
    BY <1>3 DEF ScriptProcess
  <2>2. timers' \subseteq Events
    BY <1>2, <1>3 DEF ScriptProcess, TypeOK, EngineType
  <2>3. CASE processed' = << >>
    BY <2>2, <2>3
  <2>4. ASSUME NEW i \in Inputs, NEW s \in Shapes,
               \/ processed' = <<[from |-> i, shape |-> s, id |-> e.id]>>
               \/ processed' = <<e, [from |-> i, shape |-> s, id |-> e.id]>>
        PROVE  /\ processed' \in Seq(Events)
               /\ \A k \in 1..Len(processed') : processed'[k].id = e.id
    <3>. DEFINE m == [from |-> i, shape |-> s, id |-> e.id]
    <3>1. m \in Events /\ m.id = e.id
      BY <1>2
    <3>. HIDE DEF m
    <3>2. processed' = <<m>> \/ processed' = <<e, m>>
      BY <2>4 DEF m
    <3>3. CASE processed' = <<m>>
      BY <3>1, <3>3
    <3>4. CASE processed' = <<e, m>>
      <4>1. <<e, m>> \in Seq(Events)
        BY <3>1
      <4>2. Len(<<e, m>>) = 2 /\ <<e, m>>[1] = e /\ <<e, m>>[2] = m
        OBVIOUS
      <4>3. \A k \in 1..2 : <<e, m>>[k].id = e.id
        BY <3>1, <4>2
      <4>4. QED
        BY <3>4, <4>1, <4>2, <4>3
    <3>5. QED
      BY <3>2, <3>3, <3>4
  <2>5. QED
    BY <2>1, <2>2, <2>3, <2>4 DEF ScriptResults
<1>4. CASE ~script_on
  <2>1. processed' = <<e>> /\ timers' = timers
    BY <1>4 DEF ScriptProcess
  <2>2. QED
    BY <2>1 DEF TypeOK, EngineType
<1>5. QED
  BY <1>3, <1>4

\* The initial state is well typed.
LEMMA TypeInit == Init => TypeOK
<1>. SUFFICES ASSUME Init PROVE TypeOK
  OBVIOUS
<1>1. EngineType
  BY DEF Init, EngineType
<1>2. ControlType
  BY DEF Init, ControlType
<1>3. QueueType
  <2>1. throttle_q \in [Outputs -> Seq(Packets)] /\ \A o \in Outputs : Len(throttle_q[o]) = 0
    BY DEF Init
  <2>2. throttle_at \in [Outputs -> Nat] /\ hang = {}
    BY ThruConstants DEF Init
  <2>3. QED
    BY <2>1, <2>2, ThruConstants DEF QueueType
<1>4. GhostType
  BY ThruConstants DEF Init, GhostType
<1>5. QED
  BY <1>1, <1>2, <1>3, <1>4 DEF TypeOK

(* Every action preserves TypeOK; each case names only the parts the       *)
(* action writes.                                                          *)
LEMMA TypeDrain ==
  ASSUME TypeOK, Drain
  PROVE  TypeOK'
<1>. USE DEF TypeOK
<1>2. CASE DrainEvent
  <2>. DEFINE e == Head(batch)
  <2>1. e \in Events /\ Tail(batch) \in Seq(Events)
    BY <1>2 DEF DrainEvent, EngineType
  <2>2. processed' \in Seq(Events) /\ timers' \subseteq Events
    BY <1>2, <2>1, ScriptType DEF DrainEvent
  <2>3. e.id \in Nat
    BY <2>1 DEF Events
  <2>4. EngineType'
    BY <1>2, <2>1, <2>2 DEF DrainEvent, EngineType
  <2>5. ControlType' /\ QueueType' /\ GhostType'
    BY <1>2, <2>3 DEF DrainEvent, ControlType, QueueType, GhostType, control, wire
  <2>6. QED
    BY <2>4, <2>5
<1>3. CASE RouteEvent
  <2>1. Head(processed) \in Events /\ Tail(processed) \in Seq(Events)
    BY <1>3 DEF RouteEvent, EngineType
  <2>2. routed' \subseteq Packets
    BY <1>3, <2>1, RouteType DEF RouteEvent
  <2>3. QED
    BY <1>3, <2>1, <2>2
    DEF RouteEvent, EngineType, ControlType, QueueType, GhostType, control, queues, ghost, wire
<1>4. ASSUME NEW p \in routed, Deliver(p)
      PROVE  TypeOK'
  <2>1. p \in Packets /\ p.to \in Outputs /\ p.shape \in Shapes
    BY DEF EngineType, Packets
  <2>2. EngineType' /\ ControlType'
    BY <1>4 DEF Deliver, EngineType, ControlType, control
  <2>3. CASE p.to \notin open_outputs
    BY <1>4, <2>2, <2>3 DEF Deliver, QueueType, GhostType, wire
  <2>4. CASE p.to \in open_outputs
    <3>1. hang' \in SUBSET Notes
      BY <1>4, <2>1, <2>4, TrackType DEF Deliver, QueueType
    <3>2. CASE Waits(p.to)
      <4>1. /\ throttle_q' = [throttle_q EXCEPT ![p.to] = Enqueue(@, p)]
            /\ Stray(Listing(p.to, p.shape, Overflow(p.to)))
            /\ UNCHANGED <<sounding, lastSent, quiet, broken>>
        BY <1>4, <2>4, <3>2 DEF Deliver
      <4>6. astray' \in [Outputs -> SUBSET Notes]
        BY <2>1, <4>1, OwnType, ListingType
      <4>2. /\ Enqueue(throttle_q[p.to], p) \in Seq(Packets)
            /\ Len(Enqueue(throttle_q[p.to], p)) <= QueueCap
        BY <2>1, EnqueueType DEF QueueType
      <4>3. /\ throttle_q' \in [Outputs -> Seq(Packets)]
            /\ \A o \in Outputs : Len(throttle_q'[o]) <= QueueCap
        BY <2>1, <4>1, <4>2 DEF QueueType
      <4>4. QueueType' /\ GhostType'
        BY <1>4, <3>1, <4>1, <4>3, <4>6 DEF Deliver, QueueType, GhostType
      <4>5. QED
        BY <2>2, <4>4
    <3>3. CASE ~Waits(p.to)
      <4>1. PICK ok \in Answers(p.to) :
              /\ Send(ok, p.to, p)
              /\ Stray(Listing(p.to, p.shape, Overtaking(ok, p.to, p.shape)))
        BY <1>4, <2>4, <3>3 DEF Deliver
      <4>5. ok \in BOOLEAN /\ UNCHANGED throttle_q
        BY <1>4, <2>4, <3>3, <4>1 DEF Deliver, Answers
      <4>6. astray' \in [Outputs -> SUBSET Notes]
        BY <2>1, <4>1, <4>5, OwnType, ListingType
      <4>2. QueueType'
        BY <1>4, <3>1, <4>5 DEF Deliver, QueueType
      <4>3. GhostType'
        BY <1>4, <2>1, <4>1, <4>6, SendType DEF Deliver, GhostType
      <4>4. QED
        BY <2>2, <4>2, <4>3
    <3>4. QED
      BY <3>2, <3>3
  <2>5. QED
    BY <2>3, <2>4
<1>5. CASE DrainEnd
  BY <1>5 DEF DrainEnd, EngineType, ControlType, QueueType, GhostType, control, queues, ghost, wire
<1>6. QED
  BY <1>2, <1>3, <1>4, <1>5 DEF Drain

\* The steps of tick_throttle keep the types.
LEMMA TypeThrottle ==
  ASSUME TypeOK, NEW o \in Outputs, FlushAll(o) \/ FlushOne(o),
         o \in flushing => throttle_q[o] # << >>
  PROVE  TypeOK'
<1>. USE DEF TypeOK
<1>1. o \in flushing /\ throttle_q[o] # << >>
  BY DEF FlushAll, FlushOne
<1>2. /\ Tail(throttle_q[o]) \in Seq(Packets)
      /\ Len(Tail(throttle_q[o])) <= QueueCap
  BY <1>1, ThruConstants DEF QueueType
<1>3. CASE throttle_q' = [throttle_q EXCEPT ![o] = Tail(@)] /\ Pop(o)
  <2>1. EngineType' /\ ControlType'
    BY DEF FlushAll, FlushOne, EngineType, ControlType, control
  <2>2. throttle_at' \in [Outputs -> Nat] /\ hang' = hang
    BY DEF FlushAll, FlushOne, Stamp, Hold, QueueType
  <2>3. QueueType'
    BY <1>2, <1>3, <2>2 DEF QueueType
  <2>4. nextId' = nextId /\ cur' = cur /\ panicMark' = panicMark
    BY DEF FlushAll, FlushOne
  <2>5. GhostType'
    BY <1>1, <1>3, <2>4, PopType DEF GhostType
  <2>6. QED
    BY <2>1, <2>3, <2>5
<1>4. CASE FlushOne(o) /\ ~(throttle_at[o] >= throttle_ms)
  BY <1>4 DEF FlushOne, Hold, EngineType, ControlType, QueueType, GhostType, control, wire
<1>5. QED
  BY <1>3, <1>4 DEF FlushAll, FlushOne

\* The steps of the script timers keep the types.
LEMMA TypeTimers ==
  ASSUME TypeOK, Timers
  PROVE  TypeOK'
<1>. USE DEF TypeOK
<1>1. CASE TimersBegin
  <2>1. ASSUME NEW idle \in IdleResults
        PROVE  idle \subseteq Events
    BY ThruConstants DEF IdleResults, Events
  <2>2. EngineType'
    BY <1>1, <2>1 DEF TimersBegin, EngineType
  <2>3. QED
    BY <1>1, <2>2 DEF TimersBegin, ControlType, QueueType, GhostType, control, ghost, wire
<1>2. CASE TimerRoute
  <2>1. routed' \subseteq Packets
    BY <1>2, RouteType DEF TimerRoute, EngineType
  <2>2. QED
    BY <1>2, <2>1
    DEF TimerRoute, EngineType, ControlType, QueueType, GhostType, control, queues, ghost, wire
<1>3. ASSUME NEW p \in routed, TimerDeliver(p)
      PROVE  TypeOK'
  <2>1. p.to \in Outputs /\ p.shape \in Shapes
    BY DEF EngineType, Packets
  <2>2. EngineType' /\ ControlType'
    BY <1>3 DEF TimerDeliver, EngineType, ControlType, control
  <2>3. CASE p.to \notin open_outputs
    BY <1>3, <2>2, <2>3 DEF TimerDeliver, QueueType, GhostType
  <2>4. CASE p.to \in open_outputs
    <3>1. QueueType'
      BY <1>3, <2>1, <2>4, TrackType DEF TimerDeliver, QueueType
    <3>2. PICK ok \in Answers(p.to) :
            /\ Transmit(ok, p.to, p.shape)
            /\ Stray(Listing(p.to, p.shape, Overtaking(ok, p.to, p.shape)))
      BY <1>3, <2>4 DEF TimerDeliver
    <3>3. ok \in BOOLEAN
      BY <3>2 DEF Answers
    <3>6. astray' \in [Outputs -> SUBSET Notes]
      BY <2>1, <3>2, <3>3, OwnType, ListingType
    <3>4. GhostType'
      BY <1>3, <2>1, <3>2, <3>3, <3>6, TransmitType DEF TimerDeliver, GhostType
    <3>5. QED
      BY <2>2, <3>1, <3>4
  <2>5. QED
    BY <2>3, <2>4
<1>4. CASE TickEnd
  BY <1>4 DEF TickEnd, EngineType, ControlType, QueueType, GhostType, control, queues, ghost, wire
<1>5. QED
  BY <1>1, <1>2, <1>3, <1>4 DEF Timers

\* The user's controls keep the types.
LEMMA TypeUser ==
  ASSUME TypeOK, User
  PROVE  TypeOK'
<1>. USE DEF TypeOK
<1>1. ASSUME NEW i \in Inputs, NEW o \in Outputs, Link(i, o)
      PROVE  TypeOK'
  BY <1>1, ThruConstants
  DEF Link, EngineType, ControlType, QueueType, GhostType, engine, queues, ghost, wire
<1>2. ASSUME NEW i \in Inputs, NEW o \in Outputs, Unlink(i, o)
      PROVE  TypeOK'
  BY <1>2 DEF Unlink, EngineType, ControlType, QueueType, GhostType, engine, queues, ghost, wire
<1>3. ASSUME NEW i \in Inputs, NEW o \in Outputs, NEW t \in Transforms, SetMap(i, o, t)
      PROVE  TypeOK'
  BY <1>3 DEF SetMap, EngineType, ControlType, QueueType, GhostType, engine, queues, ghost, wire
<1>4. ASSUME NEW o \in Outputs, OpenOutput(o) \/ CloseOutput(o)
      PROVE  TypeOK'
  BY <1>4 DEF OpenOutput, CloseOutput, EngineType, ControlType, QueueType, GhostType,
              engine, queues, ghost, wire
<1>5. ASSUME NEW g \in Gaps, SetGap(g)
      PROVE  TypeOK'
  BY <1>5 DEF SetGap, EngineType, ControlType, QueueType, GhostType, engine, queues, ghost, wire
<1>6. ASSUME NEW b \in BOOLEAN, SetMuteClock(b) \/ SetScript(b)
      PROVE  TypeOK'
  BY <1>6 DEF SetMuteClock, SetScript, EngineType, ControlType, QueueType, GhostType,
              engine, queues, ghost, wire
<1>7. CASE PanicNow
  <2>1. EngineType'
    BY <1>7 DEF PanicNow, EngineType, engine
  <2>9. sounding' \in [Outputs -> SUBSET Notes]
    BY <1>7, ThruConstants DEF PanicNow, GhostType
  <2>10. astray' \in [Outputs -> SUBSET Notes]
    <3>. DEFINE missed == [o \in Outputs |-> IF o \in Faulty THEN sounding'[o] ELSE {}]
    <3>1. Stray(missed)
      BY <1>7 DEF PanicNow
    <3>2. \A o \in Outputs : missed[o] \in SUBSET Notes
      BY <2>9
    <3>. QED
      BY <3>1, <3>2, StrayType
  <2>2. ControlType' /\ GhostType'
    BY <1>7, <2>9, <2>10, ThruConstants DEF PanicNow, ControlType, GhostType
  <2>3. throttle_q' = [o \in Outputs |-> << >>] /\ throttle_at' = [o \in Outputs |-> MaxGap]
    BY <1>7 DEF PanicNow, ForgetQueues
  <2>4. hang' = {}
    BY <1>7 DEF PanicNow
  <2>5. \A o \in Outputs : throttle_q'[o] = << >>
    BY <2>3
  <2>6. throttle_q' \in [Outputs -> Seq(Packets)] /\ \A o \in Outputs : Len(throttle_q'[o]) = 0
    BY <2>3, <2>5
  <2>7. QueueType'
    BY <2>3, <2>4, <2>6, ThruConstants DEF QueueType
  <2>8. QED
    BY <2>1, <2>2, <2>7
<1>8. CASE OffHanging
  <2>. DEFINE missed(r, o) == IF o \notin open_outputs THEN hang
                              ELSE IF o \in Faulty THEN r[o] ELSE {}
              stray(r) == [o \in Outputs |-> IF throttle_q[o] = << >> THEN missed(r, o) ELSE hang]
  <2>3. PICK r \in [Faulty -> SUBSET hang] :
          /\ sounding' = [o \in Outputs |-> sounding[o] \ (hang \ missed(r, o))]
          /\ Stray(stray(r))
    BY <1>8 DEF OffHanging
  <2>1. sounding' \in [Outputs -> SUBSET Notes]
    BY <2>3 DEF GhostType
  <2>4. \A o \in Outputs : stray(r)[o] \in SUBSET Notes
    BY <2>3 DEF QueueType
  <2>5. astray' \in [Outputs -> SUBSET Notes]
    <3>. HIDE DEF stray
    <3>. QED
      BY <2>3, <2>4, StrayType
  <2>2. QED
    BY <1>8, <2>1, <2>5 DEF OffHanging, EngineType, ControlType, QueueType, GhostType, engine, control
<1>9. ASSUME NEW o \in Outputs, NEW s \in Shapes, Inject(o, s)
      PROVE  TypeOK'
  <2>1. PICK ok \in BOOLEAN : Transmit(ok, o, s) /\ Stray(Listing(o, s, Overtaking(ok, o, s)))
    BY <1>9 DEF Inject
  <2>2. sounding' \in [Outputs -> SUBSET Notes]
    BY <2>1, TransmitType
  <2>3. astray' \in [Outputs -> SUBSET Notes]
    BY <2>1, OwnType, ListingType
  <2>4. hang' \in SUBSET Notes
    BY <1>9, TrackType DEF Inject, QueueType
  <2>5. EngineType' /\ ControlType'
    BY <1>9 DEF Inject, EngineType, ControlType, engine
  <2>6. QueueType' /\ GhostType'
    BY <1>9, <2>2, <2>3, <2>4 DEF Inject, QueueType, GhostType
  <2>. QED
    BY <2>5, <2>6
<1>10. QED
  BY <1>1, <1>2, <1>3, <1>4, <1>5, <1>6, <1>7, <1>8, <1>9 DEF User

\* Taking and releasing the lock keeps the types.
LEMMA TypeLock ==
  ASSUME TypeOK, TickBegin \/ FrameBegin \/ FrameEnd
  PROVE  TypeOK'
<1>1. EngineType'
  <2>1. /\ lock' \in {"free", "engine", "ui"} /\ phase' \in {"drain", phase}
        /\ UNCHANGED <<processed, routed, due, flushing, timers>>
        /\ UNCHANGED <<captured, batch>> \/ (batch' = captured /\ captured' = << >>)
    BY DEF TickBegin, FrameBegin, FrameEnd, queues
  <2>2. phase' \in {"idle", "drain", "throttle", "timers"}
    BY <2>1 DEF TypeOK, EngineType
  <2>3. captured' \in Seq(Events) /\ batch' \in Seq(Events) /\ processed' \in Seq(Events)
    <3>1. captured \in Seq(Events) /\ batch \in Seq(Events) /\ processed \in Seq(Events)
      BY DEF TypeOK, EngineType
    <3>2. CASE UNCHANGED <<captured, batch>>
      BY <2>1, <3>1, <3>2
    <3>3. CASE batch' = captured /\ captured' = << >>
      BY <2>1, <3>1, <3>3
    <3>. QED
      BY <2>1, <3>2, <3>3
  <2>. QED
    BY <2>1, <2>2, <2>3 DEF TypeOK, EngineType
<1>2. UNCHANGED <<control, queues, ghost>>
  BY DEF TickBegin, FrameBegin, FrameEnd
<1>3. ControlType' /\ QueueType' /\ GhostType'
  BY <1>2 DEF TypeOK, ControlType, QueueType, GhostType, control, queues, ghost, wire
<1>. QED
  BY <1>1, <1>3 DEF TypeOK

\* Every step keeps the types.
LEMMA TypeStep ==
  ASSUME TypeOK, PhaseInv, [Next]_vars
  PROVE  TypeOK'
<1>1. ASSUME NEW i \in Inputs, NEW s \in Shapes, Capture(i, s)
      PROVE  TypeOK'
  <2>1. nextId \in Nat /\ nextId' \in 1..(MaxEvents + 1)
    BY <1>1, ThruConstants DEF Capture, TypeOK, GhostType
  <2>2. captured' \in Seq(Events)
    BY <1>1, <2>1 DEF Capture, TypeOK, EngineType, Events
  <2>3. QED
    BY <1>1, <2>1, <2>2
    DEF Capture, TypeOK, EngineType, ControlType, QueueType, GhostType, control, queues, wire
<1>2. CASE Elapse
  <2>1. throttle_at' \in [Outputs -> Nat] /\ quiet' \in [Outputs -> Nat]
    BY <1>2 DEF Elapse, Elapsed, TypeOK, QueueType, GhostType
  <2>2. QED
    BY <1>2, <2>1 DEF Elapse, TypeOK, EngineType, ControlType, QueueType, GhostType, engine, control
<1>3. CASE Throttle
  BY <1>3, TypeThrottle DEF Throttle, PhaseInv
<1>4. CASE UNCHANGED vars
  BY <1>4 DEF vars, engine, control, queues, ghost, wire,
              TypeOK, EngineType, ControlType, QueueType, GhostType
<1>5. QED
  BY <1>1, <1>2, <1>3, <1>4, TypeDrain, TypeTimers, TypeUser, TypeLock DEF Next, Tick

\* A queue that is empty without its head holds one packet.
LEMMA TailEmpty ==
  ASSUME NEW S, NEW q \in Seq(S), q # << >>, Tail(q) = << >>
  PROVE  Len(q) = 1
<1>1. Len(q) \in Nat /\ Len(Tail(q)) = Len(q) - 1
  OBVIOUS
<1>2. Len(<< >>) = 0
  OBVIOUS
<1>3. Len(Tail(q)) = 0
  BY <1>2, Zenon
<1>4. QED
  BY <1>1, <1>3

(* What is in the engine's buffers follows from its place in tick().       *)
LEMMA PhaseStep ==
  ASSUME TypeOK, PhaseInv, [Next]_vars
  PROVE  PhaseInv'
<1>. USE DEF PhaseInv
<1>1. ASSUME NEW i \in Inputs, NEW s \in Shapes, Capture(i, s)
      PROVE  PhaseInv'
  BY <1>1 DEF Capture, queues
<1>2. CASE Elapse
  BY <1>2 DEF Elapse, engine
<1>9. CASE TickBegin
  BY <1>9 DEF TickBegin, queues
<1>10. CASE FrameBegin \/ FrameEnd
  BY <1>10 DEF FrameBegin, FrameEnd, queues
<1>3. CASE Drain
  <2>2. CASE DrainEvent
    BY <2>2 DEF DrainEvent
  <2>3. CASE RouteEvent
    BY <2>3 DEF RouteEvent
  <2>4. ASSUME NEW p \in routed, Deliver(p)
        PROVE  PhaseInv'
    BY <2>4 DEF Deliver
  <2>5. CASE DrainEnd
    BY <2>5 DEF DrainEnd, queues
  <2>6. QED
    BY <1>3, <2>2, <2>3, <2>4, <2>5 DEF Drain
<1>4. ASSUME NEW o \in Outputs, FlushAll(o) \/ FlushOne(o)
      PROVE  PhaseInv'
  <2>1. throttle_q[o] \in Seq(Packets) /\ throttle_q[o] # << >> /\ throttle_q \in [Outputs -> Seq(Packets)]
    BY <1>4 DEF FlushAll, FlushOne, TypeOK, QueueType
  <2>2. Len(throttle_q[o]) # 1 => Tail(throttle_q[o]) # << >>
    BY <2>1, TailEmpty
  <2>3. flushing \subseteq Outputs
    BY DEF TypeOK, EngineType
  <2>4. \A d \in flushing' : throttle_q'[d] # << >>
    BY <1>4, <2>1, <2>2, <2>3 DEF FlushAll, FlushOne
  <2>5. QED
    BY <1>4, <2>4 DEF FlushAll, FlushOne
<1>5. CASE Timers
  <2>1. CASE TimersBegin
    BY <2>1 DEF TimersBegin
  <2>2. CASE TimerRoute
    BY <2>2 DEF TimerRoute, queues
  <2>3. ASSUME NEW p \in routed, TimerDeliver(p)
        PROVE  PhaseInv'
    BY <2>3 DEF TimerDeliver
  <2>4. CASE TickEnd
    BY <2>4 DEF TickEnd, queues
  <2>5. QED
    BY <1>5, <2>1, <2>2, <2>3, <2>4 DEF Timers
<1>6. CASE User
  <2>1. UNCHANGED engine /\ phase = "idle"
    BY <1>6 DEF User, Uses, Link, Unlink, SetMap, OpenOutput, CloseOutput, SetGap,
                SetMuteClock, SetScript, Inject, PanicNow, OffHanging
  <2>2. QED
    BY <2>1 DEF engine
<1>7. CASE UNCHANGED vars
  BY <1>7 DEF vars, engine, queues
<1>8. QED
  BY <1>1, <1>2, <1>3, <1>4, <1>5, <1>6, <1>7, <1>9, <1>10 DEF Next, Tick, Throttle

\* The initial state satisfies PhaseInv.
LEMMA PhaseInit == Init => PhaseInv
BY DEF Init, PhaseInv

(* Type correctness: in every state of every instance the engine's buffers *)
(* hold numbered events of its ports, and no throttle queue passes its     *)
(* bound (drain_capture's `while q.len() >= 4096`).                        *)
THEOREM TypeCorrect == Spec => []TypeOK
<1>1. Init => TypeOK /\ PhaseInv
  BY TypeInit, PhaseInit
<1>2. TypeOK /\ PhaseInv /\ [Next]_vars => (TypeOK /\ PhaseInv)'
  BY TypeStep, PhaseStep
<1>3. QED
  BY <1>1, <1>2, PTL DEF Spec

-----------------------------------------------------------------------------
(* Numbering: where captured events are on their way through a tick        *)

(* The parts of NumberInv a step leaves alone when it touches neither the  *)
(* capture queue nor the batch.                                            *)
LEMMA NumberKept ==
  ASSUME NumberInv, UNCHANGED <<nextId, cur, batch, captured>>,
         processed' = processed, phase' = "drain" => routed' \subseteq routed /\ phase = "drain"
  PROVE  NumberInv'
BY DEF NumberInv

\* Every step keeps the numbers of events below the count of captured events.
LEMMA NumberStep ==
  ASSUME MaxBacklog = 0, TypeOK, PhaseInv, NumberInv, [Next]_vars
  PROVE  NumberInv'
<1>0. cur \in Nat /\ nextId \in Nat /\ Len(batch) \in Nat /\ Len(captured) \in Nat
  BY ThruConstants DEF TypeOK, EngineType, GhostType
<1>1. ASSUME NEW i \in Inputs, NEW s \in Shapes, Capture(i, s)
      PROVE  NumberInv'
  <2>. DEFINE e == [from |-> i, shape |-> s, id |-> nextId]
  <2>1. e \in Events /\ e.id = nextId /\ captured \in Seq(Events)
    BY <1>0 DEF TypeOK, EngineType, Events
  <2>. HIDE DEF e
  <2>2. captured' = Append(captured, e) /\ nextId' = nextId + 1
    BY <1>0, <1>1 DEF Capture, e
  <2>3. /\ Len(captured') = Len(captured) + 1
        /\ \A k \in 1..Len(captured) : captured'[k] = captured[k]
        /\ captured'[Len(captured) + 1] = e
    BY <2>1, <2>2
  <2>4. UNCHANGED <<cur, batch, processed, phase, routed>>
    BY <1>1 DEF Capture
  <2>5. ASSUME NEW k \in 1..Len(captured')
        PROVE  captured'[k].id = cur + Len(batch) + k
    <3>1. k \in 1..Len(captured) \/ k = Len(captured) + 1
      BY <1>0, <2>3
    <3>2. CASE k \in 1..Len(captured)
      BY <2>3, <3>2 DEF NumberInv
    <3>3. CASE k = Len(captured) + 1
      BY <1>0, <2>1, <2>3, <3>3 DEF NumberInv
    <3>4. QED
      BY <3>1, <3>2, <3>3
  <2>6. nextId' = cur' + Len(batch') + Len(captured') + 1
    BY <1>0, <2>2, <2>3, <2>4 DEF NumberInv
  <2>7. \A k \in 1..Len(captured') : captured'[k].id = cur' + Len(batch') + k
    BY <2>4, <2>5
  <2>8. /\ \A k \in 1..Len(batch') : batch'[k].id = cur' + k
        /\ \A k \in 1..Len(processed') : processed'[k].id = cur'
        /\ phase' = "drain" => \A p \in routed' : p.id = cur'
    BY <2>4 DEF NumberInv
  <2>9. QED
    BY <2>6, <2>7, <2>8 DEF NumberInv
<1>2. CASE TickBegin
  <2>1. batch = << >> /\ routed = {}
    BY <1>2 DEF TickBegin, PhaseInv
  <2>2. Len(batch) = 0
    BY <2>1
  <2>3. batch' = captured /\ captured' = << >> /\ UNCHANGED <<nextId, cur, processed, routed>>
    BY <1>2 DEF TickBegin, ghost
  <2>4. Len(captured') = 0
    BY <2>3
  <2>5. QED
    BY <1>0, <2>1, <2>2, <2>3, <2>4 DEF NumberInv
<1>3. CASE DrainEvent
  <2>. DEFINE e == Head(batch)
  <2>1. batch \in Seq(Events) /\ batch # << >>
    BY <1>3 DEF DrainEvent, TypeOK, EngineType
  <2>2. /\ e \in Events /\ Len(Tail(batch)) = Len(batch) - 1 /\ e = batch[1] /\ Len(batch) >= 1
        /\ \A k \in 1..Len(Tail(batch)) : Tail(batch)[k] = batch[k + 1]
    BY <2>1
  <2>3. e.id = cur + 1
    BY <1>0, <2>2 DEF NumberInv
  <2>4. batch' = Tail(batch) /\ cur' = cur + 1 /\ UNCHANGED <<captured, nextId, routed>> /\ routed = {}
    BY <1>3, <2>3 DEF DrainEvent
  <2>5. \A k \in 1..Len(processed') : processed'[k].id = cur'
    BY <1>3, <2>2, <2>3, <2>4, ScriptType DEF DrainEvent
  <2>6. \A k \in 1..Len(batch') : batch'[k].id = cur' + k
    BY <1>0, <2>2, <2>4 DEF NumberInv
  <2>7. cur' + Len(batch') = cur + Len(batch)
    <3>1. Len(batch') = Len(batch) - 1
      BY <2>2, <2>4, Zenon
    <3>2. (cur + 1) + (Len(batch) - 1) = cur + Len(batch)
      BY <1>0
    <3>3. QED
      BY <2>4, <3>1, <3>2, Zenon
  <2>8. nextId' = cur' + Len(batch') + Len(captured') + 1
    BY <1>0, <2>4, <2>7 DEF NumberInv
  <2>9. \A k \in 1..Len(captured') : captured'[k].id = cur' + Len(batch') + k
    BY <1>0, <2>4, <2>7 DEF NumberInv
  <2>10. QED
    BY <2>4, <2>5, <2>6, <2>8, <2>9 DEF NumberInv
<1>4. CASE RouteEvent
  <2>1. processed \in Seq(Events) /\ processed # << >>
    BY <1>4 DEF RouteEvent, TypeOK, EngineType
  <2>2. /\ Head(processed) \in Events /\ Head(processed) = processed[1] /\ Len(processed) >= 1
        /\ Len(Tail(processed)) = Len(processed) - 1
        /\ \A k \in 1..Len(Tail(processed)) : Tail(processed)[k] = processed[k + 1]
    BY <2>1
  <2>3. Head(processed).id = cur
    BY <2>2 DEF NumberInv
  <2>4. \A p \in routed' : p.id = cur
    BY <1>4, <2>2, <2>3, RouteType DEF RouteEvent
  <2>5. processed' = Tail(processed) /\ UNCHANGED <<batch, captured, nextId, cur>>
    BY <1>4 DEF RouteEvent, ghost
  <2>6. \A k \in 1..Len(processed') : processed'[k].id = cur'
    BY <2>2, <2>5 DEF NumberInv
  <2>7. QED
    BY <2>4, <2>5, <2>6 DEF NumberInv
<1>5. CASE (\E p \in routed : Deliver(p)) \/ DrainEnd
  BY <1>5, NumberKept DEF Deliver, DrainEnd, ghost
<1>6. CASE Throttle
  BY <1>6, NumberKept DEF Throttle, FlushAll, FlushOne
<1>7. CASE Timers
  BY <1>7, NumberKept DEF Timers, TimersBegin, TimerRoute, TimerDeliver, TickEnd, ghost
<1>8. CASE User
  <2>1. UNCHANGED <<engine, nextId, cur>>
    BY <1>8 DEF User, Link, Unlink, SetMap, OpenOutput, CloseOutput, SetGap,
                SetMuteClock, SetScript, Inject, PanicNow, OffHanging, ghost
  <2>2. QED
    BY <2>1, NumberKept DEF engine
<1>9. CASE Elapse \/ FrameBegin \/ FrameEnd \/ UNCHANGED vars
  BY <1>9, NumberKept DEF Elapse, FrameBegin, FrameEnd, vars, engine, ghost
<1>10. QED
  BY <1>1, <1>2, <1>3, <1>4, <1>5, <1>6, <1>7, <1>8, <1>9 DEF Next, Tick, Drain

\* The initial state satisfies NumberInv.
LEMMA NumberInit == Init => NumberInv
BY DEF Init, NumberInv

-----------------------------------------------------------------------------
(* Order on the wires                                                      *)

\* A sequence in order stays in order without its head.
LEMMA InOrderTail ==
  ASSUME NEW q \in Seq(Packets), q # << >>, NEW lo \in Nat, NEW hi \in Nat,
         InOrder(q, lo, hi)
  PROVE  /\ lo <= Head(q).id /\ Head(q).id <= hi
         /\ InOrder(Tail(q), Head(q).id, hi) /\ InOrder(Tail(q), lo, hi)
<1>1. /\ Len(q) \in Nat /\ Len(q) >= 1 /\ Head(q) = q[1] /\ Len(Tail(q)) = Len(q) - 1
      /\ \A k \in 1..Len(Tail(q)) : Tail(q)[k] = q[k + 1]
  OBVIOUS
<1>2. lo <= Head(q).id /\ Head(q).id <= hi
  BY <1>1 DEF InOrder
<1>3. ASSUME NEW k \in 1..Len(Tail(q))
      PROVE  /\ lo <= Tail(q)[k].id /\ Head(q).id <= Tail(q)[k].id /\ Tail(q)[k].id <= hi
             /\ k + 1 \in 1..Len(q) /\ Tail(q)[k] = q[k + 1]
  BY <1>1 DEF InOrder
<1>4. ASSUME NEW j \in 1..Len(Tail(q)), NEW k \in 1..Len(Tail(q)), j <= k
      PROVE  Tail(q)[j].id <= Tail(q)[k].id
  BY <1>3, <1>4 DEF InOrder
<1>5. QED
  BY <1>2, <1>3, <1>4 DEF InOrder

\* ... and with a later number appended.
LEMMA InOrderAppend ==
  ASSUME NEW q \in Seq(Packets), NEW p \in Packets, NEW lo \in Nat,
         InOrder(q, lo, p.id), lo <= p.id
  PROVE  InOrder(Append(q, p), lo, p.id)
<1>1. p.id \in Nat
  BY DEF Packets
<1>2. /\ Len(q) \in Nat /\ Len(Append(q, p)) = Len(q) + 1 /\ Append(q, p)[Len(q) + 1] = p
      /\ \A k \in 1..Len(q) : Append(q, p)[k] = q[k]
  OBVIOUS
<1>3. ASSUME NEW k \in 1..(Len(q) + 1)
      PROVE  k \in 1..Len(q) \/ k = Len(q) + 1
  BY <1>2
<1>4. ASSUME NEW k \in 1..(Len(q) + 1)
      PROVE  lo <= Append(q, p)[k].id /\ Append(q, p)[k].id <= p.id
  BY <1>1, <1>2, <1>3 DEF InOrder
<1>5. ASSUME NEW j \in 1..(Len(q) + 1), NEW k \in 1..(Len(q) + 1), j <= k
      PROVE  Append(q, p)[j].id <= Append(q, p)[k].id
  <2>1. CASE k = Len(q) + 1
    BY <1>2, <1>4, <2>1
  <2>2. CASE k \in 1..Len(q)
    <3>1. j \in 1..Len(q)
      BY <1>2, <1>5, <2>2
    <3>2. QED
      BY <1>2, <1>5, <2>2, <3>1 DEF InOrder
  <2>3. QED
    BY <1>3, <2>1, <2>2
<1>6. QED
  BY <1>2, <1>4, <1>5 DEF InOrder

(* A message put at the back of a queue that is behind it keeps the queue  *)
(* in order, also when the front had to go.                                *)
LEMMA EnqueueOrder ==
  ASSUME NEW q \in Seq(Packets), NEW p \in Packets, NEW lo \in Nat,
         InOrder(q, lo, p.id), lo <= p.id
  PROVE  InOrder(Enqueue(q, p), lo, p.id)
<1>1. p.id \in Nat
  BY DEF Packets
<1>2. CASE Len(q) >= QueueCap
  <2>1. q # << >>
    BY <1>2, ThruConstants
  <2>2. Tail(q) \in Seq(Packets)
    BY <2>1
  <2>3. InOrder(Tail(q), lo, p.id)
    BY <1>1, <2>1, InOrderTail
  <2>4. QED
    BY <1>2, <2>2, <2>3, InOrderAppend DEF Enqueue
<1>3. CASE ~(Len(q) >= QueueCap)
  BY <1>3, InOrderAppend DEF Enqueue
<1>4. QED
  BY <1>2, <1>3

\* ... and is in order between wider bounds.
LEMMA InOrderWeaken ==
  ASSUME NEW q \in Seq(Packets), NEW lo \in Nat, NEW lo2 \in Nat, lo2 <= lo,
         NEW hi \in Nat, NEW hi2 \in Nat, hi <= hi2, InOrder(q, lo, hi)
  PROVE  InOrder(q, lo2, hi2)
<1>1. ASSUME NEW k \in 1..Len(q)
      PROVE  lo2 <= q[k].id /\ q[k].id <= hi2
  <2>1. q[k].id \in Nat
    <3>1. q[k] \in Packets
      OBVIOUS
    <3>2. QED
      BY <3>1 DEF Packets
  <2>2. QED
    BY <2>1 DEF InOrder
<1>2. QED
  BY <1>1 DEF InOrder

\* Sending a packet in order moves the number last sent of its output only, to it.
LEMMA SendOrder ==
  ASSUME TypeOK, NEW d \in Outputs, NEW ok, NEW p \in Packets, Send(ok, d, p), lastSent[d] <= p.id
  PROVE  /\ \A o \in Outputs : lastSent'[o] >= lastSent[o]
         /\ \A o \in Outputs \ {d} : lastSent'[o] = lastSent[o]
         /\ lastSent'[d] = p.id \/ lastSent'[d] = lastSent[d]
<1>1. p.id \in Nat /\ lastSent \in [Outputs -> Nat]
  BY DEF Packets, TypeOK, GhostType
<1>2. lastSent' = [lastSent EXCEPT ![d] = p.id] \/ lastSent' = lastSent
  BY DEF Send
<1>3. QED
  BY <1>1, <1>2

(* A step that changes neither the wires' progress nor a queue, and does   *)
(* not set the gap to 0.                                                   *)
LEMMA QueueKept ==
  ASSUME QueueInv, UNCHANGED <<throttle_q, lastSent, cur>>,
         throttle_ms' = throttle_ms \/ throttle_ms' # 0
  PROVE  QueueInv'
BY DEF QueueInv, InOrder

(* Every step keeps the queues in order between the wire and the event     *)
(* being drained, and no wire goes back.                                   *)
LEMMA QueueStep ==
  ASSUME 0 \notin Gaps, OrderInv, [Next]_vars
  PROVE  QueueInv' /\ \A o \in Outputs : lastSent'[o] >= lastSent[o]
<1>. USE DEF OrderInv
<1>0. /\ cur \in Nat /\ lastSent \in [Outputs -> Nat]
      /\ throttle_q \in [Outputs -> Seq(Packets)]
      /\ \A p \in Packets : p.id \in Nat /\ p.to \in Outputs
  BY DEF TypeOK, GhostType, QueueType, Packets
<1>1. CASE UNCHANGED <<throttle_q, lastSent, cur>> /\ (throttle_ms' = throttle_ms \/ throttle_ms' # 0)
  <2>1. \A o \in Outputs : lastSent'[o] >= lastSent[o]
    BY <1>0, <1>1
  <2>2. QED
    BY <1>1, <2>1, QueueKept
<1>2. CASE DrainEvent
  <2>1. UNCHANGED <<throttle_q, lastSent, throttle_ms>>
    BY <1>2 DEF DrainEvent, control, wire
  <2>2. Len(batch) \in Nat /\ batch # << >> /\ batch \in Seq(Events)
    BY <1>2 DEF DrainEvent, TypeOK, EngineType
  <2>3. Head(batch) = batch[1] /\ Len(batch) >= 1
    BY <2>2
  <2>4. cur' = cur + 1
    BY <1>0, <1>2, <2>2, <2>3 DEF DrainEvent, NumberInv
  <2>5. cur' \in Nat /\ cur <= cur'
    BY <1>0, <2>4
  <2>6. ASSUME NEW o \in Outputs
        PROVE  lastSent[o] <= cur' /\ InOrder(throttle_q[o], lastSent[o], cur')
    <3>1. lastSent[o] <= cur /\ InOrder(throttle_q[o], lastSent[o], cur)
      BY DEF QueueInv
    <3>2. lastSent[o] \in Nat /\ throttle_q[o] \in Seq(Packets)
      BY <1>0
    <3>3. QED
      BY <1>0, <2>5, <3>1, <3>2, InOrderWeaken
  <2>7. \A o \in Outputs : lastSent'[o] = lastSent[o] /\ throttle_q'[o] = throttle_q[o]
    BY <2>1
  <2>8. \A o \in Outputs : throttle_ms' = 0 => throttle_q'[o] = << >>
    BY <2>1, <2>7 DEF QueueInv
  <2>9. QueueInv'
    BY <2>6, <2>7, <2>8 DEF QueueInv, InOrder
  <2>10. QED
    BY <1>0, <2>7, <2>9
<1>3. ASSUME NEW p \in routed, Deliver(p), p.to \in open_outputs
      PROVE  QueueInv' /\ \A o \in Outputs : lastSent'[o] >= lastSent[o]
  <2>1. p \in Packets /\ p.to \in Outputs /\ p.id = cur
    BY <1>0, <1>3 DEF Deliver, TypeOK, EngineType, NumberInv
  <2>2. lastSent[p.to] <= p.id
    BY <2>1 DEF QueueInv
  <2>3. UNCHANGED <<throttle_ms, cur>>
    BY <1>3 DEF Deliver, control
  <2>4. CASE Waits(p.to)
    <3>1. /\ throttle_q' = [throttle_q EXCEPT ![p.to] = Enqueue(@, p)] /\ lastSent' = lastSent
          /\ throttle_ms # 0
      BY <1>3, <2>4 DEF Deliver, Waits
    <3>2. ASSUME NEW o \in Outputs
          PROVE  InOrder(throttle_q'[o], lastSent[o], cur)
      <4>1. throttle_q[o] \in Seq(Packets) /\ lastSent[o] \in Nat /\ InOrder(throttle_q[o], lastSent[o], cur)
        BY <1>0 DEF QueueInv
      <4>2. CASE o = p.to
        <5>1. InOrder(Enqueue(throttle_q[o], p), lastSent[o], p.id)
          BY <2>1, <2>2, <4>1, <4>2, EnqueueOrder
        <5>2. throttle_q'[o] = Enqueue(throttle_q[o], p)
          BY <1>0, <3>1, <4>2
        <5>3. QED
          BY <2>1, <5>1, <5>2
      <4>3. CASE o # p.to
        BY <1>0, <3>1, <4>1, <4>3
      <4>4. QED
        BY <4>2, <4>3
    <3>3. QueueInv'
      BY <2>3, <3>1, <3>2 DEF QueueInv, InOrder
    <3>4. QED
      BY <1>0, <3>1, <3>3
  <2>5. CASE ~Waits(p.to)
    <3>7. PICK ok \in Answers(p.to) : Send(ok, p.to, p)
      BY <1>3, <2>5 DEF Deliver
    <3>1. throttle_q' = throttle_q /\ throttle_ms = 0
      <4>1. throttle_ms \in Nat
        <5>1. Gaps \cup {0} \subseteq Nat
          BY ThruConstants
        <5>. QED
          BY <5>1 DEF TypeOK, ControlType
      <4>2. throttle_q' = throttle_q
        BY <1>3, <2>5 DEF Deliver
      <4>3. QED
        BY <2>5, <4>1, <4>2 DEF Waits
    <3>2. \A o \in Outputs : throttle_q'[o] = << >>
      BY <3>1 DEF QueueInv
    <3>3. \A o \in Outputs : InOrder(throttle_q'[o], lastSent'[o], cur)
      <4>1. Len(<< >>) = 0
        OBVIOUS
      <4>2. \A o \in Outputs : Len(throttle_q'[o]) = 0
        BY <3>2, <4>1, Zenon
      <4>3. QED
        BY <4>2 DEF InOrder
    <3>4. \A o \in Outputs : lastSent'[o] >= lastSent[o] /\ lastSent'[o] <= cur
      BY <1>0, <2>1, <2>2, <3>7, SendOrder DEF QueueInv
    <3>5. QueueInv'
      BY <2>3, <3>2, <3>3, <3>4 DEF QueueInv, InOrder
    <3>6. QED
      BY <3>4, <3>5
  <2>6. QED
    BY <2>4, <2>5
<1>4. ASSUME NEW d \in Outputs, FlushAll(d) \/ FlushOne(d), throttle_q' # throttle_q
      PROVE  QueueInv' /\ \A o \in Outputs : lastSent'[o] >= lastSent[o]
  <2>. DEFINE p == Head(throttle_q[d])
  <2>1. throttle_q[d] # << >> /\ throttle_q[d] \in Seq(Packets)
    BY <1>0, <1>4 DEF FlushAll, FlushOne, PhaseInv
  <2>2. /\ p \in Packets /\ p.id \in Nat /\ Tail(throttle_q[d]) \in Seq(Packets)
        /\ lastSent[d] \in Nat
    BY <1>0, <2>1
  <2>3. throttle_q' = [throttle_q EXCEPT ![d] = Tail(@)] /\ UNCHANGED <<throttle_ms, cur>>
    BY <1>4 DEF FlushAll, FlushOne, control
  <2>9. PICK ok \in Answers(d) : Send(ok, d, p)
    BY <1>4 DEF FlushAll, FlushOne, Pop
  <2>4. /\ lastSent[d] <= p.id /\ p.id <= cur
        /\ InOrder(Tail(throttle_q[d]), p.id, cur) /\ InOrder(Tail(throttle_q[d]), lastSent[d], cur)
    BY <1>0, <2>1, <2>2, InOrderTail DEF QueueInv
  <2>5. /\ \A o \in Outputs : lastSent'[o] >= lastSent[o]
        /\ \A o \in Outputs \ {d} : lastSent'[o] = lastSent[o]
        /\ lastSent'[d] = p.id \/ lastSent'[d] = lastSent[d]
    BY <2>2, <2>4, <2>9, SendOrder
  <2>6. ASSUME NEW o \in Outputs
        PROVE  /\ lastSent'[o] <= cur
               /\ throttle_ms = 0 => throttle_q'[o] = << >>
               /\ InOrder(throttle_q'[o], lastSent'[o], cur)
    <3>1. CASE o = d
      <4>1. throttle_q'[o] = Tail(throttle_q[d])
        BY <1>0, <2>3, <3>1
      <4>2. throttle_ms # 0
        BY <2>1 DEF QueueInv
      <4>3. InOrder(Tail(throttle_q[d]), lastSent'[d], cur)
        BY <2>4, <2>5
      <4>4. lastSent'[d] <= cur
        BY <2>4, <2>5 DEF QueueInv
      <4>5. QED
        BY <3>1, <4>1, <4>2, <4>3, <4>4
    <3>2. CASE o # d
      BY <1>0, <2>3, <2>5, <3>2 DEF QueueInv
    <3>3. QED
      BY <3>1, <3>2
  <2>7. QueueInv'
    BY <2>3, <2>6 DEF QueueInv, InOrder
  <2>8. QED
    BY <2>5, <2>7
<1>5. CASE PanicNow
  <2>1. UNCHANGED <<lastSent, throttle_ms, cur>> /\ throttle_q' = [o \in Outputs |-> << >>]
    BY <1>5 DEF PanicNow, ForgetQueues
  <2>2. Len(<< >>) = 0
    OBVIOUS
  <2>3. \A o \in Outputs : throttle_q'[o] = << >>
    BY <2>1
  <2>4. \A o \in Outputs : Len(throttle_q'[o]) = 0
    BY <2>2, <2>3, Zenon
  <2>5. QueueInv'
    BY <2>1, <2>3, <2>4 DEF QueueInv, InOrder
  <2>6. QED
    BY <1>0, <2>1, <2>5
<1>6. ASSUME NEW p \in routed, Deliver(p), p.to \notin open_outputs
      PROVE  UNCHANGED <<throttle_q, lastSent, cur, throttle_ms>>
  BY <1>6 DEF Deliver, control, wire
<1>7. CASE TickBegin \/ RouteEvent \/ DrainEnd \/ FrameBegin \/ FrameEnd
  BY <1>1, <1>7 DEF TickBegin, RouteEvent, DrainEnd, FrameBegin, FrameEnd, control, queues, ghost, wire
<1>8. ASSUME NEW d \in Outputs, FlushAll(d) \/ FlushOne(d), throttle_q' = throttle_q
      PROVE  UNCHANGED <<throttle_q, lastSent, cur, throttle_ms>>
  <2>1. Tail(throttle_q[d]) # throttle_q[d]
    <3>1. throttle_q[d] # << >> /\ throttle_q[d] \in Seq(Packets)
      BY <1>0, <1>8 DEF FlushAll, FlushOne, PhaseInv
    <3>2. Len(Tail(throttle_q[d])) = Len(throttle_q[d]) - 1 /\ Len(throttle_q[d]) \in Nat
      BY <3>1
    <3>3. Len(Tail(throttle_q[d])) # Len(throttle_q[d])
      BY <3>2
    <3>4. QED
      BY <3>3, Zenon
  <2>2. throttle_q' # [throttle_q EXCEPT ![d] = Tail(@)]
    BY <1>0, <1>8, <2>1
  <2>3. QED
    BY <1>8, <2>2 DEF FlushAll, FlushOne, control, wire
<1>9. CASE Timers
  BY <1>1, <1>9 DEF Timers, TimersBegin, TimerRoute, TimerDeliver, TickEnd, control, queues, ghost, wire
<1>10. CASE User /\ ~PanicNow
  <2>1. UNCHANGED <<throttle_q, lastSent, cur>>
    BY <1>10 DEF User, Link, Unlink, SetMap, OpenOutput, CloseOutput, SetGap,
                 SetMuteClock, SetScript, Inject, OffHanging, queues, ghost, wire
  <2>2. throttle_ms' = throttle_ms \/ throttle_ms' # 0
    BY <1>10 DEF User, Link, Unlink, SetMap, OpenOutput, CloseOutput, SetGap,
                 SetMuteClock, SetScript, Inject, OffHanging, control
  <2>3. QED
    BY <1>1, <2>1, <2>2
<1>11. CASE (\E i \in Inputs, s \in Shapes : Capture(i, s)) \/ Elapse \/ UNCHANGED vars
  BY <1>1, <1>11 DEF Capture, Elapse, vars, control, queues, ghost, wire
<1>12. QED
  BY <1>1, <1>2, <1>3, <1>4, <1>5, <1>6, <1>7, <1>8, <1>9, <1>10, <1>11
  DEF Next, Tick, Drain, Throttle

\* The initial state satisfies QueueInv.
LEMMA QueueInit == Init => QueueInv
<1>1. Len(<< >>) = 0
  OBVIOUS
<1>2. Init => \A o \in Outputs : throttle_q[o] = << >> /\ lastSent[o] = 0 /\ cur = 0
  BY DEF Init
<1>3. Init => \A o \in Outputs : Len(throttle_q[o]) = 0
  BY <1>1, <1>2, Zenon
<1>4. QED
  BY <1>2, <1>3 DEF QueueInv, InOrder

(* Capture order on the wires: as long as nobody takes the gap back to 0,  *)
(* no message overtakes an earlier one on its way to an output, whatever   *)
(* queue it waited in (drain_capture against tick_throttle).  Every event  *)
(* has a number of its own.                                                *)
THEOREM CaptureOrder ==
  ASSUME 0 \notin Gaps, MaxBacklog = 0
  PROVE  Spec => WireInOrder
<1>1. Init => OrderInv
  BY TypeInit, PhaseInit, NumberInit, QueueInit DEF OrderInv
<1>2. OrderInv /\ [Next]_vars => OrderInv'
  BY TypeStep, PhaseStep, NumberStep, QueueStep DEF OrderInv
<1>3. OrderInv /\ [Next]_vars => [\A o \in Outputs : lastSent'[o] >= lastSent[o]]_vars
  BY QueueStep
<1>4. QED
  BY <1>1, <1>2, <1>3, PTL DEF Spec, WireInOrder

-----------------------------------------------------------------------------
(* Panic                                                                   *)

(* Nothing is sent and the queues stay: the outputs stay as quiet.         *)
LEMMA PanicKept ==
  ASSUME PanicInv, UNCHANGED <<cur, panicMark, script_on, timers, due, processed, throttle_q>>,
         \A o \in Outputs : sounding'[o] \subseteq sounding[o], lastSent' = lastSent,
         routed' \subseteq routed, phase' = "timers" => routed' = {}
  PROVE  PanicInv'
<1>1. QuietSincePanic'
  BY DEF PanicInv, QuietSincePanic
<1>2. QED
  BY <1>1 DEF PanicInv

\* A captured message of after the panic leaves its output quiet or wakes it rightly.
LEMMA SendQuiet ==
  ASSUME TypeOK, QuietSincePanic, NEW d \in Outputs, NEW ok \in BOOLEAN, NEW p,
         Send(ok, d, p), p.id > panicMark, panicMark' = panicMark
  PROVE  QuietSincePanic'
<1>1. sounding \in [Outputs -> SUBSET Notes] /\ lastSent \in [Outputs -> Nat]
  BY DEF TypeOK, GhostType
<1>2. CASE ok
  <2>1. lastSent' = [lastSent EXCEPT ![d] = p.id]
    BY <1>2 DEF Send
  <2>2. \A o \in Outputs \ {d} : sounding'[o] = sounding[o]
    BY <1>1, <1>2 DEF Send, Transmit
  <2>3. QED
    BY <1>1, <2>1, <2>2 DEF QuietSincePanic
<1>3. CASE ~ok
  BY <1>3 DEF Send, Transmit, QuietSincePanic
<1>4. QED
  BY <1>2, <1>3

\* What is in a queue after an enqueue was there or is new.
LEMMA EnqueueLater ==
  ASSUME NEW q \in Seq(Packets), NEW p \in Packets, NEW m \in Nat, p.id > m,
         \A k \in 1..Len(q) : q[k].id > m
  PROVE  \A k \in 1..Len(Enqueue(q, p)) : Enqueue(q, p)[k].id > m
<1>1. ASSUME NEW r \in Seq(Packets), \A k \in 1..Len(r) : r[k].id > m
      PROVE  \A k \in 1..Len(Append(r, p)) : Append(r, p)[k].id > m
  <2>1. ASSUME NEW k \in 1..Len(Append(r, p))
        PROVE  Append(r, p)[k].id > m
    <3>1. k \in 1..Len(r) \/ k = Len(r) + 1
      OBVIOUS
    <3>2. k \in 1..Len(r) => Append(r, p)[k] = r[k]
      OBVIOUS
    <3>3. Append(r, p)[Len(r) + 1] = p
      OBVIOUS
    <3>. QED
      BY <1>1, <3>1, <3>2, <3>3
  <2>. QED
    BY <2>1
<1>2. CASE Len(q) >= QueueCap
  <2>1. q # << >> /\ Len(q) >= 1
    BY <1>2, ThruConstants
  <2>2. Tail(q) \in Seq(Packets) /\ \A k \in 1..Len(Tail(q)) : Tail(q)[k] = q[k + 1] /\ k + 1 \in 1..Len(q)
    BY <2>1
  <2>3. \A k \in 1..Len(Tail(q)) : Tail(q)[k].id > m
    BY <2>2
  <2>. QED
    BY <1>1, <1>2, <2>2, <2>3 DEF Enqueue
<1>3. CASE ~(Len(q) >= QueueCap)
  BY <1>1, <1>3 DEF Enqueue
<1>. QED
  BY <1>2, <1>3

\* Every step keeps an output quiet since its panic.
LEMMA PanicStep ==
  ASSUME "script" \notin UserOps, "inject" \notin UserOps, QuietInv, [Next]_vars
  PROVE  PanicInv'
<1>. USE DEF QuietInv
<1>0. /\ cur \in Nat /\ panicMark \in Nat /\ panicMark <= cur
      /\ throttle_q \in [Outputs -> Seq(Packets)]
  BY DEF TypeOK, GhostType, QueueType, PanicInv
<1>1. CASE DrainEvent
  <2>2. batch \in Seq(Events) /\ batch # << >>
    BY <1>1 DEF DrainEvent, TypeOK, EngineType
  <2>3. Head(batch) = batch[1] /\ 1 \in 1..Len(batch)
    BY <2>2
  <2>4. cur' = cur + 1
    BY <1>0, <1>1, <2>3 DEF DrainEvent, NumberInv
  <2>5. UNCHANGED <<script_on, timers, due, panicMark, routed, phase, throttle_q, sounding, lastSent>>
    BY <1>1 DEF DrainEvent, ScriptProcess, PanicInv, control, wire
  <2>6. QuietSincePanic'
    BY <2>5 DEF QuietSincePanic, PanicInv
  <2>7. panicMark' < cur'
    BY <1>0, <2>4, <2>5
  <2>8. ~ (cur' = panicMark') /\ panicMark' <= cur'
    BY <1>0, <2>4, <2>5
  <2>. QED
    BY <2>5, <2>6, <2>8 DEF PanicInv
<1>2. CASE RouteEvent
  <2>1. UNCHANGED <<script_on, timers, due, cur, panicMark, throttle_q, sounding, lastSent, phase>>
        /\ processed # << >> /\ phase = "drain"
    BY <1>2 DEF RouteEvent, control, queues, ghost, wire
  <2>2. QuietSincePanic'
    BY <2>1 DEF QuietSincePanic, PanicInv
  <2>. QED
    BY <2>1, <2>2 DEF PanicInv
<1>3. ASSUME NEW p \in routed, Deliver(p)
      PROVE  PanicInv'
  <2>1. p \in Packets /\ p.to \in Outputs /\ p.id = cur /\ p.id > panicMark /\ phase = "drain"
    <3>1. p \in Packets /\ p.to \in Outputs /\ p.id = cur /\ phase = "drain"
      BY <1>3 DEF Deliver, TypeOK, EngineType, NumberInv, Packets
    <3>2. cur # panicMark
      BY DEF PanicInv
    <3>. QED
      BY <1>0, <3>1, <3>2
  <2>2. UNCHANGED <<script_on, timers, due, cur, panicMark, processed, phase>> /\ routed' \subseteq routed
    BY <1>3 DEF Deliver, control
  <2>3. \A o \in Outputs : \A k \in 1..Len(throttle_q'[o]) : throttle_q'[o][k].id > panicMark
    <3>1. ASSUME NEW o \in Outputs
          PROVE  \A k \in 1..Len(throttle_q'[o]) : throttle_q'[o][k].id > panicMark
      <4>1. throttle_q[o] \in Seq(Packets) /\ \A k \in 1..Len(throttle_q[o]) : throttle_q[o][k].id > panicMark
        BY <1>0 DEF PanicInv
      <4>2. \A k \in 1..Len(Enqueue(throttle_q[o], p)) : Enqueue(throttle_q[o], p)[k].id > panicMark
        BY <1>0, <2>1, <4>1, EnqueueLater
      <4>3. \/ throttle_q' = throttle_q
            \/ throttle_q' = [throttle_q EXCEPT ![p.to] = Enqueue(@, p)]
        BY <1>3 DEF Deliver
      <4>4. throttle_q'[o] = throttle_q[o] \/ throttle_q'[o] = Enqueue(throttle_q[o], p)
        BY <1>0, <4>3
      <4>. QED
        BY <4>1, <4>2, <4>4
    <3>. QED
      BY <3>1
  <2>4. QuietSincePanic'
    <3>1. CASE UNCHANGED <<sounding, lastSent>>
      BY <2>2, <3>1 DEF QuietSincePanic, PanicInv
    <3>2. CASE ~ (UNCHANGED <<sounding, lastSent>>)
      <4>1. p.to \in open_outputs /\ ~Waits(p.to)
        BY <1>3, <3>2 DEF Deliver, wire
      <4>2. PICK ok \in Answers(p.to) : Send(ok, p.to, p)
        BY <1>3, <4>1 DEF Deliver
      <4>3. ok \in BOOLEAN
        BY <4>2 DEF Answers
      <4>. QED
        BY <2>1, <2>2, <4>2, <4>3, SendQuiet DEF PanicInv
    <3>. QED
      BY <3>1, <3>2
  <2>. QED
    BY <2>1, <2>2, <2>3, <2>4 DEF PanicInv
<1>4. ASSUME NEW d \in Outputs, FlushAll(d) \/ FlushOne(d)
      PROVE  PanicInv'
  <2>1. throttle_q[d] # << >> /\ throttle_q[d] \in Seq(Packets)
    BY <1>0, <1>4 DEF FlushAll, FlushOne, PhaseInv
  <2>2. UNCHANGED <<cur, panicMark, script_on, timers, due, processed, routed, phase>>
    BY <1>4 DEF FlushAll, FlushOne, control
  <2>3. CASE throttle_q' = [throttle_q EXCEPT ![d] = Tail(@)] /\ Pop(d)
    <3>. DEFINE q == throttle_q[d]
    <3>1. /\ Head(q) = q[1] /\ 1 \in 1..Len(q)
          /\ \A k \in 1..Len(Tail(q)) : Tail(q)[k] = q[k + 1] /\ k + 1 \in 1..Len(q)
      BY <2>1
    <3>2. \A k \in 1..Len(q) : q[k].id > panicMark
      BY DEF PanicInv
    <3>3. Head(q).id > panicMark /\ \A k \in 1..Len(Tail(q)) : Tail(q)[k].id > panicMark
      BY <3>1, <3>2
    <3>4. \A o \in Outputs : throttle_q'[o] = IF o = d THEN Tail(q) ELSE throttle_q[o]
      BY <1>0, <2>3
    <3>. HIDE DEF q
    <3>5. \A o \in Outputs : \A k \in 1..Len(throttle_q'[o]) : throttle_q'[o][k].id > panicMark
      BY <3>3, <3>4 DEF PanicInv
    <3>6. PICK ok \in Answers(d) : Send(ok, d, Head(q))
      BY <2>3 DEF Pop, q
    <3>7. ok \in BOOLEAN
      BY <3>6 DEF Answers
    <3>8. QuietSincePanic'
      BY <2>2, <3>3, <3>6, <3>7, SendQuiet DEF PanicInv
    <3>. QED
      BY <2>2, <3>5, <3>8 DEF PanicInv
  <2>4. CASE ~ (throttle_q' = [throttle_q EXCEPT ![d] = Tail(@)] /\ Pop(d))
    <3>1. UNCHANGED <<throttle_q, sounding, lastSent>>
      BY <1>4, <2>4 DEF FlushAll, FlushOne, wire
    <3>. QED
      BY <2>2, <3>1, PanicKept DEF PanicInv
  <2>. QED
    BY <2>3, <2>4
<1>5. CASE TimersBegin
  <2>1. UNCHANGED <<cur, panicMark, script_on, timers, due, processed, routed, throttle_q, sounding, lastSent>>
        /\ routed = {}
    BY <1>5 DEF TimersBegin, PanicInv, PhaseInv, control, ghost, wire
  <2>. QED
    BY <2>1, PanicKept
<1>6. CASE TimerRoute \/ \E p \in routed : TimerDeliver(p)
  BY <1>6 DEF TimerRoute, TimerDeliver, PanicInv
<1>8. CASE TickBegin \/ DrainEnd \/ TickEnd
  <2>1. UNCHANGED <<cur, panicMark, script_on, timers, due, processed, routed, throttle_q, sounding, lastSent>>
        /\ phase' # "timers"
    BY <1>8 DEF TickBegin, DrainEnd, TickEnd, control, queues, ghost, wire
  <2>. QED
    BY <2>1, PanicKept
<1>9. CASE PanicNow
  <2>1. processed = << >> /\ routed = {} /\ UNCHANGED <<phase, processed, routed, due, script_on, timers, cur>>
    BY <1>9 DEF PanicNow, Uses, PhaseInv, engine
  <2>2. \A o \in Outputs : throttle_q'[o] = << >>
    BY <1>9 DEF PanicNow, ForgetQueues
  <2>3. \A o \in Outputs \ Faulty : sounding'[o] = {}
    BY <1>9 DEF PanicNow
  <2>4. panicMark' = cur' /\ cur' \in Nat
    BY <1>9 DEF PanicNow, TypeOK, GhostType
  <2>5. \A o \in Outputs : \A k \in 1..Len(throttle_q'[o]) : throttle_q'[o][k].id > panicMark'
    <3>1. Len(<< >>) = 0
      OBVIOUS
    <3>2. \A o \in Outputs : Len(throttle_q'[o]) = 0
      BY <2>2, <3>1, Zenon
    <3>. QED
      BY <3>2
  <2>6. QuietSincePanic'
    BY <2>3 DEF QuietSincePanic
  <2>. QED
    BY <2>1, <2>4, <2>5, <2>6 DEF PanicInv
<1>10. CASE OffHanging
  <2>1. \A o \in Outputs : sounding'[o] \subseteq sounding[o]
    BY <1>10 DEF OffHanging
  <2>2. UNCHANGED <<cur, panicMark, script_on, timers, due, processed, routed, phase, throttle_q, lastSent>>
    BY <1>10 DEF OffHanging, engine, control
  <2>. QED
    BY <2>1, <2>2, PanicKept DEF PanicInv
<1>11. CASE User /\ ~PanicNow /\ ~OffHanging
  <2>1. UNCHANGED <<cur, panicMark, script_on, timers, due, processed, routed, phase, throttle_q,
                    sounding, lastSent>>
    BY <1>11
    DEF User, Uses, Link, Unlink, SetMap, OpenOutput, CloseOutput, SetGap, SetMuteClock, SetScript,
        Inject, engine, queues, ghost, wire
  <2>. QED
    BY <2>1, PanicKept DEF PanicInv
<1>12. CASE \/ \E i \in Inputs, s \in Shapes : Capture(i, s)
            \/ Elapse \/ FrameBegin \/ FrameEnd \/ UNCHANGED vars
  <2>1. UNCHANGED <<cur, panicMark, script_on, timers, due, processed, routed, phase, throttle_q,
                    sounding, lastSent>>
    BY <1>12 DEF Capture, Elapse, FrameBegin, FrameEnd, vars, engine, control, queues, ghost, wire
  <2>. QED
    BY <2>1, PanicKept DEF PanicInv
<1>13. QED
  BY <1>1, <1>2, <1>3, <1>4, <1>5, <1>6, <1>8, <1>9, <1>10, <1>11, <1>12
  DEF Next, Tick, Drain, Throttle, Timers

(* A panic is final for what was drained before it: with no script, whose  *)
(* timers survive a panic, and nothing injected, an instrument whose       *)
(* driver accepts every message plays nothing after panic_now until an     *)
(* event drained later was sent to it, whatever throttle queue or message  *)
(* in mid-tick still held notes when the button was pressed.               *)
THEOREM PanicIsFinal ==
  ASSUME "script" \notin UserOps, "inject" \notin UserOps, MaxBacklog = 0
  PROVE  Spec => []QuietSincePanic
<1>1. Init => PanicInv
  <2>1. Len(<< >>) = 0
    OBVIOUS
  <2>2. Init => \A o \in Outputs : throttle_q[o] = << >>
    BY DEF Init
  <2>3. Init => \A o \in Outputs : Len(throttle_q[o]) = 0
    BY <2>1, <2>2, Zenon
  <2>. QED
    BY <2>3 DEF Init, PanicInv, QuietSincePanic
<1>2. Init => QuietInv
  BY <1>1, TypeInit, PhaseInit, NumberInit DEF QuietInv
<1>3. QuietInv /\ [Next]_vars => QuietInv'
  BY TypeStep, PhaseStep, NumberStep, PanicStep DEF QuietInv
<1>4. QuietInv => QuietSincePanic
  BY DEF QuietInv, PanicInv
<1>5. QED
  BY <1>2, <1>3, <1>4, PTL DEF Spec

-----------------------------------------------------------------------------
(* The stuck-note list                                                     *)

\* A message ends no note it starts, and starts no note it ends.
LEMMA HearParts ==
  ASSUME NEW notes, NEW more, NEW s
  PROVE  /\ Hear(notes \cup more, s) \subseteq Hear(notes, s) \cup more
         /\ notes \subseteq Hear(notes, s) \cup Ends(s)
         /\ notes \subseteq more => Hear(notes, s) \subseteq Hear(more, s)
         /\ Hear(notes, s) \subseteq notes \cup (IF s.op = "on" THEN s.notes ELSE {})
         /\ s.op = "on" => s.notes \subseteq Hear(notes, s)
BY DEF Hear, Ends

\* An empty queue leaves what plays.
LEMMA LeftEmpty ==
  ASSUME NEW playing \in SUBSET Notes
  PROVE  Left(playing, << >>) = playing
<1>1. Len(<< >>) = 0 /\ 1..0 = {}
  OBVIOUS
<1>2. 1..Len(<< >>) = {}
  BY <1>1, Zenon
<1>. QED
  BY <1>2 DEF Left, Lasts

\* What else plays at first can only be left over itself.
LEMMA LeftMore ==
  ASSUME NEW playing, NEW less, NEW more, playing \subseteq less \cup more, NEW q
  PROVE  Left(playing, q) \subseteq Left(less, q) \cup more
BY DEF Left

\* A message at the back of a queue is heard last.
LEMMA LeftAppend ==
  ASSUME NEW playing \in SUBSET Notes, NEW q \in Seq(Packets), NEW p \in Packets
  PROVE  Left(playing, Append(q, p)) \subseteq Hear(Left(playing, q), p.shape)
<1>. DEFINE r == Append(q, p)
<1>1. /\ Len(q) \in Nat /\ Len(r) = Len(q) + 1 /\ r[Len(q) + 1] = p
      /\ \A k \in 1..Len(q) : r[k] = q[k] /\ k \in 1..Len(r)
      /\ Len(q) + 1 \in 1..Len(r)
  OBVIOUS
<1>2. \A k \in 1..Len(r) : k \in 1..Len(q) \/ k = Len(q) + 1
  BY <1>1
<1>. HIDE DEF r
<1>3. SUFFICES ASSUME NEW n \in Left(playing, r)
               PROVE  n \in Hear(Left(playing, q), p.shape)
  BY DEF r
<1>4. ASSUME NEW k \in 0..Len(q), Lasts(r, n, k)
      PROVE  Lasts(q, n, k) /\ n \notin Ends(p.shape)
  <2>1. n \notin Ends(p.shape)
    <3>1. Len(q) + 1 > k
      BY <1>1, <1>4
    <3>. QED
      BY <1>1, <1>4, <3>1 DEF Lasts
  <2>2. ASSUME NEW j \in 1..Len(q), j > k
        PROVE  n \notin Ends(q[j].shape)
    BY <1>1, <1>4, <2>2 DEF Lasts
  <2>. QED
    BY <2>1, <2>2 DEF Lasts
<1>5. n \in Notes
  BY <1>3 DEF Left
<1>6. CASE n \in playing /\ Lasts(r, n, 0)
  <2>1. Lasts(q, n, 0) /\ n \notin Ends(p.shape)
    BY <1>1, <1>4, <1>6
  <2>. QED
    BY <1>5, <1>6, <2>1 DEF Left, Hear, Ends
<1>7. ASSUME NEW k \in 1..Len(r), r[k].shape.op = "on", n \in r[k].shape.notes, Lasts(r, n, k)
      PROVE  n \in Hear(Left(playing, q), p.shape)
  <2>1. CASE k \in 1..Len(q)
    <3>1. Lasts(q, n, k) /\ n \notin Ends(p.shape) /\ r[k] = q[k]
      BY <1>1, <1>4, <1>7, <2>1
    <3>2. n \in Left(playing, q)
      BY <1>5, <1>7, <2>1, <3>1 DEF Left
    <3>. QED
      BY <3>1, <3>2 DEF Hear, Ends
  <2>2. CASE k = Len(q) + 1
    BY <1>1, <1>7, <2>2 DEF Hear
  <2>. QED
    BY <1>2, <2>1, <2>2
<1>. QED
  BY <1>3, <1>6, <1>7 DEF Left

\* The head of a queue that is heard leaves as much as the whole queue.
LEMMA LeftHeard ==
  ASSUME NEW playing \in SUBSET Notes, NEW q \in Seq(Packets), q # << >>
  PROVE  Left(Hear(playing, Head(q).shape), Tail(q)) \subseteq Left(playing, q)
<1>. DEFINE r == Tail(q)
<1>1. /\ Len(q) \in Nat /\ Len(q) >= 1 /\ Len(r) = Len(q) - 1 /\ Head(q) = q[1]
      /\ \A k \in 1..Len(r) : r[k] = q[k + 1] /\ k + 1 \in 1..Len(q)
      /\ \A k \in 1..Len(q) : k = 1 \/ k - 1 \in 1..Len(r)
  OBVIOUS
<1>. HIDE DEF r
<1>2. SUFFICES ASSUME NEW n \in Left(Hear(playing, Head(q).shape), r)
               PROVE  n \in Left(playing, q)
  BY DEF r
<1>3. ASSUME NEW k \in 0..Len(r), Lasts(r, n, k)
      PROVE  Lasts(q, n, k + 1)
  <2>1. ASSUME NEW j \in 1..Len(q), j > k + 1
        PROVE  n \notin Ends(q[j].shape)
    <3>1. j - 1 \in 1..Len(r) /\ j - 1 > k /\ j = (j - 1) + 1
      BY <1>1, <2>1
    <3>2. r[j - 1] = q[j]
      BY <1>1, <3>1
    <3>. QED
      BY <1>3, <3>1, <3>2 DEF Lasts
  <2>. QED
    BY <2>1 DEF Lasts
<1>4. n \in Notes
  BY <1>2 DEF Left
<1>5. ASSUME NEW k \in 1..Len(r), r[k].shape.op = "on", n \in r[k].shape.notes, Lasts(r, n, k)
      PROVE  n \in Left(playing, q)
  <2>1. k + 1 \in 1..Len(q) /\ r[k] = q[k + 1]
    BY <1>1
  <2>2. Lasts(q, n, k + 1)
    BY <1>1, <1>3, <1>5
  <2>. QED
    BY <1>4, <1>5, <2>1, <2>2 DEF Left
<1>6. CASE n \in Hear(playing, Head(q).shape) /\ Lasts(r, n, 0)
  <2>1. Lasts(q, n, 1)
    BY <1>1, <1>3, <1>6
  <2>2. CASE Head(q).shape.op = "on" /\ n \in Head(q).shape.notes
    BY <1>1, <1>4, <2>1, <2>2 DEF Left
  <2>3. CASE n \in playing /\ n \notin Ends(Head(q).shape)
    <3>1. Lasts(q, n, 0)
      BY <1>1, <2>1, <2>3 DEF Lasts
    <3>. QED
      BY <1>4, <2>3, <3>1 DEF Left
  <2>. QED
    BY <1>6, <2>2, <2>3 DEF Hear, Ends
<1>. QED
  BY <1>2, <1>5, <1>6 DEF Left

\* The head of a queue that is lost leaves at most the notes it ends besides.
LEMMA LeftLost ==
  ASSUME NEW playing \in SUBSET Notes, NEW q \in Seq(Packets), q # << >>
  PROVE  Left(playing, Tail(q)) \subseteq Left(playing, q) \cup Ends(Head(q).shape)
<1>1. playing \subseteq Hear(playing, Head(q).shape) \cup Ends(Head(q).shape)
  BY HearParts
<1>2. Left(playing, Tail(q)) \subseteq Left(Hear(playing, Head(q).shape), Tail(q)) \cup Ends(Head(q).shape)
  BY <1>1, LeftMore
<1>. QED
  BY <1>2, LeftHeard

\* A message that waits is heard last of its queue, which may lose its head.
LEMMA LeftEnqueue ==
  ASSUME TypeOK, NEW o \in Outputs, NEW p \in Packets
  PROVE  Left(sounding[o], Enqueue(throttle_q[o], p))
           \subseteq Hear(Settled(o), p.shape) \cup Overflow(o)
<1>. DEFINE q == throttle_q[o]
<1>1. q \in Seq(Packets) /\ Len(q) \in Nat /\ QueueCap \in Nat \ {0} /\ sounding[o] \in SUBSET Notes
  BY ThruConstants DEF TypeOK, QueueType, GhostType
<1>. HIDE DEF q
<1>2. CASE Len(q) >= QueueCap
  <2>1. q # << >> /\ Tail(q) \in Seq(Packets) /\ ~ (Len(q) < QueueCap)
    BY <1>1, <1>2
  <2>2. Left(sounding[o], Append(Tail(q), p)) \subseteq Hear(Left(sounding[o], Tail(q)), p.shape)
    BY <1>1, <2>1, LeftAppend
  <2>3. Left(sounding[o], Tail(q)) \subseteq Left(sounding[o], q) \cup Ends(Head(q).shape)
    BY <1>1, <2>1, LeftLost
  <2>4. Hear(Left(sounding[o], Tail(q)), p.shape)
          \subseteq Hear(Left(sounding[o], q), p.shape) \cup Ends(Head(q).shape)
    <3>. DEFINE A == Left(sounding[o], Tail(q))
                B == Left(sounding[o], q)
                C == Ends(Head(q).shape)
    <3>1. A \subseteq B \cup C
      BY <2>3
    <3>. HIDE DEF A, B, C
    <3>2. Hear(A, p.shape) \subseteq Hear(B \cup C, p.shape)
      BY <3>1, HearParts
    <3>3. Hear(B \cup C, p.shape) \subseteq Hear(B, p.shape) \cup C
      BY HearParts
    <3>4. Hear(A, p.shape) \subseteq Hear(B, p.shape) \cup C
      BY <3>2, <3>3
    <3>. QED
      BY <3>4 DEF A, B, C
  <2>5. Enqueue(q, p) = Append(Tail(q), p)
    BY <1>2 DEF Enqueue
  <2>6. Overflow(o) = Ends(Head(q).shape)
    BY <2>1 DEF Overflow, q
  <2>7. Settled(o) = Left(sounding[o], q)
    BY DEF Settled, q
  <2>8. Left(sounding[o], Enqueue(q, p)) \subseteq Hear(Settled(o), p.shape) \cup Overflow(o)
    BY <2>2, <2>4, <2>5, <2>6, <2>7
  <2>. QED
    BY <2>8 DEF q
<1>3. CASE ~ (Len(q) >= QueueCap)
  BY <1>1, <1>3, LeftAppend DEF Enqueue, Settled, q
<1>. QED
  BY <1>2, <1>3

\* A message sent past the queue of its output is heard first, if at all.
LEMMA LeftOvertaken ==
  ASSUME TypeOK, NEW o \in Outputs, NEW ok \in BOOLEAN, NEW s \in Shapes,
         Transmit(ok, o, s), throttle_q' = throttle_q
  PROVE  Settled(o)' \subseteq Hear(Settled(o), s) \cup Overtaking(ok, o, s)
<1>. DEFINE q == throttle_q[o]
            playing == sounding[o]
<1>1. playing \in SUBSET Notes /\ sounding \in [Outputs -> SUBSET Notes]
  BY DEF TypeOK, GhostType
<1>2. sounding'[o] = IF ok THEN Hear(playing, s) ELSE playing
  BY <1>1 DEF Transmit
<1>3. Settled(o)' = Left(sounding'[o], q) /\ Settled(o) = Left(playing, q)
  BY DEF Settled
<1>. HIDE DEF q, playing
<1>4. CASE ok /\ q = << >>
  <2>1. Hear(playing, s) \in SUBSET Notes
    BY <1>1, HearType
  <2>. QED
    BY <1>1, <1>2, <1>3, <1>4, <2>1, LeftEmpty
<1>5. CASE ok /\ q # << >>
  <2>1. Overtaking(ok, o, s) = Ends(s)
    BY <1>5 DEF Overtaking, q
  <2>2. Left(Hear(playing, s), q) \subseteq Left(playing, q) \cup (IF s.op = "on" THEN s.notes ELSE {})
    BY HearParts, LeftMore
  <2>3. Left(playing, q) \subseteq Hear(Left(playing, q), s) \cup Ends(s)
    BY HearParts
  <2>4. s.op = "on" => s.notes \subseteq Hear(Left(playing, q), s)
    BY HearParts
  <2>. QED
    BY <1>2, <1>3, <1>5, <2>1, <2>2, <2>3, <2>4
<1>6. CASE ~ok
  <2>1. Overtaking(ok, o, s) = Ends(s)
    BY <1>6 DEF Overtaking
  <2>2. Left(playing, q) \subseteq Hear(Left(playing, q), s) \cup Ends(s)
    BY HearParts
  <2>. QED
    BY <1>2, <1>3, <1>6, <2>1, <2>2
<1>. QED
  BY <1>4, <1>5, <1>6

\* A message that is listed leaves every note listed or astray: its output
\* hears it but for its own cause, and the others do not hear it.
LEMMA ListedOrAstray ==
  ASSUME TypeOK, MissedForACause, NEW o \in Outputs, NEW s, NEW own,
         hang' = Track(hang, s), Stray(Listing(o, s, own)),
         Settled(o)' \subseteq Hear(Settled(o), s) \cup own,
         \A u \in Outputs \ {o} : Settled(u)' = Settled(u)
  PROVE  MissedForACause'
<1>1. hang' = Hear(hang, s) \ Capped(hang, s)
  BY DEF Track
<1>2. \A u \in Outputs : astray'[u] =
        (astray[u] \cup Capped(hang, s) \cup (IF u = o THEN own ELSE Ends(s))) \ hang'
  BY DEF Stray, Listing
<1>3. \A u \in Outputs : Settled(u) \subseteq hang \cup astray[u]
  BY DEF MissedForACause
<1>4. Settled(o)' \subseteq hang' \cup astray'[o]
  <2>1. Hear(Settled(o), s) \subseteq Hear(hang \cup astray[o], s)
    BY <1>3, HearParts
  <2>2. Hear(hang \cup astray[o], s) \subseteq Hear(hang, s) \cup astray[o]
    BY HearParts
  <2>. QED
    BY <1>1, <1>2, <2>1, <2>2
<1>5. ASSUME NEW u \in Outputs \ {o}
      PROVE  Settled(u)' \subseteq hang' \cup astray'[u]
  <2>1. hang \subseteq Hear(hang, s) \cup Ends(s)
    BY HearParts
  <2>2. Settled(u)' \subseteq hang \cup astray[u]
    BY <1>3
  <2>3. astray'[u] = (astray[u] \cup Capped(hang, s) \cup Ends(s)) \ hang'
    BY <1>2
  <2>. QED
    BY <1>1, <2>1, <2>2, <2>3
<1>. QED
  BY <1>4, <1>5 DEF MissedForACause

\* A message sent past the queue leaves every note listed or astray.
LEMMA SentPast ==
  ASSUME TypeOK, MissedForACause, NEW o \in Outputs, NEW s \in Shapes, NEW ok \in BOOLEAN,
         hang' = Track(hang, s), Transmit(ok, o, s), throttle_q' = throttle_q,
         Stray(Listing(o, s, Overtaking(ok, o, s)))
  PROVE  MissedForACause'
<1>1. Settled(o)' \subseteq Hear(Settled(o), s) \cup Overtaking(ok, o, s)
  BY LeftOvertaken
<1>2. \A u \in Outputs \ {o} : sounding'[u] = sounding[u]
  BY DEF Transmit, TypeOK, GhostType
<1>3. \A u \in Outputs \ {o} : Settled(u)' = Settled(u)
  BY <1>2 DEF Settled
<1>. QED
  BY <1>1, <1>3, ListedOrAstray

\* Nothing on the list or on a wire changes.
LEMMA MissedKept ==
  ASSUME MissedForACause, UNCHANGED <<sounding, throttle_q, hang, astray>>
  PROVE  MissedForACause'
BY DEF MissedForACause, Settled

\* Every step leaves every note listed or astray.
LEMMA MissedStep ==
  ASSUME TypeOK, PhaseInv, MissedForACause, [Next]_vars
  PROVE  MissedForACause'
<1>0. /\ sounding \in [Outputs -> SUBSET Notes]
      /\ throttle_q \in [Outputs -> Seq(Packets)]
  BY DEF TypeOK, GhostType, QueueType
<1>1. ASSUME NEW p \in routed, Deliver(p)
      PROVE  MissedForACause'
  <2>1. p \in Packets /\ p.to \in Outputs /\ p.shape \in Shapes
    BY DEF TypeOK, EngineType, Packets
  <2>2. CASE p.to \notin open_outputs
    BY <1>1, <2>2, MissedKept DEF Deliver, wire
  <2>3. CASE p.to \in open_outputs /\ Waits(p.to)
    <3>. DEFINE o == p.to
    <3>1. /\ hang' = Track(hang, p.shape) /\ sounding' = sounding
          /\ throttle_q' = [throttle_q EXCEPT ![o] = Enqueue(@, p)]
          /\ Stray(Listing(o, p.shape, Overflow(o)))
      BY <1>1, <2>3 DEF Deliver
    <3>. HIDE DEF o
    <3>2. o \in Outputs
      BY <2>1 DEF o
    <3>3. Settled(o)' = Left(sounding[o], Enqueue(throttle_q[o], p))
      BY <1>0, <3>1, <3>2 DEF Settled
    <3>4. \A u \in Outputs \ {o} : Settled(u)' = Settled(u)
      BY <1>0, <3>1 DEF Settled
    <3>5. Settled(o)' \subseteq Hear(Settled(o), p.shape) \cup Overflow(o)
      BY <2>1, <3>2, <3>3, LeftEnqueue
    <3>. QED
      BY <3>1, <3>2, <3>4, <3>5, ListedOrAstray
  <2>4. CASE p.to \in open_outputs /\ ~Waits(p.to)
    <3>1. hang' = Track(hang, p.shape) /\ throttle_q' = throttle_q
      BY <1>1, <2>4 DEF Deliver
    <3>2. PICK ok \in Answers(p.to) :
            /\ Send(ok, p.to, p)
            /\ Stray(Listing(p.to, p.shape, Overtaking(ok, p.to, p.shape)))
      BY <1>1, <2>4 DEF Deliver
    <3>3. ok \in BOOLEAN /\ Transmit(ok, p.to, p.shape)
      BY <3>2 DEF Answers, Send
    <3>. QED
      BY <2>1, <3>1, <3>2, <3>3, SentPast
  <2>. QED
    BY <2>2, <2>3, <2>4
<1>2. ASSUME NEW p \in routed, TimerDeliver(p)
      PROVE  MissedForACause'
  <2>1. p.to \in Outputs /\ p.shape \in Shapes /\ throttle_q' = throttle_q
    BY <1>2 DEF TypeOK, EngineType, Packets, TimerDeliver
  <2>2. CASE p.to \notin open_outputs
    BY <1>2, <2>1, <2>2, MissedKept DEF TimerDeliver
  <2>3. CASE p.to \in open_outputs
    <3>1. hang' = Track(hang, p.shape)
      BY <1>2, <2>3 DEF TimerDeliver
    <3>2. PICK ok \in Answers(p.to) :
            /\ Transmit(ok, p.to, p.shape)
            /\ Stray(Listing(p.to, p.shape, Overtaking(ok, p.to, p.shape)))
      BY <1>2, <2>3 DEF TimerDeliver
    <3>3. ok \in BOOLEAN
      BY <3>2 DEF Answers
    <3>. QED
      BY <2>1, <3>1, <3>2, <3>3, SentPast
  <2>. QED
    BY <2>2, <2>3
<1>3. ASSUME NEW d \in Outputs, FlushAll(d) \/ FlushOne(d)
      PROVE  MissedForACause'
  <2>1. throttle_q[d] # << >> /\ throttle_q[d] \in Seq(Packets) /\ hang' = hang
    BY <1>0, <1>3 DEF FlushAll, FlushOne, PhaseInv, Stamp, Hold
  <2>2. CASE throttle_q' = [throttle_q EXCEPT ![d] = Tail(@)] /\ Pop(d)
    <3>. DEFINE q == throttle_q[d]
                h == Head(q)
    <3>1. h \in Packets
      BY <2>1
    <3>2. PICK ok \in Answers(d) :
            /\ Send(ok, d, h)
            /\ astray' = IF ok THEN astray ELSE [astray EXCEPT ![d] = @ \cup (Ends(h.shape) \ hang)]
      BY <2>2 DEF Pop
    <3>3. q \in Seq(Packets) /\ q # << >> /\ sounding[d] \in SUBSET Notes
      BY <1>0, <2>1
    <3>4. throttle_q'[d] = Tail(q)
      BY <1>0, <2>2
    <3>9. sounding'[d] = IF ok THEN Hear(sounding[d], h.shape) ELSE sounding[d]
      BY <1>0, <3>2 DEF Send, Transmit
    <3>5. /\ Settled(d)' = Left(IF ok THEN Hear(sounding[d], h.shape) ELSE sounding[d], Tail(q))
          /\ Settled(d) = Left(sounding[d], q)
      BY <3>4, <3>9 DEF Settled
    <3>6. \A u \in Outputs \ {d} : sounding'[u] = sounding[u] /\ throttle_q'[u] = throttle_q[u]
                                   /\ astray'[u] = astray[u]
      BY <1>0, <2>2, <3>2 DEF Send, Transmit, TypeOK, GhostType
    <3>7. \A u \in Outputs \ {d} : Settled(u)' \subseteq hang' \cup astray'[u]
      BY <2>1, <3>6 DEF MissedForACause, Settled
    <3>8. Settled(d)' \subseteq hang' \cup astray'[d]
      <4>1. Settled(d) \subseteq hang \cup astray[d]
        BY DEF MissedForACause
      <4>2. CASE ok
        <5>1. Settled(d)' \subseteq Settled(d)
          BY <3>3, <3>5, <4>2, LeftHeard
        <5>. QED
          BY <2>1, <3>2, <4>1, <4>2, <5>1
      <4>3. CASE ~ok
        <5>1. Settled(d)' \subseteq Settled(d) \cup Ends(h.shape)
          BY <3>3, <3>5, <4>3, LeftLost
        <5>2. astray'[d] = astray[d] \cup (Ends(h.shape) \ hang)
          BY <3>2, <4>3 DEF TypeOK, GhostType
        <5>. QED
          BY <2>1, <4>1, <5>1, <5>2
      <4>. QED
        BY <4>2, <4>3
    <3>. QED
      BY <3>7, <3>8 DEF MissedForACause
  <2>3. CASE ~ (throttle_q' = [throttle_q EXCEPT ![d] = Tail(@)] /\ Pop(d))
    BY <1>3, <2>1, <2>3, MissedKept DEF FlushAll, FlushOne, wire
  <2>. QED
    BY <2>2, <2>3
<1>4. CASE PanicNow
  <2>1. \A o \in Outputs : throttle_q'[o] = << >>
    BY <1>4 DEF PanicNow, ForgetQueues
  <2>2. sounding' \in [Outputs -> SUBSET Notes]
    <3>1. TypeOK'
      BY <1>4, TypeUser DEF User
    <3>. QED
      BY <3>1 DEF TypeOK, GhostType
  <2>3. \A o \in Outputs : Settled(o)' = sounding'[o]
    BY <2>1, <2>2, LeftEmpty DEF Settled
  <2>4. \A o \in Outputs \ Faulty : sounding'[o] = {}
    BY <1>4 DEF PanicNow
  <2>5. \A o \in Outputs : o \in Faulty => sounding'[o] \subseteq astray'[o]
    <3>1. hang' = {} /\ Stray([o \in Outputs |-> IF o \in Faulty THEN sounding'[o] ELSE {}])
      BY <1>4 DEF PanicNow
    <3>. QED
      BY <3>1 DEF Stray
  <2>. QED
    BY <2>3, <2>4, <2>5 DEF MissedForACause
<1>5. CASE OffHanging
  <2>. DEFINE missed(r, o) == IF o \notin open_outputs THEN hang
                              ELSE IF o \in Faulty THEN r[o] ELSE {}
              stray(r) == [o \in Outputs |-> IF throttle_q[o] = << >> THEN missed(r, o) ELSE hang]
  <2>1. throttle_q' = throttle_q /\ hang' = {}
    BY <1>5 DEF OffHanging
  <2>2. PICK r \in [Faulty -> SUBSET hang] :
          /\ sounding' = [o \in Outputs |-> sounding[o] \ (hang \ missed(r, o))]
          /\ Stray(stray(r))
    BY <1>5 DEF OffHanging
  <2>3. ASSUME NEW o \in Outputs
        PROVE  Settled(o)' \subseteq hang' \cup astray'[o]
    <3>1. /\ Settled(o) \subseteq hang \cup astray[o] /\ sounding[o] \in SUBSET Notes
          /\ Settled(o) = Left(sounding[o], throttle_q[o])
          /\ Settled(o)' = Left(sounding'[o], throttle_q[o])
      BY <1>0, <2>1 DEF MissedForACause, Settled
    <3>2. sounding'[o] = sounding[o] \ (hang \ missed(r, o))
      BY <2>2
    <3>3. astray'[o] = (astray[o] \cup (IF throttle_q[o] = << >> THEN missed(r, o) ELSE hang)) \ hang'
      BY <2>2 DEF Stray
    <3>. HIDE DEF missed
    <3>4. CASE throttle_q[o] = << >>
      <4>1. Settled(o)' = sounding'[o] /\ Settled(o) = sounding[o]
        <5>1. sounding'[o] \in SUBSET Notes
          BY <3>1, <3>2
        <5>. QED
          BY <3>1, <3>4, <5>1, LeftEmpty
      <4>. QED
        BY <2>1, <3>1, <3>2, <3>3, <3>4, <4>1
    <3>5. CASE throttle_q[o] # << >>
      <4>1. sounding'[o] \subseteq sounding[o] \cup {}
        BY <3>2
      <4>2. Settled(o)' \subseteq Settled(o)
        BY <3>1, <4>1, LeftMore
      <4>. QED
        BY <2>1, <3>1, <3>3, <3>5, <4>2
    <3>. QED
      BY <3>4, <3>5
  <2>. QED
    BY <2>3 DEF MissedForACause
<1>6. ASSUME NEW o \in Outputs, NEW s \in Shapes, Inject(o, s)
      PROVE  MissedForACause'
  <2>1. hang' = Track(hang, s) /\ throttle_q' = throttle_q
    BY <1>6 DEF Inject
  <2>2. PICK ok \in BOOLEAN : Transmit(ok, o, s) /\ Stray(Listing(o, s, Overtaking(ok, o, s)))
    BY <1>6 DEF Inject
  <2>. QED
    BY <2>1, <2>2, SentPast
<1>7. CASE /\ User /\ ~PanicNow /\ ~OffHanging
           /\ \A o \in Outputs, s \in Shapes : ~Inject(o, s)
  BY <1>7, MissedKept
  DEF User, Link, Unlink, SetMap, OpenOutput, CloseOutput, SetGap, SetMuteClock, SetScript,
      queues, ghost, wire
<1>8. CASE \/ DrainEvent \/ RouteEvent \/ DrainEnd
           \/ TimersBegin \/ TimerRoute \/ TickEnd
  BY <1>8, MissedKept
  DEF DrainEvent, RouteEvent, DrainEnd, TimersBegin, TimerRoute, TickEnd, queues, ghost, wire
<1>9. CASE \/ \E i \in Inputs, s \in Shapes : Capture(i, s)
           \/ Elapse \/ TickBegin \/ FrameBegin \/ FrameEnd \/ UNCHANGED vars
  BY <1>9, MissedKept
  DEF Capture, Elapse, TickBegin, FrameBegin, FrameEnd, vars, queues, ghost, wire
<1>. QED
  BY <1>1, <1>2, <1>3, <1>4, <1>5, <1>6, <1>7, <1>8, <1>9
  DEF Next, Tick, Drain, Throttle, Timers, User

(* The one stuck-note list of all outputs: for any ports, refusing         *)
(* drivers, gaps, scripts, injected notes and user, a note that an         *)
(* instrument plays or will play once its queue has gone out is on the     *)
(* list, or one of the causes that `astray` records took it off: the cap,  *)
(* an end sent to another output, refused, lost from a full queue or past  *)
(* its queue, a panic or Off hanging that did not get through.             *)
THEOREM MissesAreExplained == Spec => []MissedForACause
<1>1. Init => MissedForACause
  <2>1. ASSUME Init, NEW o \in Outputs
        PROVE  Settled(o) = {}
    <3>1. sounding[o] = {} /\ throttle_q[o] = << >>
      BY <2>1 DEF Init
    <3>. QED
      BY <3>1, LeftEmpty DEF Settled
  <2>. QED
    BY <2>1 DEF MissedForACause
<1>2. TypeOK /\ PhaseInv /\ MissedForACause /\ [Next]_vars => (TypeOK /\ PhaseInv /\ MissedForACause)'
  BY TypeStep, PhaseStep, MissedStep
<1>. QED
  BY <1>1, <1>2, TypeInit, PhaseInit, PTL DEF Spec

-----------------------------------------------------------------------------
(* The thru gap                                                            *)

\* The engine's clock of an output never shows more than has passed since the
\* last message there: a refused send starts it again, and no send leaves it.
PaceInv ==
  /\ throttle_at \in [Outputs -> Nat] /\ quiet \in [Outputs -> Nat]
  /\ \A o \in Outputs : throttle_at[o] <= quiet[o]
  /\ throttle_ms \in Nat /\ broken = {}

\* A message that is sent when the clock shows the gap does not break it.
LEMMA SendPaced ==
  ASSUME PaceInv, NEW o \in Outputs, NEW ok \in BOOLEAN, NEW p, Send(ok, o, p), UNCHANGED throttle_ms,
         \/ throttle_ms = 0 /\ throttle_at' = throttle_at
         \/ throttle_ms <= throttle_at[o] /\ throttle_at' = [throttle_at EXCEPT ![o] = 0]
  PROVE  PaceInv'
<1>1. /\ quiet' = IF ok /\ throttle_ms > 0 THEN [quiet EXCEPT ![o] = 0] ELSE quiet
      /\ broken' = IF ok THEN broken \cup Breaks(o) ELSE broken
  BY DEF Send
<1>2. PICK gap \in Nat, at \in Nat, still \in Nat :
        gap = throttle_ms /\ at = throttle_at[o] /\ still = quiet[o] /\ at <= still
  BY DEF PaceInv
<1>3. ~ (quiet[o] < throttle_ms)
  BY <1>2
<1>4. broken' = {}
  BY <1>1, <1>3 DEF Breaks, PaceInv
<1>5. throttle_at' \in [Outputs -> Nat] /\ quiet' \in [Outputs -> Nat] /\ throttle_ms' \in Nat
  BY <1>1 DEF PaceInv
<1>6. ASSUME NEW u \in Outputs
      PROVE  throttle_at'[u] <= quiet'[u]
  <2>1. throttle_at'[u] \in {0, throttle_at[u]} /\ quiet'[u] \in {0, quiet[u]}
    BY <1>1 DEF PaceInv
  <2>2. throttle_at[u] \in Nat /\ quiet[u] \in Nat /\ throttle_at[u] <= quiet[u]
    BY DEF PaceInv
  <2>3. CASE throttle_at'[u] = 0
    BY <2>1, <2>2, <2>3
  <2>4. CASE quiet'[u] = quiet[u]
    BY <2>1, <2>2, <2>4
  <2>5. CASE throttle_at'[u] # 0 /\ quiet'[u] # quiet[u]
    BY <1>1, <2>5 DEF PaceInv
  <2>. QED
    BY <2>3, <2>4, <2>5
<1>. QED
  BY <1>4, <1>5, <1>6 DEF PaceInv

\* Every step keeps the gap.
LEMMA PaceStep ==
  ASSUME "panic" \notin UserOps, PaceInv, TypeOK, [Next]_vars
  PROVE  PaceInv'
<1>1. ASSUME NEW p \in routed, Deliver(p)
      PROVE  PaceInv'
  <2>1. p.to \in Outputs /\ throttle_ms' = throttle_ms /\ throttle_at' = throttle_at
    BY <1>1 DEF TypeOK, EngineType, Packets, Deliver, control
  <2>2. CASE UNCHANGED <<quiet, broken>>
    BY <2>1, <2>2 DEF PaceInv
  <2>3. CASE ~ (UNCHANGED <<quiet, broken>>)
    <3>3. p.to \in open_outputs /\ ~Waits(p.to)
      BY <1>1, <2>3 DEF Deliver, wire
    <3>1. PICK ok \in Answers(p.to) : Send(ok, p.to, p)
      BY <1>1, <3>3 DEF Deliver
    <3>4. ok \in BOOLEAN
      BY <3>1 DEF Answers
    <3>2. throttle_ms = 0
      BY <3>3 DEF Waits, PaceInv
    <3>. QED
      BY <2>1, <3>1, <3>2, <3>4, SendPaced
  <2>. QED
    BY <2>2, <2>3
<1>2. ASSUME NEW o \in Outputs, FlushAll(o)
      PROVE  PaceInv'
  <2>1. throttle_ms' = throttle_ms /\ throttle_ms = 0 /\ throttle_at' = throttle_at
    BY <1>2 DEF FlushAll, control
  <2>2. PICK ok \in Answers(o) : Send(ok, o, Head(throttle_q[o]))
    BY <1>2 DEF FlushAll, Pop
  <2>3. ok \in BOOLEAN
    BY <2>2 DEF Answers
  <2>. QED
    BY <2>1, <2>2, <2>3, SendPaced
<1>3. ASSUME NEW o \in Outputs, FlushOne(o)
      PROVE  PaceInv'
  <2>1. UNCHANGED throttle_ms
    BY <1>3 DEF FlushOne, control
  <2>2. CASE throttle_at[o] >= throttle_ms
    <3>1. Pop(o) /\ Stamp(o)
      BY <1>3, <2>2 DEF FlushOne
    <3>2. throttle_ms <= throttle_at[o]
      BY <2>2 DEF PaceInv
    <3>3. PICK ok \in Answers(o) : Send(ok, o, Head(throttle_q[o]))
      BY <3>1 DEF Pop
    <3>4. ok \in BOOLEAN
      BY <3>3 DEF Answers
    <3>. QED
      BY <2>1, <3>1, <3>2, <3>3, <3>4, SendPaced DEF Stamp
  <2>3. CASE ~ (throttle_at[o] >= throttle_ms)
    BY <1>3, <2>1, <2>3 DEF FlushOne, Hold, PaceInv, wire
  <2>. QED
    BY <2>2, <2>3
<1>4. CASE Elapse
  <2>1. throttle_at' = [o \in Outputs |-> Elapsed(throttle_at[o])] /\ quiet' = [o \in Outputs |-> Elapsed(quiet[o])]
    BY <1>4 DEF Elapse
  <2>2. ASSUME NEW o \in Outputs
        PROVE  Elapsed(throttle_at[o]) \in Nat /\ Elapsed(quiet[o]) \in Nat /\ Elapsed(throttle_at[o]) <= Elapsed(quiet[o])
    <3>1. PICK at \in Nat, still \in Nat : at = throttle_at[o] /\ still = quiet[o] /\ at <= still
      BY DEF PaceInv
    <3>. QED
      BY <3>1, ThruConstants DEF Elapsed
  <2>. QED
    BY <1>4, <2>1, <2>2 DEF Elapse, PaceInv, control
<1>5. CASE User
  <2>1. UNCHANGED <<throttle_at, quiet, broken>>
    BY <1>5 DEF User, Uses, Link, Unlink, SetMap, OpenOutput, CloseOutput, SetGap, SetMuteClock, SetScript,
                Inject, PanicNow, OffHanging, queues, ghost, wire
  <2>2. throttle_ms' \in Nat
    <3>1. TypeOK'
      BY <1>5, TypeUser
    <3>2. throttle_ms' \in Gaps \cup {0}
      BY <3>1 DEF TypeOK, ControlType
    <3>. QED
      BY <3>2, ThruConstants
  <2>. QED
    BY <2>1, <2>2 DEF PaceInv
<1>6. ASSUME NEW p \in routed, TimerDeliver(p)
      PROVE  PaceInv'
  BY <1>6 DEF TimerDeliver, PaceInv, control
<1>7. CASE DrainEvent \/ RouteEvent \/ DrainEnd \/ TimersBegin \/ TimerRoute \/ TickEnd
  BY <1>7 DEF DrainEvent, RouteEvent, DrainEnd, TimersBegin, TimerRoute, TickEnd,
              PaceInv, control, queues, ghost, wire
<1>9. CASE TickBegin \/ FrameBegin \/ FrameEnd
  BY <1>9 DEF TickBegin, FrameBegin, FrameEnd, PaceInv, control, queues, ghost, wire
<1>8. CASE (\E i \in Inputs, s \in Shapes : Capture(i, s)) \/ UNCHANGED vars
  BY <1>8 DEF Capture, PaceInv, vars, engine, control, queues, ghost, wire
<1>. QED
  BY <1>1, <1>2, <1>3, <1>4, <1>5, <1>6, <1>7, <1>8, <1>9 DEF Next, Tick, Drain, Throttle, Timers

(* "Thru gap": captured messages on one wire are at least the gap apart,   *)
(* though sends are refused, queues run empty and fill again, outputs      *)
(* close and open, and the gap changes, if there is no panic, which        *)
(* forgets when a message was sent (tick_throttle and its throttle_at).    *)
THEOREM GapIsKept ==
  ASSUME "panic" \notin UserOps
  PROVE  Spec => []PacedThru
<1>1. Init => PaceInv
  BY ThruConstants DEF Init, PaceInv
<1>2. TypeOK /\ PhaseInv /\ PaceInv /\ [Next]_vars => (TypeOK /\ PhaseInv /\ PaceInv)'
  BY TypeStep, PhaseStep, PaceStep
<1>3. PaceInv => PacedThru
  BY DEF PaceInv, PacedThru
<1>. QED
  BY <1>1, <1>2, <1>3, TypeInit, PhaseInit, PTL DEF Spec

=============================================================================

-------------------------- MODULE SysexThru_proofs --------------------------
(***************************************************************************)
(* Proofs about SysexThru for every number of ports, every wiring with one *)
(* source an output, and dumps of any length: as long as links, outputs    *)
(* and the librarian are only ever switched on, thru relays whole dumps.   *)
(***************************************************************************)
EXTENDS SysexThru, SequenceTheorems, TLAPS

-----------------------------------------------------------------------------
(* Dumps                                                                   *)

(* The first packets of a dump, as a sequence.                             *)
LEMMA FirstOfType ==
  ASSUME NEW d \in Nat, NEW k \in Nat, NEW n \in Nat
  PROVE  FirstOf(d, k, n) \in Seq(Packets) /\ Len(FirstOf(d, k, n)) = k
BY DEF FirstOf, Packets

(* One packet more.                                                        *)
LEMMA FirstOfAppend ==
  ASSUME NEW d \in Nat, NEW k \in Nat, NEW n \in Nat
  PROVE  Append(FirstOf(d, k, n), [dump |-> d, k |-> k + 1, of |-> n]) = FirstOf(d, k + 1, n)
<1>. DEFINE p == [dump |-> d, k |-> k + 1, of |-> n]
            s == Append(FirstOf(d, k, n), p)
<1>1. p \in Packets
  BY DEF Packets
<1>2. FirstOf(d, k, n) \in Seq(Packets) /\ Len(FirstOf(d, k, n)) = k
  BY FirstOfType
<1>3. /\ s \in Seq(Packets) /\ Len(s) = k + 1 /\ s[k + 1] = p
      /\ \A j \in 1..k : s[j] = FirstOf(d, k, n)[j]
  BY <1>1, <1>2, AppendProperties
<1>4. \A j \in 1..k : FirstOf(d, k, n)[j] = [dump |-> d, k |-> j, of |-> n]
  BY DEF FirstOf
<1>5. FirstOf(d, k + 1, n) \in Seq(Packets) /\ Len(FirstOf(d, k + 1, n)) = k + 1
  BY FirstOfType
<1>6. \A j \in 1..(k + 1) : FirstOf(d, k + 1, n)[j] = [dump |-> d, k |-> j, of |-> n]
  BY DEF FirstOf
<1>. HIDE DEF p, s
<1>7. \A j \in 1..(k + 1) : s[j] = FirstOf(d, k + 1, n)[j]
  <2>1. ASSUME NEW j \in 1..(k + 1) PROVE s[j] = FirstOf(d, k + 1, n)[j]
    <3>1. CASE j \in 1..k
      BY <1>3, <1>4, <1>6, <3>1, Zenon
    <3>2. CASE j = k + 1
      BY <1>3, <1>6, <3>2, Zenon DEF p
    <3>3. QED
      BY <3>1, <3>2
  <2>2. QED
    BY <2>1
<1>8. s = FirstOf(d, k + 1, n)
  BY <1>3, <1>5, <1>7, SeqEqual, Zenon
<1>9. QED
  BY <1>8 DEF s, p

(* A dump's first packet.                                                  *)
LEMMA FirstOfOne ==
  ASSUME NEW d \in Nat, NEW n \in Nat
  PROVE  FirstOf(d, 1, n) = <<[dump |-> d, k |-> 1, of |-> n]>>
BY DEF FirstOf

-----------------------------------------------------------------------------
(* The assembler                                                           *)

(* It takes packets to packets, and is empty whenever it is not open.      *)
LEMMA PushType ==
  ASSUME NEW a \in Assemblers, NEW p \in Packets
  PROVE  /\ Push(a, p) \in Assemblers
         /\ ~Push(a, p).open => Push(a, p) = Closed
         /\ Returned(a, p) \subseteq Seq(Packets)
<1>1. /\ <<p>> \in Seq(Packets) /\ Append(a.buf, p) \in Seq(Packets)
      /\ Closed \in Assemblers
  BY DEF Assemblers, Closed
<1>2. CASE Place(p) = "start"
  <2>1. Push(a, p) = [buf |-> <<p>>, open |-> TRUE] /\ Returned(a, p) = {}
    BY <1>2 DEF Push, Returned
  <2>2. QED
    BY <1>1, <2>1 DEF Assemblers
<1>3. CASE Place(p) = "continue" /\ a.open
  <2>1. Push(a, p) = [a EXCEPT !.buf = Append(@, p)] /\ Returned(a, p) = {}
    BY <1>3 DEF Push, Returned
  <2>2. Push(a, p) \in Assemblers /\ Push(a, p).open
    BY <1>1, <1>3, <2>1 DEF Assemblers
  <2>3. QED
    BY <2>1, <2>2
<1>4. CASE Place(p) # "start" /\ ~(Place(p) = "continue" /\ a.open)
  <2>1. Push(a, p) = Closed
    BY <1>4 DEF Push
  <2>2. Returned(a, p) \subseteq {<<p>>, Append(a.buf, p)}
    BY DEF Returned
  <2>3. QED
    BY <1>1, <2>1, <2>2
<1>5. QED
  BY <1>2, <1>3, <1>4

(* The next packet of a dump, given to an assembler that is closed or      *)
(* holds the dump so far: the dump grows, and comes out when it is whole.  *)
LEMMA PushNext ==
  ASSUME NEW a \in Assemblers, NEW s \in [dump : Nat, at : Nat, of : Nat],
         s.at < s.of, NEW p, p = [dump |-> s.dump, k |-> s.at + 1, of |-> s.of],
         a.open => s.at = 0 \/ a.buf = FirstOf(s.dump, s.at, s.of)
  PROVE  /\ Push(a, p).open =>
              s.at + 1 < s.of /\ Push(a, p).buf = FirstOf(s.dump, s.at + 1, s.of)
         /\ Returned(a, p) # {} => s.at + 1 = s.of
         /\ Returned(a, p) \subseteq {FirstOf(s.dump, s.of, s.of)}
<1>1. s.dump \in Nat /\ s.at \in Nat /\ s.of \in Nat
  OBVIOUS
<1>2. p.dump = s.dump /\ p.k = s.at + 1 /\ p.of = s.of
  OBVIOUS
<1>3. CASE s.of = 1
  <2>1. s.at = 0
    BY <1>1, <1>3
  <2>2. Place(p) = "complete"
    BY <1>2, <1>3 DEF Place
  <2>3. Push(a, p) = Closed /\ Returned(a, p) = {<<p>>}
    BY <2>2 DEF Push, Returned
  <2>4. <<p>> = FirstOf(s.dump, s.of, s.of)
    BY <1>1, <1>3, <2>1, FirstOfOne
  <2>5. QED
    BY <1>3, <2>1, <2>3, <2>4 DEF Closed
<1>4. CASE s.of > 1 /\ s.at = 0
  <2>1. Place(p) = "start"
    BY <1>2, <1>4 DEF Place
  <2>2. Push(a, p) = [buf |-> <<p>>, open |-> TRUE] /\ Returned(a, p) = {}
    BY <2>1 DEF Push, Returned
  <2>3. <<p>> = FirstOf(s.dump, s.at + 1, s.of)
    BY <1>1, <1>4, FirstOfOne
  <2>4. QED
    BY <1>1, <1>4, <2>2, <2>3
<1>5. CASE s.at > 0 /\ s.at + 1 < s.of
  <2>1. Place(p) = "continue"
    BY <1>1, <1>2, <1>5 DEF Place
  <2>2. CASE a.open
    <3>1. Push(a, p) = [a EXCEPT !.buf = Append(@, p)] /\ Returned(a, p) = {}
      BY <2>1, <2>2 DEF Push, Returned
    <3>2. a.buf = FirstOf(s.dump, s.at, s.of)
      BY <1>1, <1>5, <2>2
    <3>3. Append(a.buf, p) = FirstOf(s.dump, s.at + 1, s.of)
      BY <1>1, <3>2, FirstOfAppend
    <3>4. QED
      BY <1>5, <3>1, <3>3 DEF Assemblers
  <2>3. CASE ~a.open
    <3>1. Push(a, p) = Closed /\ Returned(a, p) = {}
      BY <2>1, <2>3 DEF Push, Returned
    <3>2. QED
      BY <3>1 DEF Closed
  <2>4. QED
    BY <2>2, <2>3
<1>6. CASE s.at > 0 /\ s.at + 1 = s.of
  <2>1. Place(p) = "end"
    BY <1>1, <1>2, <1>6 DEF Place
  <2>2. Push(a, p) = Closed
    BY <2>1 DEF Push
  <2>3. CASE a.open
    <3>1. Returned(a, p) = {Append(a.buf, p)}
      BY <2>1, <2>3 DEF Returned
    <3>2. a.buf = FirstOf(s.dump, s.at, s.of)
      BY <1>1, <1>6, <2>3
    <3>3. Append(a.buf, p) = FirstOf(s.dump, s.of, s.of)
      BY <1>1, <1>6, <3>2, FirstOfAppend
    <3>4. QED
      BY <1>6, <2>2, <3>1, <3>3 DEF Closed
  <2>4. CASE ~a.open
    <3>1. Returned(a, p) = {}
      BY <2>1, <2>4 DEF Returned
    <3>2. QED
      BY <2>2, <3>1 DEF Closed
  <2>5. QED
    BY <2>3, <2>4
<1>7. QED
  BY <1>1, <1>3, <1>4, <1>5, <1>6

-----------------------------------------------------------------------------
(* Type correctness                                                        *)

(* What an output's driver gets in one step: at most one dump more.        *)
LEMMA ForwardedType ==
  ASSUME TypeOK, NEW i \in Inputs, NEW p \in Packets, Forward(i, p)
  PROVE  /\ thru_sysex' \in [Outputs -> Assemblers]
         /\ \A o \in Outputs : ~thru_sysex'[o].open => thru_sysex'[o] = Closed
         /\ wire' \in [Outputs -> Seq(Seq(Packets))]
<1>1. thru_sysex \in [Outputs -> Assemblers] /\ wire \in [Outputs -> Seq(Seq(Packets))]
      /\ \A o \in Outputs : ~thru_sysex[o].open => thru_sysex[o] = Closed
  BY DEF TypeOK
<1>2. /\ thru_sysex' \in [Outputs -> Assemblers]
      /\ \A o \in Outputs : ~thru_sysex'[o].open => thru_sysex'[o] = Closed
  BY <1>1, PushType DEF Forward
<1>3. ASSUME NEW refused, NEW o \in Outputs, o \in Reached(i) \ refused
      PROVE  LET d == Returned(thru_sysex[Entry(o)], p)
             IN  (IF d = {} THEN wire[o] ELSE Append(wire[o], CHOOSE x \in d : TRUE)) \in Seq(Seq(Packets))
  <2>. DEFINE d == Returned(thru_sysex[Entry(o)], p)
              x == CHOOSE b \in d : TRUE
  <2>1. d \subseteq Seq(Packets)
    BY <1>1, PushType DEF Entry
  <2>. HIDE DEF d
  <2>2. d # {} => x \in Seq(Packets)
    BY <2>1
  <2>. HIDE DEF x
  <2>3. d # {} => Append(wire[o], x) \in Seq(Seq(Packets))
    BY <1>1, <2>2
  <2>4. QED
    BY <1>1, <2>3, Zenon DEF d, x
<1>4. wire' \in [Outputs -> Seq(Seq(Packets))]
  <2>1. PICK refused \in SUBSET Faulty :
           wire' = [o \in Outputs |->
             IF o \in Reached(i) \ refused
             THEN LET d == Returned(thru_sysex[Entry(o)], p)
                  IN  IF d = {} THEN wire[o] ELSE Append(wire[o], CHOOSE x \in d : TRUE)
             ELSE wire[o]]
    BY DEF Forward
  <2>2. QED
    BY <1>1, <1>3, <2>1, Zenon
<1>5. QED
  BY <1>2, <1>4

(* Every step keeps the types, whatever the controls and mishaps.          *)
LEMMA TypeStep == TypeOK /\ [Next]_vars => TypeOK'
<1>. SUFFICES ASSUME TypeOK, [Next]_vars PROVE TypeOK'
  OBVIOUS
<1>. USE DEF control, librarian, vars, Unchanging
<1>1. ASSUME NEW i \in Inputs, NEW n \in 1..MaxPackets, Begin(i, n) PROVE TypeOK'
  BY <1>1, SysexConstants DEF TypeOK, Begin
<1>2. ASSUME NEW i \in Inputs, Leaves(i)
      PROVE  /\ sending' \in [Inputs -> [dump : Nat, at : Nat, of : Nat]]
             /\ finished' \subseteq Nat /\ nextDump' = nextDump
             /\ Following(i) \in Packets
  <2>1. /\ sending[i] \in [dump : Nat, at : Nat, of : Nat]
        /\ sending[i].at + 1 \in Nat
    BY DEF TypeOK
  <2>2. sending' \in [Inputs -> [dump : Nat, at : Nat, of : Nat]] /\ nextDump' = nextDump
    BY <1>2, <2>1 DEF TypeOK, Leaves
  <2>3. finished' \subseteq Nat
    BY <1>2, <2>1 DEF TypeOK, Leaves
  <2>4. Following(i) \in Packets
    BY <2>1 DEF Following, Packets
  <2>5. QED
    BY <2>2, <2>3, <2>4
<1>3. ASSUME NEW i \in Inputs, Lose(i) PROVE TypeOK'
  BY <1>2, <1>3 DEF TypeOK, Lose
<1>4. ASSUME NEW i \in Inputs, DrainPacket(i) PROVE TypeOK'
  <2>1. /\ sending' \in [Inputs -> [dump : Nat, at : Nat, of : Nat]]
        /\ finished' \subseteq Nat /\ nextDump' = nextDump
        /\ Following(i) \in Packets
    BY <1>2, <1>4 DEF DrainPacket
  <2>2. /\ thru_sysex' \in [Outputs -> Assemblers]
        /\ \A o \in Outputs : ~thru_sysex'[o].open => thru_sysex'[o] = Closed
        /\ wire' \in [Outputs -> Seq(Seq(Packets))]
    BY <1>4, <2>1, ForwardedType DEF DrainPacket
  <2>3. /\ assembler' \in Assemblers /\ dumps' \subseteq Seq(Packets)
        /\ ~assembler'.open => assembler' = Closed
    BY <1>4, <2>1, PushType DEF DrainPacket, OnPacket, TypeOK
  <2>4. links' = links /\ open_outputs' = open_outputs /\ armed' = armed
    BY <1>4 DEF DrainPacket
  <2>5. \A a \in {thru_sysex'[o] : o \in Outputs} \cup {assembler'} : ~a.open => a = Closed
    BY <2>2, <2>3
  <2>6. QED
    BY <2>1, <2>2, <2>3, <2>4, <2>5 DEF TypeOK
<1>5. ASSUME NEW i \in Inputs, NEW o \in Outputs, Link(i, o) \/ Unlink(i, o) PROVE TypeOK'
  BY <1>5 DEF TypeOK, Link, Unlink
<1>6. ASSUME NEW b \in BOOLEAN, Arm(b) \/ (\E o \in Outputs : SetOutputOpen(o, b)) PROVE TypeOK'
  BY <1>6 DEF TypeOK, Arm, SetOutputOpen
<1>7. CASE ClearDumps
  BY <1>7 DEF TypeOK, ClearDumps, Closed, Assemblers
<1>8. CASE UNCHANGED vars
  BY <1>8 DEF TypeOK
<1>9. QED
  BY <1>1, <1>3, <1>4, <1>5, <1>6, <1>7, <1>8 DEF Next

(* The first state has the types, too.                                     *)
LEMMA TypeInit == Init => TypeOK
<1>. SUFFICES ASSUME Init PROVE TypeOK
  OBVIOUS
<1>1. Closed \in Assemblers /\ << >> \in Seq(Seq(Packets))
  BY DEF Closed, Assemblers
<1>2. thru_sysex \in [Outputs -> Assemblers] /\ wire \in [Outputs -> Seq(Seq(Packets))]
  BY <1>1 DEF Init
<1>3. \A a \in {thru_sysex[o] : o \in Outputs} \cup {assembler} : a = Closed
  BY DEF Init
<1>4. sending \in [Inputs -> [dump : Nat, at : Nat, of : Nat]]
  BY DEF Init
<1>5. links \subseteq Wiring /\ open_outputs \subseteq Outputs /\ armed \in BOOLEAN
  BY DEF Init
<1>6. assembler \in Assemblers
  BY <1>1 DEF Init
<1>7. dumps \subseteq Seq(Packets) /\ finished \subseteq Nat
  BY Zenon DEF Init
<1>8. nextDump \in Nat \ {0}
  BY DEF Init
<1>9. QED
  BY <1>2, <1>3, <1>4, <1>5, <1>6, <1>7, <1>8, Zenon DEF TypeOK

(* Assemblers, queues and ghosts keep their types, and assemblers between  *)
(* dumps hold nothing, for every instance and every mishap.                *)
THEOREM SysexTypes == Spec => []TypeOK
BY TypeInit, TypeStep, PTL DEF Spec

-----------------------------------------------------------------------------
(* Whole dumps: one source an output, and nothing taken apart in mid-dump  *)

Joined == OneSourceEach /\ UserOps \cap {"unlink", "close", "lose"} = {}

(* What one step of an instrument makes of the numbering.                  *)
LEMMA LeavesNumbers ==
  ASSUME TypeOK, SendInv, NEW i \in Inputs, Leaves(i)
  PROVE  /\ SendInv'
         /\ sending[i].dump \in 1..(nextDump - 1) /\ sending[i].dump \notin finished
         /\ sending[i].of \in 1..MaxPackets
         /\ sending'[i] = [sending[i] EXCEPT !.at = @ + 1]
         /\ \A j \in Inputs \ {i} : sending'[j] = sending[j]
<1>. DEFINE s == sending[i]
<1>1. /\ s \in [dump : Nat, at : Nat, of : Nat] /\ nextDump \in Nat
      /\ MaxPackets \in Nat /\ MaxDumps \in Nat
  BY SysexConstants DEF TypeOK
<1>2. s.at < s.of /\ s.dump > 0 /\ s.dump \notin finished /\ s.dump < nextDump /\ s.of <= MaxPackets
  BY DEF Leaves, SendInv
<1>3. s.dump \in 1..(nextDump - 1) /\ s.of \in 1..MaxPackets
  BY <1>1, <1>2
<1>4. /\ sending' = [sending EXCEPT ![i].at = s.at + 1] /\ nextDump' = nextDump
      /\ finished' = IF s.at + 1 = s.of THEN finished \cup {s.dump} ELSE finished
  BY DEF Leaves
<1>5. /\ sending'[i] = [s EXCEPT !.at = @ + 1]
      /\ \A j \in Inputs \ {i} : sending'[j] = sending[j]
  BY <1>4 DEF TypeOK
<1>6. /\ sending'[i].dump = s.dump /\ sending'[i].at = s.at + 1 /\ sending'[i].of = s.of
  BY <1>1, <1>5
<1>. HIDE DEF s
<1>7. \A j \in Inputs : sending'[j].dump = sending[j].dump
  BY <1>5, <1>6 DEF s
<1>8. finished' \subseteq 1..(nextDump' - 1)
  BY <1>3, <1>4 DEF SendInv
<1>9. ASSUME NEW j \in Inputs
      PROVE  /\ sending'[j].dump < nextDump' /\ sending'[j].at <= sending'[j].of
             /\ sending'[j].of <= MaxPackets
             /\ sending'[j].at < sending'[j].of => sending'[j].dump > 0 /\ sending'[j].dump \notin finished'
  <2>1. CASE j = i
    BY <1>1, <1>2, <1>4, <1>6, <2>1
  <2>2. CASE j # i
    <3>1. /\ sending'[j] = sending[j] /\ sending[j].dump < nextDump /\ sending[j].at <= sending[j].of
          /\ sending[j].of <= MaxPackets
          /\ sending[j].at < sending[j].of => sending[j].dump > 0 /\ sending[j].dump \notin finished
      BY <1>5, <2>2 DEF SendInv
    <3>2. sending[j].dump = s.dump => sending[j].dump = 0
      BY <2>2 DEF SendInv, s
    <3>3. sending[j].at < sending[j].of => sending[j].dump > 0 /\ sending[j].dump # s.dump
      BY <1>2, <3>1, <3>2
    <3>4. finished' \subseteq finished \cup {s.dump} /\ nextDump' = nextDump
      BY <1>4
    <3>5. sending[j].at < sending[j].of => sending[j].dump \notin finished'
      BY <3>1, <3>3, <3>4
    <3>6. QED
      BY <3>1, <3>4, <3>5
  <2>3. QED
    BY <2>1, <2>2
<1>10. SendInv'
  BY <1>4, <1>7, <1>8, <1>9 DEF SendInv
<1>11. QED
  BY <1>2, <1>3, <1>5, <1>10 DEF s

(* What the beginning of a dump makes of it.                               *)
LEMMA BeginNumbers ==
  ASSUME TypeOK, SendInv, NEW i \in Inputs, NEW n \in 1..MaxPackets, Begin(i, n)
  PROVE  SendInv'
<1>1. /\ nextDump \in Nat \ {0} /\ nextDump <= MaxDumps /\ nextDump' = nextDump + 1
      /\ sending' = [sending EXCEPT ![i] = [dump |-> nextDump, at |-> 0, of |-> n]]
      /\ sending \in [Inputs -> [dump : Nat, at : Nat, of : Nat]]
      /\ MaxPackets \in Nat /\ MaxDumps \in Nat /\ n \in Nat /\ n <= MaxPackets
      /\ finished' = finished
  BY SysexConstants DEF Begin, TypeOK
<1>2. \A j \in Inputs : sending'[j] = IF j = i THEN [dump |-> nextDump, at |-> 0, of |-> n] ELSE sending[j]
  BY <1>1
<1>3. finished \subseteq 1..(nextDump - 1) /\ nextDump \notin finished
  BY <1>1 DEF SendInv
<1>4. nextDump' <= MaxDumps + 1 /\ finished' \subseteq 1..(nextDump' - 1)
  BY <1>1, <1>3
<1>5. ASSUME NEW j \in Inputs
      PROVE  /\ sending'[j].dump < nextDump' /\ sending'[j].at <= sending'[j].of
             /\ sending'[j].of <= MaxPackets
             /\ sending'[j].at < sending'[j].of => sending'[j].dump > 0 /\ sending'[j].dump \notin finished'
  <2>1. CASE j = i
    BY <1>1, <1>2, <1>3, <2>1
  <2>2. CASE j # i
    <3>1. /\ sending[j].dump < nextDump /\ sending[j].at <= sending[j].of
          /\ sending[j].of <= MaxPackets /\ sending[j].dump \in Nat
          /\ sending[j].at < sending[j].of => sending[j].dump > 0 /\ sending[j].dump \notin finished
      BY <1>1 DEF SendInv
    <3>2. sending'[j] = sending[j]
      BY <1>2, <2>2
    <3>3. sending[j].dump < nextDump' /\ finished' = finished
      BY <1>1, <3>1
    <3>4. QED
      BY <3>1, <3>2, <3>3
  <2>3. QED
    BY <2>1, <2>2
<1>6. ASSUME NEW j \in Inputs, NEW m \in Inputs, j # m, sending'[j].dump = sending'[m].dump
      PROVE  sending'[j].dump = 0
  <2>1. \A x \in Inputs : sending[x].dump < nextDump /\ sending[x].dump \in Nat
    BY <1>1 DEF SendInv
  <2>2. j # i /\ m # i
    BY <1>1, <1>2, <1>6, <2>1
  <2>3. sending'[j] = sending[j] /\ sending'[m] = sending[m]
    BY <1>2, <2>2
  <2>4. QED
    BY <1>6, <2>3 DEF SendInv
<1>7. QED
  BY <1>4, <1>5, <1>6 DEF SendInv

(* What the thru path does with the next packet of a dump, output by       *)
(* output.                                                                 *)
LEMMA ForwardWhole ==
  ASSUME Joined, TypeOK, SendInv, HoldInv, NEW i \in Inputs, DrainPacket(i)
  PROVE  /\ HoldInv'
         /\ \E heard \in SUBSET Outputs :
              /\ heard # {} => sending[i].at + 1 = sending[i].of
              /\ wire' = [o \in Outputs |->
                   IF o \in heard
                   THEN Append(wire[o], FirstOf(sending[i].dump, sending[i].of, sending[i].of))
                   ELSE wire[o]]
<1>. DEFINE s == sending[i]  p == Following(i)  b == FirstOf(s.dump, s.of, s.of)
<1>1. /\ Leaves(i) /\ Forward(i, p) /\ links' = links /\ open_outputs' = open_outputs
      /\ s \in [dump : Nat, at : Nat, of : Nat] /\ s.at < s.of
      /\ p = [dump |-> s.dump, k |-> s.at + 1, of |-> s.of]
      /\ thru_sysex \in [Outputs -> Assemblers]
  BY DEF DrainPacket, Leaves, Following, TypeOK, control
<1>2. /\ sending'[i] = [s EXCEPT !.at = @ + 1]
      /\ \A j \in Inputs \ {i} : sending'[j] = sending[j]
  BY <1>1, LeavesNumbers
<1>3. ASSUME NEW o \in Reached(i)
      PROVE  /\ o \in Outputs /\ <<i, o>> \in links
             /\ Push(thru_sysex[o], p).open =>
                  s.at + 1 < s.of /\ Push(thru_sysex[o], p).buf = FirstOf(s.dump, s.at + 1, s.of)
             /\ Returned(thru_sysex[o], p) # {} => s.at + 1 = s.of
             /\ Returned(thru_sysex[o], p) \subseteq {b}
  <2>1. o \in Outputs /\ <<i, o>> \in links
    BY DEF Reached, TypeOK
  <2>2. thru_sysex[o].open => s.at = 0 \/ thru_sysex[o].buf = FirstOf(s.dump, s.at, s.of)
    <3>1. \A j \in Inputs : <<j, o>> \in links => j = i
      BY <2>1 DEF Joined, OneSourceEach, TypeOK
    <3>2. QED
      BY <2>1, <3>1 DEF HoldInv, HeldBy
  <2>3. thru_sysex[o] \in Assemblers
    BY <1>1, <2>1
  <2>. HIDE DEF s, p
  <2>4. /\ Push(thru_sysex[o], p).open =>
              s.at + 1 < s.of /\ Push(thru_sysex[o], p).buf = FirstOf(s.dump, s.at + 1, s.of)
        /\ Returned(thru_sysex[o], p) # {} => s.at + 1 = s.of
        /\ Returned(thru_sysex[o], p) \subseteq {b}
    BY <1>1, <2>2, <2>3, PushNext
  <2>5. QED
    BY <2>1, <2>4
<1>4. \A o \in Outputs : thru_sysex'[o] =
        IF o \in Reached(i) THEN Push(thru_sysex[o], p) ELSE thru_sysex[o]
  BY <1>1 DEF Forward, Entry
<1>5. HoldInv'
  <2>1. ASSUME NEW o \in Outputs, thru_sysex'[o].open
        PROVE  \E j \in Inputs : <<j, o>> \in links' /\ HeldBy(o, sending[j])'
    <3>1. CASE o \in Reached(i)
      <4>1. s.at + 1 < s.of /\ thru_sysex'[o].buf = FirstOf(s.dump, s.at + 1, s.of) /\ <<i, o>> \in links
        BY <1>3, <1>4, <2>1, <3>1
      <4>2. sending'[i].dump = s.dump /\ sending'[i].at = s.at + 1 /\ sending'[i].of = s.of
        BY <1>1, <1>2
      <4>3. HeldBy(o, sending[i])'
        BY <4>1, <4>2 DEF HeldBy
      <4>4. QED
        BY <1>1, <4>1, <4>3
    <3>2. CASE o \notin Reached(i)
      <4>1. thru_sysex'[o] = thru_sysex[o]
        BY <1>4, <3>2
      <4>2. PICK j \in Inputs : <<j, o>> \in links /\ HeldBy(o, sending[j])
        BY <2>1, <4>1 DEF HoldInv
      <4>3. j # i
        BY <3>2, <4>2 DEF HoldInv, Reached
      <4>4. sending'[j] = sending[j]
        BY <1>2, <4>3
      <4>5. HeldBy(o, sending[j])'
        BY <4>1, <4>2, <4>4 DEF HeldBy
      <4>6. QED
        BY <1>1, <4>2, <4>5
    <3>3. QED
      BY <3>1, <3>2
  <2>2. QED
    BY <1>1, <2>1 DEF HoldInv
<1>6. PICK refused \in SUBSET Faulty :
        wire' = [o \in Outputs |->
          IF o \in Reached(i) \ refused
          THEN LET d == Returned(thru_sysex[Entry(o)], p)
               IN  IF d = {} THEN wire[o] ELSE Append(wire[o], CHOOSE x \in d : TRUE)
          ELSE wire[o]]
  BY <1>1 DEF Forward
<1>. DEFINE heard == {o \in Reached(i) \ refused : Returned(thru_sysex[o], p) # {}}
<1>7. heard \subseteq Outputs /\ (heard # {} => s.at + 1 = s.of)
  BY <1>3
<1>8. ASSUME NEW o \in Outputs
      PROVE  (IF o \in Reached(i) \ refused
              THEN LET d == Returned(thru_sysex[Entry(o)], p)
                   IN  IF d = {} THEN wire[o] ELSE Append(wire[o], CHOOSE x \in d : TRUE)
              ELSE wire[o])
             = IF o \in heard THEN Append(wire[o], b) ELSE wire[o]
  <2>1. CASE o \in heard
    <3>1. Returned(thru_sysex[o], p) = {b}
      BY <1>3, <2>1
    <3>2. (CHOOSE x \in {b} : TRUE) = b
      OBVIOUS
    <3>3. {b} # {}
      OBVIOUS
    <3>4. o \in Reached(i) \ refused
      BY <2>1
    <3>5. Entry(o) = o
      BY DEF Entry
    <3>. HIDE DEF b, p, heard
    <3>6. (IF {b} = {} THEN wire[o] ELSE Append(wire[o], CHOOSE x \in {b} : TRUE)) = Append(wire[o], b)
      BY <3>2, <3>3, Zenon
    <3>7. QED
      BY <2>1, <3>1, <3>4, <3>5, <3>6
  <2>2. CASE o \notin heard
    BY <2>2 DEF Entry
  <2>3. QED
    BY <2>1, <2>2
<1>9. wire' = [o \in Outputs |-> IF o \in heard THEN Append(wire[o], b) ELSE wire[o]]
  <2>. HIDE DEF heard, b, p
  <2>1. QED
    BY <1>6, <1>8, Zenon
<1>10. QED
  BY <1>1, <1>5, <1>7, <1>9 DEF RelayInv

(* The dump of a whole packet sequence.                                    *)
LEMMA IdentifyWhole ==
  ASSUME TypeOK, NEW d \in 1..(nextDump - 1), NEW n \in 1..MaxPackets
  PROVE  Whole(FirstOf(d, n, n)) /\ Identify(FirstOf(d, n, n)) = d
<1>1. n \in Nat /\ d \in Nat /\ 1 \in 1..n
  BY SysexConstants DEF TypeOK
<1>2. FirstOf(d, n, n)[1] = [dump |-> d, k |-> 1, of |-> n]
  BY <1>1 DEF FirstOf
<1>3. FirstOf(d, n, n)[1].dump = d
  BY <1>2
<1>4. Whole(FirstOf(d, n, n))
  BY DEF Whole
<1>5. QED
  BY <1>3, <1>4 DEF Identify

(* Mapping a longer wire.                                                  *)
LEMMA HeardAppend ==
  ASSUME NEW w \in Seq(Seq(Packets)), NEW b \in Seq(Packets)
  PROVE  [k \in 1..Len(Append(w, b)) |-> Identify(Append(w, b)[k])]
           = Append([k \in 1..Len(w) |-> Identify(w[k])], Identify(b))
<1>. DEFINE h == [k \in 1..Len(w) |-> Identify(w[k])]
            n == Len(w)
            v == Append(w, b)
<1>1. n \in Nat /\ Len(v) = n + 1 /\ v[n + 1] = b /\ \A k \in 1..n : v[k] = w[k]
  BY AppendProperties
<1>2. Append(h, Identify(b)) = [k \in 1..(Len(h) + 1) |-> IF k = Len(h) + 1 THEN Identify(b) ELSE h[k]]
  BY <1>1
<1>3. Len(h) = n
  BY <1>1
<1>4. ASSUME NEW k \in 1..(n + 1)
      PROVE  Identify(v[k]) = IF k = n + 1 THEN Identify(b) ELSE h[k]
  <2>1. CASE k = n + 1
    BY <1>1, <2>1
  <2>2. CASE k # n + 1
    <3>1. k \in 1..n
      BY <1>1, <2>2
    <3>2. v[k] = w[k] /\ h[k] = Identify(w[k])
      BY <1>1, <3>1
    <3>3. QED
      BY <2>2, <3>2
  <2>3. QED
    BY <2>1, <2>2
<1>. HIDE DEF h, v, n
<1>5. [k \in 1..Len(v) |-> Identify(v[k])] = Append(h, Identify(b))
  BY <1>1, <1>2, <1>3, <1>4
<1>6. QED
  BY <1>5 DEF h, v, n

(* What an instrument's packet, drained or lost, does to the wires is what *)
(* the relay does when the dump is finished, and nothing before.           *)
LEMMA RelayOnPacket ==
  ASSUME RelayInv, NEW i \in Inputs, Leaves(i), NEW heard \in SUBSET Outputs,
         heard # {} => sending[i].at + 1 = sending[i].of,
         wire' = [o \in Outputs |->
           IF o \in heard
           THEN Append(wire[o], FirstOf(sending[i].dump, sending[i].of, sending[i].of))
           ELSE wire[o]]
  PROVE  ThruDumpsAreWhole' /\ (Relay!Next \/ UNCHANGED <<finished, Heard>>)
<1>. DEFINE d == sending[i].dump  n == sending[i].of  b == FirstOf(d, n, n)
<1>1. /\ d \in 1..(nextDump - 1) /\ d \notin finished /\ n \in 1..MaxPackets
  BY LeavesNumbers DEF RelayInv
<1>2. Whole(b) /\ Identify(b) = d
  BY <1>1, IdentifyWhole DEF RelayInv
<1>3. nextDump' = nextDump /\ finished' = IF sending[i].at + 1 = n THEN finished \cup {d} ELSE finished
  BY DEF Leaves
<1>4. \A x : Identify(x)' = Identify(x) /\ (Whole(x)' <=> Whole(x))
  BY <1>3 DEF Identify, Whole
<1>5. b \in Seq(Packets) /\ wire \in [Outputs -> Seq(Seq(Packets))]
  <2>1. d \in Nat /\ n \in Nat
    BY DEF RelayInv, TypeOK
  <2>2. QED
    BY <2>1, FirstOfType DEF RelayInv, TypeOK
<1>6. wire' = [o \in Outputs |-> IF o \in heard THEN Append(wire[o], b) ELSE wire[o]]
  OBVIOUS
<1>. HIDE DEF b
<1>7. ThruDumpsAreWhole'
  <2>1. ASSUME NEW o \in Outputs, NEW k \in 1..Len(wire'[o]) PROVE Whole(wire'[o][k])
    <3>1. CASE o \in heard
      <4>1. /\ wire'[o] = Append(wire[o], b) /\ Len(wire'[o]) = Len(wire[o]) + 1
            /\ wire'[o][Len(wire[o]) + 1] = b
            /\ \A m \in 1..Len(wire[o]) : wire'[o][m] = wire[o][m]
        BY <1>5, <1>6, <3>1, AppendProperties
      <4>2. k \in 1..Len(wire[o]) \/ k = Len(wire[o]) + 1
        BY <1>5, <4>1
      <4>3. \A m \in 1..Len(wire[o]) : Whole(wire[o][m])
        BY DEF RelayInv, ThruDumpsAreWhole
      <4>4. QED
        BY <1>2, <4>1, <4>2, <4>3, Zenon
    <3>2. CASE o \notin heard
      BY <1>6, <3>2 DEF RelayInv, ThruDumpsAreWhole
    <3>3. QED
      BY <3>1, <3>2
  <2>2. QED
    BY <1>4, <2>1 DEF ThruDumpsAreWhole
<1>8. Heard' = [o \in Outputs |-> IF o \in heard THEN Append(Heard[o], d) ELSE Heard[o]]
  <2>1. Heard' = [o \in Outputs |-> [k \in 1..Len(wire'[o]) |-> Identify(wire'[o][k])]]
    BY <1>4 DEF Heard
  <2>2. ASSUME NEW o \in Outputs
        PROVE  [k \in 1..Len(wire'[o]) |-> Identify(wire'[o][k])]
                 = IF o \in heard THEN Append(Heard[o], d) ELSE Heard[o]
    <3>1. Heard[o] = [k \in 1..Len(wire[o]) |-> Identify(wire[o][k])]
      BY DEF Heard
    <3>2. CASE o \in heard
      <4>1. wire'[o] = Append(wire[o], b)
        BY <1>6, <3>2
      <4>2. [k \in 1..Len(Append(wire[o], b)) |-> Identify(Append(wire[o], b)[k])]
              = Append([k \in 1..Len(wire[o]) |-> Identify(wire[o][k])], Identify(b))
        BY <1>5, HeardAppend
      <4>3. QED
        BY <1>2, <3>1, <3>2, <4>1, <4>2, Zenon
    <3>3. CASE o \notin heard
      BY <1>6, <3>1, <3>3
    <3>4. QED
      BY <3>2, <3>3
  <2>3. QED
    BY <2>1, <2>2, Zenon
<1>9. CASE sending[i].at + 1 = n
  <2>1. d \in 1..MaxDumps
    <3>1. nextDump \in Nat /\ nextDump <= MaxDumps + 1 /\ MaxDumps \in Nat
      BY SysexConstants DEF RelayInv, SendInv, TypeOK
    <3>2. QED
      BY <1>1, <3>1
  <2>2. Relay!Finish(d)
    BY <1>1, <1>3, <1>8, <1>9 DEF Relay!Finish
  <2>3. QED
    BY <1>7, <2>1, <2>2 DEF Relay!Next
<1>10. CASE sending[i].at + 1 # n
  <2>1. heard = {}
    BY <1>10
  <2>2. Heard' = Heard
    <3>1. Heard' = [o \in Outputs |-> Heard[o]]
      BY <1>8, <2>1
    <3>2. Heard = [o \in Outputs |-> Heard[o]]
      BY DEF Heard
    <3>3. QED
      BY <3>1, <3>2
  <2>3. QED
    BY <1>3, <1>7, <1>10, <2>2
<1>11. QED
  BY <1>9, <1>10

(* Every step keeps the invariant and is a step of the relay, or none.     *)
LEMMA RelayStep ==
  ASSUME Joined, RelayInv, [Next]_vars
  PROVE  RelayInv' /\ (Relay!Next \/ UNCHANGED <<finished, Heard>>)
<1>1. TypeOK'
  BY TypeStep DEF RelayInv
<1>2. ASSUME NEW i \in Inputs, NEW n \in 1..MaxPackets, Begin(i, n)
      PROVE  SendInv' /\ HoldInv' /\ ThruDumpsAreWhole' /\ UNCHANGED <<finished, Heard>>
  <2>1. /\ nextDump \in Nat \ {0} /\ nextDump <= MaxDumps /\ nextDump' = nextDump + 1
        /\ sending' = [sending EXCEPT ![i] = [dump |-> nextDump, at |-> 0, of |-> n]]
        /\ sending \in [Inputs -> [dump : Nat, at : Nat, of : Nat]]
        /\ MaxPackets \in Nat /\ MaxDumps \in Nat /\ n \in Nat /\ n <= MaxPackets
        /\ UNCHANGED <<links, open_outputs, thru_sysex, wire, finished>>
    BY <1>2, SysexConstants DEF Begin, RelayInv, TypeOK, control
  <2>2. \A j \in Inputs : sending'[j] = IF j = i THEN [dump |-> nextDump, at |-> 0, of |-> n] ELSE sending[j]
    BY <2>1
  <2>3. finished \subseteq 1..(nextDump - 1) /\ nextDump \notin finished
    BY <2>1 DEF RelayInv, SendInv
  <2>4. SendInv'
    BY <1>2, BeginNumbers DEF RelayInv
  <2>5. HoldInv'
    <3>1. ASSUME NEW o \in Outputs, NEW j \in Inputs, HeldBy(o, sending[j]) PROVE HeldBy(o, sending[j])'
      <4>1. CASE j = i
        BY <2>2, <4>1 DEF HeldBy
      <4>2. CASE j # i
        <5>1. sending'[j] = sending[j]
          BY <2>2, <4>2
        <5>2. QED
          BY <2>1, <3>1, <5>1 DEF HeldBy
      <4>3. QED
        BY <4>1, <4>2
    <3>2. QED
      BY <2>1, <3>1 DEF RelayInv, HoldInv
  <2>6. ASSUME NEW x, Whole(x) PROVE Whole(x)' /\ Identify(x)' = Identify(x)
    <3>1. 1..(nextDump - 1) \subseteq 1..(nextDump' - 1)
      BY <2>1
    <3>2. Whole(x)'
      BY <2>6, <3>1 DEF Whole
    <3>3. QED
      BY <2>6, <3>2 DEF Identify
  <2>7. ThruDumpsAreWhole'
    BY <2>1, <2>6 DEF RelayInv, ThruDumpsAreWhole
  <2>8. Heard' = Heard
    <3>1. \A o \in Outputs : \A k \in 1..Len(wire[o]) : Identify(wire[o][k])' = Identify(wire[o][k])
      BY <2>1, <2>6 DEF RelayInv, ThruDumpsAreWhole
    <3>2. QED
      BY <2>1, <3>1 DEF Heard
  <2>9. QED
    BY <2>1, <2>4, <2>5, <2>7, <2>8
<1>3. ASSUME NEW i \in Inputs, DrainPacket(i)
      PROVE  SendInv' /\ HoldInv' /\ ThruDumpsAreWhole' /\ (Relay!Next \/ UNCHANGED <<finished, Heard>>)
  <2>1. Leaves(i)
    BY <1>3 DEF DrainPacket
  <2>2. SendInv'
    BY <2>1, LeavesNumbers DEF RelayInv
  <2>3. HoldInv'
    BY <1>3, ForwardWhole DEF RelayInv
  <2>4. PICK heard \in SUBSET Outputs :
          /\ heard # {} => sending[i].at + 1 = sending[i].of
          /\ wire' = [o \in Outputs |->
               IF o \in heard
               THEN Append(wire[o], FirstOf(sending[i].dump, sending[i].of, sending[i].of))
               ELSE wire[o]]
    BY <1>3, ForwardWhole DEF RelayInv
  <2>5. ThruDumpsAreWhole' /\ (Relay!Next \/ UNCHANGED <<finished, Heard>>)
    BY <2>1, <2>4, RelayOnPacket
  <2>6. QED
    BY <2>2, <2>3, <2>5
<1>4. ASSUME UNCHANGED <<sending, thru_sysex, wire, nextDump, finished>>,
             links \subseteq links', open_outputs \subseteq open_outputs',
             \A i \in Inputs, o \in Outputs : <<i, o>> \in links' => o \in open_outputs'
      PROVE  SendInv' /\ HoldInv' /\ ThruDumpsAreWhole' /\ UNCHANGED <<finished, Heard>>
  <2>1. SendInv'
    BY <1>4 DEF RelayInv, SendInv
  <2>2. HoldInv'
    BY <1>4 DEF RelayInv, HoldInv, HeldBy
  <2>3. ThruDumpsAreWhole' /\ UNCHANGED <<finished, Heard>>
    BY <1>4 DEF RelayInv, ThruDumpsAreWhole, Heard, Whole, Identify
  <2>4. QED
    BY <2>1, <2>2, <2>3
<1>5. ASSUME NEW i \in Inputs, NEW o \in Outputs, Link(i, o)
      PROVE  SendInv' /\ HoldInv' /\ ThruDumpsAreWhole' /\ UNCHANGED <<finished, Heard>>
  <2>1. /\ UNCHANGED <<sending, thru_sysex, wire, nextDump, finished>>
        /\ links' = links \cup {<<i, o>>} /\ open_outputs' = open_outputs \cup {o}
    BY <1>5 DEF Link, Unchanging
  <2>2. \A j \in Inputs, q \in Outputs : <<j, q>> \in links => q \in open_outputs
    BY DEF RelayInv, HoldInv
  <2>3. QED
    BY <1>4, <2>1, <2>2
<1>6. ASSUME \/ \E b \in BOOLEAN : Arm(b)
             \/ ClearDumps
             \/ UNCHANGED vars
      PROVE  SendInv' /\ HoldInv' /\ ThruDumpsAreWhole' /\ UNCHANGED <<finished, Heard>>
  <2>1. UNCHANGED <<sending, thru_sysex, wire, nextDump, finished, links, open_outputs>>
    BY <1>6 DEF Arm, ClearDumps, Unchanging, control, vars
  <2>2. \A j \in Inputs, q \in Outputs : <<j, q>> \in links => q \in open_outputs
    BY DEF RelayInv, HoldInv
  <2>3. QED
    BY <1>4, <2>1, <2>2
<1>7. /\ \A i \in Inputs : ~Lose(i)
      /\ \A i \in Inputs, o \in Outputs : ~Unlink(i, o)
  BY DEF Joined, Lose, Unlink
<1>8. CASE \E i \in Inputs : (\E n \in 1..MaxPackets : Begin(i, n)) \/ Lose(i) \/ DrainPacket(i)
  BY <1>1, <1>2, <1>3, <1>7, <1>8 DEF RelayInv
<1>9. CASE \E i \in Inputs, o \in Outputs : Link(i, o) \/ Unlink(i, o)
  BY <1>1, <1>5, <1>7, <1>9 DEF RelayInv
<1>10. CASE \E b \in BOOLEAN : Arm(b) \/ \E o \in Outputs : SetOutputOpen(o, b)
  <2>1. PICK b \in BOOLEAN : Arm(b) \/ \E o \in Outputs : SetOutputOpen(o, b)
    BY <1>10
  <2>2. Arm(b)
    BY <2>1 DEF Joined, SetOutputOpen
  <2>3. QED
    BY <1>1, <1>6, <2>2 DEF RelayInv
<1>11. CASE ClearDumps \/ UNCHANGED vars
  BY <1>1, <1>6, <1>11 DEF RelayInv
<1>12. QED
  BY <1>8, <1>9, <1>10, <1>11 DEF Next

(* The first state has the invariant, and is the relay's first state.      *)
LEMMA RelayInit == Init => RelayInv /\ Relay!Init
<1>. SUFFICES ASSUME Init PROVE RelayInv /\ Relay!Init
  OBVIOUS
<1>1. TypeOK
  BY TypeInit
<1>2. SendInv
  BY SysexConstants DEF Init, SendInv
<1>3. HoldInv
  BY DEF Init, HoldInv, Closed
<1>4. \A o \in Outputs : wire[o] = << >> /\ Len(wire[o]) = 0
  BY DEF Init
<1>5. ThruDumpsAreWhole
  BY <1>4 DEF ThruDumpsAreWhole
<1>6. Heard = [o \in Outputs |-> << >>]
  BY <1>4 DEF Heard
<1>7. Relay!Init
  BY <1>6 DEF Relay!Init, Init
<1>8. QED
  BY <1>1, <1>2, <1>3, <1>5, <1>7 DEF RelayInv

(* With one source an output, and nothing switched off or lost in          *)
(* mid-dump, whatever thru sends is a dump an instrument sent, whole.      *)
THEOREM ThruForwardsWholeDumps ==
  ASSUME Joined
  PROVE  Spec => []ThruDumpsAreWhole
<1>1. RelayInv /\ [Next]_vars => RelayInv'
  BY RelayStep
<1>2. RelayInv => ThruDumpsAreWhole
  BY DEF RelayInv
<1>3. QED
  BY RelayInit, <1>1, <1>2, PTL DEF Spec

(* Then the engine's thru path implements the relay of whole dumps: each   *)
(* at once, at most once, in the order in which they were finished.        *)
THEOREM ThruRelaysDumps ==
  ASSUME Joined
  PROVE  Spec => RelaysDumps
<1>1. RelayInv /\ [Next]_vars => RelayInv' /\ [Relay!Next]_<<finished, Heard>>
  BY RelayStep
<1>2. Init => RelayInv /\ Relay!Init
  BY RelayInit
<1>3. QED
  BY <1>1, <1>2, PTL DEF Spec, RelaysDumps, Relay!Spec

-----------------------------------------------------------------------------
(* Framed dumps, whatever goes wrong                                       *)

(* A dump in the making: a start and nothing but continues.                *)
Opened(b) == Len(b) > 0 /\ Place(b[1]) = "start" /\ \A k \in 2..Len(b) : Place(b[k]) = "continue"

FrameInv ==
  /\ TypeOK /\ DumpsAreFramed
  /\ \A o \in Outputs : thru_sysex[o].open => Opened(thru_sysex[o].buf)
  /\ assembler.open => Opened(assembler.buf)

(* An assembler that is open holds such a one, and what it returns is      *)
(* framed.                                                                 *)
LEMMA PushFrames ==
  ASSUME NEW a \in Assemblers, NEW p \in Packets, a.open => Opened(a.buf)
  PROVE  /\ Push(a, p).open => Opened(Push(a, p).buf)
         /\ \A b \in Returned(a, p) : Framed(b)
<1>. DEFINE n == Len(a.buf)
<1>1. /\ a.buf \in Seq(Packets) /\ n \in Nat /\ Len(Append(a.buf, p)) = n + 1
      /\ Append(a.buf, p)[n + 1] = p /\ \A k \in 1..n : Append(a.buf, p)[k] = a.buf[k]
  BY AppendProperties DEF Assemblers
<1>2. CASE Place(p) = "start"
  <2>1. Push(a, p).buf = <<p>> /\ Returned(a, p) = {}
    BY <1>2 DEF Push, Returned
  <2>2. QED
    BY <1>2, <2>1 DEF Opened
<1>3. CASE Place(p) = "continue" /\ a.open
  <2>1. Push(a, p).buf = Append(a.buf, p) /\ Returned(a, p) = {}
    BY <1>3 DEF Push, Returned, Assemblers
  <2>2. Opened(Append(a.buf, p))
    <3>1. Opened(a.buf)
      BY <1>3
    <3>2. QED
      BY <1>1, <1>3, <3>1 DEF Opened
  <2>3. QED
    BY <2>1, <2>2
<1>4. CASE Place(p) = "end" /\ a.open
  <2>1. ~Push(a, p).open /\ Returned(a, p) = {Append(a.buf, p)}
    BY <1>4 DEF Push, Returned, Closed
  <2>2. Opened(a.buf)
    BY <1>4
  <2>3. Framed(Append(a.buf, p))
    BY <1>1, <1>4, <2>2 DEF Opened, Framed
  <2>4. QED
    BY <2>1, <2>3
<1>5. CASE Place(p) = "complete"
  <2>1. ~Push(a, p).open /\ Returned(a, p) = {<<p>>}
    BY <1>5 DEF Push, Returned, Closed
  <2>2. Framed(<<p>>)
    BY <1>5 DEF Framed
  <2>3. QED
    BY <2>1, <2>2
<1>6. CASE ~a.open /\ Place(p) \in {"continue", "end"}
  <2>1. ~Push(a, p).open /\ Returned(a, p) = {}
    BY <1>6 DEF Push, Returned, Closed
  <2>2. QED
    BY <2>1
<1>7. QED
  BY <1>2, <1>3, <1>4, <1>5, <1>6 DEF Place

(* What an output's driver gets: what it had, and perhaps a framed dump.   *)
LEMMA ForwardFrames ==
  ASSUME FrameInv, NEW i \in Inputs, NEW p \in Packets, Forward(i, p), NEW o \in Outputs
  PROVE  /\ thru_sysex'[o].open => Opened(thru_sysex'[o].buf)
         /\ \A k \in 1..Len(wire'[o]) : Framed(wire'[o][k])
<1>1. /\ thru_sysex[o] \in Assemblers /\ wire[o] \in Seq(Seq(Packets))
      /\ \A k \in 1..Len(wire[o]) : Framed(wire[o][k])
  BY DEF FrameInv, TypeOK, DumpsAreFramed
<1>2. /\ Push(thru_sysex[o], p).open => Opened(Push(thru_sysex[o], p).buf)
      /\ \A b \in Returned(thru_sysex[o], p) : Framed(b)
      /\ Returned(thru_sysex[o], p) \subseteq Seq(Packets)
  BY <1>1, PushFrames, PushType DEF FrameInv
<1>3. thru_sysex'[o] \in {Push(thru_sysex[o], p), thru_sysex[o]}
  BY DEF Forward
<1>. DEFINE d == Returned(thru_sysex[o], p)
            x == CHOOSE b \in d : TRUE
<1>4. wire'[o] = wire[o] \/ (d # {} /\ wire'[o] = Append(wire[o], x))
  BY DEF Forward, Entry
<1>5. d # {} => x \in d
  <2>. HIDE DEF d
  <2>1. QED
    OBVIOUS
<1>. HIDE DEF d, x
<1>6. CASE d # {} /\ wire'[o] = Append(wire[o], x)
  <2>1. Framed(x) /\ x \in Seq(Packets)
    BY <1>2, <1>5, <1>6 DEF d
  <2>2. /\ Len(wire'[o]) = Len(wire[o]) + 1 /\ wire'[o][Len(wire[o]) + 1] = x
        /\ \A k \in 1..Len(wire[o]) : wire'[o][k] = wire[o][k]
    BY <1>1, <1>6, <2>1, AppendProperties
  <2>3. \A k \in 1..Len(wire'[o]) : k \in 1..Len(wire[o]) \/ k = Len(wire[o]) + 1
    BY <1>1, <2>2
  <2>4. QED
    BY <1>1, <1>2, <1>3, <2>1, <2>2, <2>3 DEF FrameInv
<1>7. QED
  BY <1>1, <1>2, <1>3, <1>4, <1>6 DEF FrameInv

LEMMA FrameStep == FrameInv /\ [Next]_vars => FrameInv'
<1>. SUFFICES ASSUME FrameInv, [Next]_vars PROVE FrameInv'
  OBVIOUS
<1>1. TypeOK /\ TypeOK'
  BY TypeStep DEF FrameInv
<1>2. CASE \E i \in Inputs : DrainPacket(i)
  <2>1. PICK i \in Inputs : DrainPacket(i)
    BY <1>2
  <2>2. Following(i) \in Packets /\ Forward(i, Following(i)) /\ OnPacket(Following(i))
    <3>1. sending[i] \in [dump : Nat, at : Nat, of : Nat]
      BY <1>1 DEF TypeOK
    <3>2. QED
      BY <2>1, <3>1 DEF Following, Packets, DrainPacket
  <2>3. assembler'.open => Opened(assembler'.buf)
    BY <1>1, <2>2, PushFrames DEF OnPacket, librarian, FrameInv, TypeOK
  <2>4. \A b \in dumps' : Framed(b)
    BY <1>1, <2>2, PushFrames DEF OnPacket, librarian, FrameInv, TypeOK, DumpsAreFramed
  <2>5. QED
    BY <1>1, <2>2, <2>3, <2>4, ForwardFrames DEF FrameInv, DumpsAreFramed
<1>3. CASE UNCHANGED <<thru_sysex, wire, assembler, dumps>>
  BY <1>1, <1>3 DEF FrameInv, DumpsAreFramed
<1>4. CASE ClearDumps
  BY <1>1, <1>4 DEF ClearDumps, FrameInv, DumpsAreFramed, Closed, Unchanging
<1>5. QED
  BY <1>2, <1>3, <1>4
     DEF Next, vars, Begin, Lose, Link, Unlink, Arm, SetOutputOpen, control, librarian, Unchanging

(* Whatever is cut off, lost, merged, closed or disarmed in the middle, and *)
(* whatever drivers refuse, every dump that is sent or kept begins with a  *)
(* start and ends with an end (SysexAssembler::push).                      *)
THEOREM DumpsKeepFrames == Spec => []DumpsAreFramed
<1>1. Init => FrameInv
  BY TypeInit DEF Init, FrameInv, DumpsAreFramed, Closed
<1>2. FrameInv => DumpsAreFramed
  BY DEF FrameInv
<1>3. QED
  BY <1>1, <1>2, FrameStep, PTL DEF Spec
-----------------------------------------------------------------------------
(* The librarian's dumps, when it is armed for good and no packet is lost  *)

Mixed(b) == \E j, k \in 1..Len(b) : b[j].dump # b[k].dump

(* The packets so far of one dump that is still being sent, or was cut off *)
(* there, or packets of two dumps that met in the one assembler.           *)
Partial(b) ==
  \E d \in 1..(nextDump - 1), n \in 1..MaxPackets, k \in Nat \ {0} :
    /\ k < n /\ b = FirstOf(d, k, n)
    /\ \A i \in Inputs : sending[i].dump = d => sending[i].at = k /\ sending[i].of = n

KeepInv ==
  /\ TypeOK /\ SendInv /\ LibrarianDumpsAreWhole
  /\ ~armed => assembler = Closed
  /\ assembler.open => Partial(assembler.buf) \/ Mixed(assembler.buf)

(* Packets of two dumps stay so, and a dump with another's packet mixes.   *)
LEMMA MixedAppend ==
  ASSUME NEW b \in Seq(Packets), NEW p \in Packets,
         Mixed(b) \/ (Len(b) > 0 /\ b[1].dump # p.dump)
  PROVE  Mixed(Append(b, p))
<1>. DEFINE c == Append(b, p)
<1>1. /\ Len(b) \in Nat /\ Len(c) = Len(b) + 1 /\ c[Len(b) + 1] = p
      /\ \A k \in 1..Len(b) : c[k] = b[k]
  BY AppendProperties
<1>. HIDE DEF c
<1>2. CASE Mixed(b)
  <2>1. PICK j, k \in 1..Len(b) : b[j].dump # b[k].dump
    BY <1>2 DEF Mixed
  <2>2. j \in 1..Len(c) /\ k \in 1..Len(c) /\ c[j].dump # c[k].dump
    BY <1>1, <2>1
  <2>3. Mixed(c)
    BY <2>2 DEF Mixed
  <2>4. QED
    BY <2>3 DEF c
<1>3. CASE Len(b) > 0 /\ b[1].dump # p.dump
  <2>1. 1 \in 1..Len(c) /\ Len(b) + 1 \in 1..Len(c) /\ c[1].dump # c[Len(b) + 1].dump
    BY <1>1, <1>3
  <2>2. Mixed(c)
    BY <2>1 DEF Mixed
  <2>3. QED
    BY <2>2 DEF c
<1>4. QED
  BY <1>2, <1>3

(* A packet that leaves an instrument, in the librarian's open assembler.  *)
LEMMA AppendPartial ==
  ASSUME KeepInv, NEW i \in Inputs, Leaves(i), NEW b \in Seq(Packets), Partial(b) \/ Mixed(b),
         NEW c, c = Append(b, Following(i))
  PROVE  \/ Mixed(c)
         \/ /\ sending[i].at > 0
            /\ c = FirstOf(sending[i].dump, sending[i].at + 1, sending[i].of)
<1>. DEFINE s == sending[i]
<1>1. /\ s \in [dump : Nat, at : Nat, of : Nat] /\ Following(i) \in Packets
      /\ Following(i) = [dump |-> s.dump, k |-> s.at + 1, of |-> s.of]
  BY DEF KeepInv, TypeOK, Following, Packets
<1>2. CASE Mixed(b)
  BY <1>1, <1>2, MixedAppend
<1>3. CASE Partial(b)
  <2>1. PICK d \in 1..(nextDump - 1), n \in 1..MaxPackets, k \in Nat \ {0} :
          /\ b = FirstOf(d, k, n)
          /\ s.dump = d => s.at = k /\ s.of = n
    BY <1>3 DEF Partial
  <2>2. d \in Nat /\ n \in Nat
    BY DEF KeepInv, TypeOK
  <2>3. Len(b) = k /\ b[1].dump = d
    BY <2>1, <2>2, FirstOfType DEF FirstOf
  <2>4. CASE s.dump = d
    BY <1>1, <2>1, <2>2, <2>4, FirstOfAppend
  <2>5. CASE s.dump # d
    BY <1>1, <2>3, <2>5, MixedAppend
  <2>6. QED
    BY <2>4, <2>5
<1>4. QED
  BY <1>2, <1>3

(* What the assembler makes of it: part of a dump, a whole one, or a mix.  *)
LEMMA PushKeeps ==
  ASSUME KeepInv, NEW i \in Inputs, Leaves(i), NEW a, a = Push(assembler, Following(i))
  PROVE  /\ a.open => Partial(a.buf)' \/ Mixed(a.buf)
         /\ \A b \in Returned(assembler, Following(i)) : Whole(b) \/ Mixed(b)
<1>. DEFINE s == sending[i]
            p == Following(i)
<1>1. /\ s \in [dump : Nat, at : Nat, of : Nat] /\ nextDump \in Nat
      /\ assembler.buf \in Seq(Packets) /\ MaxPackets \in Nat
      /\ p = [dump |-> s.dump, k |-> s.at + 1, of |-> s.of]
  BY SysexConstants DEF KeepInv, TypeOK, Following, Assemblers
<1>2. /\ s.dump \in 1..(nextDump - 1) /\ s.of \in 1..MaxPackets /\ s.at < s.of
      /\ sending'[i] = [s EXCEPT !.at = @ + 1] /\ nextDump' = nextDump
      /\ \A j \in Inputs \ {i} : sending'[j] = sending[j]
  BY LeavesNumbers DEF KeepInv, Leaves
<1>3. ASSUME s.at + 1 < s.of, NEW b, b = FirstOf(s.dump, s.at + 1, s.of) PROVE Partial(b)'
  <2>1. \A j \in Inputs \ {i} : sending'[j].dump # s.dump
    BY <1>1, <1>2 DEF KeepInv, SendInv
  <2>2. sending'[i].at = s.at + 1 /\ sending'[i].of = s.of
    BY <1>1, <1>2
  <2>3. \A j \in Inputs : sending'[j].dump = s.dump => sending'[j].at = s.at + 1 /\ sending'[j].of = s.of
    BY <2>1, <2>2
  <2>4. s.at + 1 \in Nat \ {0} /\ s.dump \in 1..(nextDump' - 1)
    BY <1>1, <1>2
  <2>. HIDE DEF s
  <2>5. PICK d \in 1..(nextDump' - 1), n \in 1..MaxPackets, k \in Nat \ {0} :
          d = s.dump /\ n = s.of /\ k = s.at + 1
    BY <1>2, <2>4
  <2>6. k < n /\ b = FirstOf(d, k, n)
    BY <1>3, <2>5
  <2>7. QED
    BY <2>3, <2>5, <2>6 DEF Partial
<1>4. Whole(FirstOf(s.dump, s.of, s.of))
  BY <1>2 DEF Whole
<1>5. CASE Place(p) = "start"
  <2>1. a.buf = <<p>> /\ Returned(assembler, p) = {}
    BY <1>5 DEF Push, Returned
  <2>2. s.at = 0 /\ s.of > 1
    BY <1>1, <1>5 DEF Place
  <2>3. a.buf = FirstOf(s.dump, s.at + 1, s.of)
    <3>1. s.at + 1 = 1 /\ p = [dump |-> s.dump, k |-> 1, of |-> s.of]
      BY <1>1, <2>2
    <3>2. <<p>> = FirstOf(s.dump, 1, s.of)
      BY <1>1, <3>1, FirstOfOne
    <3>3. QED
      BY <2>1, <3>1, <3>2
  <2>4. s.at + 1 < s.of
    BY <2>2
  <2>. HIDE DEF s, p
  <2>5. Partial(a.buf)'
    BY <1>3, <2>3, <2>4
  <2>6. QED
    BY <2>1, <2>5 DEF p
<1>6. CASE Place(p) = "continue" /\ assembler.open
  <2>1. a.buf = Append(assembler.buf, p) /\ Returned(assembler, p) = {}
    BY <1>6 DEF Push, Returned, KeepInv, TypeOK, Assemblers
  <2>2. s.at > 0 => s.at + 1 < s.of
    BY <1>1, <1>2, <1>6 DEF Place
  <2>3. \/ Mixed(a.buf)
        \/ s.at > 0 /\ a.buf = FirstOf(s.dump, s.at + 1, s.of)
    BY <1>1, <1>6, <2>1, AppendPartial DEF KeepInv
  <2>. HIDE DEF s, p
  <2>4. Partial(a.buf)' \/ Mixed(a.buf)
    BY <1>3, <2>2, <2>3
  <2>5. QED
    BY <2>1, <2>4 DEF p
<1>7. CASE Place(p) = "end" /\ assembler.open
  <2>1. ~a.open /\ Returned(assembler, p) = {Append(assembler.buf, p)}
    BY <1>7 DEF Push, Returned, Closed
  <2>2. s.at + 1 = s.of
    BY <1>1, <1>7 DEF Place
  <2>3. QED
    BY <1>1, <1>4, <1>7, <2>1, <2>2, AppendPartial DEF KeepInv
<1>8. CASE Place(p) = "complete"
  <2>1. ~a.open /\ Returned(assembler, p) = {<<p>>}
    BY <1>8 DEF Push, Returned, Closed
  <2>2. s.at = 0 /\ s.of = 1
    BY <1>1, <1>2, <1>8 DEF Place
  <2>3. <<p>> = FirstOf(s.dump, s.of, s.of)
    BY <1>1, <2>2, FirstOfOne
  <2>4. QED
    BY <1>4, <2>1, <2>3
<1>9. CASE ~assembler.open /\ Place(p) \in {"continue", "end"}
  <2>1. ~a.open /\ Returned(assembler, p) = {}
    BY <1>9 DEF Push, Returned, Closed
  <2>2. QED
    BY <2>1
<1>10. Place(p) \in {"start", "continue", "end", "complete"}
  BY DEF Place
<1>11. QED
  BY <1>5, <1>6, <1>7, <1>8, <1>9, <1>10

LEMMA KeepStep ==
  ASSUME UserOps \cap {"lose", "disarm"} = {}, KeepInv, [Next]_vars
  PROVE  KeepInv'
<1>1. TypeOK /\ TypeOK' /\ nextDump \in Nat
  BY TypeStep DEF KeepInv, TypeOK
<1>2. CASE \E i \in Inputs, n \in 1..MaxPackets : Begin(i, n)
  <2>1. PICK i \in Inputs, n \in 1..MaxPackets : Begin(i, n)
    BY <1>2
  <2>2. SendInv' /\ nextDump' = nextDump + 1
    BY <2>1, BeginNumbers DEF KeepInv, Begin
  <2>3. UNCHANGED <<armed, assembler, dumps>>
    BY <2>1 DEF Begin, control, librarian
  <2>4. ASSUME NEW b, Partial(b) PROVE Partial(b)'
    <3>1. PICK d \in 1..(nextDump - 1), n1 \in 1..MaxPackets, k \in Nat \ {0} :
            /\ k < n1 /\ b = FirstOf(d, k, n1)
            /\ \A j \in Inputs : sending[j].dump = d => sending[j].at = k /\ sending[j].of = n1
      BY <2>4 DEF Partial
    <3>2. d \in 1..(nextDump' - 1) /\ d # nextDump
      BY <1>1, <2>2
    <3>3. \A j \in Inputs : sending'[j].dump = d => sending'[j] = sending[j]
      BY <1>1, <2>1, <3>2 DEF Begin, TypeOK
    <3>4. QED
      BY <3>1, <3>2, <3>3 DEF Partial, FirstOf
  <2>5. \A b : Whole(b) => Whole(b)'
    BY <1>1, <2>2 DEF Whole, FirstOf
  <2>6. QED
    BY <1>1, <2>2, <2>3, <2>4, <2>5 DEF KeepInv, LibrarianDumpsAreWhole, Mixed
<1>3. CASE \E i \in Inputs : DrainPacket(i)
  <2>1. PICK i \in Inputs : Leaves(i) /\ OnPacket(Following(i)) /\ armed' = armed
    BY <1>3 DEF DrainPacket, control
  <2>2. SendInv' /\ nextDump' = nextDump
    BY <2>1, LeavesNumbers DEF KeepInv, Leaves
  <2>3. \A b : Whole(b)' = Whole(b)
    BY <2>2 DEF Whole, FirstOf
  <2>4. CASE armed
    <3>1. PICK a : a = Push(assembler, Following(i))
      OBVIOUS
    <3>2. assembler' = a /\ dumps' = dumps \cup Returned(assembler, Following(i))
      BY <2>1, <2>4, <3>1 DEF OnPacket
    <3>3. /\ a.open => Partial(a.buf)' \/ Mixed(a.buf)
          /\ \A b \in Returned(assembler, Following(i)) : Whole(b) \/ Mixed(b)
      BY <2>1, <3>1, PushKeeps
    <3>4. \A b \in dumps' : Whole(b) \/ Mixed(b)
      BY <3>2, <3>3 DEF KeepInv, LibrarianDumpsAreWhole, Mixed
    <3>5. LibrarianDumpsAreWhole'
      BY <2>3, <3>4 DEF LibrarianDumpsAreWhole, Mixed
    <3>6. (assembler.open => Partial(assembler.buf) \/ Mixed(assembler.buf))'
      BY <3>2, <3>3 DEF Partial, Mixed
    <3>7. QED
      BY <1>1, <2>1, <2>2, <2>4, <3>5, <3>6 DEF KeepInv
  <2>5. CASE ~armed
    <3>1. assembler' = Closed /\ dumps' = dumps /\ ~assembler'.open
      BY <2>1, <2>5 DEF OnPacket, librarian, KeepInv, Closed
    <3>2. QED
      BY <1>1, <2>2, <2>3, <3>1 DEF KeepInv, LibrarianDumpsAreWhole
  <2>6. QED
    BY <2>4, <2>5
<1>4. CASE ClearDumps
  BY <1>1, <1>4 DEF ClearDumps, Unchanging, control, Closed, KeepInv, SendInv, LibrarianDumpsAreWhole
<1>5. CASE /\ UNCHANGED <<sending, nextDump, finished, assembler, dumps>>
           /\ armed' # armed => armed'
  BY <1>1, <1>5 DEF KeepInv, SendInv, LibrarianDumpsAreWhole, Whole, Partial
<1>6. /\ \A i \in Inputs : ~Lose(i)
      /\ \A b \in BOOLEAN : Arm(b) => b
  BY DEF Lose, Arm
<1>7. QED
  BY <1>2, <1>3, <1>4, <1>5, <1>6
     DEF Next, vars, Link, Unlink, Arm, SetOutputOpen, control, librarian, Unchanging

(* Armed for good, with no packet lost, the librarian keeps whole dumps:   *)
(* armed or cleared in mid-dump, with links, outputs and drivers as they   *)
(* may, and dumps cut off; only two that overlap are mixed.                *)
THEOREM LibrarianKeepsWholeDumps ==
  ASSUME UserOps \cap {"lose", "disarm"} = {}
  PROVE  Spec => []LibrarianDumpsAreWhole
<1>1. Init => KeepInv
  BY TypeInit, SysexConstants DEF Init, KeepInv, SendInv, LibrarianDumpsAreWhole, Closed
<1>2. KeepInv /\ [Next]_vars => KeepInv'
  BY KeepStep
<1>3. KeepInv => LibrarianDumpsAreWhole
  BY DEF KeepInv
<1>4. QED
  BY <1>1, <1>2, <1>3, PTL DEF Spec
=============================================================================

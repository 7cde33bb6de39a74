------------------------- MODULE Midi1Parser_proofs -------------------------
(***************************************************************************)
(* Proofs about Midi1Parser for every packet size, every cap, every set of *)
(* data bytes and every byte stream.                                       *)
(***************************************************************************)
EXTENDS Midi1Parser, SequenceTheorems, TLAPS

-----------------------------------------------------------------------------
(* What is pending is what completes the emitted part.                     *)
LEMMA PendingFacts ==
  ASSUME NEW s \in Payloads, NEW n \in 0..Len(s)
  PROVE  /\ SubSeq(s, n + 1, Len(s)) \in Payloads
         /\ Len(SubSeq(s, n + 1, Len(s))) = Len(s) - n
         /\ SubSeq(s, 1, n) \in Payloads /\ Len(SubSeq(s, 1, n)) = n
         /\ SubSeq(s, 1, n) \o SubSeq(s, n + 1, Len(s)) = s
<1>1. Len(s) \in Nat /\ n \in Nat /\ n <= Len(s)
  BY DEF Payloads
<1>2. SubSeq(s, 1, n) \in Payloads /\ Len(SubSeq(s, 1, n)) = n
  BY <1>1 DEF Payloads
<1>3. SubSeq(s, n + 1, Len(s)) \in Payloads /\ Len(SubSeq(s, n + 1, Len(s))) = Len(s) - n
  BY <1>1 DEF Payloads
<1>4. SubSeq(s, 1, n) \o SubSeq(s, n + 1, Len(s)) = SubSeq(s, 1, Len(s))
  <2>1. s \in Seq(DataBytes) /\ 1 \in 1..Len(s)+1 /\ n \in (1-1)..Len(s) /\ Len(s) \in n..Len(s)
    BY <1>1 DEF Payloads
  <2>2. QED
    BY <2>1, ConcatAdjacentSubSeq, Zenon
<1>5. SubSeq(s, 1, Len(s)) = s
  BY SubSeqFull DEF Payloads
<1>6. QED
  BY <1>2, <1>3, <1>4, <1>5

(* A full packet more keeps the emitted count a number of packets.         *)
LEMMA NextPacket ==
  ASSUME NEW n \in Nat, n = 0 \/ FillsPackets(n)
  PROVE  FillsPackets(n + Chunk)
<1>1. Chunk \in Nat /\ Chunk > 0
  BY ParserConstants
<1>2. CASE n = 0
  <2>1. 1 \in 1..(n + Chunk) /\ n + Chunk = 1 * Chunk
    BY <1>1, <1>2
  <2>2. QED
    BY <2>1 DEF FillsPackets
<1>3. CASE FillsPackets(n)
  <2>1. PICK k \in 1..n : n = k * Chunk
    BY <1>3 DEF FillsPackets
  <2>2. k + 1 \in 1..(n + Chunk)
    BY <1>1
  <2>3. n + Chunk = (k + 1) * Chunk
    BY <1>1, <2>1
  <2>4. QED
    BY <2>2, <2>3 DEF FillsPackets
<1>4. QED
  BY <1>2, <1>3

(* The packet that ends a dump, if there is one, completes it in the       *)
(* assembler; there is none exactly when the dump fills its packets.       *)
LEMMA EndedCompletes ==
  ASSUME TypeOK, InStep, in_sysex
  PROVE  \/ /\ Ended = << >> /\ FillsPackets(Len(payload))
         \/ /\ Ended = <<Head(Ended)>> /\ Head(Ended).type = "sysex7"
            /\ Accept(Head(Ended)) => dump' = payload /\ buf' = << >> /\ open' = FALSE
<1>1. /\ sysex \in Payloads /\ emitted \in 0..Len(sysex) /\ sysex = payload
      /\ Len(sysex) \in Nat /\ emitted \in Nat
  BY DEF TypeOK, InStep, Payloads
<1>2. /\ Pending \in Payloads /\ Len(Pending) = Len(sysex) - emitted
      /\ SubSeq(sysex, 1, emitted) \o Pending = sysex
  BY <1>1, PendingFacts DEF Pending
<1>3. CASE emitted = 0
  <2>1. Pending = sysex
    BY <1>1, <1>3, SubSeqFull DEF Pending, Payloads
  <2>2. Ended = <<Sysex7("complete", sysex)>>
    BY <1>3, <2>1 DEF Ended
  <2>3. QED
    BY <1>1, <2>2 DEF Sysex7, Accept
<1>4. CASE emitted # 0 /\ Pending # << >>
  <2>1. Ended = <<Sysex7("end", Pending)>>
    BY <1>4 DEF Ended
  <2>2. open /\ buf = SubSeq(sysex, 1, emitted)
    BY <1>1, <1>4 DEF InStep
  <2>3. Accept(Sysex7("end", Pending)) => dump' = buf \o Pending /\ buf' = << >> /\ open' = FALSE
    BY <2>2 DEF Accept, Sysex7
  <2>4. QED
    BY <1>1, <1>2, <2>1, <2>2, <2>3 DEF Sysex7
<1>5. CASE emitted # 0 /\ Pending = << >>
  <2>1. Ended = << >>
    BY <1>5 DEF Ended
  <2>2. Len(Pending) = 0
    BY <1>5, EmptySeq
  <2>3. Len(payload) = emitted
    BY <1>1, <1>2, <2>2
  <2>4. FillsPackets(emitted)
    BY <1>1, <1>5 DEF InStep
  <2>5. QED
    BY <2>1, <2>3, <2>4
<1>6. QED
  BY <1>3, <1>4, <1>5

-----------------------------------------------------------------------------
(* One byte                                                                *)

(* No dump is returned, and none was due.                                  *)
LEMMA NothingDue ==
  ASSUME Assemble(out'), sent' = None,
         out' = << >> \/ \E s \in Statuses, d \in Payloads : out' = <<Short(s, d)>>
  PROVE  /\ dump' = None /\ buf' = buf /\ open' = open
         /\ NoCorruptDump' /\ UnevenDumpsArrive'
<1>1. ASSUME NEW s, NEW d, out' = <<Short(s, d)>>
      PROVE  Head(out') = Short(s, d) /\ Short(s, d).type # "sysex7"
  BY <1>1 DEF Short
<1>2. dump' = None /\ buf' = buf /\ open' = open
  BY <1>1 DEF Assemble
<1>3. QED
  BY <1>2 DEF NoCorruptDump, UnevenDumpsArrive

(* The byte that ends a dump has it returned, unless it fills its packets; *)
(* what the same byte says besides does not matter.                        *)
LEMMA DumpDue ==
  ASSUME TypeOK, InStep, in_sysex, Assemble(out'), sent' = payload,
         out' = Ended \/ \E s \in Statuses, d \in Payloads : out' = Ended \o <<Short(s, d)>>
  PROVE  NoCorruptDump' /\ UnevenDumpsArrive' /\ dump' \in {None, payload}
         /\ buf' \in {<< >>, buf} /\ open' \in BOOLEAN
<1>1. payload # None
  BY DEF InStep
<1>2. CASE Ended = << >> /\ FillsPackets(Len(payload))
  <2>1. out' = << >> \/ \E s \in Statuses, d \in Payloads : out' = <<Short(s, d)>>
    BY <1>2, ConcatEmptySeq
  <2>2. ASSUME NEW s, NEW d, out' = <<Short(s, d)>>
        PROVE  Head(out') = Short(s, d) /\ Short(s, d).type # "sysex7"
    BY <2>2 DEF Short
  <2>3. dump' = None /\ buf' = buf /\ open' = open
    BY <2>1, <2>2 DEF Assemble
  <2>4. QED
    BY <1>2, <2>3 DEF NoCorruptDump, UnevenDumpsArrive, TypeOK
<1>3. CASE /\ Ended = <<Head(Ended)>> /\ Head(Ended).type = "sysex7"
           /\ Accept(Head(Ended)) => dump' = payload /\ buf' = << >> /\ open' = FALSE
  <2>. DEFINE p == Head(Ended)
  <2>1. ASSUME NEW s, NEW d, out' = <<p>> \o <<Short(s, d)>>
        PROVE  out' # << >> /\ Head(out') = p
    BY <2>1
  <2>2. out' # << >> /\ Head(out') = p
    <3>1. Ended = <<p>>
      BY <1>3
    <3>. HIDE DEF p
    <3>2. out' = <<p>> \/ \E s \in Statuses, d \in Payloads : out' = <<p>> \o <<Short(s, d)>>
      BY <3>1, Zenon
    <3>3. CASE out' = <<p>>
      BY <3>3
    <3>4. QED
      BY <2>1, <3>2, <3>3, Zenon
  <2>3. Accept(p)
    BY <1>3, <2>2 DEF Assemble
  <2>4. dump' = payload /\ buf' = << >> /\ open' = FALSE
    BY <1>3, <2>3
  <2>5. QED
    BY <2>4 DEF NoCorruptDump, UnevenDumpsArrive
<1>4. QED
  BY <1>2, <1>3, EndedCompletes

(* One more payload byte: the assembler has all but a part of a packet.    *)
LEMMA ByteAssembled ==
  ASSUME TypeOK, InStep, NEW b \in DataBytes, SysexByte(b), Assemble(out'),
         payload' = Append(payload, b), sent' = None
  PROVE  InStep' /\ NoCorruptDump' /\ UnevenDumpsArrive'
         /\ dump' = None /\ buf' \in Payloads /\ open' \in BOOLEAN
         /\ sysex' \in Payloads /\ Len(sysex') = Len(sysex) + 1 /\ emitted' \in 0..Len(sysex')
<1>. DEFINE pending == Append(Pending, b)
<1>1. /\ in_sysex /\ in_sysex' /\ sysex \in Payloads /\ emitted \in 0..Len(sysex)
      /\ sysex = payload /\ Len(sysex) - emitted < Chunk /\ Len(sysex) \in Nat /\ emitted \in Nat
      /\ Chunk \in Nat /\ Chunk > 0
  BY ParserConstants DEF TypeOK, InStep, SysexByte, Payloads
<1>2. /\ Pending \in Payloads /\ Len(Pending) = Len(sysex) - emitted
      /\ SubSeq(sysex, 1, emitted) \in Payloads
      /\ SubSeq(sysex, 1, emitted) \o Pending = sysex
  BY <1>1, PendingFacts DEF Pending
<1>3. /\ sysex' = Append(sysex, b) /\ sysex' \in Payloads /\ Len(sysex') = Len(sysex) + 1
      /\ payload' = sysex' /\ payload' # None
  <2>1. Append(sysex, b) \in Payloads /\ Len(Append(sysex, b)) = Len(sysex) + 1
    BY <1>1 DEF Payloads
  <2>2. QED
    BY <1>1, <2>1, ParserConstants DEF SysexByte, Grow, Payloads
<1>4. pending \in Payloads /\ Len(pending) = Len(Pending) + 1
  BY <1>2 DEF Payloads
<1>5. SubSeq(sysex, 1, emitted) \o pending = sysex'
  <2>1. /\ SubSeq(sysex, 1, emitted) \in Seq(DataBytes) /\ Pending \in Seq(DataBytes)
        /\ <<b>> \in Seq(DataBytes) /\ sysex \in Seq(DataBytes)
    BY <1>1, <1>2 DEF Payloads
  <2>2. pending = Pending \o <<b>> /\ Append(sysex, b) = sysex \o <<b>>
    BY <2>1, AppendIsConcat
  <2>3. (SubSeq(sysex, 1, emitted) \o Pending) \o <<b>> = SubSeq(sysex, 1, emitted) \o (Pending \o <<b>>)
    <3>1. ASSUME NEW u \in Seq(DataBytes), NEW v \in Seq(DataBytes), NEW w \in Seq(DataBytes)
          PROVE  (u \o v) \o w = u \o (v \o w)
      BY SMTT(20), ConcatAssociative
    <3>2. QED
      BY <2>1, <3>1, Zenon
  <2>4. QED
    BY <1>2, <1>3, <2>2, <2>3, Zenon
<1>6. dump' = None => NoCorruptDump' /\ UnevenDumpsArrive'
  BY DEF NoCorruptDump, UnevenDumpsArrive
<1>g. IF Len(pending) < Chunk
      THEN out' = << >> /\ emitted' = emitted
      ELSE /\ out' = <<Sysex7(IF emitted = 0 THEN "start" ELSE "continue", pending)>>
           /\ emitted' = Len(sysex')
  BY DEF SysexByte, Grow
<1>. HIDE DEF pending
<1>7. CASE Len(pending) < Chunk
  <2>1. out' = << >> /\ emitted' = emitted
    BY <1>7, <1>g
  <2>2. dump' = None /\ buf' = buf /\ open' = open
    BY <2>1 DEF Assemble
  <2>3. emitted > 0 => buf' = SubSeq(sysex', 1, emitted)
    <3>1. SubSeq(sysex', 1, emitted) = SubSeq(sysex, 1, emitted)
      BY <1>1, <1>3 DEF Payloads
    <3>2. QED
      BY <1>1, <2>2, <3>1 DEF InStep
  <2>4. Len(sysex') - emitted' < Chunk
    <3>1. (Len(sysex) + 1) - emitted = (Len(sysex) - emitted) + 1
      BY <1>1
    <3>2. Len(sysex') - emitted' = Len(pending)
      BY <1>2, <1>3, <1>4, <2>1, <3>1, Zenon
    <3>3. QED
      BY <1>7, <3>2, Zenon
  <2>5. emitted' > 0 => open' /\ FillsPackets(emitted')
    BY <1>1, <2>1, <2>2 DEF InStep
  <2>6. InStep'
    BY <1>1, <1>3, <2>1, <2>3, <2>4, <2>5 DEF InStep
  <2>7. QED
    BY <1>1, <1>3, <1>6, <2>1, <2>2, <2>6 DEF TypeOK
<1>8. CASE ~(Len(pending) < Chunk)
  <2>1. emitted' = Len(sysex') /\ Len(sysex') = emitted + Chunk
    <3>1. Len(pending) = (Len(sysex) - emitted) + 1
      BY <1>2, <1>4, Zenon
    <3>2. (Len(sysex) - emitted) + 1 = Chunk
      BY <1>1, <1>8, <3>1
    <3>3. Len(sysex) + 1 = emitted + Chunk
      BY <1>1, <3>2
    <3>4. QED
      BY <1>3, <1>8, <1>g, <3>3, Zenon
  <2>2. FillsPackets(emitted')
    <3>1. emitted = 0 \/ FillsPackets(emitted)
      BY <1>1 DEF InStep
    <3>2. FillsPackets(emitted + Chunk)
      BY <1>1, <3>1, NextPacket
    <3>3. QED
      BY <2>1, <3>2, Zenon
  <2>3. SubSeq(sysex', 1, emitted') = sysex'
    BY <1>3, <2>1, SubSeqFull DEF Payloads
  <2>4. dump' = None /\ open' /\ buf' = sysex'
    <3>. DEFINE p == Sysex7(IF emitted = 0 THEN "start" ELSE "continue", pending)
    <3>1. /\ p.type = "sysex7" /\ p.bytes = pending
          /\ p.status = IF emitted = 0 THEN "start" ELSE "continue"
      BY DEF Sysex7
    <3>2. out' = <<p>>
      BY <1>8, <1>g
    <3>. HIDE DEF p
    <3>3. Head(out') = p /\ out' # << >>
      BY <3>2
    <3>4. Accept(p)
      BY <3>1, <3>3 DEF Assemble
    <3>5. CASE emitted = 0
      <4>1. Pending = sysex
        BY <1>1, <3>5, SubSeqFull DEF Pending, Payloads
      <4>2. pending = sysex'
        BY <1>3, <4>1 DEF pending
      <4>3. QED
        BY <3>1, <3>4, <3>5, <4>2 DEF Accept, Start
    <3>6. CASE emitted # 0
      <4>1. open /\ buf = SubSeq(sysex, 1, emitted)
        BY <1>1, <3>6 DEF InStep
      <4>2. dump' = None /\ open' = open /\ buf' = buf \o pending
        BY <3>1, <3>4, <3>6, <4>1 DEF Accept
      <4>3. QED
        BY <1>5, <4>1, <4>2, Zenon
    <3>7. QED
      BY <3>5, <3>6
  <2>5. Len(sysex') - emitted' < Chunk
    BY <1>1, <1>3, <2>1
  <2>6. InStep'
    BY <1>1, <1>3, <2>1, <2>2, <2>3, <2>4, <2>5 DEF InStep
  <2>7. QED
    BY <1>1, <1>3, <1>6, <2>1, <2>4, <2>6
<1>9. QED
  BY <1>7, <1>8

-----------------------------------------------------------------------------
(* One step                                                                *)

(* The rest of the parser's fields keep their types.                       *)
ShortType ==
  /\ running_status \in Channel \cup {None}
  /\ current \in Channel \cup System \cup {None}
  /\ data \in Payloads /\ Len(data) <= 1 /\ need \in 0..2

\* No bytes are a payload, and not None.
LEMMA EmptyPayload ==
  << >> \in Payloads /\ Len(<< >>) = 0 /\ (None # << >>) /\ None \notin Payloads
<1>1. << >> \in Seq(DataBytes) /\ Len(<< >>) = 0
  OBVIOUS
<1>2. QED
  BY <1>1, ParserConstants DEF Payloads

(* What a byte outside SysEx leaves in the fields of the short messages.   *)
LEMMA DataShort ==
  ASSUME TypeOK, NEW b \in DataBytes, OnData(b)
  PROVE  /\ ShortType' /\ UNCHANGED <<sysex, emitted, in_sysex>>
         /\ out' = << >> \/ \E s \in Statuses, d \in Payloads : out' = <<Short(s, d)>>
<1>1. /\ running_status \in Channel \cup {None} /\ current \in Channel \cup System \cup {None}
      /\ data \in Payloads /\ Len(data) <= 1 /\ Len(data) \in Nat /\ need \in 0..2
  BY DEF TypeOK, Payloads
<1>2. CASE Status = None
  BY <1>1, <1>2 DEF OnData, ShortType, parser
<1>3. CASE Status # None
  <2>. DEFINE n == IF need = 0 THEN data_len[Status] ELSE need
              d == Append(data, b)
  <2>1. Status \in Channel \cup System
    BY <1>1, <1>3 DEF Status
  <2>2. n \in 0..2
    BY <1>1, <2>1 DEF data_len
  <2>3. d \in Payloads /\ Len(d) = Len(data) + 1
    BY <1>1 DEF Payloads
  <2>4. /\ UNCHANGED <<running_status, sysex, emitted, in_sysex>>
        /\ IF Len(d) < n
           THEN data' = d /\ need' = n /\ out' = << >> /\ UNCHANGED current
           ELSE /\ data' = << >> /\ out' = <<Short(Status, d)>>
                /\ IF Status \in System THEN current' = None /\ need' = 0
                   ELSE current' = running_status /\ need' = n
    BY <1>3 DEF OnData
  <2>. HIDE DEF n, d
  <2>5. CASE Len(d) < n
    BY <1>1, <2>2, <2>3, <2>4, <2>5 DEF ShortType
  <2>6. CASE ~(Len(d) < n)
    <3>1. ShortType'
      BY <1>1, <2>2, <2>4, <2>6, EmptyPayload DEF ShortType
    <3>2. Status \in Statuses
      BY <2>1 DEF Statuses
    <3>3. QED
      BY <2>3, <2>4, <2>6, <3>1, <3>2, Zenon
  <2>7. QED
    BY <2>5, <2>6
<1>4. QED
  BY <1>2, <1>3

(* A status byte outside SysEx data: what it leaves in those fields.       *)
LEMMA StatusShort ==
  ASSUME TypeOK, NEW b, OnReset(b) \/ SysexStart(b) \/ OnStatus(b)
  PROVE  ShortType' /\ sysex' = << >> /\ emitted' = 0
<1>1. CASE OnReset(b)
  BY <1>1, EmptyPayload DEF OnReset, LeaveSysex, ShortType
<1>2. CASE SysexStart(b)
  BY <1>2, EmptyPayload DEF SysexStart, ShortType
<1>3. CASE OnStatus(b)
  <2>1. data_len[b] \in 0..2 /\ b \in Channel \cup System
    BY <1>3 DEF OnStatus, data_len
  <2>2. QED
    BY <1>3, <2>1, EmptyPayload DEF OnStatus, LeaveSysex, ShortType
<1>4. QED
  BY <1>1, <1>2, <1>3

(* The framing of the stream, byte kind by byte kind.                      *)
LEMMA Framing ==
  ASSUME NEW b \in Bytes, Observe(b), TypeOK
  PROVE  /\ b = "F0" => payload' = << >> /\ sent' = payload
         /\ b \in RealTime => payload' = payload /\ sent' = None
         /\ b = "FF" => payload' = None /\ sent' = None
         /\ b \in Channel \cup System => payload' = None /\ sent' = payload
         /\ b \in DataBytes /\ payload = None => payload' = None /\ sent' = None
         /\ b \in DataBytes /\ payload # None /\ Len(payload) < SysexCap =>
              payload' = Append(payload, b) /\ sent' = None
         /\ b \in DataBytes /\ payload # None /\ ~(Len(payload) < SysexCap) =>
              payload' = None /\ sent' = payload
<1>1. DataBytes \cap Statuses = {}
  BY ParserConstants
<1>2. b = "F0" => payload' = << >>
  <2>1. "F0" \in Statuses /\ "F0" \notin RealTime
    BY DEF Statuses, RealTime
  <2>2. QED
    BY <1>1, <2>1 DEF Observe
<1>3. b \in RealTime => payload' = payload
  <2>1. b \in RealTime => b # "F0" /\ b \notin DataBytes
    BY <1>1 DEF Statuses, RealTime
  <2>2. QED
    BY <2>1 DEF Observe
<1>4. b \in Channel \cup System \cup {"FF"} => payload' = None
  BY <1>1 DEF Observe, Statuses, Channel, System, RealTime
<1>5. b \in DataBytes => b # "F0" /\ b \notin RealTime /\ b # "FF"
  BY <1>1 DEF Statuses
<1>6. b \in DataBytes /\ payload # None /\ Len(payload) < SysexCap => payload' = Append(payload, b)
  BY <1>5 DEF Observe
<1>7. b \in DataBytes /\ ~(payload # None /\ Len(payload) < SysexCap) => payload' = None
  BY <1>5 DEF Observe
<1>8. payload \in Payloads => (Append(payload, b) # None /\ Append(payload, b) # << >>) \/ b \notin DataBytes
  <2>1. payload \in Payloads /\ b \in DataBytes =>
          Append(payload, b) \in Payloads /\ Len(Append(payload, b)) # 0
    BY DEF Payloads
  <2>2. QED
    BY <2>1, EmptyPayload, Zenon
<1>9. sent' = IF payload # None /\ b \notin RealTime \cup {"FF"} /\ payload' \in {None, << >>}
              THEN payload ELSE None
  BY DEF Observe
<1>10. payload \in Payloads \cup {None}
  BY DEF TypeOK
<1>11. b \in Channel \cup System \cup {"F0"} => b \notin RealTime \cup {"FF"}
  BY DEF Channel, System, RealTime
<1>12. QED
  BY <1>2, <1>3, <1>4, <1>5, <1>6, <1>7, <1>8, <1>9, <1>10, <1>11, Zenon

(* Every byte keeps the types and the step the assembler is in with the    *)
(* parser, and returns what it should.                                     *)
LEMMA ByteStep ==
  ASSUME TypeOK, InStep, NEW b \in Bytes, PushByte(b)
  PROVE  TypeOK' /\ InStep' /\ NoCorruptDump' /\ UnevenDumpsArrive'
<1>1. Parse(b) /\ Assemble(out') /\ Observe(b)
  BY DEF PushByte
<1>2. payload \in Payloads \cup {None} /\ (in_sysex <=> payload # None)
  BY DEF TypeOK, InStep
<1>3. ShortType /\ sysex \in Payloads /\ Len(sysex) <= SysexCap /\ emitted \in 0..Len(sysex)
      /\ buf \in Payloads /\ open \in BOOLEAN /\ in_sysex \in BOOLEAN
  BY DEF TypeOK, ShortType
(* What remains of the two invariants once a dump's fields are settled.    *)
<1>4. ASSUME ShortType', sysex' = << >>, emitted' = 0, in_sysex' \in BOOLEAN,
             payload' = IF in_sysex' THEN << >> ELSE None, sent' \in Payloads \cup {None},
             buf' \in Payloads, open' \in BOOLEAN, dump' \in Payloads \cup {None}
      PROVE  TypeOK' /\ InStep'
  <2>1. SysexCap \in Nat /\ Chunk \in Nat /\ Chunk > 0
    BY ParserConstants
  <2>2. Len(sysex') = 0 /\ sysex' \in Payloads
    BY <1>4, EmptyPayload, Zenon
  <2>3. TypeOK'
    BY <1>4, <2>1, <2>2, EmptyPayload DEF TypeOK, ShortType
  <2>4. InStep'
    BY <1>4, <2>1, <2>2, EmptyPayload DEF InStep
  <2>5. QED
    BY <2>3, <2>4
<1>5. ASSUME ShortType', UNCHANGED <<sysex, emitted, in_sysex>>, payload' = payload, sent' = None,
             out' = << >> \/ \E s \in Statuses, d \in Payloads : out' = <<Short(s, d)>>
      PROVE  TypeOK' /\ InStep' /\ NoCorruptDump' /\ UnevenDumpsArrive'
  <2>1. /\ dump' = None /\ buf' = buf /\ open' = open
        /\ NoCorruptDump' /\ UnevenDumpsArrive'
    BY <1>1, <1>5, NothingDue
  <2>2. TypeOK'
    BY <1>2, <1>3, <1>5, <2>1 DEF TypeOK, ShortType
  <2>3. InStep'
    BY <1>5, <2>1 DEF InStep
  <2>4. QED
    BY <2>1, <2>2, <2>3
<1>6. CASE OnRealTime(b)
  <2>1. payload' = payload /\ sent' = None
    BY <1>1, <1>6, Framing DEF OnRealTime
  <2>2. out' = <<Short(b, << >>)>> /\ b \in Statuses /\ UNCHANGED parser
    BY <1>6 DEF OnRealTime, Statuses
  <2>3. out' = << >> \/ \E s \in Statuses, d \in Payloads : out' = <<Short(s, d)>>
    BY <2>2, EmptyPayload, Zenon
  <2>4. ShortType' /\ UNCHANGED <<sysex, emitted, in_sysex>>
    BY <1>3, <2>2 DEF ShortType, parser
  <2>5. QED
    BY <1>5, <2>1, <2>3, <2>4
<1>7. CASE OnReset(b)
  <2>1. payload' = None /\ sent' = None
    BY <1>1, <1>7, Framing DEF OnReset
  <2>2. out' = <<Short(b, << >>)>> /\ b \in Statuses /\ in_sysex' = FALSE
    BY <1>7 DEF OnReset, LeaveSysex, Statuses
  <2>3. out' = << >> \/ \E s \in Statuses, d \in Payloads : out' = <<Short(s, d)>>
    BY <2>2, EmptyPayload, Zenon
  <2>4. ShortType' /\ sysex' = << >> /\ emitted' = 0
    BY <1>7, StatusShort
  <2>5. /\ dump' = None /\ buf' = buf /\ open' = open
        /\ NoCorruptDump' /\ UnevenDumpsArrive'
    BY <1>1, <2>1, <2>3, NothingDue
  <2>6. TypeOK' /\ InStep'
    BY <1>3, <1>4, <2>1, <2>2, <2>4, <2>5
  <2>7. QED
    BY <2>5, <2>6
<1>8. CASE SysexByte(b)
  <2>1. in_sysex /\ b \in DataBytes /\ Len(sysex) < SysexCap /\ sysex = payload /\ payload # None
    BY <1>8 DEF SysexByte, InStep
  <2>2. payload' = Append(payload, b) /\ sent' = None
    BY <1>1, <2>1, Framing
  <2>3. /\ InStep' /\ NoCorruptDump' /\ UnevenDumpsArrive'
        /\ dump' = None /\ buf' \in Payloads /\ open' \in BOOLEAN
        /\ sysex' \in Payloads /\ Len(sysex') = Len(sysex) + 1 /\ emitted' \in 0..Len(sysex')
    BY <1>1, <1>8, <2>1, <2>2, ByteAssembled
  <2>4. ShortType' /\ in_sysex' = in_sysex
    BY <1>3, <1>8 DEF SysexByte, ShortType
  <2>5. sysex' = payload'
    BY <2>1, <2>2, <1>8 DEF SysexByte, Grow
  <2>6. Len(sysex') <= SysexCap
    BY <2>1, <2>3, ParserConstants, <1>3 DEF Payloads
  <2>7. QED
    BY <1>3, <2>2, <2>3, <2>4, <2>5, <2>6 DEF TypeOK, ShortType
<1>9. CASE SysexFull(b) \/ SysexEnd(b)
  <2>1. in_sysex /\ out' = Ended /\ LeaveSysex /\ UNCHANGED <<running_status, current, data, need>>
    BY <1>9 DEF SysexFull, SysexEnd
  <2>2. payload # None /\ sysex = payload /\ SysexCap \in Nat /\ Len(sysex) \in Nat
    BY <1>3, <2>1, ParserConstants DEF InStep, Payloads
  <2>3. payload' = None /\ sent' = payload
    <3>1. CASE SysexFull(b)
      <4>1. b \in DataBytes /\ ~(Len(payload) < SysexCap)
        BY <2>2, <3>1 DEF SysexFull
      <4>2. QED
        BY <1>1, <2>2, <4>1, Framing
    <3>2. CASE SysexEnd(b)
      BY <1>1, <3>2, Framing DEF SysexEnd, System
    <3>3. QED
      BY <1>9, <3>1, <3>2
  <2>4. NoCorruptDump' /\ UnevenDumpsArrive' /\ dump' \in {None, payload}
        /\ buf' \in {<< >>, buf} /\ open' \in BOOLEAN
    BY <1>1, <2>1, <2>3, DumpDue
  <2>5. ShortType' /\ sysex' = << >> /\ emitted' = 0 /\ in_sysex' = FALSE
    BY <1>3, <2>1 DEF LeaveSysex, ShortType
  <2>6. TypeOK' /\ InStep'
    BY <1>2, <1>3, <1>4, <2>3, <2>4, <2>5, EmptyPayload
  <2>7. QED
    BY <2>4, <2>6
<1>10. CASE SysexStart(b) \/ OnStatus(b)
  <2>1. ShortType' /\ sysex' = << >> /\ emitted' = 0
    BY <1>10, StatusShort
  <2>2. sent' = payload /\ payload' = (IF in_sysex' THEN << >> ELSE None) /\ in_sysex' \in BOOLEAN
    BY <1>1, <1>10, Framing DEF SysexStart, OnStatus, LeaveSysex
  <2>3. out' = Before \/ \E s \in Statuses, d \in Payloads : out' = Before \o <<Short(s, d)>>
    <3>1. CASE SysexStart(b)
      BY <3>1 DEF SysexStart
    <3>2. CASE OnStatus(b)
      <4>1. b \in Statuses
        BY <3>2 DEF OnStatus, Statuses
      <4>2. out' = Before \o << >> \/ out' = Before \o <<Short(b, << >>)>>
        BY <3>2 DEF OnStatus
      <4>3. Before \o << >> = Before
        <5>1. in_sysex => Ended = << >> \/ Ended = <<Head(Ended)>>
          BY EndedCompletes
        <5>. DEFINE p == Head(Ended)
        <5>2. Before = << >> \/ Before = <<p>>
          BY <5>1 DEF Before
        <5>. HIDE DEF p
        <5>3. << >> \o << >> = << >> /\ <<p>> \o << >> = <<p>>
          OBVIOUS
        <5>4. QED
          BY <5>2, <5>3, Zenon
      <4>4. QED
        BY <4>1, <4>2, <4>3, EmptyPayload, Zenon
    <3>3. QED
      BY <1>10, <3>1, <3>2
  <2>4. CASE in_sysex
    <3>1. Before = Ended
      BY <2>4 DEF Before
    <3>2. out' = Ended \/ \E s \in Statuses, d \in Payloads : out' = Ended \o <<Short(s, d)>>
      BY <2>3, <3>1, Zenon
    <3>3. NoCorruptDump' /\ UnevenDumpsArrive' /\ dump' \in {None, payload}
          /\ buf' \in {<< >>, buf} /\ open' \in BOOLEAN
      BY <1>1, <2>2, <2>4, <3>2, DumpDue
    <3>4. TypeOK' /\ InStep'
      BY <1>2, <1>3, <1>4, <2>1, <2>2, <3>3, EmptyPayload
    <3>5. QED
      BY <3>3, <3>4
  <2>5. CASE ~in_sysex
    <3>1. Before = << >> /\ payload = None
      BY <1>2, <2>5 DEF Before
    <3>2. ASSUME NEW s, NEW d PROVE << >> \o <<Short(s, d)>> = <<Short(s, d)>>
      OBVIOUS
    <3>3. out' = << >> \/ \E s \in Statuses, d \in Payloads : out' = <<Short(s, d)>>
      BY <2>3, <3>1, <3>2, Zenon
    <3>4. /\ dump' = None /\ buf' = buf /\ open' = open
          /\ NoCorruptDump' /\ UnevenDumpsArrive'
      BY <1>1, <2>2, <3>1, <3>3, NothingDue
    <3>5. TypeOK' /\ InStep'
      BY <1>3, <1>4, <2>1, <2>2, <3>1, <3>4
    <3>6. QED
      BY <3>4, <3>5
  <2>6. QED
    BY <2>4, <2>5
<1>11. CASE OnData(b)
  <2>1. b \in DataBytes /\ ~in_sysex
    BY <1>11 DEF OnData
  <2>2. payload' = payload /\ sent' = None
    BY <1>1, <1>2, <2>1, Framing
  <2>3. /\ ShortType' /\ UNCHANGED <<sysex, emitted, in_sysex>>
        /\ out' = << >> \/ \E s \in Statuses, d \in Payloads : out' = <<Short(s, d)>>
    BY <1>11, <2>1, DataShort
  <2>4. QED
    BY <1>5, <2>2, <2>3
<1>12. QED
  BY <1>1, <1>6, <1>7, <1>8, <1>9, <1>10, <1>11 DEF Parse

-----------------------------------------------------------------------------
(* The specification                                                       *)

(* Types, the step of the two machines and the dumps returned hold         *)
(* together in every reachable state.                                      *)
THEOREM BytesInvariant == Spec => [](TypeOK /\ InStep /\ NoCorruptDump /\ UnevenDumpsArrive)
<1>. DEFINE I == TypeOK /\ InStep /\ NoCorruptDump /\ UnevenDumpsArrive
<1>1. Init => I
  <2>1. /\ << >> \in Payloads /\ Len(<< >>) <= 1 /\ Len(<< >>) <= SysexCap
        /\ 0 \in 0..Len(<< >>) /\ 0 \in 0..2
    BY ParserConstants, EmptyPayload
  <2>2. Init => TypeOK
    BY <2>1 DEF Init, TypeOK
  <2>3. Init => InStep /\ NoCorruptDump /\ UnevenDumpsArrive
    BY DEF Init, InStep, NoCorruptDump, UnevenDumpsArrive
  <2>4. QED
    BY <2>2, <2>3
<1>2. I /\ [Next]_vars => I'
  <2>1. ASSUME I, Next PROVE I'
    BY <2>1, ByteStep DEF Next
  <2>2. ASSUME I, UNCHANGED vars PROVE I'
    BY <2>2 DEF vars, parser, assembler, wire, TypeOK, InStep, NoCorruptDump,
                UnevenDumpsArrive, Pending
  <2>3. QED
    BY <2>1, <2>2
<1>3. QED
  BY <1>1, <1>2, PTL DEF Spec

(* The fields of parser and assembler keep their types, and the SysEx      *)
(* buffer its cap, on every byte stream.                                   *)
THEOREM ParserTypes == Spec => []TypeOK
BY BytesInvariant, PTL

(* No dump is returned that was not on the wire, complete at that byte.    *)
THEOREM DumpsAreIntact == Spec => []NoCorruptDump
BY BytesInvariant, PTL

(* Every dump whose payload does not exactly fill its packets is returned. *)
THEOREM UnevenDumps == Spec => []UnevenDumpsArrive
BY BytesInvariant, PTL

-----------------------------------------------------------------------------
(* Running status                                                          *)

\* What the last byte said is what push_byte returned besides a dump's packet.
SaysRight ==
  \/ \E b \in RealTime : out' = <<Short(b, << >>)>>
  \/ SaysOnly(out', IF sent' # None /\ last' = "F7" THEN {} ELSE Said')

\* A byte that says nothing returns nothing, or one packet of another kind.
LEMMA SaysNothing ==
  ASSUME NEW packets, NEW p, ~IsShort(p), packets = << >> \/ packets = <<p>>
  PROVE  SaysOnly(packets, {})
<1>1. Shorts(packets) = {}
  BY DEF Shorts
<1>. QED
  BY <1>1 DEF SaysOnly

\* A byte that says something returns it alone, or after the end of a dump.
LEMMA SaysOne ==
  ASSUME NEW packets, NEW p, ~IsShort(p), NEW m, IsShort(m), packets = <<m>> \/ packets = <<p, m>>
  PROVE  SaysOnly(packets, {m})
<1>1. CASE packets = <<m>>
  <2>1. Shorts(packets) = {1}
    BY <1>1 DEF Shorts
  <2>. QED
    BY <1>1, <2>1 DEF SaysOnly
<1>2. CASE packets = <<p, m>>
  <2>1. DOMAIN packets = {1, 2} /\ packets[1] = p /\ packets[2] = m
    BY <1>2
  <2>2. Shorts(packets) = {2}
    BY <2>1 DEF Shorts
  <2>. QED
    BY <2>1, <2>2 DEF SaysOnly
<1>. QED
  BY <1>1, <1>2

\* What ends a dump is no short message.
LEMMA DumpsSayNothing ==
  \E p : ~IsShort(p) /\ (Ended = << >> \/ Ended = <<p>>) /\ (Before = << >> \/ Before = <<p>>)
<1>1. ASSUME NEW s, NEW d
      PROVE  ~IsShort(Sysex7(s, d))
  BY DEF IsShort, Sysex7
<1>2. Ended = << >> \/ \E s, d : Ended = <<Sysex7(s, d)>>
  BY DEF Ended
<1>3. CASE Ended = << >>
  BY <1>1, <1>3 DEF Before
<1>4. ASSUME NEW s, NEW d, Ended = <<Sysex7(s, d)>>
      PROVE  Before = << >> \/ Before = <<Sysex7(s, d)>>
  BY <1>4 DEF Before
<1>. QED
  BY <1>1, <1>2, <1>3, <1>4

\* The data bytes since a status.
LEMMA SinceGrows ==
  ASSUME NEW b \in Bytes, Observe(b)
  PROVE  /\ b \in RealTime => last' = last /\ since' = since
         /\ b \in DataBytes => last' = last /\ since' = Append(since, b)
         /\ b \in Statuses \ RealTime => last' = b /\ since' = << >>
<1>1. b \in DataBytes => b \notin RealTime
  BY ParserConstants DEF Statuses
<1>2. b \in Statuses \ RealTime => b \notin DataBytes
  BY ParserConstants
<1>. QED
  BY <1>1, <1>2 DEF Observe

\* Whole messages of one data byte, and of two.
LEMMA Remainders ==
  ASSUME NEW n \in Nat
  PROVE  n % 1 = 0 /\ (n % 2 = 0 \/ n % 2 = 1) /\ (n % 2 = 0 <=> (n + 1) % 2 # 0)
OBVIOUS

\* Sequences of one element, and of two.
LEMMA OneAndTwo ==
  ASSUME NEW S, NEW q \in Seq(S)
  PROVE  (Len(q) = 1 => q = <<q[1]>>) /\ (Len(q) = 2 => q = <<q[1], q[2]>>)
<1>1. ASSUME Len(q) = 1
      PROVE  q = <<q[1]>>
  <2>1. PICK x \in S : x = q[1]
    BY <1>1
  <2>2. <<x>> \in Seq(S) /\ Len(<<x>>) = 1 /\ <<x>>[1] = x
    OBVIOUS
  <2>3. \A k \in 1..Len(q) : q[k] = <<x>>[k]
    BY <1>1, <2>1, <2>2
  <2>. QED
    BY <1>1, <2>1, <2>2, <2>3, SeqEqual
<1>2. ASSUME Len(q) = 2
      PROVE  q = <<q[1], q[2]>>
  <2>1. PICK x \in S, y \in S : x = q[1] /\ y = q[2]
    BY <1>2
  <2>2. <<x, y>> \in Seq(S) /\ Len(<<x, y>>) = 2 /\ <<x, y>>[1] = x /\ <<x, y>>[2] = y
    OBVIOUS
  <2>3. \A k \in 1..Len(q) : q[k] = <<x, y>>[k]
    <3>1. 1..Len(q) = {1, 2}
      BY <1>2
    <3>. QED
      BY <2>1, <2>2, <3>1
  <2>. QED
    BY <1>2, <2>1, <2>2, <2>3, SeqEqual
<1>. QED
  BY <1>1, <1>2

\* One element put after one.
LEMMA OneThenOther ==
  ASSUME NEW S, NEW x \in S, NEW y \in S
  PROVE  Append(<<x>>, y) = <<x, y>> /\ <<x>> \o <<y>> = <<x, y>>
<1>1. ASSUME NEW q \in Seq(S), NEW w \in Seq(S), Len(q) = 1, Len(w) = 1, q[1] = x, w[1] = y
      PROVE  Append(q, y) = <<x, y>> /\ q \o w = <<x, y>>
  <2>1. Append(q, y) \in Seq(S) /\ Len(Append(q, y)) = 2 /\ Append(q, y)[1] = x /\ Append(q, y)[2] = y
    <3>. DEFINE r == Append(q, y)
    <3>1. r \in Seq(S) /\ Len(r) = Len(q) + 1 /\ (\A k \in 1..Len(q) : r[k] = q[k]) /\ r[Len(q) + 1] = y
      BY AppendProperties
    <3>. HIDE DEF r
    <3>2. 1 \in 1..Len(q) /\ Len(q) + 1 = 2
      BY <1>1
    <3>3. r \in Seq(S) /\ Len(r) = 2 /\ r[1] = x /\ r[2] = y
      BY <1>1, <3>1, <3>2
    <3>. QED
      BY <3>3 DEF r
  <2>2. q \o w \in Seq(S) /\ Len(q \o w) = 2 /\ (q \o w)[1] = x /\ (q \o w)[2] = y
    BY <1>1, ConcatProperties
  <2>. QED
    BY <2>1, <2>2, OneAndTwo
<1>2. /\ <<x>> \in Seq(S) /\ Len(<<x>>) = 1 /\ <<x>>[1] = x
      /\ <<y>> \in Seq(S) /\ Len(<<y>>) = 1 /\ <<y>>[1] = y
  OBVIOUS
<1>. QED
  BY <1>1, <1>2

\* One data byte more, at the end.
LEMMA OneMore ==
  ASSUME NEW q \in Payloads, NEW b \in DataBytes, NEW r, r = Append(q, b)
  PROVE  /\ r \in Payloads /\ Len(q) \in Nat /\ Len(r) = Len(q) + 1 /\ r[Len(r)] = b /\ r # << >>
         /\ SubSeq(r, Len(r), Len(r)) = <<b>>
         /\ Len(q) > 0 => SubSeq(r, Len(r) - 1, Len(r)) = <<q[Len(q)], b>>
<1>1. r \in Payloads /\ Len(q) \in Nat /\ Len(r) = Len(q) + 1 /\ r[Len(r)] = b /\ r # << >>
      /\ \A k \in 1..Len(q) : r[k] = q[k]
  BY DEF Payloads
<1>2. PICK n \in Nat : n = Len(q) /\ Len(r) = n + 1
  BY <1>1
<1>4. SubSeq(r, n + 1, n + 1) = <<b>>
  <2>. DEFINE u == SubSeq(r, n + 1, n + 1)
  <2>1. u \in Seq(DataBytes) /\ Len(u) = 1 /\ u[1] = r[n + 1]
    BY <1>1, <1>2 DEF Payloads
  <2>. HIDE DEF u
  <2>2. u = <<u[1]>>
    BY <2>1, OneAndTwo
  <2>. QED
    BY <1>1, <1>2, <2>1, <2>2 DEF u
<1>5. n > 0 => SubSeq(r, n, n + 1) = <<q[n], b>>
  <2>. SUFFICES ASSUME n > 0
                PROVE  SubSeq(r, n, n + 1) = <<q[n], b>>
    OBVIOUS
  <2>. DEFINE u == SubSeq(r, n, n + 1)
  <2>1. u \in Seq(DataBytes) /\ Len(u) = 2 /\ u[1] = r[n] /\ u[2] = r[n + 1]
    BY <1>1, <1>2 DEF Payloads
  <2>. HIDE DEF u
  <2>2. u = <<u[1], u[2]>>
    BY <2>1, OneAndTwo
  <2>3. r[n] = q[n] /\ r[n + 1] = b
    BY <1>1, <1>2
  <2>. QED
    BY <2>1, <2>2, <2>3 DEF u
<1>. QED
  BY <1>1, <1>2, <1>4, <1>5

\* A data byte after a channel message's status.
LEMMA ChannelData ==
  ASSUME RunInv, last \in Channel, NEW b \in DataBytes, OnData(b), last' = last, since' = Append(since, b),
         UNCHANGED in_sysex, last' \in (Statuses \ RealTime) \cup {None}
  PROVE  RunInv' /\ SaysOnly(out', Said')
<1>1. PICK n \in Nat : n = Len(since) /\ Len(since') = n + 1
  BY OneMore DEF RunInv
<1>2. /\ since' \in Payloads /\ since' # << >> /\ since'[n + 1] = b /\ SubSeq(since', n + 1, n + 1) = <<b>>
      /\ n > 0 => SubSeq(since', n, n + 1) = <<since[n], b>>
  <2>1. n + 1 - 1 = n /\ since \in Payloads
    BY DEF RunInv
  <2>2. PICK r : r = since'
    OBVIOUS
  <2>3. /\ r \in Payloads /\ r[Len(r)] = b /\ r # << >> /\ SubSeq(r, Len(r), Len(r)) = <<b>>
        /\ Len(since) > 0 => SubSeq(r, Len(r) - 1, Len(r)) = <<since[Len(since)], b>>
    BY <2>1, <2>2, OneMore
  <2>. QED
    BY <1>1, <2>1, <2>2, <2>3
<1>3. last # None /\ last \notin System /\ last \in Channel \cup System /\ last \in {"note", "program"}
  BY ParserConstants DEF Channel, System, Statuses
<1>4. Status = last /\ Status # None /\ need = data_len[last] /\ running_status = last /\ current = last
  BY <1>3 DEF Status, RunInv
<1>5. ASSUME NEW d PROVE IsShort(Short(last, d))
  BY <1>3 DEF IsShort, Short
<1>6. ~IsShort(Sysex7("end", << >>))
  BY DEF IsShort, Sysex7
<1>7. CASE last = "program"
  <2>1. need = 1 /\ data_len["program"] = 1
    BY <1>4, <1>7 DEF data_len, Channel, System
  <2>2. data = << >>
    BY <1>1, <1>3, <2>1, Remainders DEF RunInv
  <2>3. Append(data, b) = <<b>> /\ Len(<<b>>) = 1
    BY <2>2
  <2>4. data' = << >> /\ out' = <<Short(last, <<b>>)>> /\ current' = last /\ running_status' = last /\ need' = 1
    BY <1>3, <1>4, <2>1, <2>3 DEF OnData
  <2>5. Said' = {Short(last, <<b>>)}
    <3>1. (n + 1) % 1 = 0 /\ n + 1 - 1 + 1 = n + 1
      BY Remainders
    <3>2. Said' = {Short(last, SubSeq(since', n + 1 - 1 + 1, n + 1))}
      BY <1>1, <1>2, <1>3, <1>7, <2>1, <3>1 DEF Said
    <3>. QED
      BY <1>2, <3>1, <3>2
  <2>6. SaysOnly(out', Said')
    BY <1>5, <1>6, <2>4, <2>5, SaysOne
  <2>7. RunInv'
    <3>1. (n + 1) % 1 = 0
      BY Remainders
    <3>. QED
      BY <1>1, <1>2, <1>3, <1>7, <2>1, <2>4, <3>1 DEF RunInv
  <2>. QED
    BY <2>6, <2>7
<1>8. CASE last = "note"
  <2>1. need = 2 /\ data_len["note"] = 2
    BY <1>4, <1>8 DEF data_len, Channel, System
  <2>2. CASE n % 2 = 0
    <3>1. data = << >> /\ (n + 1) % 2 # 0
      BY <1>1, <1>3, <2>1, <2>2, Remainders DEF RunInv
    <3>2. Append(data, b) = <<b>> /\ Len(<<b>>) = 1
      BY <3>1
    <3>3. data' = <<b>> /\ out' = << >> /\ current' = last /\ running_status' = last /\ need' = 2
      BY <1>3, <1>4, <2>1, <3>2 DEF OnData
    <3>4. Said' = {}
      BY <1>1, <1>3, <1>8, <2>1, <3>1 DEF Said
    <3>5. SaysOnly(out', Said')
      BY <1>6, <3>3, <3>4, SaysNothing
    <3>6. RunInv'
      BY <1>1, <1>2, <1>3, <1>8, <2>1, <3>1, <3>3 DEF RunInv
    <3>. QED
      BY <3>5, <3>6
  <2>3. CASE n % 2 # 0
    <3>1. PICK x : x = since[n]
      OBVIOUS
    <3>2. data = <<x>> /\ (n + 1) % 2 = 0 /\ n > 0
      <4>1. n # 0
        BY <2>3, Remainders
      <4>2. (n + 1) % 2 = 0
        BY <2>3, Remainders
      <4>3. data = <<x>>
        BY <1>1, <1>3, <2>1, <2>3, <3>1 DEF RunInv
      <4>. QED
        BY <4>1, <4>2, <4>3
    <3>3. Append(data, b) = <<x, b>> /\ Len(<<x, b>>) = 2
      <4>1. x \in DataBytes
        BY <1>1, <3>1, <3>2 DEF RunInv, Payloads
      <4>. QED
        BY <3>2, <4>1, OneThenOther
    <3>4. data' = << >> /\ out' = <<Short(last, <<x, b>>)>> /\ current' = last /\ running_status' = last /\ need' = 2
      BY <1>3, <1>4, <2>1, <3>3 DEF OnData
    <3>5. Said' = {Short(last, <<x, b>>)}
      <4>1. n + 1 - 2 + 1 = n
        OBVIOUS
      <4>2. Said' = {Short(last, SubSeq(since', n + 1 - 2 + 1, n + 1))}
        BY <1>1, <1>2, <1>3, <1>8, <2>1, <3>2 DEF Said
      <4>. QED
        BY <1>2, <3>1, <3>2, <4>1, <4>2
    <3>6. SaysOnly(out', Said')
      BY <1>5, <1>6, <3>4, <3>5, SaysOne
    <3>7. RunInv'
      BY <1>1, <1>2, <1>3, <1>8, <2>1, <3>2, <3>4 DEF RunInv
    <3>. QED
      BY <3>6, <3>7
  <2>. QED
    BY <2>2, <2>3
<1>. QED
  BY <1>3, <1>7, <1>8

\* A data byte after a system message's status: its only one, or nothing.
LEMMA SystemData ==
  ASSUME RunInv, last \in System, NEW b \in DataBytes, OnData(b), last' = last, since' = Append(since, b),
         UNCHANGED in_sysex, last' \in (Statuses \ RealTime) \cup {None}
  PROVE  RunInv' /\ SaysOnly(out', Said')
<1>1. PICK n \in Nat : n = Len(since) /\ Len(since') = n + 1
  BY OneMore DEF RunInv
<1>2. since' \in Payloads
  BY OneMore DEF RunInv
<1>3. last # None /\ last \notin Channel /\ last \in Channel \cup System
  BY ParserConstants DEF Channel, System, Statuses
<1>4. last # "F0" /\ (last = "song" => data_len[last] = 1) /\ (last # "song" => data_len[last] = 0)
  BY DEF data_len, Channel, System
<1>5. ~IsShort(Sysex7("end", << >>))
  BY DEF IsShort, Sysex7
<1>6. CASE n < data_len[last]
  <2>1. last = "song" /\ n = 0 /\ data_len[last] = 1 /\ current = last /\ need = 1 /\ data = << >> /\ running_status = None
    BY <1>1, <1>4, <1>6 DEF RunInv
  <2>2. Status = last
    BY <1>3, <2>1 DEF Status
  <2>3. Append(data, b) = <<b>> /\ Len(<<b>>) = 1
    BY <2>1
  <2>4. data' = << >> /\ out' = <<Short(last, <<b>>)>> /\ current' = None /\ running_status' = None /\ need' = 0
    BY <1>3, <2>1, <2>2, <2>3 DEF OnData
  <2>5. since' = <<b>>
    <3>1. since = << >>
      BY <1>1, <2>1, EmptySeq DEF RunInv, Payloads
    <3>. QED
      BY <3>1
  <2>6. Said' = {Short(last, <<b>>)}
    BY <1>1, <1>3, <2>1, <2>5 DEF Said
  <2>7. IsShort(Short(last, <<b>>))
    BY <1>3 DEF IsShort, Short
  <2>8. SaysOnly(out', Said')
    BY <1>5, <2>4, <2>6, <2>7, SaysOne
  <2>9. RunInv'
    BY <1>1, <1>2, <1>3, <1>4, <2>1, <2>4 DEF RunInv
  <2>. QED
    BY <2>8, <2>9
<1>7. CASE ~(n < data_len[last])
  <2>1. current = None /\ need = 0 /\ data = << >> /\ running_status = None
    BY <1>1, <1>7 DEF RunInv
  <2>2. out' = << >> /\ UNCHANGED parser
    BY <2>1 DEF OnData, Status
  <2>3. n + 1 # data_len[last] /\ ~(n + 1 < data_len[last])
    BY <1>4, <1>7
  <2>4. Said' = {}
    BY <1>1, <1>3, <2>3 DEF Said
  <2>5. SaysOnly(out', Said')
    BY <1>5, <2>2, <2>4, SaysNothing
  <2>6. RunInv'
    BY <1>1, <1>2, <1>3, <1>4, <2>1, <2>2, <2>3 DEF RunInv, parser
  <2>. QED
    BY <2>5, <2>6
<1>. QED
  BY <1>6, <1>7

\* A status byte that begins a message, or is one.
LEMMA StatusSays ==
  ASSUME RunInv, NEW b, OnStatus(b), last' = b, since' = << >>
  PROVE  RunInv' /\ SaysOnly(out', Said')
<1>1. /\ b \in Channel \cup System /\ b \in (Statuses \ RealTime) /\ b # "F0" /\ in_sysex' = FALSE
      /\ need' = data_len[b] /\ data' = << >> /\ running_status' = IF b \in Channel THEN b ELSE None
      /\ current' = IF b \in Channel \/ data_len[b] > 0 THEN b ELSE None
      /\ out' = Before \o (IF data_len[b] = 0 THEN <<Short(b, << >>)>> ELSE << >>)
  BY DEF OnStatus, LeaveSysex, Statuses, Channel, System, RealTime
<1>2. data_len[b] \in Nat /\ (b \in Channel => b \notin System /\ data_len[b] \in {1, 2})
  BY <1>1 DEF data_len, Channel, System
<1>3. << >> \in Payloads /\ Len(<< >>) = 0
  BY EmptyPayload
<1>4. RunInv'
  <2>1. b \in Channel => 0 % data_len[b] = 0
    BY <1>2
  <2>. QED
    BY <1>1, <1>2, <1>3, <2>1 DEF RunInv
<1>5. PICK p : ~IsShort(p) /\ (Before = << >> \/ Before = <<p>>)
  BY DumpsSayNothing
<1>6. CASE data_len[b] = 0
  <2>1. Said' = {Short(b, << >>)}
    BY <1>1, <1>2, <1>3, <1>6 DEF Said
  <2>2. PICK m : m = Short(b, << >>) /\ IsShort(m)
    BY <1>1 DEF IsShort, Short
  <2>3. << >> \o <<m>> = <<m>> /\ <<p>> \o <<m>> = <<p, m>>
    <3>1. p \in {p, m} /\ m \in {p, m}
      OBVIOUS
    <3>2. << >> \o <<m>> = <<m>>
      OBVIOUS
    <3>. QED
      BY <3>1, <3>2, OneThenOther
  <2>4. out' = <<m>> \/ out' = <<p, m>>
    BY <1>1, <1>5, <1>6, <2>2, <2>3
  <2>. QED
    BY <1>4, <1>5, <2>1, <2>2, <2>4, SaysOne
<1>7. CASE data_len[b] # 0
  <2>1. Said' = {}
    BY <1>1, <1>2, <1>3, <1>7 DEF Said
  <2>2. << >> \o << >> = << >> /\ <<p>> \o << >> = <<p>>
    OBVIOUS
  <2>3. out' = << >> \/ out' = <<p>>
    BY <1>1, <1>5, <1>7, <2>2
  <2>. QED
    BY <1>4, <1>5, <2>1, <2>3, SaysNothing
<1>. QED
  BY <1>6, <1>7

\* Every byte keeps what the fields stand for and says what it should.
LEMMA RunStep ==
  ASSUME TypeOK, InStep, RunInv, NEW b \in Bytes, PushByte(b)
  PROVE  RunInv' /\ SaysRight
<1>1. Parse(b) /\ Observe(b)
  BY DEF PushByte
<1>2. in_sysex => last = "F0" /\ running_status = None /\ current = None /\ data = << >> /\ need = 0
  BY DEF RunInv, Channel, System
<1>3. /\ last \in (Statuses \ RealTime) \cup {None} /\ since \in Payloads /\ << >> \in Payloads /\ Len(<< >>) = 0
      /\ in_sysex \in BOOLEAN
  BY EmptyPayload DEF RunInv, TypeOK
<1>4. PICK p : ~IsShort(p) /\ (Ended = << >> \/ Ended = <<p>>) /\ (Before = << >> \/ Before = <<p>>)
  BY DumpsSayNothing
<1>5. {"F0", "FF"} \cap (Channel \cup System) = {} /\ {"F0", "FF"} \subseteq Statuses \ RealTime /\ "F7" \in System
      /\ "F7" \notin Channel /\ System \subseteq Statuses \ RealTime /\ data_len["F7"] = 0
  BY DEF Channel, System, RealTime, Statuses, data_len
\* A dump's own bytes, and what leaves the fields as after F0 or FF.
<1>6. ASSUME last' \in {"F0", "FF"}, in_sysex' => last' = "F0", since' \in Payloads,
             running_status' = None, current' = None, data' = << >>, need' = 0,
             \E q : ~IsShort(q) /\ (out' = << >> \/ out' = <<q>>)
      PROVE  RunInv' /\ SaysRight
  <2>1. RunInv'
    BY <1>5, <1>6 DEF RunInv
  <2>2. Said' = {} /\ last' # "F7"
    BY <1>5, <1>6 DEF Said
  <2>3. SaysOnly(out', {})
    BY <1>6, SaysNothing
  <2>. QED
    BY <2>1, <2>2, <2>3 DEF SaysRight
<1>7. CASE OnRealTime(b)
  <2>1. last' = last /\ since' = since
    BY <1>1, <1>7, SinceGrows DEF OnRealTime
  <2>2. SaysRight
    BY <1>7 DEF OnRealTime, SaysRight
  <2>. QED
    BY <1>7, <2>1, <2>2 DEF OnRealTime, parser, RunInv
<1>8. CASE OnReset(b)
  <2>1. last' = "FF" /\ since' = << >>
    BY <1>1, <1>5, <1>8, SinceGrows DEF OnReset
  <2>2. ~IsShort(Short("FF", << >>))
    BY <1>5 DEF IsShort, Short
  <2>. QED
    BY <1>3, <1>6, <1>8, <2>1, <2>2 DEF OnReset, LeaveSysex
<1>9. CASE SysexByte(b) \/ SysexFull(b)
  <2>1. b \in DataBytes /\ in_sysex /\ UNCHANGED <<running_status, current, data, need>>
    BY <1>9 DEF SysexByte, SysexFull
  <2>2. last' = "F0" /\ since' \in Payloads
    BY <1>1, <1>2, <1>3, <2>1, SinceGrows, OneMore
  <2>3. \E q : ~IsShort(q) /\ (out' = << >> \/ out' = <<q>>)
    <3>1. CASE SysexFull(b)
      BY <1>4, <3>1 DEF SysexFull
    <3>2. CASE SysexByte(b)
      <4>1. ASSUME NEW s, NEW d PROVE ~IsShort(Sysex7(s, d))
        BY DEF IsShort, Sysex7
      <4>. QED
        BY <3>2, <4>1 DEF SysexByte, Grow
    <3>. QED
      BY <1>9, <3>1, <3>2
  <2>. QED
    BY <1>2, <1>6, <2>1, <2>2, <2>3
<1>10. CASE SysexEnd(b)
  <2>1. b = "F7" /\ in_sysex /\ out' = Ended /\ in_sysex' = FALSE /\ UNCHANGED <<running_status, current, data, need>>
    BY <1>10 DEF SysexEnd, LeaveSysex
  <2>2. last' = "F7" /\ since' = << >>
    BY <1>1, <1>5, <2>1, SinceGrows
  <2>3. sent' # None
    BY <1>1, <1>5, <2>1, Framing DEF InStep
  <2>4. SaysOnly(out', {})
    BY <1>4, <2>1, SaysNothing
  <2>5. RunInv'
    BY <1>2, <1>3, <1>5, <2>1, <2>2 DEF RunInv
  <2>. QED
    BY <2>2, <2>3, <2>4, <2>5 DEF SaysRight
<1>11. CASE SysexStart(b)
  <2>1. last' = "F0" /\ since' = << >>
    BY <1>1, <1>5, <1>11, SinceGrows DEF SysexStart
  <2>. QED
    BY <1>3, <1>4, <1>6, <1>11, <2>1 DEF SysexStart
<1>12. CASE OnStatus(b)
  <2>1. b \in Channel \cup System /\ ~(in_sysex /\ b = "F7")
    BY <1>12 DEF OnStatus
  <2>2. last' = b /\ since' = << >>
    BY <1>1, <2>1, SinceGrows DEF Statuses, Channel, System, RealTime
  <2>3. RunInv' /\ SaysOnly(out', Said')
    BY <1>12, <2>2, StatusSays
  <2>4. ~(sent' # None /\ last' = "F7")
    BY <1>1, <2>1, <2>2, Framing DEF InStep
  <2>. QED
    BY <2>3, <2>4 DEF SaysRight
<1>13. CASE OnData(b)
  <2>1. b \in DataBytes /\ ~in_sysex
    BY <1>13 DEF OnData
  <2>2. last' = last /\ since' = Append(since, b) /\ since' \in Payloads
    BY <1>1, <1>3, <2>1, SinceGrows, OneMore
  <2>3. sent' = None
    BY <1>1, <2>1, Framing DEF InStep
  <2>4. UNCHANGED in_sysex
    BY <1>13 DEF OnData, parser
  <2>5. RunInv' /\ SaysOnly(out', Said')
    <3>1. CASE last \in Channel
      BY <1>3, <1>13, <2>1, <2>2, <2>4, <3>1, ChannelData
    <3>2. CASE last \in System
      BY <1>3, <1>13, <2>1, <2>2, <2>4, <3>2, SystemData
    <3>3. CASE last \notin Channel \cup System
      <4>1. running_status = None /\ current = None /\ data = << >> /\ need = 0
        BY <3>3 DEF RunInv
      <4>2. out' = << >> /\ UNCHANGED parser
        BY <1>13, <4>1 DEF OnData, Status
      <4>3. Said' = {}
        BY <2>2, <3>3 DEF Said
      <4>4. RunInv'
        BY <1>3, <2>1, <2>2, <2>4, <3>3, <4>1, <4>2 DEF RunInv, parser
      <4>. QED
        BY <1>4, <4>2, <4>3, <4>4, SaysNothing
    <3>. QED
      BY <3>1, <3>2, <3>3
  <2>. QED
    BY <2>3, <2>5 DEF SaysRight
<1>. QED
  BY <1>1, <1>7, <1>8, <1>9, <1>10, <1>11, <1>12, <1>13 DEF Parse

(* Running status: every byte but real time makes push_byte return exactly *)
(* the channel and system common message it completes, after its last      *)
(* status and in step with its number of data bytes, and none inside a     *)
(* dump, whatever real time, resets and cut-off dumps are in between.      *)
THEOREM RunningStatus == Spec => RunningStatusHolds
<1>1. Init => RunInv
  BY EmptyPayload, ParserConstants DEF Init, RunInv, Channel, System, Statuses
<1>2. TypeOK /\ InStep /\ RunInv /\ [Next]_vars => RunInv' /\ (SaysRight \/ UNCHANGED vars)
  <2>1. ASSUME TypeOK, InStep, RunInv, Next PROVE RunInv' /\ SaysRight
    BY <2>1, RunStep DEF Next
  <2>2. ASSUME RunInv, UNCHANGED vars PROVE RunInv'
    BY <2>2 DEF vars, parser, wire, RunInv
  <2>. QED
    BY <2>1, <2>2
<1>3. (SaysRight \/ UNCHANGED vars) => [\/ \E b \in RealTime : out' = <<Short(b, << >>)>>
     \/ SaysOnly(out', IF sent' # None /\ last' = "F7" THEN {} ELSE Said')]_vars
  BY DEF SaysRight
<1>. QED
  BY <1>1, <1>2, <1>3, BytesInvariant, PTL DEF Spec, RunningStatusHolds

=============================================================================

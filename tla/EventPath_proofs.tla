--------------------------- MODULE EventPath_proofs ---------------------------
(***************************************************************************)
(* Proofs about what is made of captured messages: texts and data that     *)
(* come in several packets, for any streams, bounds and blocks; what a map *)
(* learns from a message, for any messages and any map; that a message and *)
(* its translation to MIDI 2.0 are treated alike; and that a recording is  *)
(* read from a file as it was written.                                     *)
(***************************************************************************)
EXTENDS EventPath, UmpStreams, FiniteSetTheorems, SequenceTheorems, WellFoundedInduction, TLAPS

-----------------------------------------------------------------------------
(* Texts in several packets                                                *)

Pieces == TextStreams \X Nat \X Nat
Names == {"name", "product", "block"}

\* The first m pieces of a text, and the packets of one from a piece on.
Begun(s, text, m) == [i \in 1..m |-> <<s, text, i>>]
Rest(s, text, a, n) == [j \in 1..(n - a + 1) |-> [form |-> Form(j + a - 1, n), piece |-> <<s, text, j + a - 1>>]]

Blocks == [id : Nat, first_group : Nat, n_groups : Nat, midi1 : BOOLEAN, midi2 : BOOLEAN, direction : Nat, name : Seq(Pieces)]
Endpoints ==
  [midi1 : BOOLEAN, midi2 : BOOLEAN, jr : SUBSET {"tx", "rx"}, protocol : Nat, identity : BOOLEAN, blocks : Seq(Blocks)]

OnceEach(blocks) == \A i, j \in DOMAIN blocks : blocks[i].id = blocks[j].id => i = j

StreamTypes ==
  /\ texts \in [TextStreams -> Nat] /\ missing \in [TextStreams -> BOOLEAN]
  /\ DOMAIN sending = TextStreams
  /\ delivered \in [TextStreams -> Seq(Pieces)]
  /\ endpoint \in Endpoints /\ OnceEach(endpoint.blocks)

\* A text that is being sent with no packet lost is in its assembler so far.
Held(s) == AssemblyKey(s) \in DOMAIN buffers
SentSoFar(s) ==
  sending[s] = <<>> \/
    \E n \in 1..MaxPieces : \E a \in 1..n :
      /\ sending[s] = Rest(s, texts[s], a, n) /\ texts[s] # 0
      /\ ~ missing[s] /\ a > 1 => Held(s) /\ buffers[AssemblyKey(s)] = Begun(s, texts[s], a - 1)

\* An assembler holds pieces of its stream, from the beginning unless it is a
\* name's ...
Grown(s, text) ==
  /\ text \in Seq(Pieces) /\ text # <<>> /\ \A i \in DOMAIN text : text[i][1] = s
  /\ s.kind \in {"flex", "sysex8"} => text[1][3] = 1
HeldInv(s) == Held(s) => Grown(s, buffers[AssemblyKey(s)])

\* ... and so is what it returned, which is whole if nothing was lost.
WholeOne(s, text) == \E n \in 1..MaxPieces, k \in 1..texts[s] : text = Begun(s, k, n)
ReturnedInv(s) == delivered[s] # <<>> => Grown(s, delivered[s]) /\ (~ missing[s] => WholeOne(s, delivered[s]))

NamedInv(s) ==
  s.kind = "block" /\ delivered[s] # <<>> =>
    \E i \in DOMAIN endpoint.blocks : endpoint.blocks[i].id = s.id /\ endpoint.blocks[i].name = delivered[s]

StreamInv(s) == SentSoFar(s) /\ HeldInv(s) /\ ReturnedInv(s) /\ NamedInv(s)
StreamsInv == StreamTypes /\ \A s \in TextStreams : StreamInv(s)

\* Streams do not share a key.
LEMMA KeysDiffer ==
  ASSUME NEW s \in TextStreams, NEW t \in TextStreams, AssemblyKey(s) = AssemblyKey(t)
  PROVE  s = t
<1>1. AssemblyKey(s)[1] = s.kind /\ AssemblyKey(t)[1] = t.kind
  BY UmpStreamsAssumption DEF AssemblyKey
<1>2. s.kind = t.kind
  BY <1>1
<1>3. CASE s.kind \in {"name", "product"}
  BY <1>2, <1>3, UmpStreamsAssumption
<1>4. CASE s.kind = "block"
  <2>1. AssemblyKey(s)[2] = s.id /\ AssemblyKey(t)[2] = t.id
    BY <1>2, <1>4 DEF AssemblyKey
  <2>2. \A u \in TextStreams : u.kind = "block" => u \in [kind : {"block"}, group : {0}, id : 0..127]
    BY UmpStreamsAssumption
  <2>3. /\ s = [kind |-> s.kind, group |-> s.group, id |-> s.id] /\ s.group = 0
        /\ t = [kind |-> t.kind, group |-> t.group, id |-> t.id] /\ t.group = 0
    BY <1>2, <1>4, <2>2
  <2> QED BY <1>2, <2>1, <2>3
<1>5. CASE s.kind \in {"flex", "sysex8"}
  <2>1. /\ AssemblyKey(s)[2] = s.group /\ AssemblyKey(t)[2] = t.group
        /\ AssemblyKey(s)[3] = s.id /\ AssemblyKey(t)[3] = t.id
    BY <1>2, <1>5 DEF AssemblyKey
  <2> QED BY <1>2, <1>5, <2>1, UmpStreamsAssumption
<1> QED BY <1>3, <1>4, <1>5, UmpStreamsAssumption

\* One piece more.
LEMMA BegunNext ==
  ASSUME NEW s \in TextStreams, NEW text \in Nat, NEW m \in Nat
  PROVE  /\ Begun(s, text, m) \in Seq(Pieces) /\ Len(Begun(s, text, m)) = m
         /\ Append(Begun(s, text, m), <<s, text, m + 1>>) = Begun(s, text, m + 1)
<1> DEFINE p == <<s, text, m + 1>>
           b == Begun(s, text, m)
           c == Begun(s, text, m + 1)
<1>1. \A k \in Nat : Begun(s, text, k) \in Seq(Pieces) /\ Len(Begun(s, text, k)) = k
  BY DEF Begun, Pieces
<1>2. p \in Pieces /\ m + 1 \in Nat
  BY DEF Pieces
<1>3. /\ Append(b, p) \in Seq(Pieces) /\ Len(Append(b, p)) = m + 1 /\ Append(b, p)[m + 1] = p
      /\ \A i \in 1..m : Append(b, p)[i] = b[i]
  <2> HIDE DEF p, b
  <2>1. b \in Seq(Pieces) /\ Len(b) = m
    BY <1>1 DEF b
  <2> QED BY <1>2, <2>1, AppendProperties
<1>4. \A i \in 1..m : b[i] = <<s, text, i>>
  BY DEF Begun
<1>5. \A i \in 1..(m + 1) : c[i] = <<s, text, i>>
  BY DEF Begun
<1>6. c \in Seq(Pieces) /\ Len(c) = m + 1
  BY <1>1, <1>2
<1> DEFINE d == Append(b, p)
<1> HIDE DEF d, c, b
<1>7. \A i \in 1..(m + 1) : d[i] = c[i]
  <2>1. ASSUME NEW i \in 1..(m + 1) PROVE d[i] = c[i]
    <3>1. CASE i \in 1..m
      BY <1>3, <1>4, <1>5, <3>1 DEF d
    <3>2. CASE i = m + 1
      BY <1>3, <1>5, <3>2 DEF d
    <3> QED BY <3>1, <3>2
  <2> QED BY <2>1
<1>8. d = c
  BY <1>3, <1>6, <1>7, SeqEqual, Zenon DEF d
<1> QED BY <1>1, <1>8 DEF d, b, c

\* What comes after the first packet.
LEMMA RestTail ==
  ASSUME NEW s \in TextStreams, NEW text \in Nat, NEW n \in Nat, NEW a \in 1..n
  PROVE  /\ Rest(s, text, a, n) # <<>>
         /\ Rest(s, text, a, n)[1] = [form |-> Form(a, n), piece |-> <<s, text, a>>]
         /\ Tail(Rest(s, text, a, n)) = IF a = n THEN <<>> ELSE Rest(s, text, a + 1, n)
<1> DEFINE E(j) == [form |-> Form(j + a - 1, n), piece |-> <<s, text, j + a - 1>>]
           r == Rest(s, text, a, n)
           q == Rest(s, text, a + 1, n)
           T == {E(j) : j \in 1..(n - a + 1)}
<1>1. r \in Seq(T) /\ Len(r) = n - a + 1 /\ \A j \in 1..(n - a + 1) : r[j] = E(j)
  <2> HIDE DEF E
  <2>1. r = [j \in 1..(n - a + 1) |-> E(j)]
    BY DEF Rest, E
  <2>2. n - a + 1 \in Nat
    OBVIOUS
  <2> HIDE DEF r
  <2> QED BY <2>1, <2>2
<1>2. r # <<>> /\ r[1] = [form |-> Form(a, n), piece |-> <<s, text, a>>]
  BY <1>1
<1>3. CASE a = n
  <2>1. Len(r) = 1
    BY <1>1, <1>3
  <2> HIDE DEF r, T
  <2>2. Tail(r) = <<>>
    <3>1. Tail(r) \in Seq(T) /\ Len(Tail(r)) = 0
      BY <1>1, <1>2, <2>1, HeadTailProperties
    <3> QED BY <3>1, EmptySeq
  <2> QED BY <1>2, <1>3, <2>2 DEF r
<1>4. CASE a # n
  <2>1. n - (a + 1) + 1 \in Nat /\ \A j \in 1..(n - a) : q[j] = E(j + 1)
    BY <1>4 DEF Rest
  <2>2. q \in Seq(T) /\ Len(q) = n - a
    <3>1. q = [j \in 1..(n - a) |-> E(j + 1)]
      BY <1>4 DEF Rest
    <3>2. \A j \in 1..(n - a) : E(j + 1) \in T
      <4>1. ASSUME NEW j \in 1..(n - a) PROVE E(j + 1) \in T
        <5>1. j + 1 \in 1..(n - a + 1)
          OBVIOUS
        <5> HIDE DEF E
        <5> QED BY <5>1
      <4> QED BY <4>1
    <3>3. n - a \in Nat
      OBVIOUS
    <3> HIDE DEF q, E, T
    <3> QED BY <3>1, <3>2, <3>3
  <2> HIDE DEF r, q, T, E
  <2>3. /\ Tail(r) \in Seq(T) /\ Len(Tail(r)) = n - a
        /\ \A j \in 1..(n - a) : Tail(r)[j] = r[j + 1]
    BY <1>1, <1>2, HeadTailProperties
  <2>4. \A j \in 1..(n - a) : Tail(r)[j] = q[j]
    BY <1>1, <2>1, <2>3
  <2>5. Tail(r) = q
    BY <2>2, <2>3, <2>4, SeqEqual
  <2> QED BY <1>2, <1>4, <2>5 DEF r, q
<1> QED BY <1>3, <1>4

\* What is added to a text is its stream's.
LEMMA GrowsOn ==
  ASSUME NEW s \in TextStreams, NEW text, text = <<>> \/ Grown(s, text),
         text = <<>> => s.kind \notin {"flex", "sysex8"}, NEW k \in Nat, NEW i \in Nat
  PROVE  Grown(s, Append(text, <<s, k, i>>))
<1> DEFINE p == <<s, k, i>>
           c == Append(text, p)
<1>1. text \in Seq(Pieces) /\ p \in Pieces /\ p[1] = s
  <2>1. CASE text = <<>>
    BY <2>1 DEF Pieces
  <2>2. CASE Grown(s, text)
    BY <2>2 DEF Grown, Pieces
  <2> QED BY <2>1, <2>2
<1> HIDE DEF p
<1>2. /\ c \in Seq(Pieces) /\ Len(text) \in Nat /\ Len(c) = Len(text) + 1 /\ c[Len(text) + 1] = p
      /\ \A j \in 1..Len(text) : c[j] = text[j]
  BY <1>1, AppendProperties
<1>3. DOMAIN c = 1..Len(text) \cup {Len(text) + 1} /\ DOMAIN text = 1..Len(text)
  <2>1. DOMAIN c = 1..(Len(text) + 1)
    BY <1>2
  <2> QED BY <1>1, <1>2, <2>1
<1> HIDE DEF c
<1>4. \A j \in DOMAIN c : c[j][1] = s
  <2>1. \A j \in 1..Len(text) : text[j][1] = s
    BY <1>1, <1>3 DEF Grown
  <2> QED BY <1>1, <1>2, <1>3, <2>1
<1>5. c # <<>>
  BY <1>2
<1>6. s.kind \in {"flex", "sysex8"} => c[1][3] = 1
  <2>1. text # <<>> => c[1] = text[1]
    BY <1>1, <1>2
  <2> QED BY <2>1 DEF Grown
<1> QED BY <1>2, <1>4, <1>5, <1>6 DEF Grown, c, p

\* A text begins with its first piece.
LEMMA GrowsFromOne ==
  ASSUME NEW s \in TextStreams, NEW k \in Nat
  PROVE  Grown(s, <<<<s, k, 1>>>>) /\ <<<<s, k, 1>>>> = Begun(s, k, 1)
<1>1. <<s, k, 1>> \in Pieces
  BY DEF Pieces
<1>2. Grown(s, <<<<s, k, 1>>>>)
  BY <1>1 DEF Grown
<1>3. <<<<s, k, 1>>>> = Begun(s, k, 1)
  BY DEF Begun
<1> QED BY <1>2, <1>3

\* The next packet of a stream that is sending.
NextPacket(s, a, n) ==
  /\ sending[s][1] = [form |-> Form(a, n), piece |-> <<s, texts[s], a>>]
  /\ Tail(sending[s]) = IF a = n THEN <<>> ELSE Rest(s, texts[s], a + 1, n)
  /\ ~ missing[s] /\ a > 1 => Held(s) /\ buffers[AssemblyKey(s)] = Begun(s, texts[s], a - 1)

LEMMA PacketComes ==
  ASSUME StreamsInv, NEW s \in TextStreams, sending[s] # <<>>
  PROVE  texts[s] \in Nat \ {0} /\ \E n \in 1..MaxPieces : \E a \in 1..n : NextPacket(s, a, n)
<1>0. PICK n \in 1..MaxPieces : \E a \in 1..n :
        /\ sending[s] = Rest(s, texts[s], a, n) /\ texts[s] # 0
        /\ ~ missing[s] /\ a > 1 => Held(s) /\ buffers[AssemblyKey(s)] = Begun(s, texts[s], a - 1)
  BY DEF StreamsInv, StreamInv, SentSoFar
<1>1. PICK a \in 1..n :
        /\ sending[s] = Rest(s, texts[s], a, n) /\ texts[s] # 0
        /\ ~ missing[s] /\ a > 1 => Held(s) /\ buffers[AssemblyKey(s)] = Begun(s, texts[s], a - 1)
  BY <1>0
<1>2. texts[s] \in Nat /\ n \in Nat
  BY UmpStreamsAssumption DEF StreamsInv, StreamTypes
<1> DEFINE text == texts[s]
           r == Rest(s, text, a, n)
<1>3. /\ r[1] = [form |-> Form(a, n), piece |-> <<s, text, a>>]
      /\ Tail(r) = IF a = n THEN <<>> ELSE Rest(s, text, a + 1, n)
  <2> HIDE DEF text
  <2> QED BY ZenonT(40), <1>2, RestTail DEF text
<1>4. NextPacket(s, a, n)
  <2>1. /\ sending[s] = r
        /\ ~ missing[s] /\ a > 1 => Held(s) /\ buffers[AssemblyKey(s)] = Begun(s, text, a - 1)
    BY <1>1
  <2> HIDE DEF r
  <2> QED BY <1>3, <2>1 DEF NextPacket
<1> QED BY <1>1, <1>2, <1>4

\* What the assembler makes of it: it touches what the stream holds, and what
\* it returned of the stream, and nothing else.
LEMMA Assembles ==
  ASSUME StreamsInv, NEW s \in TextStreams, Arrives(s)
  PROVE  /\ SentSoFar(s)' /\ HeldInv(s)' /\ ReturnedInv(s)'
         /\ delivered' \in [TextStreams -> Seq(Pieces)]
         /\ delivered' # delivered => delivered'[s] # <<>>
         /\ \A t \in TextStreams \ {s} :
              /\ delivered'[t] = delivered[t]
              /\ Held(t)' = Held(t)
              /\ Held(t) => buffers'[AssemblyKey(t)] = buffers[AssemblyKey(t)]
<1> DEFINE key == AssemblyKey(s)
           text == texts[s]
<1>0. PICK n \in 1..MaxPieces : \E a \in 1..n : NextPacket(s, a, n)
  BY PacketComes DEF Arrives
<1>1. PICK a \in 1..n : NextPacket(s, a, n)
  BY <1>0
<1>2. /\ text \in Nat \ {0} /\ n \in Nat /\ a \in Nat /\ a >= 1 /\ a <= n
      /\ sending' = [sending EXCEPT ![s] = Tail(@)] /\ texts' = texts /\ missing' = missing
      /\ s \in DOMAIN sending
  BY PacketComes, UmpStreamsAssumption DEF Arrives, StreamsInv, StreamTypes
<1> DEFINE p == sending[s][1]
           piece == <<s, text, a>>
<1>3. p.form = Form(a, n) /\ p.piece = piece
  BY <1>1 DEF NextPacket
<1>4. sending'[s] = IF a = n THEN <<>> ELSE Rest(s, text, a + 1, n)
  BY <1>1, <1>2 DEF NextPacket
<1>5. /\ delivered \in [TextStreams -> Seq(Pieces)]
      /\ HeldInv(s) /\ ReturnedInv(s)
  BY DEF StreamsInv, StreamTypes, StreamInv
<1>6. ~ missing[s] /\ a > 1 => Held(s) /\ buffers[key] = Begun(s, text, a - 1)
  BY <1>1 DEF NextPacket
<1>7. \A t \in TextStreams \ {s} : AssemblyKey(t) # key
  BY KeysDiffer
<1> DEFINE held == IF Held(s) THEN buffers[key] ELSE <<>>
           grown == Append(held, piece)
<1>8. /\ ~ missing[s] /\ a > 1 => grown = Begun(s, text, a)
      /\ Held(s) \/ s.kind \notin {"flex", "sysex8"} => Grown(s, grown)
  <2>1. ~ missing[s] /\ a > 1 => grown = Begun(s, text, a)
    <3> SUFFICES ASSUME ~ missing[s], a > 1 PROVE grown = Begun(s, text, a)
      OBVIOUS
    <3>1. held = Begun(s, text, a - 1) /\ a - 1 \in Nat
      BY <1>2, <1>6
    <3>2. Append(Begun(s, text, a - 1), <<s, text, (a - 1) + 1>>) = Begun(s, text, (a - 1) + 1)
      BY <1>2, <3>1, BegunNext
    <3>3. (a - 1) + 1 = a
      BY <1>2
    <3> HIDE DEF held
    <3> QED BY <3>1, <3>2, <3>3
  <2>2. Held(s) => Grown(s, held)
    BY <1>5 DEF HeldInv
  <2>3. Grown(s, held) => held # <<>>
    BY DEF Grown
  <2>4. ~ Held(s) => held = <<>>
    OBVIOUS
  <2> HIDE DEF held
  <2>5. Held(s) \/ s.kind \notin {"flex", "sysex8"} => Grown(s, grown)
    BY <1>2, <2>2, <2>3, <2>4, GrowsOn
  <2> QED BY <2>1, <2>5
<1>9. (Grown(s, <<piece>>) /\ <<piece>> = Begun(s, text, 1)) \/ a # 1
  BY <1>2, GrowsFromOne
<1>10. /\ \A t \in TextStreams \ {s} : Held(t)' = (AssemblyKey(t) \in DOMAIN buffers')
       /\ Held(s)' = (key \in DOMAIN buffers')
  BY DEF Held
<1>11. /\ (a = n /\ n = 1 /\ Complete(s, p)) \/ (a = 1 /\ n > 1 /\ Start(s, p))
          \/ (a > 1 /\ a < n /\ s.kind \in Names /\ ContinueName(s, p))
          \/ (a = n /\ n > 1 /\ s.kind \in Names /\ EndName(s, p))
          \/ (a > 1 /\ a < n /\ s.kind \notin Names /\ ContinueText(s, p))
          \/ (a = n /\ n > 1 /\ s.kind \notin Names /\ EndText(s, p))
  <2>1. /\ p.form = "complete" => a = n /\ n = 1
        /\ p.form = "start" => a = 1 /\ n > 1
        /\ p.form = "continue" => a > 1 /\ a < n
        /\ p.form = "end" => a = n /\ n > 1
    <3>1. (a = 1 /\ n = 1) \/ (a = 1 /\ n > 1) \/ (a > 1 /\ a < n) \/ (a = n /\ n > 1)
      BY <1>2
    <3> HIDE DEF p
    <3> QED BY <1>2, <1>3, <3>1 DEF Form
  <2> HIDE DEF p
  <2> QED BY <2>1 DEF Arrives, p, FeedName, FeedText, Complete, Start, ContinueName, EndName, ContinueText, EndText, Names
\* The buffers and what is returned, in one of three ways: held and let go of,
\* grown, and left alone.
<1> DEFINE Others == \A t \in TextStreams \ {s} :
              /\ delivered'[t] = delivered[t]
              /\ Held(t)' = Held(t)
              /\ Held(t) => buffers'[AssemblyKey(t)] = buffers[AssemblyKey(t)]
<1>12. ASSUME NEW x, Grown(s, x), buffers' = BufferWith(key, x), delivered' = delivered,
              a < n, ~ missing[s] => x = Begun(s, text, a)
       PROVE  SentSoFar(s)' /\ HeldInv(s)' /\ ReturnedInv(s)' /\ Others /\ delivered' = delivered
  <2>1. Held(s)' /\ buffers'[key] = x
    BY <1>10, <1>12 DEF BufferWith
  <2>2. Others
    BY <1>7, <1>10, <1>12 DEF BufferWith, Held
  <2>3. HeldInv(s)'
    BY <1>12, <2>1 DEF HeldInv, Grown
  <2>4. ReturnedInv(s)'
    BY <1>2, <1>5, <1>12 DEF ReturnedInv, Grown, WholeOne
  <2>5. SentSoFar(s)'
    <3>1. a + 1 \in 1..n /\ (a + 1) - 1 = a /\ sending'[s] = Rest(s, text, a + 1, n)
      BY <1>2, <1>4, <1>12
    <3>2. ~ missing'[s] => Held(s)' /\ buffers'[key] = Begun(s, text, (a + 1) - 1)
      BY <1>2, <1>12, <2>1, <3>1
    <3>3. text # 0 /\ texts'[s] = text
      BY <1>2
    <3> HIDE DEF text
    <3> QED BY <3>1, <3>2, <3>3 DEF SentSoFar
  <2> QED BY <1>12, <2>2, <2>3, <2>4, <2>5
<1>13. ASSUME buffers' = BufferWithout(key), a = n,
              \/ delivered' = delivered
              \/ \E x : Grown(s, x) /\ delivered' = Returned(s, x) /\ (~ missing[s] => x = Begun(s, text, n))
       PROVE  /\ SentSoFar(s)' /\ HeldInv(s)' /\ ReturnedInv(s)' /\ Others
              /\ delivered' \in [TextStreams -> Seq(Pieces)]
              /\ delivered' # delivered => delivered'[s] # <<>>
  <2>1. ~ Held(s)' /\ sending'[s] = <<>>
    BY <1>4, <1>10, <1>13 DEF BufferWithout
  <2>2. SentSoFar(s)' /\ HeldInv(s)'
    BY <2>1 DEF SentSoFar, HeldInv
  <2>3. \A t \in TextStreams \ {s} : /\ Held(t)' = Held(t)
                                     /\ Held(t) => buffers'[AssemblyKey(t)] = buffers[AssemblyKey(t)]
    BY <1>7, <1>10, <1>13 DEF BufferWithout, Held
  <2>4. CASE delivered' = delivered
    <3>1. ReturnedInv(s)'
      BY <1>2, <1>5, <2>4 DEF ReturnedInv, Grown, WholeOne
    <3> QED BY <1>5, <2>2, <2>3, <2>4, <3>1
  <2>5. ASSUME NEW x, Grown(s, x), delivered' = Returned(s, x), ~ missing[s] => x = Begun(s, text, n)
        PROVE  /\ ReturnedInv(s)' /\ \A t \in TextStreams \ {s} : delivered'[t] = delivered[t]
               /\ delivered' \in [TextStreams -> Seq(Pieces)] /\ delivered'[s] # <<>>
    <3>1. delivered'[s] = x /\ x \in Seq(Pieces) /\ x # <<>>
      BY <1>5, <2>5 DEF Returned, Grown
    <3>2. delivered' \in [TextStreams -> Seq(Pieces)] /\ \A t \in TextStreams \ {s} : delivered'[t] = delivered[t]
      BY <1>5, <2>5, <3>1 DEF Returned
    <3>3. text \in 1..texts'[s] /\ missing'[s] = missing[s]
      BY <1>2
    <3>4. ~ missing'[s] => WholeOne(s, x)'
      BY <2>5, <3>3 DEF WholeOne
    <3>5. (Grown(s, delivered[s]) /\ (~ missing[s] => WholeOne(s, delivered[s])))'
      BY <2>5, <3>1, <3>4 DEF Grown, WholeOne
    <3> QED BY <3>1, <3>2, <3>5 DEF ReturnedInv
  <2> QED BY <1>13, <2>2, <2>3, <2>4, <2>5
<1>14. ASSUME UNCHANGED <<buffers, delivered>>, a < n, a > 1, ~ Held(s)
       PROVE  SentSoFar(s)' /\ HeldInv(s)' /\ ReturnedInv(s)' /\ Others
  <2>1. Others
    BY <1>14 DEF Held
  <2>2. ~ Held(s)' /\ HeldInv(s)'
    BY <1>14 DEF HeldInv, Held
  <2>3. ReturnedInv(s)'
    BY <1>2, <1>5, <1>14 DEF ReturnedInv, Grown, WholeOne
  <2>4. SentSoFar(s)'
    <3>1. a + 1 \in 1..n /\ sending'[s] = Rest(s, text, a + 1, n)
      BY <1>2, <1>4, <1>14
    <3>2. missing'[s] /\ text # 0 /\ texts'[s] = text
      BY <1>2, <1>6, <1>14
    <3> HIDE DEF text
    <3> QED BY <3>1, <3>2 DEF SentSoFar
  <2> QED BY <2>1, <2>2, <2>3, <2>4
<1> HIDE DEF Others
<1>15. CASE a = n /\ n = 1 /\ Complete(s, p)
  <2>1. buffers' = BufferWithout(key) /\ delivered' = Returned(s, <<piece>>)
    BY <1>3, <1>15 DEF Complete
  <2> HIDE DEF key, piece, text, p
  <2> QED BY <1>9, <1>13, <1>15, <2>1 DEF Others
<1>16. CASE a = 1 /\ n > 1 /\ Start(s, p)
  <2>1. buffers' = BufferWith(key, <<piece>>) /\ delivered' = delivered
    BY <1>3, <1>16 DEF Start
  <2> HIDE DEF key, piece, text, p
  <2> QED BY <1>2, <1>5, <1>9, <1>12, <1>16, <2>1 DEF Others
<1>17. CASE a > 1 /\ a < n /\ s.kind \in Names /\ ContinueName(s, p)
  <2>1. buffers' = BufferWith(key, grown) /\ delivered' = delivered
    BY <1>3, <1>17 DEF ContinueName, NameHeld, Held
  <2>2. s.kind \notin {"flex", "sysex8"}
    BY <1>17 DEF Names
  <2> HIDE DEF key, grown, text, p
  <2> QED BY <1>5, <1>8, <1>12, <1>17, <2>1, <2>2 DEF Others
<1>18. CASE a = n /\ n > 1 /\ s.kind \in Names /\ EndName(s, p)
  <2>1. buffers' = BufferWithout(key) /\ delivered' = Returned(s, grown)
    BY <1>3, <1>18 DEF EndName, NameHeld, Held
  <2>2. s.kind \notin {"flex", "sysex8"}
    BY <1>18 DEF Names
  <2> HIDE DEF key, grown, text, p
  <2> QED BY <1>8, <1>13, <1>18, <2>1, <2>2 DEF Others
<1>19. CASE a > 1 /\ a < n /\ s.kind \notin Names /\ ContinueText(s, p)
  <2>1. CASE Held(s)
    <3>1. buffers' = BufferWith(key, grown) /\ delivered' = delivered
      BY <1>3, <1>19, <2>1 DEF ContinueText, Held
    <3> HIDE DEF key, grown, text, p
    <3> QED BY <1>5, <1>8, <1>12, <1>19, <2>1, <3>1 DEF Others
  <2>2. CASE ~ Held(s)
    <3>1. UNCHANGED <<buffers, delivered>>
      BY <1>19, <2>2 DEF ContinueText, Held
    <3> QED BY <1>5, <1>14, <1>19, <2>2, <3>1 DEF Others
  <2> QED BY <2>1, <2>2
<1>20. CASE a = n /\ n > 1 /\ s.kind \notin Names /\ EndText(s, p)
  <2>1. buffers' = BufferWithout(key)
    BY <1>20 DEF EndText
  <2>2. delivered' = IF Held(s) THEN Returned(s, grown) ELSE delivered
    BY <1>3, <1>20 DEF EndText, Held
  <2> HIDE DEF key, grown, text, p
  <2> QED BY <1>8, <1>13, <1>20, <2>1, <2>2 DEF Others
<1> QED BY <1>11, <1>15, <1>16, <1>17, <1>18, <1>19, <1>20

-----------------------------------------------------------------------------
(* What is known of the endpoint                                           *)

\* A block that is looked for is found, or added to the others.
LEMMA Upserting ==
  ASSUME NEW id \in Nat, endpoint \in Endpoints, OnceEach(endpoint.blocks)
  PROVE  /\ Upserted(id) \in Seq(Blocks) /\ OnceEach(Upserted(id))
         /\ BlockAt(id) \in DOMAIN Upserted(id) /\ Upserted(id)[BlockAt(id)].id = id
         /\ \A i \in DOMAIN endpoint.blocks : i \in DOMAIN Upserted(id) /\ Upserted(id)[i] = endpoint.blocks[i]
<1> DEFINE bs == endpoint.blocks
           u == Upserted(id)
<1>1. bs \in Seq(Blocks) /\ OnceEach(bs) /\ DOMAIN bs = 1..Len(bs) /\ Len(bs) \in Nat
  BY DEF Endpoints
<1>2. CASE \E i \in DOMAIN bs : bs[i].id = id
  <2>1. u = bs
    BY <1>2 DEF Upserted
  <2>2. \E i \in DOMAIN u : u[i].id = id
    BY <1>2, <2>1
  <2>3. BlockAt(id) \in DOMAIN u /\ u[BlockAt(id)].id = id
    BY <2>2 DEF BlockAt
  <2> HIDE DEF u, bs
  <2> QED BY <1>1, <2>1, <2>3 DEF u, bs
<1>3. CASE ~ \E i \in DOMAIN bs : bs[i].id = id
  <2> DEFINE b == NoBlock(id)
  <2>1. b \in Blocks /\ b.id = id
    <3>1. <<>> \in Seq(Pieces)
      OBVIOUS
    <3> QED BY <3>1 DEF NoBlock, Blocks
  <2>2. u = Append(bs, b)
    BY <1>3 DEF Upserted
  <2> HIDE DEF bs, b
  <2>3. /\ u \in Seq(Blocks) /\ Len(u) = Len(bs) + 1 /\ u[Len(bs) + 1] = b
        /\ \A i \in 1..Len(bs) : u[i] = bs[i]
    BY <1>1, <2>1, <2>2, AppendProperties
  <2> HIDE DEF u
  <2>4. DOMAIN u = 1..Len(bs) \cup {Len(bs) + 1}
    <3>1. DOMAIN u = 1..(Len(bs) + 1)
      BY <2>3
    <3> QED BY <1>1, <3>1
  <2>5. \A i \in 1..Len(bs) : u[i].id # id
    BY <1>1, <1>3, <2>3
  <2>6. OnceEach(u)
    BY <1>1, <2>1, <2>3, <2>4, <2>5 DEF OnceEach
  <2>7. \E i \in DOMAIN u : u[i].id = id
    BY <2>1, <2>3, <2>4
  <2>8. BlockAt(id) \in DOMAIN u /\ u[BlockAt(id)].id = id
    BY <2>7 DEF BlockAt, u
  <2> QED BY <1>1, <2>3, <2>4, <2>6, <2>8 DEF u, bs
<1> QED BY <1>2, <1>3

\* Writing one block leaves every other, and the block there is of each id.
LEMMA BlockWritten ==
  ASSUME NEW id \in Nat, endpoint \in Endpoints, OnceEach(endpoint.blocks),
         NEW b \in Blocks, b.id = id,
         endpoint' = [endpoint EXCEPT !.blocks = [Upserted(id) EXCEPT ![BlockAt(id)] = b]]
  PROVE  /\ endpoint' \in Endpoints /\ OnceEach(endpoint'.blocks)
         /\ \E i \in DOMAIN endpoint'.blocks : endpoint'.blocks[i] = b
         /\ \A i \in DOMAIN endpoint.blocks :
              endpoint.blocks[i].id # id \/ b.name = Upserted(id)[BlockAt(id)].name =>
                \E j \in DOMAIN endpoint'.blocks :
                  endpoint'.blocks[j].id = endpoint.blocks[i].id /\ endpoint'.blocks[j].name = endpoint.blocks[i].name
<1> DEFINE u == Upserted(id)
           k == BlockAt(id)
           c == [u EXCEPT ![k] = b]
<1>1. /\ u \in Seq(Blocks) /\ OnceEach(u) /\ k \in DOMAIN u /\ u[k].id = id
      /\ \A i \in DOMAIN endpoint.blocks : i \in DOMAIN u /\ u[i] = endpoint.blocks[i]
  BY Upserting
<1>2. endpoint' = [endpoint EXCEPT !.blocks = c]
  OBVIOUS
<1> HIDE DEF u, k
<1>3. /\ c \in Seq(Blocks) /\ DOMAIN c = DOMAIN u /\ c[k] = b
      /\ \A j \in DOMAIN u \ {k} : c[j] = u[j]
  BY <1>1
<1> HIDE DEF c
<1>4. OnceEach(c)
  BY <1>1, <1>3 DEF OnceEach
<1>5. endpoint' \in Endpoints /\ endpoint'.blocks = c
  BY <1>2, <1>3 DEF Endpoints
<1>6. \E i \in DOMAIN c : c[i] = b
  BY <1>1, <1>3
<1>7. ASSUME NEW i \in DOMAIN endpoint.blocks, endpoint.blocks[i].id # id \/ b.name = u[k].name
      PROVE  \E j \in DOMAIN c : c[j].id = endpoint.blocks[i].id /\ c[j].name = endpoint.blocks[i].name
  <2>1. i \in DOMAIN u /\ u[i] = endpoint.blocks[i]
    BY <1>1
  <2>2. CASE i = k
    BY <1>1, <1>3, <1>7, <2>1, <2>2
  <2>3. CASE i # k
    BY <1>3, <2>1, <2>3
  <2> QED BY <2>2, <2>3
<1> QED BY <1>4, <1>5, <1>6, <1>7 DEF u, k

\* The name an assembler returned is the block's.
LEMMA NameKept ==
  ASSUME StreamsInv, NEW s \in TextStreams, Named(s),
         delivered' \in [TextStreams -> Seq(Pieces)],
         delivered' # delivered => delivered'[s] # <<>>,
         \A t \in TextStreams \ {s} : delivered'[t] = delivered[t]
  PROVE  /\ endpoint' \in Endpoints /\ OnceEach(endpoint'.blocks)
         /\ \A t \in TextStreams : NamedInv(t)'
<1>1. /\ endpoint \in Endpoints /\ OnceEach(endpoint.blocks) /\ delivered \in [TextStreams -> Seq(Pieces)]
      /\ \A t \in TextStreams : NamedInv(t)
  BY DEF StreamsInv, StreamTypes, StreamInv
<1>2. CASE s.kind = "block" /\ delivered' # delivered
  <2>1. PICK id \in Nat : id = s.id
    <3>1. s \in [kind : {"block"}, group : {0}, id : 0..127]
      BY <1>2, UmpStreamsAssumption
    <3>2. s.id \in 0..127
      BY <3>1
    <3>3. \A i \in 0..127 : i \in Nat
      OBVIOUS
    <3> QED BY <3>2, <3>3
  <2>2. PICK old \in Blocks : old = Upserted(id)[BlockAt(id)] /\ old.id = id
    <3>1. /\ Upserted(id) \in Seq(Blocks) /\ BlockAt(id) \in DOMAIN Upserted(id)
          /\ Upserted(id)[BlockAt(id)].id = id
      BY <1>1, <2>1, Upserting
    <3> QED BY <3>1
  <2>3. PICK name \in Seq(Pieces) : name = delivered'[s]
    OBVIOUS
  <2>4. endpoint' = [endpoint EXCEPT !.blocks = [Upserted(id) EXCEPT ![BlockAt(id)] = [old EXCEPT !.name = name]]]
    BY <1>2, <2>1, <2>2, <2>3 DEF Named
  <2>5. PICK b \in Blocks : b = [old EXCEPT !.name = name] /\ b.id = id /\ b.name = name
    <3> DEFINE b == [old EXCEPT !.name = name]
    <3>1. b \in Blocks /\ b.id = old.id /\ b.name = name
      BY DEF Blocks
    <3>2. b = [old EXCEPT !.name = name]
      OBVIOUS
    <3> HIDE DEF b
    <3> QED BY <2>2, <3>1, <3>2
  <2>6. endpoint' = [endpoint EXCEPT !.blocks = [Upserted(id) EXCEPT ![BlockAt(id)] = b]]
    BY <2>4, <2>5
  <2>7. /\ endpoint' \in Endpoints /\ OnceEach(endpoint'.blocks)
        /\ \E i \in DOMAIN endpoint'.blocks : endpoint'.blocks[i] = b
        /\ \A i \in DOMAIN endpoint.blocks :
              endpoint.blocks[i].id # id \/ b.name = Upserted(id)[BlockAt(id)].name =>
                \E j \in DOMAIN endpoint'.blocks :
                  endpoint'.blocks[j].id = endpoint.blocks[i].id /\ endpoint'.blocks[j].name = endpoint.blocks[i].name
    BY <1>1, <2>1, <2>5, <2>6, BlockWritten
  <2>8. \A t \in TextStreams \ {s} : t.kind = "block" => t.id # id
    <3>1. ASSUME NEW t \in TextStreams, t.kind = "block", t.id = id PROVE t = s
      <4>1. AssemblyKey(s) = AssemblyKey(t)
        BY <1>2, <2>1, <3>1 DEF AssemblyKey
      <4> QED BY <4>1, KeysDiffer
    <3> QED BY <3>1
  <2>9. ASSUME NEW t \in TextStreams PROVE NamedInv(t)'
    <3> SUFFICES ASSUME t.kind = "block", delivered'[t] # <<>>
                 PROVE  \E i \in DOMAIN endpoint'.blocks :
                          endpoint'.blocks[i].id = t.id /\ endpoint'.blocks[i].name = delivered'[t]
      BY DEF NamedInv
    <3>1. CASE t = s
      BY <2>1, <2>3, <2>5, <2>7, <3>1
    <3>2. CASE t # s
      <4>1. PICK i \in DOMAIN endpoint.blocks : endpoint.blocks[i].id = t.id /\ endpoint.blocks[i].name = delivered[t]
        BY <1>1, <3>2 DEF NamedInv
      <4> QED BY <2>7, <2>8, <3>2, <4>1
    <3> QED BY <3>1, <3>2
  <2> QED BY <2>7, <2>9
<1>3. CASE ~ (s.kind = "block" /\ delivered' # delivered)
  <2>1. endpoint' = endpoint
    BY <1>3 DEF Named
  <2>2. \A t \in TextStreams : t.kind = "block" => delivered'[t] = delivered[t]
    BY <1>3
  <2> QED BY <1>1, <2>1, <2>2 DEF NamedInv
<1> QED BY <1>2, <1>3

-----------------------------------------------------------------------------
(* Every step keeps the invariant                                          *)

LEMMA StreamsBegin == StreamsInit => StreamsInv
<1> SUFFICES ASSUME StreamsInit PROVE StreamsInv
  OBVIOUS
<1>1. endpoint \in Endpoints /\ OnceEach(endpoint.blocks)
  BY DEF StreamsInit, NoEndpoint, Endpoints, OnceEach
<1>2. StreamTypes
  BY <1>1 DEF StreamsInit, StreamTypes
<1>3. ASSUME NEW s \in TextStreams PROVE StreamInv(s)
  BY DEF StreamsInit, StreamInv, SentSoFar, HeldInv, Held, ReturnedInv, NamedInv
<1> QED BY <1>2, <1>3 DEF StreamsInv

\* What only the sender does leaves the assemblers alone.
LEMMA SenderKeeps ==
  ASSUME StreamsInv, UNCHANGED <<buffers, delivered, endpoint>>,
         texts' \in [TextStreams -> Nat], missing' \in [TextStreams -> BOOLEAN], DOMAIN sending' = TextStreams,
         \A s \in TextStreams : SentSoFar(s)' /\ texts[s] <= texts'[s] /\ (missing[s] => missing'[s])
  PROVE  StreamsInv'
<1>1. StreamTypes'
  BY DEF StreamsInv, StreamTypes
<1>2. ASSUME NEW s \in TextStreams PROVE HeldInv(s)' /\ ReturnedInv(s)' /\ NamedInv(s)'
  <2>1. HeldInv(s) /\ ReturnedInv(s) /\ NamedInv(s)
    BY DEF StreamsInv, StreamInv
  <2>2. HeldInv(s)' /\ NamedInv(s)'
    BY <2>1 DEF HeldInv, Held, Grown, NamedInv
  <2>3. \A k : k \in 1..texts[s] => k \in 1..texts'[s]
    BY DEF StreamsInv, StreamTypes
  <2>4. ReturnedInv(s)'
    BY <2>1, <2>3 DEF ReturnedInv, Grown, WholeOne, StreamsInv, StreamTypes
  <2> QED BY <2>2, <2>4
<1> QED BY <1>1, <1>2 DEF StreamsInv, StreamInv

LEMMA SendKeeps ==
  ASSUME StreamsInv, NEW s \in TextStreams, NEW n \in 1..MaxPieces, Send(s, n)
  PROVE  StreamsInv'
<1>1. PICK k \in Nat \ {0} : k = texts[s] + 1
  BY DEF StreamsInv, StreamTypes
<1>2. /\ texts' = [texts EXCEPT ![s] = k] /\ sending' = [sending EXCEPT ![s] = Split(s, k, n)]
      /\ UNCHANGED <<missing, buffers, delivered, endpoint>>
  BY <1>1 DEF Send
<1>3. Split(s, k, n) = Rest(s, k, 1, n)
  <2>1. n \in Nat /\ n - 1 + 1 = n
    BY UmpStreamsAssumption
  <2>2. \A part \in 1..n : part + 1 - 1 = part
    BY <2>1
  <2> QED BY <2>1, <2>2 DEF Split, Rest
<1>4. ASSUME NEW t \in TextStreams PROVE SentSoFar(t)' /\ texts[t] <= texts'[t] /\ (missing[t] => missing'[t])
  <2>1. CASE t = s
    <3>1. sending'[s] = Rest(s, texts'[s], 1, n) /\ texts'[s] = k /\ 1 \in 1..n /\ ~ (1 > 1)
      BY <1>2, <1>3, UmpStreamsAssumption DEF StreamsInv, StreamTypes
    <3>2. SentSoFar(s)'
      BY <3>1, <1>1 DEF SentSoFar
    <3> QED BY <1>1, <1>2, <2>1, <3>1, <3>2 DEF StreamsInv, StreamTypes
  <2>2. CASE t # s
    <3>1. sending'[t] = sending[t] /\ texts'[t] = texts[t] /\ texts[t] \in Nat
      BY <1>2, <2>2 DEF StreamsInv, StreamTypes
    <3>2. SentSoFar(t)'
      BY <1>2, <3>1 DEF SentSoFar, Held, StreamsInv, StreamInv
    <3> QED BY <1>2, <3>1, <3>2
  <2> QED BY <2>1, <2>2
<1>5. texts' \in [TextStreams -> Nat] /\ missing' \in [TextStreams -> BOOLEAN] /\ DOMAIN sending' = TextStreams
  BY <1>2 DEF StreamsInv, StreamTypes
<1> QED BY <1>2, <1>4, <1>5, SenderKeeps

LEMMA AbandonKeeps ==
  ASSUME StreamsInv, NEW s \in TextStreams, Abandon(s)
  PROVE  StreamsInv'
<1>1. /\ sending' = [sending EXCEPT ![s] = <<>>]
      /\ UNCHANGED <<texts, missing, buffers, delivered, endpoint>>
  BY DEF Abandon
<1>2. ASSUME NEW t \in TextStreams PROVE SentSoFar(t)' /\ texts[t] <= texts'[t] /\ (missing[t] => missing'[t])
  <2>1. sending'[t] = IF t = s THEN <<>> ELSE sending[t]
    BY <1>1 DEF StreamsInv, StreamTypes
  <2>2. SentSoFar(t)'
    BY <1>1, <2>1 DEF SentSoFar, Held, StreamsInv, StreamInv
  <2> QED BY <1>1, <2>2 DEF StreamsInv, StreamTypes
<1>3. texts' \in [TextStreams -> Nat] /\ missing' \in [TextStreams -> BOOLEAN] /\ DOMAIN sending' = TextStreams
  BY <1>1 DEF StreamsInv, StreamTypes
<1> QED BY <1>1, <1>2, <1>3, SenderKeeps

LEMMA LoseKeeps ==
  ASSUME StreamsInv, NEW s \in TextStreams, Lose(s)
  PROVE  StreamsInv'
<1>1. /\ sending' = [sending EXCEPT ![s] = Tail(@)] /\ missing' = [missing EXCEPT ![s] = TRUE]
      /\ UNCHANGED <<texts, buffers, delivered, endpoint>> /\ sending[s] # <<>>
  BY DEF Lose
<1>2. ASSUME NEW t \in TextStreams PROVE SentSoFar(t)' /\ texts[t] <= texts'[t] /\ (missing[t] => missing'[t])
  <2>1. CASE t = s
    <3>1. PICK n \in 1..MaxPieces : \E a \in 1..n : NextPacket(s, a, n)
      BY <1>1, PacketComes
    <3>2. PICK a \in 1..n : NextPacket(s, a, n)
      BY <3>1
    <3>3. sending'[s] = (IF a = n THEN <<>> ELSE Rest(s, texts[s], a + 1, n)) /\ missing'[s] = TRUE
      BY <1>1, <3>2 DEF NextPacket, StreamsInv, StreamTypes
    <3>4. texts'[s] = texts[s] /\ texts[s] # 0 /\ texts[s] \in Nat
      BY <1>1, PacketComes
    <3>5. a # n => a + 1 \in 1..n
      BY UmpStreamsAssumption
    <3>6. SentSoFar(s)'
      BY <3>3, <3>4, <3>5 DEF SentSoFar
    <3> QED BY <2>1, <3>3, <3>4, <3>6
  <2>2. CASE t # s
    <3>1. sending'[t] = sending[t] /\ missing'[t] = missing[t] /\ texts[t] \in Nat
      BY <1>1, <2>2 DEF StreamsInv, StreamTypes
    <3>2. SentSoFar(t)'
      BY <1>1, <3>1 DEF SentSoFar, Held, StreamsInv, StreamInv
    <3> QED BY <1>1, <3>1, <3>2
  <2> QED BY <2>1, <2>2
<1>3. texts' \in [TextStreams -> Nat] /\ missing' \in [TextStreams -> BOOLEAN] /\ DOMAIN sending' = TextStreams
  BY <1>1 DEF StreamsInv, StreamTypes
<1> QED BY <1>1, <1>2, <1>3, SenderKeeps

LEMMA ArrivesKeeps ==
  ASSUME StreamsInv, NEW s \in TextStreams, Arrives(s)
  PROVE  StreamsInv'
<1>1. /\ SentSoFar(s)' /\ HeldInv(s)' /\ ReturnedInv(s)'
      /\ delivered' \in [TextStreams -> Seq(Pieces)]
      /\ delivered' # delivered => delivered'[s] # <<>>
      /\ \A t \in TextStreams \ {s} :
           /\ delivered'[t] = delivered[t] /\ Held(t)' = Held(t)
           /\ Held(t) => buffers'[AssemblyKey(t)] = buffers[AssemblyKey(t)]
  BY Assembles
<1>2. Named(s) /\ UNCHANGED <<texts, missing>> /\ sending' = [sending EXCEPT ![s] = Tail(@)]
  BY DEF Arrives
<1>3. endpoint' \in Endpoints /\ OnceEach(endpoint'.blocks) /\ \A t \in TextStreams : NamedInv(t)'
  BY <1>1, <1>2, NameKept
<1>4. StreamTypes'
  BY <1>1, <1>2, <1>3 DEF StreamsInv, StreamTypes, OnceEach
<1>5. ASSUME NEW t \in TextStreams, t # s PROVE SentSoFar(t)' /\ HeldInv(t)' /\ ReturnedInv(t)'
  <2>1. /\ SentSoFar(t) /\ HeldInv(t) /\ ReturnedInv(t)
        /\ sending'[t] = sending[t] /\ texts' = texts /\ missing' = missing
    BY <1>2, <1>5 DEF StreamsInv, StreamInv, StreamTypes
  <2>2. /\ delivered'[t] = delivered[t] /\ Held(t)' = Held(t)
        /\ Held(t) => buffers'[AssemblyKey(t)] = buffers[AssemblyKey(t)]
    BY <1>1, <1>5
  <2>3. SentSoFar(t)'
    BY <2>1, <2>2 DEF SentSoFar
  <2>4. HeldInv(t)'
    BY <2>1, <2>2 DEF HeldInv
  <2>5. ReturnedInv(t)'
    BY <2>1, <2>2 DEF ReturnedInv, Grown, WholeOne
  <2> QED BY <2>3, <2>4, <2>5
<1> QED BY <1>1, <1>3, <1>4, <1>5 DEF StreamsInv, StreamInv

\* What the endpoint tells of itself leaves the texts alone.
LEMMA ToldKeeps ==
  ASSUME StreamsInv, Told, endpoint' \in Endpoints, OnceEach(endpoint'.blocks), \A s \in TextStreams : NamedInv(s)'
  PROVE  StreamsInv'
<1>1. StreamTypes'
  BY DEF StreamsInv, StreamTypes, Told, OnceEach
<1>2. ASSUME NEW s \in TextStreams PROVE SentSoFar(s)' /\ HeldInv(s)' /\ ReturnedInv(s)'
  <2>1. SentSoFar(s)'
    BY DEF StreamsInv, StreamInv, SentSoFar, Held, Told
  <2>2. HeldInv(s)' /\ ReturnedInv(s)'
    BY DEF StreamsInv, StreamInv, HeldInv, Held, ReturnedInv, Grown, WholeOne, Told
  <2> QED BY <2>1, <2>2
<1> QED BY <1>1, <1>2 DEF StreamsInv, StreamInv

\* ... and, but for a function block's, the blocks.
LEMMA BlocksLeft ==
  ASSUME StreamsInv, Told, endpoint' \in Endpoints, endpoint'.blocks = endpoint.blocks
  PROVE  StreamsInv'
<1>1. \A s \in TextStreams : NamedInv(s)'
  BY DEF StreamsInv, StreamInv, NamedInv, Told
<1>2. OnceEach(endpoint'.blocks)
  BY DEF StreamsInv, StreamTypes
<1> QED BY <1>1, <1>2, ToldKeeps

LEMMA FbInfoKeeps ==
  ASSUME StreamsInv, NEW id \in 0..127, NEW first \in 0..255, NEW n \in 0..255, NEW midi10 \in 0..255,
         NEW direction \in 0..255, FbInfo(id, first, n, midi10, direction)
  PROVE  StreamsInv'
<1>1. endpoint \in Endpoints /\ OnceEach(endpoint.blocks) /\ id \in Nat
  BY DEF StreamsInv, StreamTypes
<1>2. PICK old \in Blocks : old = Upserted(id)[BlockAt(id)] /\ old.id = id
  <2>1. /\ Upserted(id) \in Seq(Blocks) /\ BlockAt(id) \in DOMAIN Upserted(id)
        /\ Upserted(id)[BlockAt(id)].id = id
    BY <1>1, Upserting
  <2> QED BY <2>1
<1>7. PICK one \in BOOLEAN : one = (midi10 \in {1, 2})
  <2>1. (midi10 \in {1, 2}) \in BOOLEAN
    OBVIOUS
  <2> QED BY <2>1, Zenon
<1>8. PICK two \in BOOLEAN : two = (midi10 = 0)
  <2>1. (midi10 = 0) \in BOOLEAN
    OBVIOUS
  <2> QED BY <2>1, Zenon
<1> DEFINE told == [old EXCEPT !.first_group = first, !.n_groups = n, !.midi1 = one, !.midi2 = two,
                               !.direction = direction]
<1>3. told \in Blocks /\ told.id = id /\ told.name = old.name
  <2>1. first \in Nat /\ n \in Nat /\ direction \in Nat
    OBVIOUS
  <2> QED BY <1>2, <2>1 DEF Blocks
<1>4. endpoint' = [endpoint EXCEPT !.blocks = [Upserted(id) EXCEPT ![BlockAt(id)] = told]] /\ Told
  BY <1>2, <1>7, <1>8 DEF FbInfo
<1> HIDE DEF told
<1>5. /\ endpoint' \in Endpoints /\ OnceEach(endpoint'.blocks)
      /\ \A i \in DOMAIN endpoint.blocks :
           endpoint.blocks[i].id # id \/ told.name = Upserted(id)[BlockAt(id)].name =>
             \E j \in DOMAIN endpoint'.blocks :
               endpoint'.blocks[j].id = endpoint.blocks[i].id /\ endpoint'.blocks[j].name = endpoint.blocks[i].name
  BY ZenonT(40), <1>1, <1>3, <1>4, BlockWritten
<1>6. \A s \in TextStreams : NamedInv(s)'
  BY SMTT(20), <1>2, <1>3, <1>4, <1>5 DEF NamedInv, StreamsInv, StreamInv, Told
<1> QED BY <1>4, <1>5, <1>6, ToldKeeps

LEMMA StreamsGoOn == StreamsInv /\ [StreamsNext]_streamVars => StreamsInv'
<1> SUFFICES ASSUME StreamsInv, [StreamsNext]_streamVars PROVE StreamsInv'
  OBVIOUS
<1>1. ASSUME NEW s \in TextStreams, (\E n \in 1..MaxPieces : Send(s, n)) \/ Abandon(s) \/ Lose(s) \/ Arrives(s)
      PROVE  StreamsInv'
  BY <1>1, SendKeeps, AbandonKeeps, LoseKeeps, ArrivesKeeps
<1>2. endpoint \in Endpoints
  BY DEF StreamsInv, StreamTypes
<1>3. ASSUME NEW byte \in 0..255 PROVE Protocol(byte) \in Nat
  BY <1>2 DEF Protocol, Endpoints
<1>4. ASSUME NEW protocols \in 0..255, NEW jr \in SUBSET {"tx", "rx"}, EpInfo(protocols, jr)
      PROVE  StreamsInv'
  <2>1. endpoint' \in Endpoints /\ endpoint'.blocks = endpoint.blocks /\ Told
    BY <1>2, <1>3, <1>4 DEF EpInfo, Endpoints
  <2> QED BY <2>1, BlocksLeft
<1>5. ASSUME NEW protocol \in 0..255, StreamCfg(protocol) PROVE StreamsInv'
  <2>1. endpoint' \in Endpoints /\ endpoint'.blocks = endpoint.blocks /\ Told
    BY <1>2, <1>3, <1>5 DEF StreamCfg, Endpoints
  <2> QED BY <2>1, BlocksLeft
<1>6. ASSUME Identity PROVE StreamsInv'
  <2>1. endpoint' \in Endpoints /\ endpoint'.blocks = endpoint.blocks /\ Told
    BY <1>2, <1>6 DEF Identity, Endpoints
  <2> QED BY <2>1, BlocksLeft
<1>7. CASE UNCHANGED streamVars
  <2>1. Told /\ endpoint' = endpoint
    BY <1>7 DEF streamVars, Told
  <2> QED BY <1>2, <2>1, BlocksLeft
<1> QED BY ZenonT(40), <1>1, <1>4, <1>5, <1>6, <1>7, FbInfoKeeps DEF StreamsNext

LEMMA WhatIsHeldIsWhole == StreamsInv => AssembledWhole
<1> SUFFICES ASSUME StreamsInv PROVE AssembledWhole
  OBVIOUS
<1>1. ASSUME NEW s \in TextStreams, delivered[s] # <<>>
      PROVE  /\ \A i \in DOMAIN delivered[s] : delivered[s][i][1] = s
             /\ ~ missing[s] => \E n \in 1..MaxPieces, k \in 1..texts[s] : delivered[s] = [i \in 1..n |-> <<s, k, i>>]
             /\ s.kind \in {"flex", "sysex8"} => delivered[s][1][3] = 1
             /\ s.kind = "block" => \E i \in DOMAIN endpoint.blocks :
                                      endpoint.blocks[i].id = s.id /\ endpoint.blocks[i].name = delivered[s]
  BY <1>1 DEF StreamsInv, StreamInv, ReturnedInv, NamedInv, Grown, WholeOne, Begun
<1> QED BY <1>1 DEF AssembledWhole, StreamsInv, StreamTypes, OnceEach

\* Whatever streams interleave, are cut off or lose packets, and however many
\* blocks there are: what an assembler returns is one stream's, whole unless a
\* packet of it was lost, and a block keeps its name (ump_stream.rs assemble,
\* flex.rs and sysex8.rs push).
THEOREM TextsArriveWhole == StreamsSpec => []AssembledWhole
<1>1. StreamsInit => StreamsInv
  BY StreamsBegin
<1>2. StreamsInv /\ [StreamsNext]_streamVars => StreamsInv'
  BY StreamsGoOn
<1>3. StreamsInv => AssembledWhole
  BY WhatIsHeldIsWhole
<1> QED BY <1>1, <1>2, <1>3, PTL DEF StreamsSpec
-----------------------------------------------------------------------------
(* Induction over the numbers, from the least element of a well-founded    *)
(* order: a set of them with zero and every successor has them all.        *)

\* A set of numbers with zero and every successor is all of them.
LEMMA EveryNatural ==
  ASSUME NEW T \in SUBSET Nat, 0 \in T, \A n \in T : n + 1 \in T
  PROVE  T = Nat
<1> DEFINE U == Nat \ T
           V == {1..u : u \in U}
           R == StrictSubsetOrdering(Nat)
           S == FiniteSubsetsOf(Nat)
<1> SUFFICES ASSUME U # {} PROVE FALSE
  OBVIOUS
<1>1. IsWellFoundedOn(R, S)
  BY FS_StrictSubsetOrderingWellFounded
<1>2. V \subseteq S /\ V # {}
  <2>1. ASSUME NEW u \in Nat PROVE 1..u \in S
    <3>1. 1..u \subseteq Nat /\ IsFiniteSet(1..u)
      BY FS_Interval
    <3> QED BY <3>1 DEF FiniteSubsetsOf
  <2> QED BY <2>1
<1>3. PICK v \in V : \A y \in V : ~ (<<y, v>> \in R)
  <2> HIDE DEF V, R, S
  <2> QED BY <1>1, <1>2, WFMin
<1>4. PICK x \in U : v = 1..x
  OBVIOUS
<1>5. x \in Nat /\ x # 0
  OBVIOUS
<1>6. x - 1 \in Nat /\ x - 1 \in T
  <2> SUFFICES ASSUME x - 1 \in U PROVE FALSE
    BY <1>5
  <2>1. 1..(x - 1) \in V
    OBVIOUS
  <2>2. 1..(x - 1) \subseteq 1..x /\ x \in 1..x /\ x \notin 1..(x - 1) /\ 1..x \subseteq Nat
    BY <1>5
  <2>3. <<1..(x - 1), v>> \in R
    BY <1>4, <2>2 DEF StrictSubsetOrdering
  <2> QED BY <1>3, <2>1, <2>3
<1> QED BY <1>5, <1>6

-----------------------------------------------------------------------------
(* What a map learns from a message takes that message as it is.           *)

\* What channel voice looks like.
LEMMA VoiceFields ==
  ASSUME NEW p \in UmpPackets, IsVoice(p)
  PROVE  /\ p.status \in Nat /\ p.status < 256 /\ p.d1 \in Nat /\ p.d1 < 128
         /\ p.mt = 2 => p = Midi1(p.status, p.d1, p.d2) /\ p.d2 \in Nat /\ p.d2 < 128 /\ 128 <= p.status /\ p.status < 240
         /\ p.mt = 4 => p = Midi2(p.status, p.d1, p.d2, p.v, p.low) /\ p.v \in Nat /\ p.v < 65536
<1> p \in AnyPackets
  BY DEF UmpPackets
<1> USE DEF AnyPackets
<1>1. CASE p.mt = 2
  <2>1. IsShort(p)
    BY <1>1 DEF UmpPackets
  <2>2. p.status \in 128..239 /\ p.d1 < 128 /\ p.d2 < 128 /\ p.v = 0 /\ p.low = 0
    <3>1. p.d1 \in Nat /\ p.d2 \in Nat /\ (p.status \in 128..239 /\ p.v = 0 /\ p.low = 0)
      BY <1>1, <2>1 DEF IsShort, Below
    <3>2. p.d1 < (IF DataLen(p.status) >= 1 THEN 128 ELSE 1) /\ p.d2 < (IF DataLen(p.status) = 2 THEN 128 ELSE 1)
      BY <2>1 DEF IsShort
    <3>3. p.d1 < 128
      BY <3>1, <3>2
    <3> QED BY <3>1, <3>2, <3>3
  <2>3. p = [mt |-> p.mt, status |-> p.status, d1 |-> p.d1, d2 |-> p.d2, v |-> p.v, low |-> p.low]
    OBVIOUS
  <2>4. p = Midi1(p.status, p.d1, p.d2)
    BY <1>1, <2>2, <2>3 DEF Midi1, Packet
  <2> QED BY <1>1, <2>2, <2>4 DEF Below
<1>2. CASE p.mt = 4
  <2>1. p.d1 < 128
    BY <1>2 DEF UmpPackets
  <2>2. p = [mt |-> p.mt, status |-> p.status, d1 |-> p.d1, d2 |-> p.d2, v |-> p.v, low |-> p.low]
    OBVIOUS
  <2>3. p = Midi2(p.status, p.d1, p.d2, p.v, p.low)
    BY <1>2, <2>2 DEF Midi2, Packet
  <2> QED BY <1>2, <2>1, <2>3 DEF Below
<1> QED BY <1>1, <1>2 DEF IsVoice

\* The kind that a status byte of channel voice stands for, and back.
LEMMA KindOfStatus ==
  ASSUME NEW p \in UmpPackets, IsVoice(p), 8 <= Op(p), Op(p) <= 14
  PROVE  /\ VoiceKindOf(p) # NoKind
         /\ 16 * status_nibble(VoiceKindOf(p)) + Channel(p) = p.status
<1>1. p.status \in Nat
  BY VoiceFields
<1>2. Op(p) \in Nat /\ 16 * Op(p) + Channel(p) = p.status
  BY <1>1 DEF Channel, Op
<1>3. Op(p) \in {8, 9, 10, 11, 12, 13, 14}
  BY <1>2
<1>4. VoiceKindOf(p) # NoKind /\ status_nibble(VoiceKindOf(p)) = Op(p)
  BY <1>3 DEF VoiceKindOf, status_nibble, NoKind
<1> QED
  <2> PICK nibble : nibble = status_nibble(VoiceKindOf(p))
    OBVIOUS
  <2> QED BY <1>2, <1>4

LEMMA SameKind ==
  ASSUME NEW p, NEW q, IsVoice(p), IsVoice(q), Op(p) = Op(q)
  PROVE  VoiceKindOf(p) = VoiceKindOf(q)
BY DEF VoiceKindOf

\* A velocity in seven bits.
LEMMA NarrowVelocity ==
  ASSUME NEW v \in Nat, v < 65536
  PROVE  velocity16_to_7(v) \in Below(128) /\ AtLeastOne(velocity16_to_7(v)) \in Below(128)
<1> DEFINE scaled == (v * 127 + 32767) \div 65535
<1>1. scaled \in Nat /\ scaled < 128
  OBVIOUS
<1> QED BY <1>1 DEF velocity16_to_7, AtLeastOne, Below

\* The MIDI 1.0 form of a message that is learned, if it has only one, is of
\* its kind and channel.
LEMMA OneForm ==
  ASSUME NEW p \in UmpPackets, Learnable(p), Len(downscale_to_midi1(p)) = 1
  PROVE  /\ IsVoice(p) /\ 8 <= Op(p) /\ Op(p) <= 14
         /\ LET first == downscale_to_midi1(p)[1]
            IN /\ VoiceKindOf(first) = VoiceKindOf(p) /\ Channel(first) = Channel(p)
               /\ first.d1 \in Below(128) /\ first.d2 \in Below(128)
<1> DEFINE first == downscale_to_midi1(p)[1]
<1>1. CASE p.mt # 4
  <2>1. first = p
    BY <1>1 DEF downscale_to_midi1
  <2>2. IsVoice(p)
    BY <2>1 DEF Learnable, VoiceKindOf
  <2>3. p.mt = 2 /\ p.status \in Nat /\ 128 <= p.status /\ p.status < 240 /\ p.d1 \in Below(128) /\ p.d2 \in Below(128)
    BY <1>1, <2>2, VoiceFields DEF IsVoice, Below
  <2>4. 8 <= Op(p) /\ Op(p) <= 14
    BY <2>3 DEF Op
  <2> QED BY <2>1, <2>2, <2>3, <2>4
<1>2. CASE p.mt = 4
  <2>1. IsVoice(p) /\ p.status \in Nat /\ p.status < 256 /\ p.d1 \in Below(128) /\ p.v \in Nat /\ p.v < 65536
    BY <1>2, VoiceFields DEF IsVoice, Below
  <2>2. Op(p) \in Nat /\ Op(p) < 16
    BY <2>1 DEF Op
  <2>3. Op(p) \notin {0, 1, 4, 5, 6, 15}
    BY <1>2, <2>2 DEF downscale_to_midi1
  <2>4. Op(p) \notin {2, 3}
    BY <1>2, <2>2 DEF downscale_to_midi1, Parameter
  <2>5. Op(p) # 7
    <3>1. SUFFICES ASSUME Op(p) = 7 PROVE FALSE
      OBVIOUS
    <3>2. first = p
      BY <1>2, <3>1 DEF downscale_to_midi1
    <3>3. VoiceKindOf(p) = NoKind
      BY <2>1, <3>1 DEF VoiceKindOf
    <3> QED BY <3>2, <3>3 DEF Learnable
  <2>6. Op(p) \in {8, 9, 10, 11, 12, 13, 14}
    BY <2>2, <2>3, <2>4, <2>5
  <2> DEFINE One(a, b) == a \in Below(128) /\ b \in Below(128) /\ downscale_to_midi1(p) = <<Midi1(p.status, a, b)>>
  <2>7. ASSUME NEW a, NEW b, One(a, b)
        PROVE  /\ VoiceKindOf(first) = VoiceKindOf(p) /\ Channel(first) = Channel(p)
               /\ first.d1 \in Below(128) /\ first.d2 \in Below(128)
    <3>1. first = Midi1(p.status, a, b)
      BY <2>7
    <3>2. /\ first.status = p.status /\ first.mt = 2 /\ first.d1 = a /\ first.d2 = b
      BY <3>1 DEF Midi1, Packet
    <3> HIDE DEF first
    <3>3. IsVoice(first) /\ Op(first) = Op(p) /\ Channel(first) = Channel(p)
      BY <3>2 DEF IsVoice, Op, Channel
    <3>4. VoiceKindOf(first) = VoiceKindOf(p)
      BY <2>1, <3>3, SameKind
    <3> QED BY <2>7, <3>2, <3>3, <3>4
  <2>8. 0 \in Below(128) /\ value32_to_7(p.v) \in Below(128) /\ (p.v \div 4) % 128 \in Below(128)
        /\ p.v \div 512 \in Below(128) /\ (p.v \div 256) % 128 \in Below(128)
    BY <2>1 DEF value32_to_7, Below
  <2>9. 8 <= Op(p) /\ Op(p) <= 14
    BY <2>6
  <2> HIDE DEF first
  <2>10. CASE Op(p) = 8
    <3>1. downscale_to_midi1(p) = <<Midi1(p.status, p.d1, velocity16_to_7(p.v))>>
      BY <1>2, <2>10 DEF downscale_to_midi1
    <3>2. One(p.d1, velocity16_to_7(p.v))
      BY <2>1, <3>1, NarrowVelocity
    <3> HIDE DEF One
    <3> QED BY <2>1, <2>7, <2>9, <3>2 DEF first
  <2>11. CASE Op(p) = 9
    <3>1. downscale_to_midi1(p) = <<Midi1(p.status, p.d1, AtLeastOne(velocity16_to_7(p.v)))>>
      BY <1>2, <2>11 DEF downscale_to_midi1
    <3>2. One(p.d1, AtLeastOne(velocity16_to_7(p.v)))
      BY <2>1, <3>1, NarrowVelocity
    <3> HIDE DEF One
    <3> QED BY <2>1, <2>7, <2>9, <3>2 DEF first
  <2>12. CASE Op(p) \in {10, 11}
    <3>1. downscale_to_midi1(p) = <<Midi1(p.status, p.d1, value32_to_7(p.v))>>
      BY <1>2, <2>12 DEF downscale_to_midi1
    <3>2. One(p.d1, value32_to_7(p.v))
      BY <2>1, <2>8, <3>1
    <3> HIDE DEF One
    <3> QED BY <2>1, <2>7, <2>9, <3>2 DEF first
  <2>13. CASE Op(p) = 12
    <3>1. downscale_to_midi1(p) = ProgramChange(p)
      BY <1>2, <2>13 DEF downscale_to_midi1
    <3>2. downscale_to_midi1(p) = <<Midi1(p.status, (p.v \div 256) % 128, 0)>>
      BY <3>1 DEF ProgramChange
    <3>3. One((p.v \div 256) % 128, 0)
      BY <2>8, <3>2
    <3> HIDE DEF One
    <3> QED BY <2>1, <2>7, <2>9, <3>3 DEF first
  <2>14. CASE Op(p) = 13
    <3>1. downscale_to_midi1(p) = <<Midi1(p.status, value32_to_7(p.v), 0)>>
      BY <1>2, <2>14 DEF downscale_to_midi1
    <3>2. One(value32_to_7(p.v), 0)
      BY <2>8, <3>1
    <3> HIDE DEF One
    <3> QED BY <2>1, <2>7, <2>9, <3>2 DEF first
  <2>15. CASE Op(p) = 14
    <3>1. downscale_to_midi1(p) = <<Midi1(p.status, pitch32_to_14(p.v)[1], pitch32_to_14(p.v)[2])>>
      BY <1>2, <2>15 DEF downscale_to_midi1
    <3>2. pitch32_to_14(p.v)[1] = (p.v \div 4) % 128 /\ pitch32_to_14(p.v)[2] = p.v \div 512
      BY DEF pitch32_to_14
    <3>3. One(pitch32_to_14(p.v)[1], pitch32_to_14(p.v)[2])
      BY <2>8, <3>1, <3>2
    <3> HIDE DEF One
    <3> QED BY <2>1, <2>7, <2>9, <3>3 DEF first
  <2> QED BY <2>6, <2>10, <2>11, <2>12, <2>13, <2>14, <2>15
<1> QED BY <1>1, <1>2

\* The entry that a message teaches.
Lesson(p) == Entry(learn_from(p), Rewrite(NoKind, NoChannel, Keep, Keep))

LEMMA LessonFields ==
  ASSUME NEW p
  PROVE  LET first == downscale_to_midi1(p)[1]
             e == Lesson(p)
         IN /\ e.matcher.kinds = {VoiceKindOf(first)} /\ e.matcher.channels = {Channel(first)}
            /\ e.matcher.data1 = <<first.d1, first.d1>> /\ e.matcher.data2 = <<0, 127>>
            /\ e.action = Rewrite(NoKind, NoChannel, Keep, Keep)
BY DEF Lesson, Entry, learn_from, DefaultMatcher

\* A message that has one MIDI 1.0 form matches it.
LEMMA LessonMatches ==
  ASSUME NEW p \in UmpPackets, Learnable(p), Len(downscale_to_midi1(p)) = 1
  PROVE  Matches(Lesson(p).matcher, p)
<1> DEFINE first == downscale_to_midi1(p)[1]
           e == Lesson(p)
<1>1. LastForm(p) = first
  <2>1. CASE p.mt = 4
    BY <2>1 DEF LastForm
  <2>2. CASE p.mt # 4
    BY <2>2 DEF LastForm, downscale_to_midi1
  <2> QED BY <2>1, <2>2
<1>2. /\ VoiceKindOf(first) = VoiceKindOf(p) /\ Channel(first) = Channel(p)
      /\ first.d1 \in Nat /\ first.d2 \in Nat /\ first.d2 < 128
  BY OneForm DEF Below
<1>3. /\ e.matcher.kinds = {VoiceKindOf(first)} /\ e.matcher.channels = {Channel(first)}
      /\ e.matcher.data1 = <<first.d1, first.d1>> /\ e.matcher.data2 = <<0, 127>>
  BY LessonFields
<1> HIDE DEF first, e
<1>4. in_range(first.d1, e.matcher.data1) /\ in_range(first.d2, e.matcher.data2)
  BY <1>2, <1>3 DEF in_range, Lower, Upper
<1>5. Matches(e.matcher, p)
  BY <1>1, <1>2, <1>3, <1>4 DEF Matches, DataMatches
<1> QED BY <1>5 DEF e

\* Its action changes nothing of such a message.
LEMMA LessonKeeps ==
  ASSUME NEW p \in UmpPackets, Learnable(p), Len(downscale_to_midi1(p)) = 1
  PROVE  ActionApply(Lesson(p).action, p) = <<p>>
<1> DEFINE a == Lesson(p).action
           status == 16 * status_nibble(VoiceKindOf(p)) + Channel(p)
<1>1. a = Rewrite(NoKind, NoChannel, Keep, Keep)
  BY LessonFields
<1>2. a.drop = FALSE /\ a.kind = NoKind /\ a.channel = NoChannel /\ a.data1 = Keep /\ a.data2 = Keep
  BY <1>1 DEF Rewrite
<1>3. IsVoice(p) /\ status = p.status
  BY OneForm, KindOfStatus
<1> HIDE DEF a, status
<1>4. p.d1 \in Nat /\ p.d1 < 128 /\ Apply7(Keep, p.d1) = p.d1
  BY <1>3, VoiceFields DEF Apply7, Keep, Lower
<1>5. CASE p.mt = 4
  <2>1. SecondWord(p, VoiceKindOf(p), Keep) = <<p.v, p.low>>
    BY DEF SecondWord, Keep
  <2>2. ActionApply(a, p) = <<Midi2(status, Apply7(Keep, p.d1), p.d2, p.v, p.low)>>
    BY <1>2, <1>5, <2>1 DEF ActionApply, status
  <2>3. p = Midi2(p.status, p.d1, p.d2, p.v, p.low)
    BY <1>3, <1>5, VoiceFields
  <2> QED BY <1>3, <1>4, <2>2, <2>3 DEF a
<1>6. CASE p.mt = 2
  <2>1. ActionApply(a, p) = <<Midi1(status, Apply7(Keep, p.d1), Apply7(Keep, p.d2))>>
    BY <1>2, <1>6 DEF ActionApply, status
  <2>2. p.d2 \in Nat /\ p.d2 < 128 /\ p = Midi1(p.status, p.d1, p.d2)
    BY <1>3, <1>6, VoiceFields
  <2>3. Apply7(Keep, p.d2) = p.d2
    BY <2>2 DEF Apply7, Keep, Lower
  <2> QED BY <1>3, <1>4, <2>1, <2>2, <2>3 DEF a
<1> QED BY <1>3, <1>5, <1>6 DEF IsVoice

\* So the map it is put in front of takes the message as it is.
LEMMA LearnedFirst ==
  ASSUME NEW p \in UmpPackets, Learnable(p), Len(downscale_to_midi1(p)) = 1, NEW m \in DataMaps
  PROVE  FirstMatch(learn_insert(m, p), p) = 1 /\ MapApply(learn_insert(m, p), p) = <<p>>
<1> DEFINE n == learn_insert(m, p)
           hits == {i \in DOMAIN n.entries : Matches(n.entries[i].matcher, p)}
<1>1. m.entries \in Seq(MapEntries) /\ n.entries = <<Lesson(p)>> \o m.entries
  BY DEF DataMaps, learn_insert, Lesson
<1>2. DOMAIN n.entries \subseteq Nat \ {0} /\ 1 \in DOMAIN n.entries /\ n.entries[1] = Lesson(p)
  BY <1>1
<1>3. 1 \in hits /\ \A i \in hits : 1 <= i /\ i \in Nat
  BY <1>2, LessonMatches
<1>4. FirstMatch(n, p) = IF hits = {} THEN 0 ELSE CHOOSE i \in hits : \A j \in hits : i <= j
  BY DEF FirstMatch
<1> HIDE DEF hits, n
<1>5. \A i \in hits : (\A j \in hits : i <= j) => i = 1
  BY <1>3
<1>6. FirstMatch(n, p) = 1
  BY <1>3, <1>4, <1>5
<1>7. VoiceKindOf(p) # NoKind
  BY OneForm, KindOfStatus
<1>8. MapApply(n, p) = ActionApply(n.entries[1].action, p)
  BY <1>6, <1>7 DEF MapApply, Decided
<1> QED BY <1>2, <1>6, <1>8, LessonKeeps DEF n

-----------------------------------------------------------------------------
(* Learning: the types of what is captured and of the map, and what one    *)
(* drain makes of both.                                                    *)

Captures == [time : Nat, source : Sources, packet : UmpPackets]
PathTypes == now \in Nat /\ captured \in [Sources -> Seq(Captures)] /\ learn \in BOOLEAN /\ map \in DataMaps

\* The first MIDI 1.0 form of any message that is learned.
LEMMA FirstForm ==
  ASSUME NEW p \in UmpPackets, Learnable(p)
  PROVE  LET first == downscale_to_midi1(p)[1]
         IN VoiceKindOf(first) \in AnyVoice /\ first.status \in Nat /\ first.d1 \in Below(128)
<1> DEFINE first == downscale_to_midi1(p)[1]
<1>1. VoiceKindOf(first) \in AnyVoice
  <2>1. VoiceKindOf(first) # NoKind
    BY DEF Learnable
  <2> QED BY <2>1 DEF VoiceKindOf, AnyVoice
<1>2. CASE p.mt # 4
  <2>1. first = p
    BY <1>2 DEF downscale_to_midi1
  <2>2. IsVoice(p)
    BY <2>1 DEF Learnable, VoiceKindOf
  <2> QED BY <1>1, <2>1, <2>2, VoiceFields DEF Below
<1>3. CASE p.mt = 4
  <2>1. p.status \in Nat /\ p.status < 256 /\ p.d1 \in Nat /\ p.d1 < 128 /\ p.v \in Nat /\ p.v < 65536
    BY <1>3, VoiceFields DEF IsVoice
  <2> DEFINE One(s, a, b) == s \in Nat /\ a \in Below(128) /\ first = Midi1(s, a, b)
  <2>2. Op(p) \in Nat /\ Op(p) < 16 /\ 176 + Channel(p) \in Nat
    BY <2>1 DEF Op, Channel
  <2>3. /\ {p.d1, value32_to_7(p.v), (p.v \div 256) % 128, (p.v \div 4) % 128} \subseteq Below(128)
        /\ {0, 99, 101} \subseteq Below(128)
    BY <2>1 DEF value32_to_7, Below
  <2>4. ASSUME NEW s, NEW a, NEW b, One(s, a, b)
        PROVE  first.status \in Nat /\ first.d1 \in Below(128)
    BY <2>4 DEF Midi1, Packet
  <2>5. (\E s, a, b : One(s, a, b)) \/ first = p
    <3>1. CASE Op(p) \in {8, 9, 10, 11}
      <4>1. PICK b : downscale_to_midi1(p) = <<Midi1(p.status, p.d1, b)>>
        BY <1>3, <3>1 DEF downscale_to_midi1
      <4>2. One(p.status, p.d1, b)
        BY <2>1, <2>3, <4>1
      <4> QED BY <4>2
    <3>2. CASE Op(p) = 12
      <4>1. downscale_to_midi1(p) = ProgramChange(p)
        BY <1>3, <3>2 DEF downscale_to_midi1
      <4>2. CASE p.d1 % 2 = 0
        <5>1. One(p.status, (p.v \div 256) % 128, 0)
          BY <2>1, <2>3, <4>1, <4>2 DEF ProgramChange
        <5> QED BY <5>1
      <4>3. CASE p.d1 % 2 # 0
        <5>1. One(176 + Channel(p), 0, (p.low \div 256) % 128)
          BY <2>2, <2>3, <4>1, <4>3 DEF ProgramChange
        <5> QED BY <5>1
      <4> QED BY <4>2, <4>3
    <3>3. CASE Op(p) = 13
      <4>1. One(p.status, value32_to_7(p.v), 0)
        BY <1>3, <2>1, <2>3, <3>3 DEF downscale_to_midi1
      <4> QED BY <4>1
    <3>4. CASE Op(p) = 14
      <4>1. downscale_to_midi1(p) = <<Midi1(p.status, (p.v \div 4) % 128, p.v \div 512)>>
        BY <1>3, <3>4 DEF downscale_to_midi1, pitch32_to_14
      <4>2. One(p.status, (p.v \div 4) % 128, p.v \div 512)
        BY <2>1, <2>3, <4>1
      <4> QED BY <4>2
    <3>5. CASE Op(p) = 2
      <4>1. One(176 + Channel(p), 101, p.d1 % 128)
        BY <1>3, <2>2, <2>3, <3>5 DEF downscale_to_midi1, Parameter
      <4> QED BY <4>1
    <3>6. CASE Op(p) = 3
      <4>1. One(176 + Channel(p), 99, p.d1 % 128)
        BY <1>3, <2>2, <2>3, <3>6 DEF downscale_to_midi1, Parameter
      <4> QED BY <4>1
    <3>7. CASE Op(p) = 7
      BY <1>3, <3>7 DEF downscale_to_midi1
    <3>8. Op(p) \notin {0, 1, 4, 5, 6, 15}
      BY <1>3, <2>2 DEF downscale_to_midi1, Learnable
    <3> QED BY <2>2, <3>1, <3>2, <3>3, <3>4, <3>5, <3>6, <3>7, <3>8
  <2>6. ASSUME first = p PROVE first.status \in Nat /\ first.d1 \in Below(128)
    BY <2>1, <2>6 DEF Below
  <2> HIDE DEF One
  <2> QED BY <1>1, <2>4, <2>5, <2>6
<1> QED BY <1>2, <1>3

\* What is learned is an entry like others, and so the map stays a map.
LEMMA LearnedType ==
  ASSUME NEW p \in UmpPackets, Learnable(p), NEW m \in DataMaps
  PROVE  learn_insert(m, p) \in DataMaps
<1> DEFINE first == downscale_to_midi1(p)[1]
<1>1. VoiceKindOf(first) \in AnyVoice /\ first.d1 \in Below(128) /\ Channel(first) \in Below(16)
  <2>1. first.status \in Nat
    BY FirstForm
  <2> QED BY <2>1, FirstForm DEF Channel, Below
<1> HIDE DEF first
<1>2. DefaultMatcher \in Matchers
  <2>1. 0..15 \subseteq Below(16) /\ <<0, 127>> \in Below(128) \X Below(128)
    BY DEF Below
  <2> QED BY <2>1 DEF DefaultMatcher, Matchers
<1>3. learn_from(p) = [DefaultMatcher EXCEPT !.kinds = {VoiceKindOf(first)}, !.channels = {Channel(first)},
                                             !.data1 = <<first.d1, first.d1>>]
  BY DEF learn_from, first
<1>4. learn_from(p) \in Matchers
  <2>1. PICK kinds \in {AnyVoice, Notes} \cup {{kind} : kind \in AnyVoice} : kinds = {VoiceKindOf(first)}
    BY <1>1
  <2>2. PICK channels \in SUBSET Below(16) : channels = {Channel(first)}
    BY <1>1
  <2>3. PICK data \in Below(128) \X Below(128) : data = <<first.d1, first.d1>>
    BY <1>1
  <2>4. PICK m0 \in Matchers : m0 = DefaultMatcher
    BY <1>2
  <2>5. learn_from(p) = [m0 EXCEPT !.kinds = kinds, !.channels = channels, !.data1 = data]
    BY <1>3, <2>1, <2>2, <2>3, <2>4
  <2> DEFINE m1 == [m0 EXCEPT !.kinds = kinds]
             m2 == [m1 EXCEPT !.channels = channels]
             m3 == [m2 EXCEPT !.data1 = data]
  <2>6. m1 \in Matchers
    BY DEF Matchers
  <2> HIDE DEF m1
  <2>7. m2 \in Matchers
    BY <2>6 DEF Matchers
  <2> HIDE DEF m2
  <2>8. m3 \in Matchers
    BY <2>7 DEF Matchers
  <2> QED BY <2>5, <2>8 DEF m1, m2
<1>5. Rewrite(NoKind, NoChannel, Keep, Keep) \in Actions
  <2>1. NoChannel \in Below(17) /\ Keep \in ValueMaps
    BY DEF NoChannel, Below, ValueMaps
  <2> QED BY <2>1 DEF Rewrite, Actions
<1>6. Lesson(p) \in MapEntries
  BY <1>4, <1>5 DEF Lesson, Entry, MapEntries
<1>7. <<Lesson(p)>> \o m.entries \in Seq(MapEntries)
  <2>1. <<Lesson(p)>> \in Seq(MapEntries) /\ m.entries \in Seq(MapEntries)
    BY <1>6 DEF DataMaps
  <2>2. PICK a \in Seq(MapEntries), b \in Seq(MapEntries) : a = <<Lesson(p)>> /\ b = m.entries
    BY <2>1
  <2>3. a \o b \in Seq(MapEntries)
    BY ConcatProperties
  <2> QED BY <2>2, <2>3
<1> QED BY <1>7 DEF DataMaps, learn_insert, Lesson

\* One step of After, from the function f of the shorter beginnings.
AfterStep(f, i) == IF i = 0 THEN Undrained ELSE OneEvent(f[i - 1], Polled[i])

\* There is a function that does this step everywhere, so After does.
LEMMA AfterSteps ==
  ASSUME Len(Polled) \in Nat
  PROVE  After = [i \in 0..Len(Polled) |-> AfterStep(After, i)]
<1> DEFINE Steps(f, m) == f = [n \in 0..m |-> AfterStep(f, n)]
           T == {m \in Nat : \E f : Steps(f, m)}
<1>1. 0 \in T
  <2> DEFINE f == [n \in 0..0 |-> Undrained]
  <2>1. \A n \in 0..0 : AfterStep(f, n) = Undrained
    BY DEF AfterStep
  <2>2. Steps(f, 0)
    BY <2>1
  <2> QED BY <2>2
<1>2. ASSUME NEW m \in T PROVE m + 1 \in T
  <2>1. PICK f : Steps(f, m)
    OBVIOUS
  <2> DEFINE g == [n \in 0..(m + 1) |-> IF n <= m THEN f[n] ELSE AfterStep(f, n)]
  <2>2. ASSUME NEW n \in 0..(m + 1) PROVE g[n] = AfterStep(g, n)
    <3>1. n = 0 \/ n - 1 \in 0..m
      OBVIOUS
    <3>2. n # 0 => g[n - 1] = f[n - 1]
      BY <3>1
    <3>3. g[n] = AfterStep(f, n)
      BY SMTT(20), <2>1
    <3> HIDE DEF g
    <3>4. AfterStep(g, n) = AfterStep(f, n)
      BY <3>2 DEF AfterStep
    <3> QED BY <3>3, <3>4
  <2>3. g = [n \in 0..(m + 1) |-> g[n]]
    OBVIOUS
  <2> HIDE DEF g
  <2>4. Steps(g, m + 1)
    BY <2>2, <2>3
  <2>5. \E f1 : Steps(f1, m + 1)
    <3> HIDE DEF Steps
    <3> QED BY <2>4
  <2> QED BY <2>5
<1>3. T = Nat
  <2> HIDE DEF T
  <2>1. T \subseteq Nat
    BY DEF T
  <2> QED BY <1>1, <1>2, <2>1, EveryNatural
<1>4. PICK f : f = [n \in 0..Len(Polled) |-> AfterStep(f, n)]
  BY <1>3
<1> QED BY <1>4 DEF After, AfterStep

LEMMA PolledType == PathTypes => Polled \in Seq(Captures) /\ Len(Polled) \in Nat
<1> SUFFICES ASSUME PathTypes PROVE Polled \in Seq(Captures)
  OBVIOUS
<1>1. captured["device"] \in Seq(Captures) /\ captured["cable"] \in Seq(Captures)
  BY DEF PathTypes, Sources
<1> QED BY <1>1, ConcatProperties DEF Polled

LEMMA TeacherType ==
  ASSUME PathTypes, NEW i \in Teachers
  PROVE  i \in Nat /\ Polled[i].packet \in UmpPackets /\ Learnable(Polled[i].packet)
<1>1. PICK q \in Seq(Captures) : q = Polled
  BY PolledType
<1>2. i \in DOMAIN q /\ Learnable(q[i].packet)
  BY <1>1 DEF Teachers
<1>3. i \in Nat /\ q[i] \in Captures
  BY <1>2
<1> QED BY <1>1, <1>2, <1>3 DEF Captures

\* After the first n events the map is as it was, or has learned from the
\* first of them that teaches anything.
LearnedUpTo(n) ==
  LET t == After[n]
  IN \/ t.map = map /\ t.learn = learn /\ (learn => \A i \in Teachers : n < i)
     \/ t.learn = FALSE /\ \E i \in Teachers : (\A j \in Teachers : i <= j) /\ t.map = learn_insert(map, Polled[i].packet)

LEMMA LearnedOnce ==
  ASSUME PathTypes
  PROVE  LearnedUpTo(Len(Polled))
<1> DEFINE T == {n \in Nat : n <= Len(Polled) => LearnedUpTo(n)}
<1>1. /\ Polled \in Seq(Captures) /\ Len(Polled) \in Nat
      /\ \A n \in 0..Len(Polled) : After[n] = AfterStep(After, n)
  BY PolledType, AfterSteps
<1>2. Teachers \subseteq 1..Len(Polled)
  BY <1>1 DEF Teachers
<1>3. 0 \in T
  <2>1. After[0] = Undrained
    BY <1>1 DEF AfterStep
  <2>2. \A i \in Teachers : 0 < i
    BY <1>1, <1>2
  <2> QED BY <2>1, <2>2 DEF LearnedUpTo, Undrained
<1>4. ASSUME NEW m \in T PROVE m + 1 \in T
  <2> SUFFICES ASSUME m + 1 <= Len(Polled) PROVE LearnedUpTo(m + 1)
    OBVIOUS
  <2> DEFINE n == m + 1
             t == After[m]
             e == Polled[n]
  <2>1. m \in Nat /\ n \in 1..Len(Polled) /\ n - 1 = m /\ LearnedUpTo(m)
    BY <1>1
  <2>2. After[n] = OneEvent(t, e)
    BY <1>1, <2>1 DEF AfterStep
  <2>3. /\ After[n].learn = (t.learn /\ ~ Taught(t, e))
        /\ After[n].map = IF Taught(t, e) THEN learn_insert(t.map, e.packet) ELSE t.map
    BY <2>2 DEF OneEvent
  <2>4. n \in Teachers <=> e.source = "device" /\ Learnable(e.packet)
    BY <2>1 DEF Teachers
  <2>5. Taught(t, e) <=> t.learn /\ n \in Teachers
    BY <2>4 DEF Taught
  <2> HIDE DEF t, e
  <2>6. CASE t.learn = FALSE /\ \E i \in Teachers : (\A j \in Teachers : i <= j) /\ t.map = learn_insert(map, Polled[i].packet)
    BY <2>3, <2>5, <2>6 DEF LearnedUpTo
  <2>7. CASE t.map = map /\ t.learn = learn /\ (learn => \A i \in Teachers : m < i)
    <3>1. CASE Taught(t, e)
      <4>1. learn
        BY <2>5, <2>7, <3>1, Zenon
      <4>2. \A j \in Teachers : j \in Nat /\ m < j
        BY <1>1, <1>2, <2>7, <4>1
      <4>3. \A j \in Teachers : n <= j
        BY <2>1, <4>2
      <4> QED BY <2>3, <2>5, <2>7, <3>1, <4>3 DEF LearnedUpTo, e
    <3>2. CASE ~ Taught(t, e)
      <4>1. After[n].map = map /\ After[n].learn = t.learn
        <5>1. t.learn = TRUE \/ t.learn = FALSE
          BY <2>7 DEF PathTypes
        <5>2. CASE t.learn = TRUE
          BY <2>3, <2>7, <3>2, <5>2
        <5>3. CASE t.learn = FALSE
          BY <2>3, <2>7, <3>2, <5>3
        <5> QED BY <5>1, <5>2, <5>3
      <4>2. ASSUME learn, NEW i \in Teachers PROVE n < i
        <5>1. t.learn
          BY <2>7, <4>2, Zenon
        <5>2. n \notin Teachers
          BY <2>5, <3>2, <5>1, Zenon
        <5>3. \A j \in Teachers : m < j
          BY <2>7, <4>2, Zenon
        <5>4. i \in Nat /\ m < i /\ i # n
          BY <1>1, <1>2, <5>2, <5>3
        <5> QED BY <2>1, <5>4
      <4> QED BY <2>7, <4>1, <4>2 DEF LearnedUpTo
    <3> QED BY <3>1, <3>2
  <2>8. (t.map = map /\ t.learn = learn /\ (learn => \A i \in Teachers : m < i))
        \/ (t.learn = FALSE /\ \E i \in Teachers : (\A j \in Teachers : i <= j) /\ t.map = learn_insert(map, Polled[i].packet))
    BY <2>1 DEF LearnedUpTo, t
  <2> QED BY <2>6, <2>7, <2>8
<1>5. T = Nat
  <2> HIDE DEF T
  <2>1. T \subseteq Nat
    BY DEF T
  <2> QED BY <1>3, <1>4, <2>1, EveryNatural
<1>6. Len(Polled) \in T
  <2> HIDE DEF T
  <2> QED BY <1>1, <1>5
<1> QED BY <1>6

\* What a drain makes of the map.
LEMMA DrainLearns ==
  ASSUME PathTypes, Drain
  PROVE  \/ map' = map
         \/ ~ learn' /\ \E i \in Teachers : (\A j \in Teachers : i <= j) /\ map' = learn_insert(map, Polled[i].packet)
<1>1. map' = Drained.map /\ learn' = Drained.learn
  BY DEF Drain
<1>2. LearnedUpTo(Len(Polled))
  BY LearnedOnce
<1> QED BY <1>1, <1>2, Zenon DEF LearnedUpTo, Drained

\* Every step keeps the types, and only a drain or the map editor changes the
\* map.
LEMMA PathTyped == PathInit => PathTypes
<1> SUFFICES ASSUME PathInit PROVE PathTypes
  OBVIOUS
<1>1. captured \in [Sources -> Seq(Captures)]
  BY DEF PathInit, Nothing
<1>2. map \in DataMaps
  BY DEF PathInit, EmptyMap, DataMaps
<1> QED BY <1>1, <1>2 DEF PathInit, PathTypes

LEMMA PathGoesOn == PathTypes /\ [PathNext]_pathVars => PathTypes'
<1> SUFFICES ASSUME PathTypes, [PathNext]_pathVars PROVE PathTypes'
  OBVIOUS
<1>1. ASSUME NEW us \in Nat, Wait(us) PROVE PathTypes'
  BY <1>1 DEF Wait, PathTypes
<1>2. ASSUME NEW p \in UmpPackets, Inject(p) PROVE PathTypes'
  BY <1>2 DEF Inject, PathTypes
<1>3. ASSUME NEW p \in UmpPackets, NEW source \in Sources, Capture(source, p) PROVE PathTypes'
  <2> DEFINE e == [time |-> now, source |-> source, packet |-> p]
  <2>1. e \in Captures
    BY DEF Captures, PathTypes
  <2>2. captured \in [Sources -> Seq(Captures)] /\ captured' = [captured EXCEPT ![source] = Append(captured[source], e)]
    BY <1>3 DEF Capture, PathTypes
  <2> HIDE DEF e
  <2>3. captured' \in [Sources -> Seq(Captures)]
    BY <2>1, <2>2
  <2> QED BY <1>3, <2>3 DEF Capture, PathTypes
<1>4. CASE Drain
  <2>1. captured' \in [Sources -> Seq(Captures)] /\ now' = now
    BY <1>4 DEF Drain, Nothing
  <2>2. learn' \in BOOLEAN
    <3>1. learn' = Drained.learn
      BY <1>4 DEF Drain
    <3>2. LearnedUpTo(Len(Polled))
      BY LearnedOnce
    <3>3. learn' = learn \/ learn' = FALSE
      BY <3>1, <3>2, Zenon DEF LearnedUpTo, Drained
    <3> QED BY <3>3 DEF PathTypes
  <2>3. map' \in DataMaps
    <3>1. CASE map' = map
      BY <3>1 DEF PathTypes
    <3>2. ASSUME NEW i \in Teachers, map' = learn_insert(map, Polled[i].packet) PROVE map' \in DataMaps
      <4>1. Polled[i].packet \in UmpPackets /\ Learnable(Polled[i].packet)
        BY TeacherType
      <4> QED BY <3>2, <4>1, LearnedType DEF PathTypes
    <3> QED BY <1>4, <3>1, <3>2, DrainLearns
  <2> QED BY <2>1, <2>2, <2>3 DEF PathTypes
<1>5. CASE TogglePause \/ ToggleMute \/ ToggleRecord \/ ToggleLearn
  BY <1>5 DEF TogglePause, ToggleMute, ToggleRecord, ToggleLearn, PathTypes
<1>6. CASE TogglePassUnmatched
  <2>1. map' \in DataMaps
    BY <1>6 DEF TogglePassUnmatched, PathTypes, DataMaps
  <2> QED BY <1>6, <2>1 DEF TogglePassUnmatched, PathTypes
<1>7. ASSUME NEW preset \in DataMaps, AddPreset(preset) PROVE PathTypes'
  <2>1. PICK a \in Seq(MapEntries), b \in Seq(MapEntries) : a = map.entries /\ b = preset.entries
    BY DEF PathTypes, DataMaps
  <2>2. a \o b \in Seq(MapEntries)
    BY ConcatProperties
  <2>3. map' \in DataMaps
    BY <1>7, <2>1, <2>2 DEF AddPreset, PathTypes, DataMaps
  <2> QED BY <1>7, <2>3 DEF AddPreset, PathTypes
<1>8. ASSUME NEW i \in DOMAIN map.entries, RemoveEntry(i) PROVE PathTypes'
  <2>1. PICK q \in Seq(MapEntries) : q = map.entries
    BY DEF PathTypes, DataMaps
  <2>2. PICK n \in Nat : n = Len(q) /\ i \in 1..n /\ \A j \in 1..n : q[j] \in MapEntries
    BY <2>1
  <2>3. SubSeq(q, 1, i - 1) \in Seq(MapEntries) /\ SubSeq(q, i + 1, n) \in Seq(MapEntries)
    <3>1. ASSUME NEW a \in Int, NEW b \in Int, 1 <= a, b <= n PROVE SubSeq(q, a, b) \in Seq(MapEntries)
      <4>1. \A j \in a..b : q[j] \in MapEntries
        BY <2>2, <3>1
      <4> QED BY <4>1, SubSeqProperties
    <3> QED BY <2>2, <3>1
  <2>4. PICK a \in Seq(MapEntries), b \in Seq(MapEntries) : a = SubSeq(q, 1, i - 1) /\ b = SubSeq(q, i + 1, n)
    BY <2>3
  <2>5. a \o b \in Seq(MapEntries)
    BY ConcatProperties
  <2>6. map' \in DataMaps
    BY <1>8, <2>1, <2>2, <2>4, <2>5 DEF RemoveEntry, PathTypes, DataMaps
  <2> QED BY <1>8, <2>6 DEF RemoveEntry, PathTypes
<1>9. ASSUME NEW f, SetFilter(f) PROVE PathTypes'
  BY <1>9 DEF SetFilter, PathTypes
<1>10. CASE ResetLive \/ ResetClock \/ ClearVoices \/ OffHanging \/ Panic
  BY <1>10 DEF ResetLive, ResetClock, ClearVoices, OffHanging, Panic, PathTypes
<1>11. CASE UNCHANGED pathVars
  BY <1>11 DEF pathVars, PathTypes
<1> QED BY <1>1, <1>2, <1>3, <1>4, <1>5, <1>6, <1>7, <1>8, <1>9, <1>10, <1>11 DEF PathNext

\* Learning ends with a drain or with a click, which leaves the map.
LEMMA LearningEnds ==
  ASSUME PathNext, learn, ~ learn', map' # map
  PROVE  Drain
BY DEF PathNext, Wait, Inject, Capture, TogglePause, ToggleMute, ToggleRecord, ToggleLearn, TogglePassUnmatched,
       AddPreset, RemoveEntry, SetFilter, ResetLive, ResetClock, ClearVoices, OffHanging, Panic

\* Whatever is captured and whatever is in the map: when it learns a message
\* that has one MIDI 1.0 form, it takes that message from then on by the new
\* entry and passes it on unchanged (map.rs learn_insert and apply, in
\* app.rs drain_capture).
THEOREM LearnedIsRecognised == PathSpec => LearnedEntriesMatch
<1> DEFINE Taught1 ==
      learn /\ ~ learn' /\ map' # map
      => LET p == Polled[CHOOSE i \in Teachers : \A j \in Teachers : i <= j].packet
         IN Len(downscale_to_midi1(p)) = 1 => FirstMatch(map', p) = 1 /\ MapApply(map', p) = <<p>>
<1>1. PathInit => PathTypes
  BY PathTyped
<1>2. PathTypes /\ [PathNext]_pathVars => PathTypes'
  BY PathGoesOn
<1>3. PathTypes /\ [PathNext]_pathVars => [Taught1]_pathVars
  <2> SUFFICES ASSUME PathTypes, PathNext, learn, ~ learn', map' # map PROVE Taught1
    BY DEF pathVars
  <2> DEFINE first == CHOOSE i \in Teachers : \A j \in Teachers : i <= j
             p == Polled[first].packet
  <2>1. PICK i \in Teachers : (\A j \in Teachers : i <= j) /\ map' = learn_insert(map, Polled[i].packet)
    BY LearningEnds, DrainLearns
  <2>2. first = i
    <3>1. Teachers \subseteq Nat
      BY TeacherType
    <3>2. first \in Teachers /\ \A j \in Teachers : first <= j
      BY <2>1
    <3> HIDE DEF first
    <3> QED BY <2>1, <3>1, <3>2
  <2>3. p \in UmpPackets /\ Learnable(p) /\ map' = learn_insert(map, p)
    <3> HIDE DEF first
    <3> QED BY <2>1, <2>2, TeacherType
  <2> HIDE DEF p
  <2>4. Len(downscale_to_midi1(p)) = 1 => FirstMatch(map', p) = 1 /\ MapApply(map', p) = <<p>>
    BY <2>3, LearnedFirst DEF PathTypes
  <2> QED BY <2>4 DEF p
<1> QED BY <1>1, <1>2, <1>3, PTL DEF PathSpec, LearnedEntriesMatch

-----------------------------------------------------------------------------
(* A message in MIDI 1.0 and its translation.  What goes by the MIDI 1.0   *)
(* form of a packet cannot tell them apart: that form of the translation   *)
(* is the message again, or the note-off that a note-on of velocity 0 is.  *)

Silent(p) == Op(p) = 9 /\ p.d2 = 0
Meant(p) == IF Silent(p) THEN Midi1(128 + Channel(p), p.d1, 0) ELSE p

\* Scaling up and down again loses nothing.
LEMMA SameVelocity ==
  ASSUME NEW v \in Nat, v < 128
  PROVE  velocity16_to_7(velocity7_to_16(v)) = v
<1>1. CASE v = 0
  BY <1>1 DEF velocity7_to_16, velocity16_to_7
<1>2. CASE v # 0
  <2>1. PICK w \in Nat : w = (v * 65535) \div 127
    OBVIOUS
  <2>2. w # 0 /\ 127 * w <= 65535 * v /\ 65535 * v < 127 * w + 127
    BY <1>2, <2>1
  <2>3. (w * 127 + 32767) \div 65535 = v
    BY <2>2
  <2> QED BY <1>2, <2>1, <2>2, <2>3 DEF velocity7_to_16, velocity16_to_7
<1> QED BY <1>1, <1>2

LEMMA SameValue7 ==
  ASSUME NEW d \in Nat, d < 128
  PROVE  value32_to_7(value7_to_32(d)) = d
BY DEF value32_to_7, value7_to_32

LEMMA SameBend ==
  ASSUME NEW a \in Nat, a < 128, NEW b \in Nat, b < 128
  PROVE  pitch32_to_14(4 * (a + 128 * b)) = <<a, b>>
<1>1. ((4 * (a + 128 * b)) \div 4) % 128 = a /\ (4 * (a + 128 * b)) \div 512 = b
  OBVIOUS
<1> QED BY <1>1 DEF pitch32_to_14

\* The bytes of a MIDI 1.0 channel voice message.
LEMMA VoiceBytes ==
  ASSUME NEW p \in UmpPackets, p.mt = 2
  PROVE  /\ p = Midi1(p.status, p.d1, p.d2) /\ p.status \in Nat /\ p.status = 16 * Op(p) + Channel(p)
         /\ Op(p) \in {8, 9, 10, 11, 12, 13, 14} /\ Channel(p) \in Channels
         /\ p.d1 \in Nat /\ p.d1 < 128 /\ p.d2 \in Nat /\ p.d2 < 128
         /\ Op(p) \in {12, 13} => p.d2 = 0
<1>1. /\ p = Midi1(p.status, p.d1, p.d2) /\ p.status \in Nat /\ 128 <= p.status /\ p.status < 240
      /\ p.d1 \in Nat /\ p.d1 < 128 /\ p.d2 \in Nat /\ p.d2 < 128
  BY VoiceFields DEF IsVoice
<1>2. Op(p) \in {8, 9, 10, 11, 12, 13, 14} /\ Channel(p) \in Channels /\ p.status = 16 * Op(p) + Channel(p)
  BY <1>1 DEF Op, Channel, Channels
<1>3. ASSUME Op(p) \in {12, 13} PROVE p.d2 = 0
  <2>1. p.status \in 192..223
    BY <1>1, <1>2, <1>3 DEF Channels
  <2>2. DataLen(p.status) = 1
    BY <2>1 DEF DataLen
  <2>3. p.d2 < (IF DataLen(p.status) = 2 THEN 128 ELSE 1)
    BY DEF UmpPackets, IsShort
  <2> QED BY <1>1, <2>2, <2>3
<1> QED BY <1>1, <1>2, <1>3

\* The same of its translation.
LEMMA TranslatedBytes ==
  ASSUME NEW p \in UmpPackets, p.mt = 2
  PROVE  LET q == upscale_to_midi2(p)
         IN /\ q.mt = 4 /\ q.status \in Nat /\ Channel(q) = Channel(p) /\ q.d2 = 0 /\ q.low = 0
            /\ Op(q) = (IF Silent(p) THEN 8 ELSE Op(p))
            /\ q.d1 = (IF Op(p) \in {12, 13, 14} THEN 0 ELSE p.d1)
            /\ Op(q) \in {8, 9} => q.v = velocity7_to_16(p.d2)
            /\ Op(q) \in {10, 11} => q.v = value7_to_32(p.d2)
            /\ Op(q) = 12 => q.v = 256 * p.d1
            /\ Op(q) = 13 => q.v = value7_to_32(p.d1)
            /\ Op(q) = 14 => q.v = 4 * (p.d1 + 128 * p.d2)
<1> DEFINE q == upscale_to_midi2(p)
<1>1. /\ p.status \in Nat /\ p.status = 16 * Op(p) + Channel(p) /\ Channel(p) \in Channels
      /\ Op(p) \in {8, 9, 10, 11, 12, 13, 14} /\ p.d2 \in Nat
  BY VoiceBytes
<1>2. ASSUME NEW s, s \in {p.status, 128 + Channel(p)}, NEW d, NEW v, q = Midi2(s, d, 0, v, 0)
      PROVE  /\ q.mt = 4 /\ q.status = s /\ q.d1 = d /\ q.d2 = 0 /\ q.v = v /\ q.low = 0
             /\ q.status \in Nat /\ Channel(q) = Channel(p) /\ Op(q) = (IF s = p.status THEN Op(p) ELSE 8)
  <2>1. q.mt = 4 /\ q.status = s /\ q.d1 = d /\ q.d2 = 0 /\ q.v = v /\ q.low = 0
    BY <1>2 DEF Midi2, Packet
  <2> HIDE DEF q
  <2>2. PICK op, ch : op = Op(p) /\ ch = Channel(p)
    OBVIOUS
  <2>3. Channel(q) = s % 16 /\ Op(q) = s \div 16
    BY <2>1 DEF Channel, Op
  <2> QED BY <1>1, <1>2, <2>1, <2>2, <2>3 DEF Channels
<1> HIDE DEF q
<1>3. CASE Op(p) = 8 \/ Silent(p)
  <2>1. q = Midi2(128 + Channel(p), p.d1, 0, velocity7_to_16(p.d2), 0)
    BY <1>3 DEF q, upscale_to_midi2, Silent
  <2>2. Op(q) = 8
    <3>1. Op(q) = (IF 128 + Channel(p) = p.status THEN Op(p) ELSE 8)
      BY <1>2, <2>1
    <3>2. 128 + Channel(p) = p.status => Op(p) = 8
      <4> PICK op, ch : op = Op(p) /\ ch = Channel(p)
        OBVIOUS
      <4> QED BY <1>1 DEF Channels
    <3> QED BY <3>1, <3>2
  <2> QED BY <1>2, <1>3, <2>1, <2>2 DEF q, Silent
<1>4. CASE Op(p) = 9 /\ ~ Silent(p)
  <2>1. q = Midi2(p.status, p.d1, 0, velocity7_to_16(p.d2), 0)
    BY <1>4 DEF q, upscale_to_midi2, Silent
  <2> QED BY <1>2, <1>4, <2>1 DEF q
<1>5. CASE Op(p) \in {10, 11}
  <2>1. q = Midi2(p.status, p.d1, 0, value7_to_32(p.d2), 0)
    BY <1>5 DEF q, upscale_to_midi2
  <2> QED BY <1>2, <1>5, <2>1 DEF q, Silent
<1>6. CASE Op(p) = 12
  <2>1. q = Midi2(p.status, 0, 0, 256 * p.d1, 0)
    BY <1>6 DEF q, upscale_to_midi2
  <2> QED BY <1>2, <1>6, <2>1 DEF q, Silent
<1>7. CASE Op(p) = 13
  <2>1. q = Midi2(p.status, 0, 0, value7_to_32(p.d1), 0)
    BY <1>7 DEF q, upscale_to_midi2
  <2> QED BY <1>2, <1>7, <2>1 DEF q, Silent
<1>8. CASE Op(p) = 14
  <2>1. q = Midi2(p.status, 0, 0, 4 * (p.d1 + 128 * p.d2), 0)
    BY <1>8 DEF q, upscale_to_midi2
  <2> QED BY <1>2, <1>8, <2>1 DEF q, Silent
<1> QED BY <1>1, <1>3, <1>4, <1>5, <1>6, <1>7, <1>8

\* The MIDI 1.0 forms of both.
LEMMA MeantBytes ==
  ASSUME NEW p \in UmpPackets, p.mt = 2
  PROVE  LET m == Meant(p)
             q == upscale_to_midi2(p)
         IN /\ m = Midi1(q.status, p.d1, p.d2) /\ m.mt = 2 /\ m.status = q.status /\ m.d1 = p.d1 /\ m.d2 = p.d2
            /\ Channel(m) = Channel(p) /\ Op(m) = Op(q)
<1> DEFINE q == upscale_to_midi2(p)
           m == Meant(p)
<1>1. /\ p = Midi1(p.status, p.d1, p.d2) /\ p.status \in Nat /\ p.status = 16 * Op(p) + Channel(p)
      /\ Op(p) \in {8, 9, 10, 11, 12, 13, 14} /\ Channel(p) \in Channels
  BY VoiceBytes
<1>2. q.status \in Nat /\ Channel(q) = Channel(p) /\ Op(q) = (IF Silent(p) THEN 8 ELSE Op(p))
  BY TranslatedBytes
<1> HIDE DEF q
<1>3. q.status = 16 * Op(q) + Channel(q)
  BY <1>2 DEF Op, Channel
<1>4. q.status = (IF Silent(p) THEN 128 + Channel(p) ELSE p.status)
  <2>1. PICK op, ch : op = Op(p) /\ ch = Channel(p)
    OBVIOUS
  <2> QED BY <1>1, <1>2, <1>3, <2>1 DEF Channels
<1>5. m = Midi1(q.status, p.d1, p.d2)
  BY <1>1, <1>4 DEF m, Meant, Silent
<1>6. m.mt = 2 /\ m.status = q.status /\ m.d1 = p.d1 /\ m.d2 = p.d2
  BY <1>5 DEF Midi1, Packet
<1>7. Channel(m) = Channel(q) /\ Op(m) = Op(q)
  BY <1>6 DEF Channel, Op
<1> QED BY <1>2, <1>5, <1>6, <1>7 DEF q

LEMMA Translated ==
  ASSUME NEW p \in UmpPackets, p.mt = 2
  PROVE  downscale_to_midi1(p) = <<p>> /\ downscale_to_midi1(upscale_to_midi2(p)) = <<Meant(p)>>
<1> DEFINE q == upscale_to_midi2(p)
<1>1. downscale_to_midi1(p) = <<p>>
  BY DEF downscale_to_midi1
<1>2. /\ q.mt = 4 /\ Op(q) = (IF Silent(p) THEN 8 ELSE Op(p))
      /\ q.d1 = (IF Op(p) \in {12, 13, 14} THEN 0 ELSE p.d1)
      /\ Op(q) \in {8, 9} => q.v = velocity7_to_16(p.d2)
      /\ Op(q) \in {10, 11} => q.v = value7_to_32(p.d2)
      /\ Op(q) = 12 => q.v = 256 * p.d1
      /\ Op(q) = 13 => q.v = value7_to_32(p.d1)
      /\ Op(q) = 14 => q.v = 4 * (p.d1 + 128 * p.d2)
  BY TranslatedBytes
<1>3. /\ Op(p) \in {8, 9, 10, 11, 12, 13, 14} /\ p.d1 \in Nat /\ p.d1 < 128 /\ p.d2 \in Nat /\ p.d2 < 128
      /\ Op(p) \in {12, 13} => p.d2 = 0
  BY VoiceBytes
<1>4. Meant(p) = Midi1(q.status, p.d1, p.d2)
  BY MeantBytes
<1> HIDE DEF q
<1>5. CASE Op(q) = 8
  <2>1. q.d1 = p.d1 /\ q.v = velocity7_to_16(p.d2)
    BY <1>2, <1>5 DEF Silent
  <2>2. downscale_to_midi1(q) = <<Midi1(q.status, q.d1, velocity16_to_7(q.v))>>
    BY <1>2, <1>5 DEF downscale_to_midi1
  <2> QED BY <1>1, <1>3, <1>4, <2>1, <2>2, SameVelocity DEF q
<1>6. CASE Op(q) = 9
  <2>1. q.d1 = p.d1 /\ q.v = velocity7_to_16(p.d2) /\ p.d2 # 0
    BY <1>2, <1>6 DEF Silent
  <2>2. downscale_to_midi1(q) = <<Midi1(q.status, q.d1, AtLeastOne(velocity16_to_7(q.v)))>>
    BY <1>2, <1>6 DEF downscale_to_midi1
  <2>3. AtLeastOne(velocity16_to_7(q.v)) = p.d2
    BY <1>3, <2>1, SameVelocity DEF AtLeastOne
  <2> QED BY <1>1, <1>4, <2>1, <2>2, <2>3 DEF q
<1>7. CASE Op(q) \in {10, 11}
  <2>1. q.d1 = p.d1 /\ q.v = value7_to_32(p.d2)
    BY <1>2, <1>3, <1>7
  <2>2. downscale_to_midi1(q) = <<Midi1(q.status, q.d1, value32_to_7(q.v))>>
    BY <1>2, <1>7 DEF downscale_to_midi1
  <2> QED BY <1>1, <1>3, <1>4, <2>1, <2>2, SameValue7 DEF q
<1>8. CASE Op(q) = 12
  <2>1. q.d1 = 0 /\ q.v = 256 * p.d1 /\ p.d2 = 0
    BY <1>2, <1>3, <1>8
  <2>2. downscale_to_midi1(q) = ProgramChange(q)
    BY <1>2, <1>8 DEF downscale_to_midi1
  <2>3. downscale_to_midi1(q) = <<Midi1(q.status, (q.v \div 256) % 128, 0)>>
    BY <2>1, <2>2 DEF ProgramChange
  <2>4. (q.v \div 256) % 128 = p.d1
    BY <1>3, <2>1
  <2> QED BY <1>1, <1>4, <2>1, <2>3, <2>4 DEF q
<1>9. CASE Op(q) = 13
  <2>1. q.v = value7_to_32(p.d1) /\ p.d2 = 0
    BY <1>2, <1>3, <1>9
  <2>2. downscale_to_midi1(q) = <<Midi1(q.status, value32_to_7(q.v), 0)>>
    BY <1>2, <1>9 DEF downscale_to_midi1
  <2> QED BY <1>1, <1>3, <1>4, <2>1, <2>2, SameValue7 DEF q
<1>10. CASE Op(q) = 14
  <2>1. q.v = 4 * (p.d1 + 128 * p.d2)
    BY <1>2, <1>10
  <2>2. downscale_to_midi1(q) = <<Midi1(q.status, pitch32_to_14(q.v)[1], pitch32_to_14(q.v)[2])>>
    BY <1>2, <1>10 DEF downscale_to_midi1
  <2>3. pitch32_to_14(q.v) = <<p.d1, p.d2>>
    BY SMTT(20), <1>3, <2>1, SameBend
  <2> QED BY <1>1, <1>4, <2>2, <2>3 DEF q
<1>11. Op(q) \in {8, 9, 10, 11, 12, 13, 14}
  BY <1>2, <1>3
<1> QED BY <1>5, <1>6, <1>7, <1>8, <1>9, <1>10, <1>11

\* What a tracker that goes by the MIDI 1.0 form makes of one packet.
LEMMA HangOne ==
  ASSUME NEW notes, NEW p, NEW m, downscale_to_midi1(p) = <<m>>
  PROVE  HangPush(notes, p) = HangMidi1(notes, m)
<1> DEFINE Step(f) == [i \in 0..Len(<<m>>) |-> IF i = 0 THEN notes ELSE HangMidi1(f[i - 1], <<m>>[i])]
           g == [i \in 0..Len(<<m>>) |-> IF i = 0 THEN notes ELSE HangMidi1(notes, m)]
<1>1. Step(g) = g
  <2>1. \A i \in 0..Len(<<m>>) : i = 0 \/ (i - 1 = 0 /\ i - 1 \in 0..Len(<<m>>) /\ <<m>>[i] = m)
    OBVIOUS
  <2>2. \A i \in 0..Len(<<m>>) : i # 0 => g[i - 1] = notes
    BY <2>1
  <2> HIDE DEF g
  <2>3. Step(g) = [i \in 0..Len(<<m>>) |-> IF i = 0 THEN notes ELSE HangMidi1(notes, m)]
    BY <2>1, <2>2
  <2> QED BY <2>3 DEF g
<1> HIDE DEF g
<1>2. PICK f : f = Step(f) /\ HangPush(notes, p) = f[Len(<<m>>)]
  BY <1>1 DEF HangPush, PushAll
<1>3. f[0] = notes /\ f[1] = HangMidi1(f[0], m)
  BY <1>2
<1> QED BY <1>2, <1>3

LEMMA MpeOne ==
  ASSUME NEW t, NEW p, NEW m, downscale_to_midi1(p) = <<m>>
  PROVE  MpePush(t, p) = MpeMidi1(t, m)
<1> DEFINE Step(f) == [i \in 0..Len(<<m>>) |-> IF i = 0 THEN t ELSE MpeMidi1(f[i - 1], <<m>>[i])]
           g == [i \in 0..Len(<<m>>) |-> IF i = 0 THEN t ELSE MpeMidi1(t, m)]
<1>1. Step(g) = g
  <2>1. \A i \in 0..Len(<<m>>) : i = 0 \/ (i - 1 = 0 /\ i - 1 \in 0..Len(<<m>>) /\ <<m>>[i] = m)
    OBVIOUS
  <2>2. \A i \in 0..Len(<<m>>) : i # 0 => g[i - 1] = t
    BY <2>1
  <2> HIDE DEF g
  <2>3. Step(g) = [i \in 0..Len(<<m>>) |-> IF i = 0 THEN t ELSE MpeMidi1(t, m)]
    BY <2>1, <2>2
  <2> QED BY <2>3 DEF g
<1> HIDE DEF g
<1>2. PICK f : f = Step(f) /\ MpePush(t, p) = f[Len(<<m>>)]
  BY <1>1 DEF MpePush, PushAll
<1>3. f[0] = t /\ f[1] = MpeMidi1(f[0], m)
  BY <1>2
<1> QED BY <1>2, <1>3

LEMMA ClockOne ==
  ASSUME NEW c, NEW p, NEW at, NEW m, downscale_to_midi1(p) = <<m>>
  PROVE  ClockPush(c, p, at) = ClockMidi1(c, m, at)
<1> DEFINE Step(f) == [i \in 0..Len(<<m>>) |-> IF i = 0 THEN c ELSE ClockMidi1(f[i - 1], <<m>>[i], at)]
           g == [i \in 0..Len(<<m>>) |-> IF i = 0 THEN c ELSE ClockMidi1(c, m, at)]
<1>1. Step(g) = g
  <2>1. \A i \in 0..Len(<<m>>) : i = 0 \/ (i - 1 = 0 /\ i - 1 \in 0..Len(<<m>>) /\ <<m>>[i] = m)
    OBVIOUS
  <2>2. \A i \in 0..Len(<<m>>) : i # 0 => g[i - 1] = c
    BY <2>1
  <2> HIDE DEF g
  <2>3. Step(g) = [i \in 0..Len(<<m>>) |-> IF i = 0 THEN c ELSE ClockMidi1(c, m, at)]
    BY <2>1, <2>2
  <2> QED BY <2>3 DEF g
<1> HIDE DEF g
<1>2. PICK f : f = Step(f) /\ ClockPush(c, p, at) = f[Len(<<m>>)]
  BY <1>1 DEF ClockPush
<1>3. f[0] = c /\ f[1] = ClockMidi1(f[0], m, at)
  BY <1>2
<1> QED BY <1>2, <1>3

\* They see the note-off that a silent note-on stands for, too.
LEMMA SeenAsMeant ==
  ASSUME NEW p \in UmpPackets, p.mt = 2, NEW c, NEW at, NEW t, NEW notes, NEW numbers
  PROVE  LET q == upscale_to_midi2(p)
         IN /\ ClockPush(c, p, at) = ClockPush(c, q, at)
            /\ NrpnPush(numbers, p) = NrpnPush(numbers, q)
            /\ MpePush(t, p) = MpePush(t, q)
            /\ HangPush(notes, p) = HangPush(notes, q)
<1> DEFINE q == upscale_to_midi2(p)
           m == Meant(p)
<1>1. downscale_to_midi1(p) = <<p>> /\ downscale_to_midi1(q) = <<m>>
  BY Translated
<1>2. /\ m.mt = 2 /\ m.d1 = p.d1 /\ m.d2 = p.d2 /\ Channel(m) = Channel(p) /\ Channel(q) = Channel(p)
      /\ Op(m) = (IF Silent(p) THEN 8 ELSE Op(p))
  BY MeantBytes, TranslatedBytes
<1> HIDE DEF m, q
<1>3. p.d2 > 0 <=> p.d2 # 0
  BY VoiceBytes
<1>4. ClockMidi1(c, p, at) = ClockMidi1(c, m, at)
  BY <1>2, <1>3 DEF ClockMidi1, Silent
<1>5. MpeMidi1(t, p) = MpeMidi1(t, m)
  <2>1. CASE Silent(p)
    BY <1>2, <2>1 DEF MpeMidi1, Silent
  <2>2. CASE ~ Silent(p)
    <3>1. m = p
      BY <2>2 DEF m, Meant
    <3> QED BY <3>1
  <2> QED BY <2>1, <2>2
<1>6. HangMidi1(notes, p) = HangMidi1(notes, m)
  <2>1. CASE Silent(p)
    BY <1>2, <2>1 DEF HangMidi1, Silent
  <2>2. CASE ~ Silent(p)
    <3>1. m = p
      BY <2>2 DEF m, Meant
    <3> QED BY <3>1
  <2> QED BY <2>1, <2>2
<1>7. NrpnPush(numbers, p) = NrpnPush(numbers, q)
  BY <1>1, <1>2 DEF NrpnPush, Silent
<1> QED BY <1>1, <1>4, <1>5, <1>6, <1>7, ClockOne, MpeOne, HangOne DEF q

\* The live view looks at the packet itself.
LiveChannels ==
  [last_note : Nat, last_vel : Nat, last_vel16 : Nat, sounding : Nat, program : Nat, pressure : Nat,
   bend : Nat, last_cc : Nat \X Nat, last_cc32 : Nat \X Nat, pn_bend : Nat \X Nat]

LEMMA LiveAsMeant ==
  ASSUME NEW p \in UmpPackets, p.mt = 2, NEW c \in LiveChannels
  PROVE  [LiveMidi1(c, p) EXCEPT !.last_cc32 = <<NoByte, 0>>]
         = [LiveMidi2(c, upscale_to_midi2(p)) EXCEPT !.last_cc32 = <<NoByte, 0>>]
<1> DEFINE q == upscale_to_midi2(p)
           Hidden(d) == [d EXCEPT !.last_cc32 = <<NoByte, 0>>]
<1>1. /\ Op(q) = (IF Silent(p) THEN 8 ELSE Op(p))
      /\ q.d1 = (IF Op(p) \in {12, 13, 14} THEN 0 ELSE p.d1)
      /\ Op(q) \in {8, 9} => q.v = velocity7_to_16(p.d2)
      /\ Op(q) \in {10, 11} => q.v = value7_to_32(p.d2)
      /\ Op(q) = 12 => q.v = 256 * p.d1
      /\ Op(q) = 13 => q.v = value7_to_32(p.d1)
      /\ Op(q) = 14 => q.v = 4 * (p.d1 + 128 * p.d2)
  BY TranslatedBytes
<1>2. /\ Op(p) \in {8, 9, 10, 11, 12, 13, 14} /\ p.d1 \in Nat /\ p.d1 < 128 /\ p.d2 \in Nat /\ p.d2 < 128
  BY VoiceBytes
<1> HIDE DEF q
<1>3. velocity16_to_7(velocity7_to_16(p.d2)) = p.d2 /\ velocity7_to_16(0) = 0
  BY <1>2, SameVelocity DEF velocity7_to_16
<1>4. CASE Op(q) = 8
  <2>1. LiveMidi2(c, q) = Lifted(c, p.d2, velocity7_to_16(p.d2))
    BY <1>1, <1>3, <1>4 DEF LiveMidi2
  <2>2. LiveMidi1(c, p) = Lifted(c, p.d2, velocity7_to_16(p.d2))
    BY <1>1, <1>2, <1>3, <1>4 DEF LiveMidi1, Silent
  <2> QED BY <2>1, <2>2 DEF q
<1>5. CASE Op(q) = 9
  <2>1. LiveMidi2(c, q) = Struck(c, p.d1, p.d2, velocity7_to_16(p.d2))
    BY <1>1, <1>2, <1>3, <1>5 DEF LiveMidi2
  <2>2. LiveMidi1(c, p) = Struck(c, p.d1, p.d2, velocity7_to_16(p.d2))
    BY <1>1, <1>2, <1>5 DEF LiveMidi1, Silent
  <2> QED BY <2>1, <2>2 DEF q
<1>6. CASE Op(q) = 10
  <2>1. LiveMidi2(c, q) = c /\ LiveMidi1(c, p) = c
    BY <1>1, <1>2, <1>6 DEF LiveMidi1, LiveMidi2
  <2> QED BY <2>1 DEF q
<1>7. CASE Op(q) = 11
  <2>1. Op(p) = 11 /\ q.d1 = p.d1 /\ q.v = value7_to_32(p.d2) /\ value32_to_7(q.v) = p.d2
    BY <1>1, <1>2, <1>7, SameValue7 DEF Silent
  <2> DEFINE d == Controlled(c, p.d1, p.d2)
  <2>2. LiveMidi1(c, p) = d
    BY <2>1 DEF LiveMidi1
  <2>3. LiveMidi2(c, q) = [d EXCEPT !.last_cc32 = <<q.d1, q.v>>]
    BY <1>7, <2>1 DEF LiveMidi2
  <2>4. d \in LiveChannels
    <3>1. <<p.d1, p.d2>> \in Nat \X Nat /\ (IF p.d1 \in {AllNotesOff, AllSoundOff} THEN 0 ELSE c.sounding) \in Nat
      BY <1>2 DEF LiveChannels
    <3>2. PICK cc \in Nat \X Nat, n \in Nat : cc = <<p.d1, p.d2>> /\ n = (IF p.d1 \in {AllNotesOff, AllSoundOff} THEN 0 ELSE c.sounding)
      BY <3>1
    <3>3. d = [c EXCEPT !.last_cc = cc, !.sounding = n]
      BY <3>2 DEF Controlled, LiveChannels
    <3> HIDE DEF d
    <3> QED BY <3>3 DEF LiveChannels
  <2> HIDE DEF d
  <2>5. Hidden([d EXCEPT !.last_cc32 = <<q.d1, q.v>>]) = Hidden(d)
    BY <2>4 DEF LiveChannels
  <2> QED BY <2>2, <2>3, <2>5 DEF q
<1>8. CASE Op(q) = 12
  <2>1. Op(p) = 12 /\ (q.v \div 256) % 128 = p.d1
    BY <1>1, <1>2, <1>8 DEF Silent
  <2>2. LiveMidi1(c, p) = LiveMidi2(c, q)
    BY <1>8, <2>1 DEF LiveMidi1, LiveMidi2
  <2> QED BY <2>2 DEF q
<1>9. CASE Op(q) = 13
  <2>1. Op(p) = 13 /\ value32_to_7(q.v) = p.d1
    BY <1>1, <1>2, <1>9, SameValue7 DEF Silent
  <2>2. LiveMidi1(c, p) = LiveMidi2(c, q)
    BY <1>9, <2>1 DEF LiveMidi1, LiveMidi2
  <2> QED BY <2>2 DEF q
<1>10. CASE Op(q) = 14
  <2>1. Op(p) = 14 /\ pitch32_to_14(q.v) = <<p.d1, p.d2>>
    BY <1>1, <1>2, <1>10, SameBend DEF Silent
  <2>2. LiveMidi1(c, p) = LiveMidi2(c, q)
    BY <1>10, <2>1 DEF LiveMidi1, LiveMidi2
  <2> QED BY <2>2 DEF q
<1> QED BY <1>1, <1>2, <1>4, <1>5, <1>6, <1>7, <1>8, <1>9, <1>10

\* The view of every channel stays one.
LEMMA LiveTyped ==
  ASSUME NEW p \in UmpPackets, NEW view \in [Channels -> LiveChannels]
  PROVE  LivePush(view, p) \in [Channels -> LiveChannels]
<1>1. p.mt \in Nat /\ p.status \in Nat /\ p.d1 \in Nat /\ p.d2 \in Nat /\ p.v \in Nat
  BY DEF UmpPackets, AnyPackets, Below
<1>2. Channel(p) \in Channels
  BY <1>1 DEF Channel, Channels
<1> DEFINE c == view[Channel(p)]
<1>3. c \in LiveChannels
  BY <1>2
<1> HIDE DEF c
<1>4. ASSUME NEW a \in Nat, NEW b \in Nat PROVE Lifted(c, a, b) \in LiveChannels
  <2>1. PICK n \in Nat : n = (IF c.sounding > 0 THEN c.sounding - 1 ELSE 0)
    BY <1>3 DEF LiveChannels
  <2>2. Lifted(c, a, b) = [c EXCEPT !.last_vel = a, !.last_vel16 = b, !.sounding = n]
    BY <1>3, <2>1 DEF Lifted, LiveChannels
  <2> QED BY ZenonT(30), <1>3, <2>2 DEF LiveChannels
<1>5. ASSUME NEW note \in Nat, NEW a \in Nat, NEW b \in Nat PROVE Struck(c, note, a, b) \in LiveChannels
  <2>1. PICK n \in Nat : n = (IF c.sounding < MaxSounding THEN c.sounding + 1 ELSE c.sounding)
    BY <1>3 DEF LiveChannels
  <2>2. Struck(c, note, a, b) = [c EXCEPT !.last_note = note, !.last_vel = a, !.last_vel16 = b, !.sounding = n]
    BY <1>3, <2>1 DEF Struck, LiveChannels
  <2> QED BY ZenonT(30), <1>3, <2>2 DEF LiveChannels
<1>6. ASSUME NEW cc \in Nat, NEW x \in Nat PROVE Controlled(c, cc, x) \in LiveChannels
  <2>1. PICK n \in Nat : n = (IF cc \in {AllNotesOff, AllSoundOff} THEN 0 ELSE c.sounding)
    BY <1>3 DEF LiveChannels
  <2>2. PICK pair \in Nat \X Nat : pair = <<cc, x>>
    OBVIOUS
  <2>3. Controlled(c, cc, x) = [c EXCEPT !.last_cc = pair, !.sounding = n]
    BY <1>3, <2>1, <2>2 DEF Controlled, LiveChannels
  <2> QED BY <1>3, <2>3 DEF LiveChannels
<1>7. /\ velocity7_to_16(p.d2) \in Nat /\ velocity16_to_7(p.v) \in Nat /\ value32_to_7(p.v) \in Nat
      /\ (p.v \div 256) % 128 \in Nat /\ pitch32_to_14(p.v)[1] + 128 * pitch32_to_14(p.v)[2] \in Nat
  <2>1. p.v < 65536
    BY DEF UmpPackets, AnyPackets, Below
  <2>2. velocity16_to_7(p.v) \in Nat
    BY <1>1, <2>1, NarrowVelocity DEF Below
  <2>3. velocity7_to_16(p.d2) \in Nat /\ value32_to_7(p.v) \in Nat /\ (p.v \div 256) % 128 \in Nat
    BY <1>1 DEF velocity7_to_16, value32_to_7
  <2>4. ((p.v \div 4) % 128) + 128 * (p.v \div 512) \in Nat
    BY <1>1
  <2> QED BY <2>2, <2>3, <2>4 DEF pitch32_to_14
<1>8. LiveMidi1(c, p) \in LiveChannels
  <2>1. /\ Lifted(c, p.d2, velocity7_to_16(p.d2)) \in LiveChannels /\ Lifted(c, 0, 0) \in LiveChannels
        /\ Struck(c, p.d1, p.d2, velocity7_to_16(p.d2)) \in LiveChannels /\ Controlled(c, p.d1, p.d2) \in LiveChannels
    BY <1>1, <1>4, <1>5, <1>6, <1>7
  <2>2. [c EXCEPT !.program = p.d1] \in LiveChannels /\ [c EXCEPT !.pressure = p.d1] \in LiveChannels
    BY <1>1, <1>3 DEF LiveChannels
  <2>3. PICK n \in Nat : n = p.d1 + 128 * p.d2
    BY <1>1
  <2>4. [c EXCEPT !.bend = p.d1 + 128 * p.d2] \in LiveChannels
    BY <1>3, <2>3 DEF LiveChannels
  <2> QED BY <1>3, <2>1, <2>2, <2>4 DEF LiveMidi1
<1>9. LiveMidi2(c, p) \in LiveChannels
  <2>1. /\ Lifted(c, velocity16_to_7(p.v), p.v) \in LiveChannels /\ Struck(c, p.d1, velocity16_to_7(p.v), p.v) \in LiveChannels
        /\ Controlled(c, p.d1, value32_to_7(p.v)) \in LiveChannels
    BY <1>1, <1>4, <1>5, <1>6, <1>7
  <2>2. PICK d \in LiveChannels, pair \in Nat \X Nat : d = Controlled(c, p.d1, value32_to_7(p.v)) /\ pair = <<p.d1, p.v>>
    BY <1>1, <2>1
  <2>3. [d EXCEPT !.last_cc32 = pair] \in LiveChannels /\ [c EXCEPT !.pn_bend = pair] \in LiveChannels
    BY <1>3 DEF LiveChannels
  <2>4. PICK program \in Nat, n \in Nat, x \in Nat :
          program = (p.v \div 256) % 128 /\ n = pitch32_to_14(p.v)[1] + 128 * pitch32_to_14(p.v)[2] /\ x = value32_to_7(p.v)
    BY <1>7
  <2>5. [c EXCEPT !.program = program] \in LiveChannels /\ [c EXCEPT !.bend = n] \in LiveChannels
        /\ [c EXCEPT !.pressure = x] \in LiveChannels
    BY <1>3 DEF LiveChannels
  <2> QED BY <1>3, <2>1, <2>2, <2>3, <2>4, <2>5 DEF LiveMidi2
<1> QED BY <1>2, <1>8, <1>9 DEF LivePush, c

\* It shows a message and its translation alike.
LEMMA ShownAlike ==
  ASSUME NEW p \in UmpPackets, p.mt = 2, NEW view \in [Channels -> LiveChannels]
  PROVE  LET q == upscale_to_midi2(p) IN Shown(LivePush(view, p), Channel(p)) = Shown(LivePush(view, q), Channel(q))
<1> DEFINE q == upscale_to_midi2(p)
           ch == Channel(p)
           c == view[ch]
           Hidden(d) == [d EXCEPT !.last_cc32 = <<NoByte, 0>>]
<1>1. q.mt = 4 /\ Channel(q) = ch /\ ch \in Channels
  BY TranslatedBytes, VoiceBytes
<1>2. Hidden(LiveMidi1(c, p)) = Hidden(LiveMidi2(c, q))
  BY <1>1, LiveAsMeant
<1>3. LivePush(view, p) = [view EXCEPT ![ch] = LiveMidi1(c, p)] /\ LivePush(view, q) = [view EXCEPT ![ch] = LiveMidi2(c, q)]
  BY <1>1 DEF LivePush
<1> HIDE DEF q, ch, c
<1>4. ASSUME NEW d PROVE Shown([view EXCEPT ![ch] = d], ch) = [view EXCEPT ![ch] = Hidden(d)]
  BY <1>1 DEF Shown
<1> HIDE DEF Hidden
<1> QED BY <1>1, <1>2, <1>3, <1>4 DEF q, ch

\* The filter takes both.
LEMMA FilteredAlike ==
  ASSUME NEW p \in UmpPackets, p.mt = 2, NEW f
  PROVE  LET q == upscale_to_midi2(p)
         IN message_kind(q) = message_kind(p) /\ ((FilterApply(f, p) = <<>>) <=> (FilterApply(f, q) = <<>>))
<1> DEFINE q == upscale_to_midi2(p)
<1>1. /\ q.mt = 4 /\ Channel(q) = Channel(p) /\ Op(q) = (IF Silent(p) THEN 8 ELSE Op(p))
      /\ Op(p) \in {8, 9, 10, 11, 12, 13, 14}
  BY TranslatedBytes, VoiceBytes
<1> HIDE DEF q
<1>2. Op(p) \in 8..14 /\ Op(q) \in 8..14
  BY <1>1
<1>3. VoiceFamily(Op(q)) = VoiceFamily(Op(p))
  BY <1>1 DEF VoiceFamily, Silent
<1>4. message_kind(p) = VoiceFamily(Op(p)) /\ message_kind(q) = VoiceFamily(Op(q))
  BY <1>1, <1>2 DEF message_kind, Midi2Family
<1>5. IsVoice(p) /\ IsVoice(q)
  BY <1>1 DEF IsVoice
<1>6. ASSUME NEW r PROVE (FilterApply(f, r) = <<>>) <=> (message_kind(r) \notin f.kinds \/ (IsVoice(r) /\ Channel(r) \notin f.channels))
  BY DEF FilterApply
<1> QED BY <1>1, <1>3, <1>4, <1>5, <1>6 DEF q

\* The same entry of a map takes both, if they are of one kind.
LEMMA MatchedAlike ==
  ASSUME NEW p \in UmpPackets, p.mt = 2, NEW m, VoiceKindOf(p) = VoiceKindOf(upscale_to_midi2(p))
  PROVE  FirstMatch(m, p) = FirstMatch(m, upscale_to_midi2(p))
<1> DEFINE q == upscale_to_midi2(p)
<1>1. /\ q.mt = 4 /\ Channel(q) = Channel(p) /\ Op(q) = (IF Silent(p) THEN 8 ELSE Op(p))
  BY TranslatedBytes
<1>2. downscale_to_midi1(q) = <<Meant(p)>>
  BY Translated
<1> HIDE DEF q
<1>3. ~ Silent(p)
  <2> SUFFICES ASSUME Silent(p) PROVE FALSE
    OBVIOUS
  <2>1. Op(p) = 9 /\ Op(q) = 8 /\ IsVoice(p) /\ IsVoice(q)
    BY <1>1 DEF Silent, IsVoice
  <2>2. VoiceKindOf(p) = "NoteOn" /\ VoiceKindOf(q) = "NoteOff"
    BY <2>1 DEF VoiceKindOf
  <2> QED BY <2>2 DEF q
<1>4. LastForm(q) = p /\ LastForm(p) = p
  BY <1>1, <1>2, <1>3 DEF LastForm, Meant
<1>5. ASSUME NEW matcher PROVE Matches(matcher, p) <=> Matches(matcher, q)
  BY <1>1, <1>4 DEF Matches, q
<1> DEFINE Hits(r) == {i \in DOMAIN m.entries : Matches(m.entries[i].matcher, r)}
<1>6. Hits(p) = Hits(q)
  BY <1>5
<1>7. ASSUME NEW r PROVE FirstMatch(m, r) = IF Hits(r) = {} THEN 0 ELSE CHOOSE i \in Hits(r) : \A j \in Hits(r) : i <= j
  BY DEF FirstMatch
<1> HIDE DEF Hits
<1> QED BY <1>6, <1>7 DEF q

\* Both are decoded alike.
LEMMA ReadAlike ==
  ASSUME NEW p \in UmpPackets, p.mt = 2
  PROVE  DecodedAlike(p, upscale_to_midi2(p))
<1> DEFINE q == upscale_to_midi2(p)
           d == decode(p)
           e == decode(q)
           key == IF d.key = "note_on" /\ d.value = <<0>> THEN "note_off" ELSE d.key
           Like(k, of, value, wide) ==
             /\ d.channel = Channel(p) /\ e.channel = Channel(p) /\ key = k /\ e.key = Counterpart[k]
             /\ d.of = of /\ e.of = of /\ d.value = value /\ e.value = wide /\ SameValue(k, value, wide)
<1>1. /\ q.mt = 4 /\ Channel(q) = Channel(p) /\ q.d2 = 0 /\ q.low = 0
      /\ Op(q) = (IF Silent(p) THEN 8 ELSE Op(p))
      /\ q.d1 = (IF Op(p) \in {12, 13, 14} THEN 0 ELSE p.d1)
      /\ Op(q) \in {8, 9} => q.v = velocity7_to_16(p.d2)
      /\ Op(q) \in {10, 11} => q.v = value7_to_32(p.d2)
      /\ Op(q) = 12 => q.v = 256 * p.d1
      /\ Op(q) = 13 => q.v = value7_to_32(p.d1)
      /\ Op(q) = 14 => q.v = 4 * (p.d1 + 128 * p.d2)
  BY TranslatedBytes
<1>2. /\ Op(p) \in {8, 9, 10, 11, 12, 13, 14} /\ p.d1 \in Nat /\ p.d1 < 128 /\ p.d2 \in Nat /\ p.d2 < 128
  BY VoiceBytes
<1>3. d = decode_midi1_channel(p) /\ e = decode_midi2_channel(q)
  BY <1>1 DEF decode
<1>4. MonitorBox(p) = MonitorBox(q)
  <2>1. message_kind(p) = message_kind(q) /\ ~ is_jr_clock(p) /\ ~ is_jr_clock(q)
    BY <1>1, FilteredAlike DEF is_jr_clock
  <2> HIDE DEF q
  <2> QED BY <2>1 DEF MonitorBox
<1> HIDE DEF q
<1>5. velocity16_to_7(velocity7_to_16(p.d2)) = p.d2
  BY <1>2, SameVelocity
<1>6. CASE Op(q) = 8
  <2>1. e = Decoded("m2_note_off", Channel(p), <<p.d1>>, <<velocity7_to_16(p.d2)>>)
    BY <1>1, <1>2, <1>3, <1>6 DEF decode_midi2_channel, Note2, Silent
  <2>2. d = Decoded(IF Op(p) = 8 THEN "note_off" ELSE "note_on", Channel(p), <<p.d1>>, <<p.d2>>)
    BY <1>1, <1>2, <1>3, <1>6 DEF decode_midi1_channel, Silent
  <2>3. key = "note_off"
    BY <1>1, <1>6, <2>2 DEF Decoded, Silent
  <2>4. Like("note_off", <<p.d1>>, <<p.d2>>, <<velocity7_to_16(p.d2)>>)
    <3> HIDE DEF key, d, e
    <3> QED BY <1>5, <2>1, <2>2, <2>3 DEF Decoded, Counterpart, SameValue
  <2> QED BY <1>4, <2>4 DEF DecodedAlike, q
<1>7. CASE Op(q) = 9
  <2>1. e = Decoded("m2_note_on", Channel(p), <<p.d1>>, <<velocity7_to_16(p.d2)>>)
    BY <1>1, <1>2, <1>3, <1>7 DEF decode_midi2_channel, Note2, Silent
  <2>2. d = Decoded("note_on", Channel(p), <<p.d1>>, <<p.d2>>) /\ p.d2 # 0
    BY <1>1, <1>2, <1>3, <1>7 DEF decode_midi1_channel, Silent
  <2>3. key = "note_on"
    BY <2>2 DEF Decoded
  <2>4. Like("note_on", <<p.d1>>, <<p.d2>>, <<velocity7_to_16(p.d2)>>)
    <3> HIDE DEF key, d, e
    <3> QED BY <1>5, <2>1, <2>2, <2>3 DEF Decoded, Counterpart, SameValue
  <2> QED BY <1>4, <2>4 DEF DecodedAlike, q
<1>8. CASE Op(q) = 10
  <2>1. e = Decoded("m2_poly_pressure", Channel(p), <<p.d1>>, <<value7_to_32(p.d2), 0>>)
    BY <1>1, <1>2, <1>3, <1>8 DEF decode_midi2_channel, OfOne, Silent
  <2>2. d = Decoded("poly_pressure", Channel(p), <<p.d1>>, <<p.d2>>)
    BY <1>1, <1>2, <1>3, <1>8 DEF decode_midi1_channel, Silent
  <2>3. key = "poly_pressure"
    BY <2>2 DEF Decoded
  <2>4. Like("poly_pressure", <<p.d1>>, <<p.d2>>, <<value7_to_32(p.d2), 0>>)
    <3> HIDE DEF key, d, e
    <3> QED BY <1>2, <2>1, <2>2, <2>3, SameValue7 DEF Decoded, Counterpart, SameValue
  <2> QED BY <1>4, <2>4 DEF DecodedAlike, q
<1>9. CASE Op(q) = 11
  <2>1. e = Decoded("m2_cc", Channel(p), <<p.d1>>, <<value7_to_32(p.d2), 0>>)
    BY <1>1, <1>2, <1>3, <1>9 DEF decode_midi2_channel, OfOne, Silent
  <2>2. d = Decoded("cc", Channel(p), <<p.d1>>, <<p.d2>>)
    BY <1>1, <1>2, <1>3, <1>9 DEF decode_midi1_channel, Silent
  <2>3. key = "cc"
    BY <2>2 DEF Decoded
  <2>4. Like("cc", <<p.d1>>, <<p.d2>>, <<value7_to_32(p.d2), 0>>)
    <3> HIDE DEF key, d, e
    <3> QED BY <1>2, <2>1, <2>2, <2>3, SameValue7 DEF Decoded, Counterpart, SameValue
  <2> QED BY <1>4, <2>4 DEF DecodedAlike, q
<1>10. CASE Op(q) = 12
  <2>1. e = Decoded("m2_program", Channel(p), <<>>, <<p.d1>>)
    <3>1. Op(p) = 12 /\ q.d1 = 0 /\ (q.v \div 256) % 128 = p.d1
      BY <1>1, <1>2, <1>10 DEF Silent
    <3>2. e = Program2(q)
      BY <1>3, <1>10 DEF decode_midi2_channel
    <3> QED BY <1>1, <3>1, <3>2 DEF Program2
  <2>2. d = Decoded("program", Channel(p), <<>>, <<p.d1>>)
    BY <1>1, <1>2, <1>3, <1>10 DEF decode_midi1_channel, Silent
  <2>3. key = "program"
    BY <2>2 DEF Decoded
  <2>4. Like("program", <<>>, <<p.d1>>, <<p.d1>>)
    <3> HIDE DEF key, d, e
    <3> QED BY <2>1, <2>2, <2>3 DEF Decoded, Counterpart, SameValue
  <2> QED BY <1>4, <2>4 DEF DecodedAlike, q
<1>11. CASE Op(q) = 13
  <2>1. e = Decoded("m2_channel_pressure", Channel(p), <<>>, <<value7_to_32(p.d1), 0>>)
    BY SMTT(20), <1>1, <1>2, <1>3, <1>11 DEF decode_midi2_channel, OfChannel, Silent
  <2>2. d = Decoded("channel_pressure", Channel(p), <<>>, <<p.d1>>)
    BY <1>1, <1>2, <1>3, <1>11 DEF decode_midi1_channel, Silent
  <2>3. key = "channel_pressure"
    BY <2>2 DEF Decoded
  <2>4. Like("channel_pressure", <<>>, <<p.d1>>, <<value7_to_32(p.d1), 0>>)
    <3> HIDE DEF key, d, e
    <3> QED BY <1>2, <2>1, <2>2, <2>3, SameValue7 DEF Decoded, Counterpart, SameValue
  <2> QED BY <1>4, <2>4 DEF DecodedAlike, q
<1>12. CASE Op(q) = 14
  <2>1. e = Decoded("m2_pitch_bend", Channel(p), <<>>, <<4 * (p.d1 + 128 * p.d2), 0>>)
    <3>1. q.v = 4 * (p.d1 + 128 * p.d2)
      BY <1>1, <1>12
    <3>2. e = OfChannel("m2_pitch_bend", q)
      BY <1>3, <1>12 DEF decode_midi2_channel
    <3> QED BY <1>1, <3>1, <3>2 DEF OfChannel
  <2>2. d = Decoded("pitch_bend", Channel(p), <<>>, <<p.d1, p.d2>>)
    BY <1>1, <1>2, <1>3, <1>12 DEF decode_midi1_channel, Silent
  <2>3. key = "pitch_bend"
    BY <2>2 DEF Decoded
  <2>4. Like("pitch_bend", <<>>, <<p.d1, p.d2>>, <<4 * (p.d1 + 128 * p.d2), 0>>)
    <3> HIDE DEF key, d, e
    <3> QED BY <1>2, <2>1, <2>2, <2>3, SameBend DEF Decoded, Counterpart, SameValue
  <2> QED BY <1>4, <2>4 DEF DecodedAlike, q
<1> QED BY <1>1, <1>2, <1>6, <1>7, <1>8, <1>9, <1>10, <1>11, <1>12

\* What the filter and the monitor make of a packet is in its key.
FamilyOf(key) ==
  CASE key \in {"note_off", "note_on", "m2_note_off", "m2_note_on"} -> "notes"
    [] key \in {"poly_pressure", "m2_poly_pressure"} -> "poly_pressure"
    [] key \in {"cc", "m2_cc", "m2_rc", "m2_ac", "m2_rc_rel", "m2_ac_rel"} -> "control_change"
    [] key \in {"program", "m2_program"} -> "program_change"
    [] key \in {"channel_pressure", "m2_channel_pressure"} -> "channel_pressure"
    [] key \in {"pitch_bend", "m2_pitch_bend", "m2_pn_bend"} -> "pitch_bend"
    [] key \in {"m2_pn_rc", "m2_pn_ac", "m2_pn_mgmt"} -> "per_note"
    [] key \in {"noop", "jr_clock", "jr_timestamp", "dctpq", "delta_clockstamp"} -> "utility"
    [] key = "clock" -> "clock"
    [] key \in {"start", "continue", "stop"} -> "transport"
    [] key \in {"mtc", "song_position"} -> "system_common"
    [] key = "sysex" -> "sysex"
    [] key \in {"sysex8", "mixdata"} -> "sysex8"
    [] key \in {"flex_tempo", "flex_time_sig", "flex_metronome", "flex_key_sig", "flex_text"} -> "flex"
    [] OTHER -> "stream"

LEMMA KeyTells ==
  ASSUME NEW p \in AnyPackets, decode(p).key # "other"
  PROVE  message_kind(p) = FamilyOf(decode(p).key) /\ (is_jr_clock(p) <=> decode(p).key = "jr_clock")
<1> DEFINE key == decode(p).key
<1>1. p.mt \in Nat /\ p.status \in Nat /\ p.status < 256 /\ Op(p) \in 0..15
  <2>1. p.mt \in Nat /\ p.status \in Nat /\ p.status < 256
    BY DEF AnyPackets, Below
  <2> QED BY <2>1 DEF Op
<1>2. CASE p.mt = 0
  <2>1. key = KeyIn(UtilityKeys, Op(p)) /\ message_kind(p) = "utility"
    BY <1>2 DEF decode, decode_utility, Plain, Decoded, message_kind
  <2>2. Op(p) \in {0, 1, 2, 3, 4}
    BY <1>1, <2>1 DEF KeyIn, UtilityKeys
  <2>3. key = <<"noop", "jr_clock", "jr_timestamp", "dctpq", "delta_clockstamp">>[Op(p) + 1]
    BY <2>1, <2>2 DEF KeyIn, UtilityKeys
  <2> HIDE DEF key
  <2>4. key \in {"noop", "jr_clock", "jr_timestamp", "dctpq", "delta_clockstamp"} /\ (key = "jr_clock" <=> Op(p) = 1)
    BY <2>2, <2>3
  <2> QED BY <1>2, <2>1, <2>4 DEF key, FamilyOf, is_jr_clock
<1>3. CASE p.mt = 1
  <2>1. decode(p) = decode_system(p) /\ message_kind(p) = SystemFamily(p.status)
    BY <1>3 DEF decode, message_kind
  <2>2. p.status \in {248, 250, 251, 252, 241, 242}
    BY <2>1 DEF decode_system, Other, Plain, Decoded
  <2>3. CASE p.status = 248
    BY <1>3, <2>1, <2>3 DEF decode_system, Plain, Decoded, SystemFamily, FamilyOf, is_jr_clock
  <2>4. CASE p.status = 250
    BY <1>3, <2>1, <2>4 DEF decode_system, Plain, Decoded, SystemFamily, FamilyOf, is_jr_clock
  <2>5. CASE p.status = 251
    BY <1>3, <2>1, <2>5 DEF decode_system, Plain, Decoded, SystemFamily, FamilyOf, is_jr_clock
  <2>6. CASE p.status = 252
    BY <1>3, <2>1, <2>6 DEF decode_system, Plain, Decoded, SystemFamily, FamilyOf, is_jr_clock
  <2>7. CASE p.status = 241
    BY <1>3, <2>1, <2>7 DEF decode_system, Plain, Decoded, SystemFamily, FamilyOf, is_jr_clock
  <2>8. CASE p.status = 242
    BY <1>3, <2>1, <2>8 DEF decode_system, Plain, Decoded, SystemFamily, FamilyOf, is_jr_clock
  <2> QED BY <2>2, <2>3, <2>4, <2>5, <2>6, <2>7, <2>8
<1>4. CASE p.mt = 2
  <2>1. decode(p) = decode_midi1_channel(p)
    BY <1>4 DEF decode
  <2>2. Op(p) \in {8, 9, 10, 11, 12, 13, 14}
    BY <2>1 DEF decode_midi1_channel, Other, Plain, Decoded
  <2>3. message_kind(p) = VoiceFamily(Op(p)) /\ ~ is_jr_clock(p)
    BY <1>4, <2>2 DEF message_kind, is_jr_clock
  <2> QED BY <2>1, <2>2, <2>3 DEF decode_midi1_channel, Decoded, VoiceFamily, FamilyOf
<1>5. CASE p.mt = 4
  <2>1. decode(p) = decode_midi2_channel(p) /\ message_kind(p) = Midi2Family(Op(p)) /\ ~ is_jr_clock(p)
    BY <1>5 DEF decode, message_kind, is_jr_clock
  <2>2. Op(p) # 7
    BY <2>1 DEF decode_midi2_channel, Other, Plain, Decoded
  <2> HIDE DEF key
  <2>3. ASSUME NEW k, NEW x, NEW y, decode(p) = Decoded(k, Channel(p), x, y) PROVE key = k
    BY <2>3 DEF key, Decoded
  <2>4. CASE Op(p) \in {8, 9}
    <3>1. key \in {"m2_note_off", "m2_note_on"}
      BY <2>1, <2>3, <2>4 DEF decode_midi2_channel, Note2
    <3> QED BY <2>1, <2>4, <3>1 DEF Midi2Family, VoiceFamily, FamilyOf, key
  <2>5. CASE Op(p) = 10
    <3>1. key = "m2_poly_pressure"
      BY <2>1, <2>3, <2>5 DEF decode_midi2_channel, OfOne
    <3> QED BY <2>1, <2>5, <3>1 DEF Midi2Family, VoiceFamily, FamilyOf, key
  <2>6. CASE Op(p) = 11
    <3>1. key = "m2_cc"
      BY <2>1, <2>3, <2>6 DEF decode_midi2_channel, OfOne
    <3> QED BY <2>1, <2>6, <3>1 DEF Midi2Family, VoiceFamily, FamilyOf, key
  <2>7. CASE Op(p) = 12
    <3>1. key = "m2_program"
      BY <2>1, <2>3, <2>7 DEF decode_midi2_channel, Program2
    <3> QED BY <2>1, <2>7, <3>1 DEF Midi2Family, VoiceFamily, FamilyOf, key
  <2>8. CASE Op(p) = 13
    <3>1. key = "m2_channel_pressure"
      BY <2>1, <2>3, <2>8 DEF decode_midi2_channel, OfChannel
    <3> QED BY <2>1, <2>8, <3>1 DEF Midi2Family, VoiceFamily, FamilyOf, key
  <2>9. CASE Op(p) \in {6, 14}
    <3>1. key \in {"m2_pitch_bend", "m2_pn_bend"}
      BY <2>1, <2>3, <2>9 DEF decode_midi2_channel, OfChannel, OfOne
    <3> QED BY <2>1, <2>9, <3>1 DEF Midi2Family, VoiceFamily, FamilyOf, key
  <2>10. CASE Op(p) \in {2, 3, 4, 5}
    <3>1. key \in {"m2_rc", "m2_ac", "m2_rc_rel", "m2_ac_rel"}
      BY <2>1, <2>3, <2>10 DEF decode_midi2_channel, OfTwo
    <3> QED BY <2>1, <2>10, <3>1 DEF Midi2Family, FamilyOf, key
  <2>11. CASE Op(p) \in {0, 1, 15}
    <3>1. key \in {"m2_pn_rc", "m2_pn_ac", "m2_pn_mgmt"}
      BY <2>1, <2>3, <2>11 DEF decode_midi2_channel, OfTwo
    <3> QED BY <2>1, <2>11, <3>1 DEF Midi2Family, FamilyOf, key
  <2> QED BY <1>1, <2>2, <2>4, <2>5, <2>6, <2>7, <2>8, <2>9, <2>10, <2>11
<1>6. CASE p.mt = 3
  BY <1>6 DEF decode, Plain, Decoded, message_kind, is_jr_clock, FamilyOf
<1>7. CASE p.mt = 5
  <2>1. key \in {"sysex8", "mixdata"} /\ message_kind(p) = "sysex8" /\ ~ is_jr_clock(p)
    BY <1>7 DEF decode, decode_data64, Other, Plain, Decoded, message_kind, is_jr_clock
  <2> HIDE DEF key
  <2> QED BY <2>1 DEF FamilyOf, key
<1>8. CASE p.mt = 13
  <2>1. key \in {"flex_tempo", "flex_time_sig", "flex_metronome", "flex_key_sig", "flex_text"} /\ message_kind(p) = "flex" /\ ~ is_jr_clock(p)
    BY <1>8 DEF decode, decode_flex, Other, Plain, Decoded, message_kind, is_jr_clock
  <2> HIDE DEF key
  <2> QED BY <2>1 DEF FamilyOf, key
<1>9. CASE p.mt = 15
  <2>1. key = KeyIn(StreamKeys, p.d1) /\ message_kind(p) = "stream" /\ ~ is_jr_clock(p)
    BY <1>9 DEF decode, decode_stream, Plain, Decoded, message_kind, is_jr_clock
  <2>2. p.d1 \in {0, 1, 2, 3, 4, 5, 6, 16, 17, 18}
    BY <1>1, <2>1 DEF KeyIn, StreamKeys
  <2>3. key = IF p.d1 > 6 THEN <<"stream_fb_discovery", "stream_fb_info", "stream_fb_name">>[p.d1 - 15]
              ELSE <<"stream_ep_discovery", "stream_ep_info", "stream_device_identity", "stream_ep_name",
                     "stream_product_id", "stream_cfg_request", "stream_cfg">>[p.d1 + 1]
    BY <2>1, <2>2 DEF KeyIn, StreamKeys
  <2> HIDE DEF key
  <2>4. key \in {"stream_fb_discovery", "stream_fb_info", "stream_fb_name", "stream_ep_discovery", "stream_ep_info",
                 "stream_device_identity", "stream_ep_name", "stream_product_id", "stream_cfg_request", "stream_cfg"}
    BY <2>2, <2>3
  <2>5. FamilyOf(key) = "stream" /\ key # "jr_clock"
    BY <2>4 DEF FamilyOf
  <2> QED BY <2>1, <2>5 DEF key
<1>10. p.mt \in {0, 1, 2, 3, 4, 5, 13, 15}
  BY <1>1 DEF decode, Other, Plain, Decoded
<1> QED BY <1>2, <1>3, <1>4, <1>5, <1>6, <1>7, <1>8, <1>9, <1>10

LEMMA KeyKeepsTogether ==
  ASSUME NEW p \in AnyPackets, NEW q \in AnyPackets
  PROVE  KeptTogether(p, q)
<1> SUFFICES ASSUME decode(p).key = decode(q).key, decode(p).key # "other"
             PROVE  message_kind(p) = message_kind(q) /\ MonitorBox(p) = MonitorBox(q)
  BY DEF KeptTogether
<1>1. message_kind(p) = message_kind(q) /\ (is_jr_clock(p) <=> is_jr_clock(q))
  BY KeyTells
<1> QED BY <1>1 DEF MonitorBox

\* However many events a drain takes.
LEMMA DrainShows ==
  ASSUME PathTypes, live \in [Channels -> LiveChannels], Drain
  PROVE  live' \in [Channels -> LiveChannels]
<1> DEFINE T == {n \in Nat : n <= Len(Polled) => After[n].live \in [Channels -> LiveChannels]}
<1>1. /\ Polled \in Seq(Captures) /\ Len(Polled) \in Nat
      /\ \A n \in 0..Len(Polled) : After[n] = AfterStep(After, n)
  BY PolledType, AfterSteps
<1>2. 0 \in T
  <2>1. After[0] = Undrained
    BY <1>1 DEF AfterStep
  <2> QED BY <2>1 DEF Undrained
<1>3. ASSUME NEW m \in T PROVE m + 1 \in T
  <2> SUFFICES ASSUME m + 1 <= Len(Polled) PROVE After[m + 1].live \in [Channels -> LiveChannels]
    OBVIOUS
  <2>1. m + 1 \in 1..Len(Polled) /\ (m + 1) - 1 = m /\ After[m].live \in [Channels -> LiveChannels]
    BY <1>1
  <2>2. Polled[m + 1].packet \in UmpPackets
    <3>1. PICK q \in Seq(Captures) : q = Polled
      BY <1>1
    <3>2. q[m + 1] \in Captures
      BY <2>1, <3>1
    <3> QED BY <3>1, <3>2 DEF Captures
  <2>3. After[m + 1] = OneEvent(After[m], Polled[m + 1])
    BY <1>1, <2>1 DEF AfterStep
  <2>4. After[m + 1].live = LivePush(After[m].live, Polled[m + 1].packet)
    BY <2>3 DEF OneEvent
  <2> QED BY <2>1, <2>2, <2>4, LiveTyped
<1>4. T = Nat
  <2> HIDE DEF T
  <2>1. T \subseteq Nat
    BY DEF T
  <2> QED BY <1>2, <1>3, <2>1, EveryNatural
<1>5. Len(Polled) \in T
  <2> HIDE DEF T
  <2> QED BY <1>1, <1>4
<1>6. live' = Drained.live
  BY DEF Drain
<1> QED BY <1>5, <1>6 DEF Drained

ViewTypes == PathTypes /\ live \in [Channels -> LiveChannels]

LEMMA ViewTyped == PathInit => ViewTypes
<1> SUFFICES ASSUME PathInit PROVE live \in [Channels -> LiveChannels]
  BY PathTyped DEF ViewTypes
<1>1. SilentChannel \in LiveChannels
  BY DEF SilentChannel, LiveChannels, NoByte
<1> QED BY <1>1 DEF PathInit, SilentView

LEMMA ViewGoesOn == ViewTypes /\ [PathNext]_pathVars => ViewTypes'
<1> SUFFICES ASSUME ViewTypes, [PathNext]_pathVars PROVE live' \in [Channels -> LiveChannels]
  BY PathGoesOn DEF ViewTypes
<1> USE DEF ViewTypes
<1>1. ASSUME NEW p \in UmpPackets, Inject(p) PROVE live' \in [Channels -> LiveChannels]
  BY <1>1, LiveTyped DEF Inject
<1>2. CASE Drain
  BY <1>2, DrainShows
<1>3. CASE ResetLive \/ Panic
  <2>1. SilentChannel \in LiveChannels
    BY DEF SilentChannel, LiveChannels, NoByte
  <2> QED BY <1>3, <2>1 DEF ResetLive, Panic, SilentView
<1>4. (\/ \E us \in Nat : Wait(us)
       \/ \E p \in UmpPackets, source \in Sources : Capture(source, p)
       \/ TogglePause \/ ToggleMute \/ ToggleRecord \/ ToggleLearn \/ TogglePassUnmatched
       \/ \E preset \in DataMaps : AddPreset(preset)
       \/ \E i \in DOMAIN map.entries : RemoveEntry(i)
       \/ \E f \in LinkFilters : SetFilter(f)
       \/ ResetClock \/ ClearVoices \/ OffHanging \/ UNCHANGED pathVars) => live' = live
  BY DEF Wait, Capture, TogglePause, ToggleMute, ToggleRecord, ToggleLearn, TogglePassUnmatched, AddPreset,
         RemoveEntry, SetFilter, ResetClock, ClearVoices, OffHanging, trackers, pathVars
<1> QED BY <1>1, <1>2, <1>3, <1>4 DEF PathNext

\* Whatever was captured, injected and clicked on before, and whatever the
\* filter and the map are: a message in MIDI 1.0 and its translation to MIDI 2.0
\* are shown, tracked, filtered and matched alike (midi2.rs and all that goes by
\* downscale_to_midi1); and any two packets shown under one key are of one
\* family and one check box (decode.rs, filter.rs, app.rs monitor_type_ok).
THEOREM ProtocolsTreatedAlike == PathSpec => []ProtocolsAgree
<1>1. PathInit => ViewTypes
  BY ViewTyped
<1>2. ViewTypes /\ [PathNext]_pathVars => ViewTypes'
  BY ViewGoesOn
<1>3. ViewTypes => ProtocolsAgree
  <2> SUFFICES ASSUME ViewTypes PROVE ProtocolsAgree
    OBVIOUS
  <2>1. \A p, q \in Probes : KeptTogether(p, q)
    BY KeyKeepsTogether, ProbesAssumption
  <2>2. ASSUME NEW t \in Translations PROVE DecodedAlike(t[1], t[2]) /\ SeenAlike(t[1], t[2])
    <3>1. PICK p \in UmpPackets : p.mt = 2 /\ t = <<p, upscale_to_midi2(p)>>
      BY DEF Translations
    <3> DEFINE q == upscale_to_midi2(p)
    <3>2. DecodedAlike(p, q)
      BY <3>1, ReadAlike
    <3>3. /\ ClockPush(clock, p, now) = ClockPush(clock, q, now) /\ NrpnPush(nrpn, p) = NrpnPush(nrpn, q)
          /\ MpePush(mpe, p) = MpePush(mpe, q) /\ HangPush(hang, p) = HangPush(hang, q)
      BY <3>1, SeenAsMeant
    <3>4. Shown(LivePush(live, p), Channel(p)) = Shown(LivePush(live, q), Channel(q))
      BY <3>1, ShownAlike DEF ViewTypes
    <3>5. (FilterApply(filter, p) = <<>>) = (FilterApply(filter, q) = <<>>)
      BY <3>1, FilteredAlike
    <3>6. VoiceKindOf(p) = VoiceKindOf(q) => FirstMatch(map, p) = FirstMatch(map, q)
      BY <3>1, MatchedAlike
    <3> HIDE DEF q
    <3>7. SeenAlike(p, q)
      BY <3>3, <3>4, <3>5, <3>6 DEF SeenAlike
    <3> QED BY <3>1, <3>2, <3>7 DEF q
  <2> QED BY <2>1, <2>2 DEF ProtocolsAgree, PacketsAgree
<1> QED BY <1>1, <1>2, <1>3, PTL DEF PathSpec

-----------------------------------------------------------------------------
(* A recording in a file.  Its bytes are the tempo, for every message the  *)
(* ticks since the one before and its own bytes, and the end of the track; *)
(* a reader has read as many messages, after as many rounds and the first, *)
(* and stands where the next is.                                           *)

\* A function of 0..n can be given by its first value and a step.
StepsOf(n, S) == [1..n -> [S -> S]]
Iteration(f, n, S, a, step) == f \in [0..n -> S] /\ \A i \in 0..n : f[i] = IF i = 0 THEN a ELSE step[i][f[i - 1]]

LEMMA Iterates ==
  ASSUME NEW S, NEW a \in S, NEW n \in Nat, NEW step \in StepsOf(n, S)
  PROVE  \E f : Iteration(f, n, S, a, step)
<1> USE DEF StepsOf
<1> DEFINE Good(f, m) == f \in [0..m -> S] /\ \A i \in 0..m : f[i] = IF i = 0 THEN a ELSE step[i][f[i - 1]]
           T == {m \in Nat : m <= n => \E f : Good(f, m)}
<1>1. 0 \in T
  <2>1. Good([i \in 0..0 |-> a], 0)
    OBVIOUS
  <2> HIDE DEF Good
  <2> QED BY <2>1
<1>2. ASSUME NEW m \in T PROVE m + 1 \in T
  <2> SUFFICES ASSUME m + 1 <= n PROVE \E f : Good(f, m + 1)
    OBVIOUS
  <2>1. m \in Nat /\ m + 1 \in 1..n /\ m \in 0..m /\ (m + 1) - 1 = m
    OBVIOUS
  <2>2. PICK f : Good(f, m)
    OBVIOUS
  <2>3. PICK x \in S : x = step[m + 1][f[m]]
    BY <2>1, <2>2
  <2> DEFINE g == [i \in 0..(m + 1) |-> IF i = m + 1 THEN x ELSE f[i]]
  <2>4. g \in [0..(m + 1) -> S]
    BY <2>1, <2>2
  <2>5. g[m + 1] = x /\ \A i \in 0..m : g[i] = f[i]
    BY <2>1
  <2>6. ASSUME NEW i \in 0..(m + 1) PROVE g[i] = IF i = 0 THEN a ELSE step[i][g[i - 1]]
    <3> HIDE DEF g
    <3>1. CASE i = m + 1
      BY <2>1, <2>3, <2>5, <3>1
    <3>2. CASE i # m + 1
      <4>1. i \in 0..m /\ (i = 0 \/ i - 1 \in 0..m)
        BY <2>1, <3>2
      <4> QED BY <2>2, <2>5, <4>1
    <3> QED BY <3>1, <3>2
  <2> HIDE DEF g
  <2>7. Good(g, m + 1)
    BY <2>4, <2>6
  <2> HIDE DEF Good
  <2> QED BY <2>7
<1>3. T = Nat
  <2> HIDE DEF T
  <2>1. T \subseteq Nat
    BY DEF T
  <2> QED BY <1>1, <1>2, <2>1, EveryNatural
<1>4. \E f : Good(f, n)
  <2> HIDE DEF Good
  <2>1. n \in T /\ n <= n
    BY <1>3
  <2> QED BY <2>1
<1>5. PICK f : Good(f, n)
  BY <1>4
<1> QED BY <1>5 DEF Iteration

\* Sequences of bytes written one by one.
LEMMA Spelled ==
  ASSUME NEW a \in Nat, NEW b \in Nat, NEW c \in Nat, NEW d \in Nat
  PROVE  Append(<<a>>, b) = <<a, b>> /\ Append(<<a, b>>, c) = <<a, b, c>> /\ Append(<<a, b, c>>, d) = <<a, b, c, d>>
<1>1. <<a>> \in Seq(Nat) /\ <<a, b>> \in Seq(Nat) /\ <<a, b, c>> \in Seq(Nat) /\ <<a, b, c, d>> \in Seq(Nat)
  OBVIOUS
<1>2. Append(<<a>>, b) = <<a, b>>
  <2>1. PICK u \in Seq(Nat), v \in Seq(Nat) : u = <<a>> /\ v = <<a, b>>
    BY <1>1
  <2>2. Len(u) = 1 /\ Len(v) = 2 /\ v[2] = b /\ \A i \in 1..1 : u[i] = v[i]
    BY <2>1
  <2>3. Append(u, b) \in Seq(Nat) /\ Len(Append(u, b)) = 2 /\ \A i \in 1..2 : Append(u, b)[i] = v[i]
    <3>1. Append(u, b) \in Seq(Nat) /\ Len(Append(u, b)) = Len(u) + 1
      BY AppendProperties
    <3>2. Append(u, b)[Len(u) + 1] = b /\ \A i \in 1..Len(u) : Append(u, b)[i] = u[i]
      BY AppendProperties
    <3> QED BY <2>2, <3>1, <3>2
  <2>4. Append(u, b) = v
    BY <2>2, <2>3, SeqEqual
  <2> QED BY <2>1, <2>4
<1>3. Append(<<a, b>>, c) = <<a, b, c>>
  <2>1. PICK u \in Seq(Nat), v \in Seq(Nat) : u = <<a, b>> /\ v = <<a, b, c>>
    BY <1>1
  <2>2. Len(u) = 2 /\ Len(v) = 3 /\ v[3] = c /\ \A i \in 1..2 : u[i] = v[i]
    BY <2>1
  <2>3. Append(u, c) \in Seq(Nat) /\ Len(Append(u, c)) = 3 /\ \A i \in 1..3 : Append(u, c)[i] = v[i]
    <3>1. Append(u, c) \in Seq(Nat) /\ Len(Append(u, c)) = Len(u) + 1
      BY AppendProperties
    <3>2. Append(u, c)[Len(u) + 1] = c /\ \A i \in 1..Len(u) : Append(u, c)[i] = u[i]
      BY AppendProperties
    <3> QED BY <2>2, <3>1, <3>2
  <2>4. Append(u, c) = v
    BY <2>2, <2>3, SeqEqual
  <2> QED BY <2>1, <2>4
<1>4. Append(<<a, b, c>>, d) = <<a, b, c, d>>
  <2>1. PICK u \in Seq(Nat), v \in Seq(Nat) : u = <<a, b, c>> /\ v = <<a, b, c, d>>
    BY <1>1
  <2>2. Len(u) = 3 /\ Len(v) = 4 /\ v[4] = d /\ \A i \in 1..3 : u[i] = v[i]
    BY <2>1
  <2>3. Append(u, d) \in Seq(Nat) /\ Len(Append(u, d)) = 4 /\ \A i \in 1..4 : Append(u, d)[i] = v[i]
    <3>1. Append(u, d) \in Seq(Nat) /\ Len(Append(u, d)) = Len(u) + 1
      BY AppendProperties
    <3>2. Append(u, d)[Len(u) + 1] = d /\ \A i \in 1..Len(u) : Append(u, d)[i] = u[i]
      BY AppendProperties
    <3> QED BY <2>2, <3>1, <3>2
  <2>4. Append(u, d) = v
    BY <2>2, <2>3, SeqEqual
  <2> QED BY <2>1, <2>4
<1> QED BY <1>2, <1>3, <1>4

\* The bytes of a number of ticks, up to four: seven bits a byte.
Vlq(n) ==
  LET q == n \div 128  r == q \div 128  t == r \div 128
  IN IF n < 128 THEN <<n>>
     ELSE IF q < 128 THEN <<q + 128, n % 128>>
     ELSE IF r < 128 THEN <<r + 128, (q % 128) + 128, n % 128>>
     ELSE <<t + 128, (r % 128) + 128, (q % 128) + 128, n % 128>>

LEMMA Halved ==
  ASSUME NEW n \in Nat
  PROVE  n \div 128 \in Nat /\ n % 128 \in 0..127 /\ n = 128 * (n \div 128) + (n % 128)
OBVIOUS

Septet(f, m) == IF m < 128 THEN <<m + 128>> ELSE Append(f[m \div 128], (m % 128) + 128)

LEMMA Septets ==
  ASSUME NEW n \in Nat
  PROVE  \E f : f = [m \in 0..n |-> Septet(f, m)] /\ write_vlq(n) = [f[n] EXCEPT ![Len(f[n])] = @ - 128]
<1> DEFINE Steps(f, k) == f = [m \in 0..k |-> Septet(f, m)]
           T == {k \in Nat : \E f : Steps(f, k)}
<1>1. 0 \in T
  <2> DEFINE f == [m \in 0..0 |-> <<m + 128>>]
  <2>1. \A m \in 0..0 : Septet(f, m) = <<m + 128>>
    BY DEF Septet
  <2>2. Steps(f, 0)
    BY <2>1
  <2> QED BY <2>2
<1>2. ASSUME NEW k \in T PROVE k + 1 \in T
  <2>1. PICK f : Steps(f, k)
    OBVIOUS
  <2> DEFINE g == [m \in 0..(k + 1) |-> IF m <= k THEN f[m] ELSE Septet(f, m)]
  <2>2. ASSUME NEW m \in 0..(k + 1) PROVE g[m] = Septet(g, m)
    <3>1. m < 128 \/ m \div 128 \in 0..k
      OBVIOUS
    <3>2. m >= 128 => g[m \div 128] = f[m \div 128]
      BY <3>1
    <3>3. g[m] = Septet(f, m)
      BY <2>1
    <3> HIDE DEF g
    <3>4. Septet(g, m) = Septet(f, m)
      BY <3>2 DEF Septet
    <3> QED BY <3>3, <3>4
  <2>3. g = [m \in 0..(k + 1) |-> g[m]]
    OBVIOUS
  <2> HIDE DEF g
  <2>4. Steps(g, k + 1)
    BY <2>2, <2>3
  <2>5. \E f1 : Steps(f1, k + 1)
    <3> HIDE DEF Steps
    <3> QED BY <2>4
  <2> QED BY <2>5
<1>3. T = Nat
  <2> HIDE DEF T
  <2>1. T \subseteq Nat
    BY DEF T
  <2> QED BY <1>1, <1>2, <2>1, EveryNatural
<1>4. PICK f : f = [m \in 0..n |-> Septet(f, m)]
  BY <1>3
<1> QED BY ZenonT(30), <1>4 DEF write_vlq, Septet

LEMMA VlqWritten ==
  ASSUME NEW n \in Nat, n < VlqLimit
  PROVE  write_vlq(n) = Vlq(n)
<1>1. PICK f : f = [m \in 0..n |-> Septet(f, m)] /\ write_vlq(n) = [f[n] EXCEPT ![Len(f[n])] = @ - 128]
  BY Septets
<1>2. ASSUME NEW m \in 0..n PROVE f[m] = IF m < 128 THEN <<m + 128>> ELSE Append(f[m \div 128], (m % 128) + 128)
  BY <1>1 DEF Septet
<1> DEFINE q == n \div 128
           r == q \div 128
           t == r \div 128
           x == n % 128
           y == q % 128
           z == r % 128
<1>3. q \in 0..n /\ r \in 0..n /\ t \in 0..n /\ n \in 0..n /\ t < 128
  BY DEF VlqLimit
<1>4. x \in Nat /\ y \in Nat /\ z \in Nat /\ q \in Nat /\ r \in Nat /\ t \in Nat
  BY <1>3
<1>5. /\ f[n] = IF n < 128 THEN <<n + 128>> ELSE Append(f[q], x + 128)
      /\ f[q] = IF q < 128 THEN <<q + 128>> ELSE Append(f[r], y + 128)
      /\ f[r] = IF r < 128 THEN <<r + 128>> ELSE Append(f[t], z + 128)
      /\ f[t] = <<t + 128>>
  <2>1. f[n] = IF n < 128 THEN <<n + 128>> ELSE Append(f[q], x + 128)
    BY <1>2, <1>3
  <2>2. f[q] = IF q < 128 THEN <<q + 128>> ELSE Append(f[r], y + 128)
    BY <1>2, <1>3
  <2>3. f[r] = IF r < 128 THEN <<r + 128>> ELSE Append(f[t], z + 128)
    BY <1>2, <1>3
  <2>4. f[t] = <<t + 128>>
    BY <1>2, <1>3
  <2> QED BY <2>1, <2>2, <2>3, <2>4
<1>6. Vlq(n) = IF n < 128 THEN <<n>> ELSE IF q < 128 THEN <<q + 128, x>> ELSE IF r < 128 THEN <<r + 128, y + 128, x>>
               ELSE <<t + 128, z + 128, y + 128, x>>
  BY DEF Vlq
<1> HIDE DEF q, r, t, x, y, z
<1>7. write_vlq(n) = [f[n] EXCEPT ![Len(f[n])] = @ - 128]
  BY <1>1
<1>8. PICK a \in Nat, b \in Nat, c \in Nat, d \in Nat, e \in Nat :
        a = q + 128 /\ b = x + 128 /\ c = y + 128 /\ d = r + 128 /\ e = z + 128
  BY <1>4
<1>9. CASE n < 128
  <2>1. f[n] = <<n + 128>>
    BY <1>5, <1>9
  <2>2. write_vlq(n) = <<n>>
    BY <1>7, <2>1
  <2> QED BY <1>6, <1>9, <2>2
<1>10. CASE ~ n < 128 /\ q < 128
  <2>1. f[n] = Append(<<a>>, b)
    BY <1>5, <1>8, <1>10
  <2>2. f[n] = <<a, b>>
    BY <2>1, Spelled
  <2>3. write_vlq(n) = <<q + 128, x>>
    BY <1>4, <1>7, <1>8, <2>2
  <2> QED BY <1>6, <1>10, <2>3
<1>11. CASE ~ n < 128 /\ ~ q < 128 /\ r < 128
  <2>1. f[n] = Append(Append(<<d>>, c), b)
    BY <1>5, <1>8, <1>11
  <2>2. Append(<<d>>, c) = <<d, c>> /\ Append(<<d, c>>, b) = <<d, c, b>> /\ Append(<<d, c, b>>, a) = <<d, c, b, a>>
    BY Spelled
  <2>3. f[n] = <<d, c, b>>
    BY <2>1, <2>2
  <2>4. write_vlq(n) = <<r + 128, y + 128, x>>
    BY <1>4, <1>7, <1>8, <2>3
  <2> QED BY <1>6, <1>11, <2>4
<1>12. CASE ~ n < 128 /\ ~ q < 128 /\ ~ r < 128
  <2>1. PICK u \in Nat : u = t + 128
    BY <1>4
  <2>2. f[n] = Append(Append(Append(<<u>>, e), c), b)
    BY <1>5, <1>8, <1>12, <2>1
  <2>3. Append(<<u>>, e) = <<u, e>> /\ Append(<<u, e>>, c) = <<u, e, c>> /\ Append(<<u, e, c>>, b) = <<u, e, c, b>>
    BY Spelled
  <2>4. f[n] = <<u, e, c, b>>
    BY <2>2, <2>3
  <2>5. write_vlq(n) = <<t + 128, z + 128, y + 128, x>>
    BY <1>4, <1>7, <1>8, <2>1, <2>4
  <2> QED BY <1>6, <1>12, <2>5
<1> QED BY <1>9, <1>10, <1>11, <1>12

\* A number ends with the first byte below 128, if it has four bytes at most.
Seven(track, pos, n) == track[pos + n - 1] % 128
Ended(track, pos, k) ==
  LET b(n) == Seven(track, pos, n)
  IN /\ k = 1 => read_vlq(track, pos) = <<b(1), k>>
     /\ k = 2 => read_vlq(track, pos) = <<128 * b(1) + b(2), k>>
     /\ k = 3 => read_vlq(track, pos) = <<128 * (128 * b(1) + b(2)) + b(3), k>>
     /\ k = 4 => read_vlq(track, pos) = <<128 * (128 * (128 * b(1) + b(2)) + b(3)) + b(4), k>>

LEMMA VlqEnds ==
  ASSUME NEW track \in Seq(Nat), NEW pos \in Nat \ {0}, NEW k \in 1..4, pos + k - 1 <= Len(track),
         track[pos + k - 1] < 128, \A j \in 1..(k - 1) : track[pos + j - 1] >= 128
  PROVE  Ended(track, pos, k)
<1> DEFINE ends == {n \in 1..4 : pos + n - 1 <= Len(track) /\ track[pos + n - 1] < 128
                                 /\ \A j \in 1..(n - 1) : track[pos + j - 1] >= 128}
           Step(f) == [n \in 0..4 |-> IF n = 0 THEN 0 ELSE 128 * f[n - 1] + (track[pos + n - 1] % 128)]
           b(n) == track[pos + n - 1] % 128
           v1 == 128 * 0 + b(1)
           v2 == 128 * v1 + b(2)
           v3 == 128 * v2 + b(3)
           v4 == 128 * v3 + b(4)
           g == [n \in 0..4 |-> IF n = 0 THEN 0 ELSE IF n = 1 THEN v1 ELSE IF n = 2 THEN v2 ELSE IF n = 3 THEN v3 ELSE v4]
<1>1. ends = {k}
  <2>1. k \in ends
    OBVIOUS
  <2>2. ASSUME NEW n \in ends PROVE n = k
    <3>1. CASE n < k
      <4>1. n \in 1..(k - 1)
        BY <3>1
      <4>2. track[pos + n - 1] >= 128 /\ track[pos + n - 1] < 128
        BY <4>1
      <4>3. track[pos + n - 1] \in Nat
        BY <3>1
      <4> QED BY <4>2, <4>3
    <3>2. CASE n > k
      <4>1. k \in 1..(n - 1)
        BY <3>2
      <4>2. track[pos + k - 1] >= 128 /\ track[pos + k - 1] < 128
        BY <4>1
      <4>3. track[pos + k - 1] \in Nat
        BY <3>2
      <4> QED BY <4>2, <4>3
    <3> QED BY <3>1, <3>2
  <2> HIDE DEF ends
  <2> QED BY <2>1, <2>2
<1>2. Step(g) = g
  <2>1. ASSUME NEW n \in 0..4 PROVE Step(g)[n] = g[n]
    <3>1. n \in {0, 1, 2, 3, 4}
      OBVIOUS
    <3>2. g[0] = 0 /\ g[1] = v1 /\ g[2] = v2 /\ g[3] = v3 /\ g[4] = v4
      OBVIOUS
    <3>3. Step(g)[n] = IF n = 0 THEN 0 ELSE 128 * g[n - 1] + b(n)
      OBVIOUS
    <3> HIDE DEF g, Step, b
    <3>4. CASE n = 0
      BY <3>2, <3>3, <3>4
    <3>5. CASE n = 1
      BY <3>2, <3>3, <3>5
    <3>6. CASE n = 2
      BY <3>2, <3>3, <3>6
    <3>7. CASE n = 3
      BY <3>2, <3>3, <3>7
    <3>8. CASE n = 4
      BY <3>2, <3>3, <3>8
    <3> QED BY <3>1, <3>4, <3>5, <3>6, <3>7, <3>8
  <2>2. g = [n \in 0..4 |-> g[n]] /\ Step(g) = [n \in 0..4 |-> Step(g)[n]]
    OBVIOUS
  <2> HIDE DEF g, Step
  <2> QED BY <2>1, <2>2
<1> HIDE DEF g, ends
<1>3. PICK f : f = Step(f) /\ read_vlq(track, pos) = <<f[k], k>>
  <2> DEFINE Value == CHOOSE f : f = Step(f)
  <2>1. Value = Step(Value)
    <3> HIDE DEF Step
    <3> QED BY <1>2
  <2>2. read_vlq(track, pos) = IF ends = {} THEN <<0, 0>> ELSE LET n == CHOOSE n \in ends : TRUE IN <<Value[n], n>>
    BY DEF read_vlq, ends
  <2> HIDE DEF Value, Step
  <2>3. (CHOOSE n \in ends : TRUE) = k /\ ends # {}
    BY <1>1
  <2>4. read_vlq(track, pos) = <<Value[k], k>>
    BY <2>2, <2>3
  <2> QED BY <2>1, <2>4
<1>4. f[0] = 0
  BY <1>3
<1>5. ASSUME NEW j \in 1..4 PROVE f[j] = 128 * f[j - 1] + (track[pos + j - 1] % 128)
  <2>1. Step(f)[j] = 128 * f[j - 1] + (track[pos + j - 1] % 128)
    <3>1. j \in 0..4 /\ j # 0
      OBVIOUS
    <3> HIDE <1>3
    <3> QED BY <3>1
  <2> HIDE DEF Step
  <2> QED BY <1>3, <2>1
<1>6. f[1] = 128 * f[0] + b(1) /\ f[2] = 128 * f[1] + b(2) /\ f[3] = 128 * f[2] + b(3) /\ f[4] = 128 * f[3] + b(4)
  <2>1. f[1] = 128 * f[1 - 1] + b(1) /\ f[2] = 128 * f[2 - 1] + b(2)
    BY <1>5
  <2>2. f[3] = 128 * f[3 - 1] + b(3) /\ f[4] = 128 * f[4 - 1] + b(4)
    BY <1>5
  <2> HIDE DEF b
  <2> QED BY <2>1, <2>2
<1>7. k >= 1 => b(1) \in Nat
  OBVIOUS
<1> HIDE DEF b
<1>8. f[1] = b(1)
  BY <1>4, <1>6, <1>7
<1>9. read_vlq(track, pos) = <<f[k], k>>
  BY <1>3
<1>10. f[2] = 128 * b(1) + b(2)
  BY <1>6, <1>8
<1>11. f[3] = 128 * (128 * b(1) + b(2)) + b(3)
  BY <1>6, <1>10
<1>12. f[4] = 128 * (128 * (128 * b(1) + b(2)) + b(3)) + b(4)
  BY <1>6, <1>11
<1> QED BY <1>8, <1>9, <1>10, <1>11, <1>12 DEF b, Seven, Ended

LEMMA VlqType ==
  ASSUME NEW n \in Nat
  PROVE  Vlq(n) \in Seq(Nat) /\ Len(Vlq(n)) \in 1..4
<1> DEFINE q == n \div 128
           r == q \div 128
           t == r \div 128
           x == n % 128
           y == q % 128
           z == r % 128
<1>1. q \in Nat /\ r \in Nat /\ t \in Nat /\ x \in Nat /\ y \in Nat /\ z \in Nat
  OBVIOUS
<1>2. Vlq(n) = IF n < 128 THEN <<n>> ELSE IF q < 128 THEN <<q + 128, x>> ELSE IF r < 128 THEN <<r + 128, y + 128, x>>
               ELSE <<t + 128, z + 128, y + 128, x>>
  BY DEF Vlq
<1> HIDE DEF q, r, t, x, y, z
<1>3. CASE n < 128
  BY <1>2, <1>3
<1>4. CASE ~ n < 128 /\ q < 128
  BY <1>1, <1>2, <1>4
<1>5. CASE ~ n < 128 /\ ~ q < 128 /\ r < 128
  BY <1>1, <1>2, <1>5
<1>6. CASE ~ n < 128 /\ ~ q < 128 /\ ~ r < 128
  BY <1>1, <1>2, <1>6
<1> QED BY <1>3, <1>4, <1>5, <1>6

\* So what is written is read back.
Standing(bytes, track, pos) ==
  pos + Len(bytes) - 1 <= Len(track) /\ \A j \in 1..Len(bytes) : track[pos + j - 1] = bytes[j]

LEMMA VlqRead ==
  ASSUME NEW track \in Seq(Nat), NEW pos \in Nat \ {0}, NEW n \in Nat, n < VlqLimit, Standing(Vlq(n), track, pos)
  PROVE  read_vlq(track, pos) = <<n, Len(Vlq(n))>>
<1> DEFINE q == n \div 128
           r == q \div 128
           t == r \div 128
           x == n % 128
           y == q % 128
           z == r % 128
           k == Len(Vlq(n))
           at(j) == track[pos + j - 1]
           b(j) == Seven(track, pos, j)
<1>1. n = 128 * q + x /\ x \in 0..127 /\ q \in Nat
  BY Halved
<1>2. q = 128 * r + y /\ y \in 0..127 /\ r \in Nat
  <2> HIDE DEF q
  <2> QED BY <1>1, Halved
<1>3. r = 128 * t + z /\ z \in 0..127 /\ t \in Nat
  <2> HIDE DEF r
  <2> QED BY <1>2, Halved
<1>4. Vlq(n) = IF n < 128 THEN <<n>> ELSE IF q < 128 THEN <<q + 128, x>> ELSE IF r < 128 THEN <<r + 128, y + 128, x>>
               ELSE <<t + 128, z + 128, y + 128, x>>
  BY DEF Vlq
<1>5. ASSUME NEW j \in 1..k PROVE at(j) = Vlq(n)[j]
  BY DEF Standing
<1>6. k = Len(Vlq(n)) /\ k \in 1..4
  BY VlqType
<1>7. ASSUME at(k) < 128, \A j \in 1..(k - 1) : at(j) >= 128
      PROVE  /\ k = 1 => read_vlq(track, pos) = <<b(1), k>>
             /\ k = 2 => read_vlq(track, pos) = <<128 * b(1) + b(2), k>>
             /\ k = 3 => read_vlq(track, pos) = <<128 * (128 * b(1) + b(2)) + b(3), k>>
             /\ k = 4 => read_vlq(track, pos) = <<128 * (128 * (128 * b(1) + b(2)) + b(3)) + b(4), k>>
  <2>1. k \in 1..4 /\ pos + k - 1 <= Len(track) /\ track[pos + k - 1] < 128
    BY <1>6, <1>7 DEF Standing
  <2>2. \A j \in 1..(k - 1) : track[pos + j - 1] >= 128
    BY <1>7
  <2> HIDE DEF k
  <2>3. Ended(track, pos, k)
    BY <2>1, <2>2, VlqEnds
  <2> QED BY <2>3 DEF Ended
<1>8. ASSUME NEW j \in 1..4 PROVE b(j) = at(j) % 128
  BY DEF Seven
<1> HIDE DEF q, r, t, x, y, z, k, at, b
<1>9. t < 128
  BY <1>1, <1>2, <1>3 DEF VlqLimit
<1>10. CASE n < 128
  <2>1. Vlq(n) = <<n>>
    BY <1>4, <1>10
  <2>2. k = 1
    BY <1>6, <2>1
  <2>3. at(1) = n
    BY <1>5, <2>1, <2>2
  <2>4. b(1) = n
    <3>1. n % 128 = n
      BY <1>10
    <3> QED BY <1>8, <2>3, <3>1
  <2>5. read_vlq(track, pos) = <<b(1), k>>
    <3>1. at(k) < 128 /\ \A j \in 1..(k - 1) : at(j) >= 128
      BY <1>10, <2>2, <2>3
    <3> QED BY <1>7, <2>2, <3>1
  <2> QED BY <1>6, <2>4, <2>5
<1>11. CASE ~ n < 128 /\ q < 128
  <2>1. Vlq(n) = <<q + 128, x>>
    BY <1>4, <1>11
  <2>2. k = 2
    BY <1>6, <2>1
  <2>3. at(1) = q + 128 /\ at(2) = x
    BY <1>5, <2>1, <2>2
  <2>4. b(1) = q /\ b(2) = x
    <3>1. q % 128 = q /\ (q + 128) % 128 = q /\ x % 128 = x
      BY <1>1, <1>11
    <3> QED BY <1>8, <2>3, <3>1
  <2>5. read_vlq(track, pos) = <<128 * b(1) + b(2), k>>
    <3>1. at(k) < 128 /\ at(1) >= 128
      BY <1>1, <2>2, <2>3
    <3>2. \A j \in 1..(k - 1) : j = 1
      BY <2>2
    <3>3. \A j \in 1..(k - 1) : at(j) >= 128
      BY <3>1, <3>2
    <3> QED BY <1>7, <2>2, <3>1, <3>3
  <2> QED BY <1>1, <1>6, <2>4, <2>5
<1>12. CASE ~ n < 128 /\ ~ q < 128 /\ r < 128
  <2>1. Vlq(n) = <<r + 128, y + 128, x>>
    BY <1>4, <1>12
  <2>2. k = 3
    BY <1>6, <2>1
  <2>3. at(1) = r + 128 /\ at(2) = y + 128 /\ at(3) = x
    BY <1>5, <2>1, <2>2
  <2>4. b(1) = r /\ b(2) = y /\ b(3) = x
    <3>1. (r + 128) % 128 = r /\ (y + 128) % 128 = y /\ x % 128 = x
      BY <1>1, <1>2, <1>12
    <3> QED BY <1>8, <2>3, <3>1
  <2>5. read_vlq(track, pos) = <<128 * (128 * b(1) + b(2)) + b(3), k>>
    <3>1. at(k) < 128 /\ at(1) >= 128 /\ at(2) >= 128
      BY <1>1, <1>2, <2>2, <2>3
    <3>2. \A j \in 1..(k - 1) : j = 1 \/ j = 2
      BY <2>2
    <3>3. \A j \in 1..(k - 1) : at(j) >= 128
      BY <3>1, <3>2
    <3> QED BY <1>7, <2>2, <3>1, <3>3
  <2> QED BY <1>1, <1>2, <1>6, <2>4, <2>5
<1>13. CASE ~ n < 128 /\ ~ q < 128 /\ ~ r < 128
  <2>1. Vlq(n) = <<t + 128, z + 128, y + 128, x>>
    BY <1>4, <1>13
  <2>2. k = 4
    BY <1>6, <2>1
  <2>3. at(1) = t + 128 /\ at(2) = z + 128 /\ at(3) = y + 128 /\ at(4) = x
    BY <1>5, <2>1, <2>2
  <2>4. b(1) = t /\ b(2) = z /\ b(3) = y /\ b(4) = x
    <3>1. (t + 128) % 128 = t /\ (z + 128) % 128 = z /\ (y + 128) % 128 = y /\ x % 128 = x
      <4>1. (t + 128) % 128 = t
        BY <1>3, <1>9
      <4>2. (z + 128) % 128 = z
        BY <1>3
      <4>3. (y + 128) % 128 = y /\ x % 128 = x
        BY SMTT(20), <1>1, <1>2
      <4> QED BY <4>1, <4>2, <4>3
    <3> QED BY <1>8, <2>3, <3>1
  <2>5. read_vlq(track, pos) = <<128 * (128 * (128 * b(1) + b(2)) + b(3)) + b(4), k>>
    <3>1. at(k) < 128 /\ at(1) >= 128 /\ at(2) >= 128 /\ at(3) >= 128
      <4>1. t + 128 >= 128 /\ z + 128 >= 128 /\ y + 128 >= 128 /\ x < 128
        BY <1>1, <1>2, <1>3
      <4>2. at(1) >= 128 /\ at(2) >= 128 /\ at(3) >= 128 /\ at(4) < 128
        BY <2>3, <4>1
      <4> QED BY <2>2, <4>2
    <3>2. \A j \in 1..(k - 1) : j = 1 \/ j = 2 \/ j = 3
      BY <2>2
    <3>3. \A j \in 1..(k - 1) : at(j) >= 128
      BY <3>1, <3>2
    <3> QED BY <1>7, <2>2, <3>1, <3>3
  <2> QED BY SMTT(20), <1>1, <1>2, <1>3, <1>6, <2>4, <2>5
<1> QED BY <1>10, <1>11, <1>12, <1>13

\* What is recorded of a message: the short ones of its MIDI 1.0 form.
ShortPackets == {p \in AnyPackets : p.mt \in {1, 2} /\ IsShort(p)}
Instants == 0..MaxTime
ShortEvents == [time : Instants, packet : ShortPackets]

LEMMA ShortPacket ==
  ASSUME NEW status \in Nat, 128 <= status, status < 240, NEW a \in Below(128), NEW b \in Below(128),
         DataLen(status) = 2 \/ b = 0, DataLen(status) >= 1
  PROVE  Midi1(status, a, b) \in ShortPackets
<1>1. a \in Nat /\ b \in Nat /\ a < 128 /\ b < 128
  BY DEF Below
<1>2. Midi1(status, a, b) = [mt |-> 2, status |-> status, d1 |-> a, d2 |-> b, v |-> 0, low |-> 0]
  BY DEF Midi1, Packet
<1>3. Midi1(status, a, b) \in AnyPackets
  BY <1>1, <1>2 DEF AnyPackets, Below
<1>4. IsShort(Midi1(status, a, b))
  <2>1. status \in 128..239 /\ a < (IF DataLen(status) >= 1 THEN 128 ELSE 1) /\ b < (IF DataLen(status) = 2 THEN 128 ELSE 1)
    BY <1>1
  <2> QED BY <1>2, <2>1 DEF IsShort
<1> QED BY <1>2, <1>3, <1>4 DEF ShortPackets

\* The status bytes of channel voice and their data.
LEMMA VoiceData ==
  ASSUME NEW status \in Nat
  PROVE  /\ status \div 16 \in {8, 9, 10, 11, 14} => 128 <= status /\ status < 240 /\ DataLen(status) = 2
         /\ status \div 16 \in {12, 13} => 128 <= status /\ status < 240 /\ DataLen(status) = 1
<1>1. CASE status \div 16 \in {8, 9, 10, 11, 14}
  <2>1. status \in (128..191) \cup (224..239)
    BY <1>1
  <2>2. status \in (128..191) \cup (224..239) \cup {242} /\ status \notin (192..223) \cup {241, 243}
    BY <2>1
  <2>3. DataLen(status) = 2
    BY <2>2 DEF DataLen
  <2> QED BY <1>1, <2>1, <2>3
<1>2. CASE status \div 16 \in {12, 13}
  <2>1. status \in 192..223
    BY <1>2
  <2>2. status \notin (128..191) \cup (224..239) \cup {242} /\ status \in (192..223) \cup {241, 243}
    BY <2>1
  <2>3. DataLen(status) = 1
    BY <2>2 DEF DataLen
  <2> QED BY <1>2, <2>1, <2>3
<1>3. CASE status \div 16 \notin {8, 9, 10, 11, 12, 13, 14}
  BY <1>3
<1> QED BY <1>1, <1>2, <1>3

LEMMA ShortForms ==
  ASSUME NEW p \in UmpPackets
  PROVE  LET forms == downscale_to_midi1(p)
         IN Len(forms) \in Nat /\ \A j \in 1..Len(forms) : forms[j].mt \in {1, 2} => forms[j] \in ShortPackets
<1> DEFINE forms == downscale_to_midi1(p)
           Fit == Len(forms) \in Nat /\ \A j \in 1..Len(forms) : forms[j].mt \in {1, 2} => forms[j] \in ShortPackets
           One(q) == forms = <<q>> /\ (q.mt \in {1, 2} => q \in ShortPackets)
           Three(a, b, c) == forms = <<a, b, c>> /\ {a, b, c} \subseteq ShortPackets
<1> SUFFICES Fit
  OBVIOUS
<1>1. p \in AnyPackets
  BY DEF UmpPackets
<1>2. ASSUME NEW q, One(q) PROVE Fit
  <2>1. Len(forms) = 1 /\ forms[1] = q
    BY <1>2
  <2> HIDE DEF forms
  <2>2. \A j \in 1..1 : j = 1
    OBVIOUS
  <2> QED BY <1>2, <2>1, <2>2
<1>3. ASSUME NEW a, NEW b, NEW c, Three(a, b, c) PROVE Fit
  <2>1. Len(forms) = 3 /\ forms[1] = a /\ forms[2] = b /\ forms[3] = c
    BY <1>3
  <2> HIDE DEF forms
  <2>2. \A j \in 1..3 : j = 1 \/ j = 2 \/ j = 3
    OBVIOUS
  <2> QED BY <1>3, <2>1, <2>2
<1>4. ASSUME forms = <<>> PROVE Fit
  <2>1. Len(forms) = 0
    BY <1>4
  <2> HIDE DEF forms
  <2> QED BY <2>1
<1>5. CASE p.mt # 4
  <2>1. forms = <<p>>
    BY <1>5 DEF downscale_to_midi1
  <2>2. p.mt \in {1, 2} => p \in ShortPackets
    BY <1>1 DEF ShortPackets, UmpPackets
  <2>3. One(p)
    BY <2>1, <2>2
  <2> HIDE DEF forms, Fit, One
  <2> QED BY <1>2, <2>3
<1>6. CASE p.mt = 4
  <2>1. p.status \in Nat /\ p.status < 256 /\ p.d1 \in Nat /\ p.d1 < 128 /\ p.v \in Nat /\ p.v < 65536
    BY <1>6, VoiceFields DEF IsVoice
  <2>2. p.low \in Nat /\ p.d2 \in Nat
    BY <1>1 DEF AnyPackets, Below
  <2>3. p.d1 \in Below(128) /\ 0 \in Below(128) /\ value32_to_7(p.v) \in Below(128) /\ (p.v \div 4) % 128 \in Below(128)
        /\ p.v \div 512 \in Below(128) /\ (p.v \div 256) % 128 \in Below(128)
    BY <2>1 DEF value32_to_7, Below
  <2>4. /\ p.d1 % 128 \in Below(128) /\ p.d2 % 128 \in Below(128) /\ p.low % 128 \in Below(128)
        /\ (p.low \div 256) % 128 \in Below(128)
    <3>1. \A x \in Nat : x % 128 \in Below(128)
      BY DEF Below
    <3>2. p.low \div 256 \in Nat
      BY <2>2
    <3> QED BY <2>1, <2>2, <3>1, <3>2
  <2>5. velocity16_to_7(p.v) \in Below(128) /\ AtLeastOne(velocity16_to_7(p.v)) \in Below(128)
    BY <2>1, NarrowVelocity
  <2>6. p.status \div 16 = Op(p) /\ Op(p) \in Nat /\ Op(p) < 16
    BY <2>1 DEF Op
  <2> DEFINE number == 176 + Channel(p)
  <2>7. number \in Nat /\ number \div 16 = 11
    <3>1. p.status % 16 \in 0..15
      BY <2>1
    <3> QED BY <3>1 DEF Channel
  <2>8. ASSUME NEW a \in Below(128), NEW b \in Below(128) PROVE Midi1(number, a, b) \in ShortPackets
    <3> HIDE DEF number
    <3>1. 128 <= number /\ number < 240 /\ DataLen(number) = 2
      BY <2>7, VoiceData
    <3> QED BY <2>7, <3>1, ShortPacket
  <2>9. ASSUME NEW a \in Below(128), NEW b \in Below(128), Op(p) \in {8, 9, 10, 11, 14}
        PROVE Midi1(p.status, a, b) \in ShortPackets
    <3>1. 128 <= p.status /\ p.status < 240 /\ DataLen(p.status) = 2
      BY <2>1, <2>6, <2>9, VoiceData
    <3> QED BY <2>1, <3>1, ShortPacket
  <2>10. ASSUME NEW a \in Below(128), Op(p) \in {12, 13} PROVE Midi1(p.status, a, 0) \in ShortPackets
    <3>1. 128 <= p.status /\ p.status < 240 /\ DataLen(p.status) = 1
      BY <2>1, <2>6, <2>10, VoiceData
    <3> QED BY <2>1, <2>3, <3>1, ShortPacket
  <2> HIDE DEF Fit, One, Three
  <2>11. CASE Op(p) = 8
    <3>1. forms = <<Midi1(p.status, p.d1, velocity16_to_7(p.v))>>
      BY <1>6, <2>11 DEF downscale_to_midi1
    <3> HIDE DEF forms
    <3>2. Midi1(p.status, p.d1, velocity16_to_7(p.v)) \in ShortPackets
      BY <2>3, <2>5, <2>9, <2>11
    <3>3. One(Midi1(p.status, p.d1, velocity16_to_7(p.v)))
      BY <3>1, <3>2 DEF One
    <3> QED BY <1>2, <3>3
  <2>12. CASE Op(p) = 9
    <3>1. forms = <<Midi1(p.status, p.d1, AtLeastOne(velocity16_to_7(p.v)))>>
      BY <1>6, <2>12 DEF downscale_to_midi1
    <3> HIDE DEF forms
    <3>2. Midi1(p.status, p.d1, AtLeastOne(velocity16_to_7(p.v))) \in ShortPackets
      BY <2>3, <2>5, <2>9, <2>12
    <3>3. One(Midi1(p.status, p.d1, AtLeastOne(velocity16_to_7(p.v))))
      BY <3>1, <3>2 DEF One
    <3> QED BY <1>2, <3>3
  <2>13. CASE Op(p) \in {10, 11}
    <3>1. forms = <<Midi1(p.status, p.d1, value32_to_7(p.v))>>
      BY <1>6, <2>13 DEF downscale_to_midi1
    <3> HIDE DEF forms
    <3>2. Midi1(p.status, p.d1, value32_to_7(p.v)) \in ShortPackets
      BY <2>3, <2>9, <2>13
    <3>3. One(Midi1(p.status, p.d1, value32_to_7(p.v)))
      BY <3>1, <3>2 DEF One
    <3> QED BY <1>2, <3>3
  <2>14. CASE Op(p) = 12
    <3> DEFINE program == Midi1(p.status, (p.v \div 256) % 128, 0)
               high == Midi1(number, 0, (p.low \div 256) % 128)
               low == Midi1(number, 32, p.low % 128)
    <3>1. forms = ProgramChange(p)
      BY <1>6, <2>14 DEF downscale_to_midi1
    <3>2. forms = <<program>> \/ forms = <<high, low, program>>
      BY <3>1 DEF ProgramChange
    <3>3. program \in ShortPackets
      BY <2>3, <2>10, <2>14
    <3>4. 32 \in Below(128)
      BY DEF Below
    <3>5. high \in ShortPackets /\ low \in ShortPackets
      <4> HIDE DEF number
      <4> QED BY <2>3, <2>4, <2>8, <3>4
    <3> HIDE DEF forms, program, high, low
    <3>6. One(program) \/ Three(high, low, program)
      BY <3>2, <3>3, <3>5 DEF One, Three
    <3> QED BY <1>2, <1>3, <3>6
  <2>15. CASE Op(p) = 13
    <3>1. forms = <<Midi1(p.status, value32_to_7(p.v), 0)>>
      BY <1>6, <2>15 DEF downscale_to_midi1
    <3> HIDE DEF forms
    <3>2. Midi1(p.status, value32_to_7(p.v), 0) \in ShortPackets
      BY <2>3, <2>10, <2>15
    <3>3. One(Midi1(p.status, value32_to_7(p.v), 0))
      BY <3>1, <3>2 DEF One
    <3> QED BY <1>2, <3>3
  <2>16. CASE Op(p) = 14
    <3>1. forms = <<Midi1(p.status, (p.v \div 4) % 128, p.v \div 512)>>
      BY <1>6, <2>16 DEF downscale_to_midi1, pitch32_to_14
    <3> HIDE DEF forms
    <3>2. Midi1(p.status, (p.v \div 4) % 128, p.v \div 512) \in ShortPackets
      BY <2>3, <2>9, <2>16
    <3>3. One(Midi1(p.status, (p.v \div 4) % 128, p.v \div 512))
      BY <3>1, <3>2 DEF One
    <3> QED BY <1>2, <3>3
  <2>17. CASE Op(p) \in {2, 3}
    <3> DEFINE Numbered(msb, lsb) ==
                 <<Midi1(number, msb, p.d1 % 128), Midi1(number, lsb, p.d2 % 128), Midi1(number, 6, value32_to_7(p.v))>>
    <3>1. forms = Numbered(101, 100) \/ forms = Numbered(99, 98)
      BY <1>6, <2>17 DEF downscale_to_midi1, Parameter
    <3>2. 101 \in Below(128) /\ 100 \in Below(128) /\ 99 \in Below(128) /\ 98 \in Below(128) /\ 6 \in Below(128)
      BY DEF Below
    <3> HIDE DEF number
    <3>3. ASSUME NEW x \in Below(128) PROVE Midi1(number, x, p.d1 % 128) \in ShortPackets /\ Midi1(number, x, p.d2 % 128) \in ShortPackets
      BY <2>4, <2>8
    <3>4. Midi1(number, 6, value32_to_7(p.v)) \in ShortPackets
      BY <2>3, <2>8, <3>2
    <3>5. /\ Midi1(number, 101, p.d1 % 128) \in ShortPackets /\ Midi1(number, 100, p.d2 % 128) \in ShortPackets
          /\ Midi1(number, 99, p.d1 % 128) \in ShortPackets /\ Midi1(number, 98, p.d2 % 128) \in ShortPackets
      BY <3>2, <3>3
    <3> HIDE DEF forms
    <3>6. \/ Three(Midi1(number, 101, p.d1 % 128), Midi1(number, 100, p.d2 % 128), Midi1(number, 6, value32_to_7(p.v)))
          \/ Three(Midi1(number, 99, p.d1 % 128), Midi1(number, 98, p.d2 % 128), Midi1(number, 6, value32_to_7(p.v)))
      BY <3>1, <3>4, <3>5 DEF Three
    <3> QED BY <1>3, <3>6
  <2>18. CASE Op(p) \in {0, 1, 4, 5, 6, 15}
    <3>1. forms = <<>>
      BY <1>6, <2>18 DEF downscale_to_midi1
    <3> HIDE DEF forms
    <3> QED BY <1>4, <3>1
  <2>19. CASE Op(p) = 7
    <3>1. forms = <<p>>
      BY <1>6, <2>19 DEF downscale_to_midi1
    <3>2. One(p)
      BY <1>6, <3>1 DEF One
    <3> HIDE DEF forms
    <3> QED BY <1>2, <3>2
  <2>20. Op(p) \in {0, 1, 2, 3, 4, 5, 6, 7, 8, 9, 10, 11, 12, 13, 14, 15}
    BY <2>6
  <2> QED BY <2>11, <2>12, <2>13, <2>14, <2>15, <2>16, <2>17, <2>18, <2>19, <2>20
<1> QED BY <1>5, <1>6

\* What holds of 0 and goes on holds of every number up to n.
LEMMA Climbs ==
  ASSUME NEW n \in Nat, NEW P, 0 \in P, \A i \in 1..n : i - 1 \in P => i \in P
  PROVE  \A i \in 0..n : i \in P
<1> DEFINE T == {m \in Nat : m <= n => m \in P}
<1>1. 0 \in T
  OBVIOUS
<1>2. ASSUME NEW m \in T PROVE m + 1 \in T
  <2> SUFFICES ASSUME m + 1 <= n PROVE m + 1 \in P
    OBVIOUS
  <2>1. m \in Nat /\ m + 1 \in 1..n /\ (m + 1) - 1 = m /\ m \in P
    OBVIOUS
  <2> QED BY <2>1
<1>3. T = Nat
  <2> HIDE DEF T
  <2>1. T \subseteq Nat
    BY DEF T
  <2> QED BY <1>1, <1>2, <2>1, EveryNatural
<1> QED
  <2> SUFFICES ASSUME NEW i \in 0..n PROVE i \in P
    OBVIOUS
  <2>1. i \in T /\ i <= n
    BY <1>3
  <2> QED BY <2>1

LEMMA ShortsOfOne ==
  ASSUME NEW e, e.time \in Instants, e.packet \in UmpPackets
  PROVE  ShortsOf(e) \in Seq(ShortEvents)
<1> DEFINE forms == downscale_to_midi1(e.packet)
           n == Len(forms)
           one(j) == [time |-> e.time, packet |-> forms[j]]
           Extended(s, j) == IF forms[j].mt \in {1, 2} THEN Append(s, one(j)) ELSE s
           Body(f) == [j \in 0..n |-> IF j = 0 THEN <<>> ELSE IF forms[j].mt \in {1, 2} THEN Append(f[j - 1], one(j)) ELSE f[j - 1]]
           step == [j \in 1..n |-> [s \in Seq(ShortEvents) |-> Extended(s, j)]]
<1>1. n \in Nat /\ \A j \in 1..n : forms[j].mt \in {1, 2} => forms[j] \in ShortPackets
  BY ShortForms
<1>2. ASSUME NEW j \in 1..n, NEW s \in Seq(ShortEvents) PROVE Extended(s, j) \in Seq(ShortEvents)
  <2>1. CASE forms[j].mt \in {1, 2}
    <3>1. one(j) \in ShortEvents
      <4>1. forms[j] \in ShortPackets
        BY <1>1, <2>1
      <4> HIDE DEF forms
      <4> QED BY <4>1 DEF ShortEvents
    <3> HIDE DEF one, forms
    <3>2. Append(s, one(j)) \in Seq(ShortEvents)
      BY <3>1, AppendProperties
    <3> QED BY <2>1, <3>2
  <2> QED BY <2>1
<1>3. step \in [1..n -> [Seq(ShortEvents) -> Seq(ShortEvents)]]
  <2> HIDE DEF Extended, n
  <2> QED BY <1>2
<1>4. PICK g \in [0..n -> Seq(ShortEvents)] : \A j \in 0..n : g[j] = IF j = 0 THEN <<>> ELSE step[j][g[j - 1]]
  <2> DEFINE S == Seq(ShortEvents)
             none == <<>>
  <2>1. none \in S
    OBVIOUS
  <2> HIDE DEF step, n
  <2>2. step \in StepsOf(n, S) /\ n \in Nat
    BY <1>1, <1>3 DEF StepsOf
  <2> HIDE DEF S, none
  <2>3. PICK g : Iteration(g, n, S, none, step)
    BY <2>1, <2>2, Iterates
  <2>4. g \in [0..n -> S] /\ \A j \in 0..n : g[j] = IF j = 0 THEN none ELSE step[j][g[j - 1]]
    BY <2>3 DEF Iteration
  <2> QED BY <2>4 DEF S, none
<1>5. g = Body(g)
  <2> HIDE DEF forms, n
  <2>1. ASSUME NEW j \in 0..n PROVE g[j] = Body(g)[j]
    <3>1. CASE j = 0
      BY <1>4, <3>1
    <3>2. CASE j # 0
      <4>1. j \in 1..n /\ j - 1 \in 0..n /\ g[j - 1] \in Seq(ShortEvents)
        BY <1>1, <1>4, <3>2
      <4>2. g[j] = step[j][g[j - 1]]
        BY <1>4, <3>2
      <4>3. step[j][g[j - 1]] = Extended(g[j - 1], j)
        <5> HIDE DEF Extended
        <5> QED BY <4>1
      <4>4. Body(g)[j] = Extended(g[j - 1], j)
        BY <3>2
      <4> HIDE DEF step, Extended, Body
      <4> QED BY <4>2, <4>3, <4>4
    <3> QED BY <3>1, <3>2
  <2>2. g = [j \in 0..n |-> g[j]] /\ Body(g) = [j \in 0..n |-> Body(g)[j]]
    BY <1>4
  <2> HIDE DEF Body
  <2> QED BY <2>1, <2>2
<1>6. PICK f : f = Body(f) /\ ShortsOf(e) = f[n]
  <2> DEFINE Kept == CHOOSE f : f = Body(f)
  <2>1. Kept = Body(Kept)
    <3> HIDE DEF Body
    <3> QED BY <1>5
  <2>2. ShortsOf(e) = Kept[n]
    BY DEF ShortsOf
  <2> HIDE DEF Kept, Body, n
  <2> QED BY <2>1, <2>2
<1> HIDE DEF n, forms
<1>7. f[0] = <<>> /\ \A j \in 1..n : f[j] = Extended(f[j - 1], j)
  <2>1. f[0] = <<>>
    BY <1>1, <1>6
  <2>2. ASSUME NEW j \in 1..n PROVE f[j] = Extended(f[j - 1], j)
    <3>1. j \in 0..n /\ j # 0
      BY <1>1
    <3>2. Body(f)[j] = Extended(f[j - 1], j)
      BY <3>1
    <3> HIDE DEF Body, Extended
    <3> QED BY <1>6, <3>2
  <2> HIDE DEF Extended
  <2> QED BY <2>1, <2>2
<1> HIDE DEF Extended, Body
<1>8. \A j \in 0..n : f[j] \in Seq(ShortEvents)
  <2> DEFINE P == {j \in 0..n : f[j] \in Seq(ShortEvents)}
  <2>1. 0 \in P
    <3>1. f[0] = <<>> /\ <<>> \in Seq(ShortEvents)
      BY <1>7
    <3>2. f[0] \in Seq(ShortEvents)
      BY <3>1
    <3> QED BY <1>1, <3>2
  <2>2. ASSUME NEW j \in 1..n, j - 1 \in P PROVE j \in P
    <3>1. Extended(f[j - 1], j) \in Seq(ShortEvents)
      BY <1>2, <2>2
    <3> QED BY <1>1, <1>7, <3>1
  <2>3. \A j \in 0..n : j \in P
    <3> HIDE DEF P
    <3> QED BY <1>1, <2>1, <2>2, Climbs
  <2> QED BY <2>3
<1> QED BY <1>1, <1>6, <1>8

TimedCaptures == [time : Instants, source : Sources, packet : UmpPackets]

LEMMA ShortsOfAll ==
  ASSUME NEW events \in Seq(TimedCaptures)
  PROVE  Shorts(events) \in Seq(ShortEvents)
<1> DEFINE n == Len(events)
           S == Seq(ShortEvents)
           none == <<>>
           Body(f) == [i \in 0..n |-> IF i = 0 THEN <<>> ELSE f[i - 1] \o ShortsOf(events[i])]
           step == [i \in 1..n |-> [s \in S |-> s \o ShortsOf(events[i])]]
<1>1. n \in Nat
  OBVIOUS
<1>2. ASSUME NEW i \in 1..n PROVE ShortsOf(events[i]) \in S
  <2>1. events[i] \in TimedCaptures
    OBVIOUS
  <2>2. events[i].time \in Instants /\ events[i].packet \in UmpPackets
    BY <2>1 DEF TimedCaptures
  <2> QED BY <2>2, ShortsOfOne
<1>3. ASSUME NEW i \in 1..n, NEW s \in S PROVE s \o ShortsOf(events[i]) \in S
  BY <1>2, ConcatProperties
<1>4. none \in S
  OBVIOUS
<1> HIDE DEF n, S, none
<1>5. step \in StepsOf(n, S)
  BY <1>3 DEF StepsOf
<1>6. PICK g : Iteration(g, n, S, none, step)
  <2> HIDE DEF step
  <2> QED BY <1>1, <1>4, <1>5, Iterates
<1>7. g \in [0..n -> S] /\ g[0] = <<>> /\ \A i \in 1..n : g[i] = g[i - 1] \o ShortsOf(events[i])
  <2>1. g \in [0..n -> S] /\ g[0] = <<>>
    <3> HIDE DEF step
    <3> QED BY <1>1, <1>6 DEF Iteration, none
  <2>2. ASSUME NEW i \in 1..n PROVE g[i] = g[i - 1] \o ShortsOf(events[i])
    <3>1. i \in 0..n /\ i # 0 /\ i - 1 \in 0..n
      BY <1>1
    <3>2. g[i] = step[i][g[i - 1]] /\ g[i - 1] \in S
      <4> HIDE DEF step
      <4> QED BY <1>6, <2>1, <3>1 DEF Iteration
    <3> QED BY <3>2
  <2> QED BY <2>1, <2>2
<1>8. g = Body(g)
  <2>1. ASSUME NEW i \in 0..n PROVE g[i] = Body(g)[i]
    <3>1. i = 0 \/ i \in 1..n
      BY <1>1
    <3> QED BY <1>7, <3>1
  <2>2. g = [i \in 0..n |-> g[i]] /\ Body(g) = [i \in 0..n |-> Body(g)[i]]
    BY <1>7
  <2> HIDE DEF Body
  <2> QED BY <2>1, <2>2
<1>9. PICK f : f = Body(f) /\ Shorts(events) = f[n]
  <2> DEFINE Upto == CHOOSE f : f = Body(f)
  <2>1. Upto = Body(Upto)
    <3> HIDE DEF Body
    <3> QED BY <1>8
  <2>2. Shorts(events) = Upto[n]
    BY DEF Shorts, n
  <2> HIDE DEF Upto, Body
  <2> QED BY <2>1, <2>2
<1>10. f[0] = <<>> /\ \A i \in 1..n : f[i] = f[i - 1] \o ShortsOf(events[i])
  <2>1. Body(f)[0] = <<>>
    BY <1>1
  <2>2. ASSUME NEW i \in 1..n PROVE Body(f)[i] = f[i - 1] \o ShortsOf(events[i])
    BY <1>1
  <2> HIDE DEF Body
  <2> QED BY <1>9, <2>1, <2>2
<1>11. \A i \in 0..n : f[i] \in S
  <2> DEFINE P == {i \in 0..n : f[i] \in S}
  <2>1. 0 \in P
    BY <1>1, <1>4, <1>10 DEF none
  <2>2. ASSUME NEW i \in 1..n, i - 1 \in P PROVE i \in P
    <3>1. f[i - 1] \o ShortsOf(events[i]) \in S
      BY <1>3, <2>2
    <3>2. f[i] \in S
      <4> HIDE DEF P
      <4> QED BY <1>10, <3>1
    <3> QED BY <1>1, <3>2
  <2>3. \A i \in 0..n : i \in P
    <3> HIDE DEF P
    <3> QED BY <1>1, <2>1, <2>2, Climbs
  <2> QED BY <2>3
<1> QED BY <1>1, <1>9, <1>11 DEF S

\* What is recorded, at all times.
RecordTypes ==
  /\ now \in Instants
  /\ captured \in [Sources -> Seq(TimedCaptures)]
  /\ recorded \in Seq(TimedCaptures)

LEMMA RecordTyped == PathInit => RecordTypes
<1> SUFFICES ASSUME PathInit PROVE RecordTypes
  OBVIOUS
<1>1. <<>> \in Seq(TimedCaptures)
  OBVIOUS
<1>2. Nothing \in [Sources -> Seq(TimedCaptures)]
  BY <1>1 DEF Nothing
<1>3. 0 \in Instants
  BY TimesAssumption DEF Instants
<1> QED BY <1>1, <1>2, <1>3 DEF PathInit, RecordTypes

LEMMA RecordGoesOn == RecordTypes /\ [PathNext]_pathVars => RecordTypes'
<1> SUFFICES ASSUME RecordTypes, [PathNext]_pathVars PROVE RecordTypes'
  OBVIOUS
<1>1. ASSUME NEW us \in Nat, Wait(us) PROVE RecordTypes'
  <2>1. now' \in Instants
    BY <1>1, TimesAssumption DEF Wait, RecordTypes, Instants
  <2> QED BY <1>1, <2>1 DEF Wait, RecordTypes
<1>2. ASSUME NEW p \in UmpPackets, Inject(p) PROVE RecordTypes'
  BY <1>2 DEF Inject, RecordTypes
<1>3. ASSUME NEW p \in UmpPackets, NEW source \in Sources, Capture(source, p) PROVE RecordTypes'
  <2> DEFINE e == [time |-> now, source |-> source, packet |-> p]
  <2>1. e \in TimedCaptures
    BY DEF TimedCaptures, RecordTypes
  <2>2. captured' = [captured EXCEPT ![source] = Append(@, e)]
    BY <1>3 DEF Capture
  <2> HIDE DEF e
  <2>3. captured' \in [Sources -> Seq(TimedCaptures)]
    <3>1. Append(captured[source], e) \in Seq(TimedCaptures)
      BY <2>1, AppendProperties DEF RecordTypes
    <3> QED BY <2>2, <3>1 DEF RecordTypes
  <2> QED BY <1>3, <2>3 DEF Capture, RecordTypes
<1>4. ASSUME Drain PROVE RecordTypes'
  <2>1. Polled \in Seq(TimedCaptures)
    <3>1. captured["device"] \in Seq(TimedCaptures) /\ captured["cable"] \in Seq(TimedCaptures)
      BY DEF RecordTypes, Sources
    <3> QED BY <3>1, ConcatProperties DEF Polled
  <2>2. recorded' \in Seq(TimedCaptures)
    <3>1. recorded \o Polled \in Seq(TimedCaptures)
      BY <2>1, ConcatProperties DEF RecordTypes
    <3> QED BY <1>4, <3>1 DEF Drain, Recorded, RecordTypes
  <2>3. captured' \in [Sources -> Seq(TimedCaptures)]
    <3>1. <<>> \in Seq(TimedCaptures)
      OBVIOUS
    <3> QED BY <1>4, <3>1 DEF Drain, Nothing
  <2> QED BY <1>4, <2>2, <2>3 DEF Drain, RecordTypes
<1>5. ASSUME ToggleRecord PROVE RecordTypes'
  <2>1. <<>> \in Seq(TimedCaptures)
    OBVIOUS
  <2> QED BY <1>5, <2>1 DEF ToggleRecord, RecordTypes
<1>6. ASSUME TogglePause \/ ToggleMute \/ ToggleLearn \/ TogglePassUnmatched PROVE RecordTypes'
  BY <1>6 DEF TogglePause, ToggleMute, ToggleLearn, TogglePassUnmatched, RecordTypes
<1>7. ASSUME NEW preset \in DataMaps, AddPreset(preset) PROVE RecordTypes'
  BY <1>7 DEF AddPreset, RecordTypes
<1>8. ASSUME NEW i \in DOMAIN map.entries, RemoveEntry(i) PROVE RecordTypes'
  BY <1>8 DEF RemoveEntry, RecordTypes
<1>9. ASSUME NEW f, SetFilter(f) PROVE RecordTypes'
  BY <1>9 DEF SetFilter, RecordTypes
<1>10. ASSUME ResetLive \/ ResetClock \/ ClearVoices \/ OffHanging \/ Panic PROVE RecordTypes'
  BY <1>10 DEF ResetLive, ResetClock, ClearVoices, OffHanging, Panic, RecordTypes
<1>11. ASSUME UNCHANGED pathVars PROVE RecordTypes'
  BY <1>11 DEF pathVars, RecordTypes
<1> QED BY <1>1, <1>2, <1>3, <1>4, <1>5, <1>6, <1>7, <1>8, <1>9, <1>10, <1>11 DEF PathNext

\* The ticks between messages can be read back.
LEMMA TicksFit ==
  ASSUME NEW shorts \in Seq(ShortEvents), NEW i \in 1..Len(shorts)
  PROVE  TickOf(shorts, i) \in Nat /\ Delta(shorts, i) \in Nat /\ Delta(shorts, i) < VlqLimit
<1>1. ASSUME NEW j \in 1..Len(shorts) PROVE TickOf(shorts, j) \in Nat /\ TickOf(shorts, j) < VlqLimit
  <2>1. shorts[j].time \in Instants /\ shorts[1].time \in Instants
    <3>1. 1 \in 1..Len(shorts) /\ shorts[j] \in ShortEvents /\ shorts[1] \in ShortEvents
      OBVIOUS
    <3> QED BY <3>1 DEF ShortEvents
  <2>2. PICK x \in 0..MaxTime : TickOf(shorts, j) = nanos_to_tick(x)
    <3> DEFINE since == shorts[j].time - shorts[1].time
    <3>1. (IF since < 0 THEN 0 ELSE since) \in 0..MaxTime
      BY <2>1, TimesAssumption DEF Instants
    <3>2. TickOf(shorts, j) = nanos_to_tick(IF since < 0 THEN 0 ELSE since)
      BY DEF TickOf
    <3> HIDE DEF since
    <3> QED BY <3>1, <3>2
  <2>3. nanos_to_tick(x) \in Nat /\ nanos_to_tick(x) <= nanos_to_tick(MaxTime) /\ nanos_to_tick(MaxTime) \in Nat
    <3>1. MaxTime \in Nat /\ x \in Nat /\ x <= MaxTime
      BY TimesAssumption
    <3> HIDE <2>2
    <3> QED BY <3>1 DEF nanos_to_tick
  <2>4. VlqLimit \in Nat
    BY DEF VlqLimit
  <2> QED BY <2>2, <2>3, <2>4, TimesAssumption
<1>2. VlqLimit \in Nat /\ 0 < VlqLimit
  BY DEF VlqLimit
<1>3. CASE i = 1
  BY <1>1, <1>2, <1>3 DEF Delta
<1>4. CASE i # 1
  <2>1. i - 1 \in 1..Len(shorts)
    BY <1>4
  <2>2. PICK a \in Nat, b \in Nat : a = TickOf(shorts, i) /\ b = TickOf(shorts, i - 1) /\ a < VlqLimit
    BY <1>1, <2>1
  <2>3. Delta(shorts, i) = IF a - b < 0 THEN 0 ELSE a - b
    BY <1>4, <2>2 DEF Delta
  <2> QED BY <1>1, <1>2, <2>2, <2>3
<1> QED BY <1>3, <1>4

\* A sequence begins another, and what stands in the one stands in the other.
Begins(a, b) == Len(a) <= Len(b) /\ \A j \in 1..Len(a) : b[j] = a[j]

LEMMA ConcatBegins ==
  ASSUME NEW a \in Seq(Nat), NEW b \in Seq(Nat)
  PROVE  a \o b \in Seq(Nat) /\ Len(a \o b) = Len(a) + Len(b) /\ Begins(a, a \o b) /\ Standing(b, a \o b, Len(a) + 1)
<1>1. a \o b \in Seq(Nat) /\ Len(a \o b) = Len(a) + Len(b)
  BY ConcatProperties
<1>2. ASSUME NEW j \in 1..Len(a) PROVE (a \o b)[j] = a[j]
  <2>1. j \in 1..(Len(a) + Len(b)) /\ j <= Len(a)
    OBVIOUS
  <2> QED BY <2>1, ConcatProperties
<1>3. ASSUME NEW j \in 1..Len(b) PROVE (a \o b)[Len(a) + 1 + j - 1] = b[j]
  <2>1. Len(a) + 1 + j - 1 = Len(a) + j
    OBVIOUS
  <2>2. (a \o b)[Len(a) + j] = b[j]
    <3>1. Len(a) + j \in 1..(Len(a) + Len(b)) /\ ~ Len(a) + j <= Len(a) /\ (Len(a) + j) - Len(a) = j
      OBVIOUS
    <3> QED BY <3>1, ConcatProperties
  <2> QED BY <2>1, <2>2
<1>4. Begins(a, a \o b)
  BY <1>1, <1>2 DEF Begins
<1>5. Len(a) + 1 + Len(b) - 1 <= Len(a \o b)
  BY <1>1
<1>6. Standing(b, a \o b, Len(a) + 1)
  BY <1>3, <1>5, Zenon DEF Standing
<1> QED BY <1>1, <1>4, <1>6

LEMMA BeginsOn ==
  ASSUME NEW a \in Seq(Nat), NEW b \in Seq(Nat), NEW c \in Seq(Nat), Begins(a, b), Begins(b, c)
  PROVE  Begins(a, c)
<1>1. Len(a) \in Nat /\ Len(b) \in Nat /\ Len(c) \in Nat /\ Len(a) <= Len(b) /\ Len(b) <= Len(c)
  BY DEF Begins
<1>2. ASSUME NEW j \in 1..Len(a) PROVE c[j] = a[j]
  <2>1. j \in 1..Len(b)
    BY <1>1
  <2> QED BY <2>1 DEF Begins
<1> QED BY <1>1, <1>2 DEF Begins

LEMMA StandsOn ==
  ASSUME NEW a \in Seq(Nat), NEW c \in Seq(Nat), Begins(a, c),
         NEW x \in Seq(Nat), NEW pos \in Nat \ {0}, Standing(x, a, pos)
  PROVE  Standing(x, c, pos)
<1>1. Len(a) \in Nat /\ Len(c) \in Nat /\ Len(x) \in Nat /\ Len(a) <= Len(c) /\ pos + Len(x) - 1 <= Len(a)
  BY DEF Begins, Standing
<1>2. ASSUME NEW j \in 1..Len(x) PROVE c[pos + j - 1] = x[j]
  <2>1. pos + j - 1 \in 1..Len(a)
    BY <1>1
  <2>2. c[pos + j - 1] = a[pos + j - 1]
    BY <2>1 DEF Begins
  <2>3. a[pos + j - 1] = x[j]
    BY DEF Standing
  <2> QED BY <2>2, <2>3
<1>3. pos + Len(x) - 1 <= Len(c)
  BY <1>1
<1> QED BY <1>2, <1>3 DEF Standing

\* The bytes of a message.
LEMMA WireBytes ==
  ASSUME NEW p \in ShortPackets
  PROVE  /\ DataLen(p.status) \in 0..2
         /\ Wire(p) \in Seq(Nat) /\ Len(Wire(p)) = 1 + DataLen(p.status)
         /\ Wire(p)[1] = p.status
         /\ DataLen(p.status) >= 1 => Wire(p)[2] = p.d1
         /\ DataLen(p.status) = 2 => Wire(p)[3] = p.d2
<1>1. p.status \in Nat /\ p.d1 \in Nat /\ p.d2 \in Nat
  BY DEF ShortPackets, AnyPackets, Below
<1>2. DataLen(p.status) \in 0..2
  BY DEF DataLen
<1>3. PICK k \in 0..2 : k = DataLen(p.status)
  BY <1>2
<1>4. PICK head \in Seq(Nat), data \in Seq(Nat) : head = <<p.status>> /\ data = <<p.d1, p.d2>>
  <2>1. PICK a \in Nat, b \in Nat, c \in Nat : a = p.status /\ b = p.d1 /\ c = p.d2
    BY <1>1
  <2>2. <<a>> \in Seq(Nat) /\ <<b, c>> \in Seq(Nat)
    OBVIOUS
  <2> QED BY <2>1, <2>2
<1>5. Len(head) = 1 /\ head[1] = p.status /\ Len(data) = 2 /\ data[1] = p.d1 /\ data[2] = p.d2
  BY <1>4
<1>6. SubSeq(data, 1, k) \in Seq(Nat) /\ Len(SubSeq(data, 1, k)) = k /\ \A j \in 1..k : SubSeq(data, 1, k)[j] = data[j]
  <2>1. ASSUME NEW j \in 1..k PROVE data[j] \in Nat
    <3>1. j \in 1..Len(data)
      BY <1>5
    <3> HIDE <1>5
    <3> QED BY <3>1
  <2>2. /\ SubSeq(data, 1, k) \in Seq(Nat) /\ Len(SubSeq(data, 1, k)) = (IF 1 <= k THEN k - 1 + 1 ELSE 0)
        /\ \A j \in 1..(k - 1 + 1) : SubSeq(data, 1, k)[j] = data[1 + j - 1]
    BY <2>1, SubSeqProperties
  <2>3. \A j \in 1..k : j \in 1..(k - 1 + 1) /\ 1 + j - 1 = j
    OBVIOUS
  <2> QED BY <2>2, <2>3
<1>7. PICK tail \in Seq(Nat) : tail = SubSeq(data, 1, k)
  BY <1>6
<1>8. Wire(p) = head \o tail
  BY <1>3, <1>4, <1>7 DEF Wire
<1>9. /\ head \o tail \in Seq(Nat) /\ Len(head \o tail) = 1 + k
      /\ (head \o tail)[1] = p.status
      /\ \A j \in 1..k : (head \o tail)[1 + j] = data[j]
  <2>1. Len(tail) = k
    BY <1>6, <1>7
  <2>2. /\ head \o tail \in Seq(Nat) /\ Len(head \o tail) = Len(head) + Len(tail)
        /\ Begins(head, head \o tail) /\ Standing(tail, head \o tail, Len(head) + 1)
    BY ConcatBegins
  <2> HIDE DEF Begins, Standing
  <2>3. (head \o tail)[1] = head[1]
    <3>1. 1 \in 1..Len(head)
      BY <1>5
    <3> QED BY <2>2, <3>1 DEF Begins
  <2>4. ASSUME NEW j \in 1..k PROVE (head \o tail)[1 + j] = data[j]
    <3>1. (head \o tail)[1 + 1 + j - 1] = tail[j]
      BY <1>5, <2>1, <2>2, Zenon DEF Standing
    <3>2. 1 + 1 + j - 1 = 1 + j
      OBVIOUS
    <3>3. tail[j] = data[j]
      BY <1>6, <1>7
    <3> QED BY <3>1, <3>2, <3>3
  <2> QED BY <1>5, <2>1, <2>2, <2>3, <2>4
<1>10. k >= 1 => (head \o tail)[2] = p.d1
  <2>1. k >= 1 => 1 \in 1..k /\ 1 + 1 = 2
    OBVIOUS
  <2> QED BY <1>5, <1>9, <2>1
<1>11. k = 2 => (head \o tail)[3] = p.d2
  <2>1. k = 2 => 2 \in 1..k /\ 1 + 2 = 3
    OBVIOUS
  <2> QED BY <1>5, <1>9, <2>1
<1> QED BY <1>3, <1>8, <1>9, <1>10, <1>11

\* Where the bytes of the messages end in a track, and what stands there.
LaidAt(shorts, ends, track, i) ==
  /\ ends[i] = ends[i - 1] + Len(Vlq(Delta(shorts, i))) + Len(Wire(shorts[i].packet))
  /\ Standing(Vlq(Delta(shorts, i)), track, ends[i - 1] + 1)
  /\ Standing(Wire(shorts[i].packet), track, ends[i - 1] + Len(Vlq(Delta(shorts, i))) + 1)

Laid(shorts, ends, track) ==
  /\ track \in Seq(Nat) /\ ends \in [0..Len(shorts) -> Nat]
  /\ ends[0] = 7 /\ Standing(Tempo, track, 1)
  /\ \A i \in 1..Len(shorts) : LaidAt(shorts, ends, track, i)
  /\ Standing(EndOfTrack, track, ends[Len(shorts)] + 1)
  /\ Len(track) = ends[Len(shorts)] + 4

LEMMA TrackLaid ==
  ASSUME NEW events, Shorts(events) \in Seq(ShortEvents)
  PROVE  \E ends : Laid(Shorts(events), ends, write_smf0(events))
<1> DEFINE shorts == Shorts(events)
           n == Len(shorts)
           S == Seq(Nat)
           time(i) == Vlq(Delta(shorts, i))
           wire(i) == Wire(shorts[i].packet)
           Body(f) == [i \in 0..n |-> IF i = 0 THEN Tempo
                                      ELSE f[i - 1] \o write_vlq(Delta(shorts, i)) \o Wire(shorts[i].packet)]
           step == [i \in 1..n |-> [s \in S |-> s \o time(i) \o wire(i)]]
<1>1. n \in Nat
  OBVIOUS
<1>2. ASSUME NEW i \in 1..n
      PROVE  time(i) \in S /\ wire(i) \in S /\ Len(time(i)) \in Nat /\ Len(wire(i)) \in Nat /\ write_vlq(Delta(shorts, i)) = time(i)
  <2>1. Delta(shorts, i) \in Nat /\ Delta(shorts, i) < VlqLimit
    BY TicksFit
  <2>2. shorts[i].packet \in ShortPackets
    <3>1. shorts[i] \in ShortEvents
      OBVIOUS
    <3> QED BY <3>1 DEF ShortEvents
  <2> HIDE DEF shorts
  <2>3. time(i) \in S /\ write_vlq(Delta(shorts, i)) = time(i)
    BY <2>1, VlqType, VlqWritten
  <2>4. wire(i) \in S
    BY <2>2, WireBytes
  <2> HIDE DEF time, wire
  <2> QED BY <2>3, <2>4
<1> HIDE DEF shorts, n, time, wire
<1>3. ASSUME NEW i \in 1..n, NEW s \in S
      PROVE  /\ s \o time(i) \o wire(i) \in S
             /\ Len(s \o time(i) \o wire(i)) = Len(s) + Len(time(i)) + Len(wire(i))
             /\ Begins(s, s \o time(i) \o wire(i))
             /\ Standing(time(i), s \o time(i) \o wire(i), Len(s) + 1)
             /\ Standing(wire(i), s \o time(i) \o wire(i), Len(s) + Len(time(i)) + 1)
  <2>1. PICK x \in S : x = s \o time(i)
    BY <1>2, ConcatProperties
  <2>2. Len(x) = Len(s) + Len(time(i)) /\ Begins(s, x) /\ Standing(time(i), x, Len(s) + 1)
    BY <1>2, <2>1, ConcatBegins
  <2>3. x \o wire(i) \in S /\ Len(x \o wire(i)) = Len(x) + Len(wire(i)) /\ Begins(x, x \o wire(i))
        /\ Standing(wire(i), x \o wire(i), Len(x) + 1)
    BY <1>2, ConcatBegins
  <2>4. Begins(s, x \o wire(i))
    BY <2>2, <2>3, BeginsOn
  <2>5. Standing(time(i), x \o wire(i), Len(s) + 1)
    <3>1. Len(s) + 1 \in Nat \ {0}
      OBVIOUS
    <3> QED BY <1>2, <2>2, <2>3, <3>1, StandsOn
  <2>6. Len(s) + Len(time(i)) + Len(wire(i)) = Len(x) + Len(wire(i)) /\ Len(s) + Len(time(i)) + 1 = Len(x) + 1
    BY <2>2
  <2> QED BY <2>1, <2>2, <2>3, <2>4, <2>5, <2>6
<1>4. Tempo \in S /\ EndOfTrack \in S
  BY DEF Tempo, EndOfTrack
<1>5. step \in StepsOf(n, S)
  <2> HIDE DEF S
  <2> QED BY <1>3 DEF StepsOf
<1>6. PICK g : Iteration(g, n, S, Tempo, step)
  <2> HIDE DEF step, S
  <2> QED BY <1>1, <1>4, <1>5, Iterates
<1>7. g \in [0..n -> S] /\ g[0] = Tempo /\ \A i \in 1..n : g[i] = g[i - 1] \o time(i) \o wire(i)
  <2> HIDE DEF S
  <2>1. g \in [0..n -> S] /\ g[0] = Tempo
    <3> HIDE DEF step
    <3> QED BY <1>1, <1>6 DEF Iteration
  <2>2. ASSUME NEW i \in 1..n PROVE g[i] = g[i - 1] \o time(i) \o wire(i)
    <3>1. i \in 0..n /\ i # 0 /\ i - 1 \in 0..n
      BY <1>1
    <3>2. g[i] = step[i][g[i - 1]] /\ g[i - 1] \in S
      <4> HIDE DEF step
      <4> QED BY <1>6, <2>1, <3>1 DEF Iteration
    <3> QED BY <3>2
  <2> QED BY <2>1, <2>2
<1>8. g = Body(g)
  <2>1. ASSUME NEW i \in 0..n PROVE g[i] = Body(g)[i]
    <3>1. CASE i = 0
      BY <1>7, <3>1
    <3>2. CASE i # 0
      <4>1. i \in 1..n
        BY <1>1, <3>2
      <4>2. g[i] = g[i - 1] \o time(i) \o wire(i)
        BY <1>7, <4>1
      <4>3. write_vlq(Delta(shorts, i)) = time(i) /\ Wire(shorts[i].packet) = wire(i)
        BY <1>2, <4>1 DEF wire
      <4> QED BY <3>2, <4>2, <4>3
    <3> QED BY <3>1, <3>2
  <2>2. g = [i \in 0..n |-> g[i]] /\ Body(g) = [i \in 0..n |-> Body(g)[i]]
    BY <1>7
  <2> HIDE DEF Body
  <2> QED BY <2>1, <2>2
<1>9. PICK f : f = Body(f) /\ write_smf0(events) = f[n] \o EndOfTrack
  <2> DEFINE Upto == CHOOSE f : f = Body(f)
  <2>1. Upto = Body(Upto)
    <3> HIDE DEF Body
    <3> QED BY <1>8
  <2>2. write_smf0(events) = Upto[n] \o EndOfTrack
    BY DEF write_smf0, shorts, n
  <2> HIDE DEF Upto, Body
  <2> QED BY <2>1, <2>2
<1>10. f[0] = Tempo /\ \A i \in 1..n : f[i] = f[i - 1] \o time(i) \o wire(i)
  <2>1. Body(f)[0] = Tempo
    BY <1>1
  <2>2. ASSUME NEW i \in 1..n PROVE Body(f)[i] = f[i - 1] \o time(i) \o wire(i)
    <3>1. i \in 0..n /\ i # 0
      BY <1>1
    <3>2. Body(f)[i] = f[i - 1] \o write_vlq(Delta(shorts, i)) \o Wire(shorts[i].packet)
      BY <3>1
    <3> HIDE DEF Body
    <3> QED BY <1>2, <3>2 DEF wire
  <2> HIDE DEF Body
  <2> QED BY <1>9, <2>1, <2>2
<1> HIDE DEF S, Body
<1>11. \A i \in 0..n : f[i] \in S
  <2> DEFINE P == {i \in 0..n : f[i] \in S}
  <2>1. 0 \in P
    BY <1>1, <1>4, <1>10
  <2>2. ASSUME NEW i \in 1..n, i - 1 \in P PROVE i \in P
    <3>1. f[i - 1] \o time(i) \o wire(i) \in S
      BY <1>3, <2>2
    <3>2. f[i] \in S
      <4> HIDE DEF P
      <4> QED BY <1>10, <3>1
    <3> QED BY <1>1, <3>2
  <2>3. \A i \in 0..n : i \in P
    <3> HIDE DEF P
    <3> QED BY <1>1, <2>1, <2>2, Climbs
  <2> QED BY <2>3
<1> DEFINE track == write_smf0(events)
<1>12. track \in S /\ Len(track) = Len(f[n]) + 4 /\ Begins(f[n], track) /\ Standing(EndOfTrack, track, Len(f[n]) + 1)
  <2>1. f[n] \in S /\ Len(EndOfTrack) = 4
    BY <1>1, <1>11 DEF EndOfTrack
  <2>2. f[n] \o EndOfTrack \in S /\ Len(f[n] \o EndOfTrack) = Len(f[n]) + Len(EndOfTrack)
        /\ Begins(f[n], f[n] \o EndOfTrack) /\ Standing(EndOfTrack, f[n] \o EndOfTrack, Len(f[n]) + 1)
    BY <1>4, <2>1, ConcatBegins DEF S
  <2> QED BY <1>9, <2>1, <2>2
<1> HIDE DEF track
<1>13. \A i \in 0..n : Begins(f[i], track)
  <2> DEFINE P == {k \in 0..n : Begins(f[n - k], track)}
  <2>1. 0 \in P
    <3>1. n - 0 = n /\ 0 \in 0..n
      BY <1>1
    <3> QED BY <1>12, <3>1
  <2>2. ASSUME NEW k \in 1..n, k - 1 \in P PROVE k \in P
    <3>1. PICK i \in 1..n : i = n - (k - 1) /\ i - 1 = n - k
      BY <1>1
    <3>2. Begins(f[i], track)
      BY <2>2, <3>1
    <3>3. i - 1 \in 0..n /\ i \in 0..n
      BY <1>1
    <3>4. Begins(f[i - 1], f[i - 1] \o time(i) \o wire(i))
      BY <1>3, <1>11, <3>3
    <3>5. Begins(f[i - 1], f[i])
      <4> HIDE DEF P
      <4> QED BY <1>10, <3>4
    <3>6. Begins(f[i - 1], track)
      BY <1>11, <1>12, <3>2, <3>3, <3>5, BeginsOn DEF S
    <3> QED BY <1>1, <3>1, <3>6
  <2>3. \A k \in 0..n : k \in P
    <3> HIDE DEF P
    <3> QED BY <1>1, <2>1, <2>2, Climbs
  <2>4. ASSUME NEW i \in 0..n PROVE Begins(f[i], track)
    <3>1. n - i \in 0..n /\ n - (n - i) = i
      BY <1>1
    <3>2. n - i \in P
      BY <2>3, <3>1
    <3> QED BY <3>1, <3>2
  <2> QED BY <2>4
<1> DEFINE ends == [i \in 0..n |-> Len(f[i])]
<1>14. ends \in [0..n -> Nat] /\ \A i \in 0..n : ends[i] = Len(f[i])
  <2>1. \A i \in 0..n : Len(f[i]) \in Nat
    BY <1>11 DEF S
  <2> QED BY <2>1
<1> HIDE DEF ends
<1>15. ends[0] = 7 /\ Standing(Tempo, track, 1)
  <2>1. Len(Tempo) = 7
    BY DEF Tempo
  <2>2. 0 \in 0..n
    BY <1>1
  <2>3. Begins(Tempo, track)
    BY <1>10, <1>13, <2>2
  <2>4. ASSUME NEW j \in 1..7 PROVE track[1 + j - 1] = Tempo[j]
    <3>1. 1 + j - 1 = j
      OBVIOUS
    <3> QED BY <2>1, <2>3, <3>1 DEF Begins
  <2>5. 1 + Len(Tempo) - 1 <= Len(track)
    BY <2>1, <2>3 DEF Begins
  <2> QED BY <1>10, <1>14, <2>1, <2>2, <2>4, <2>5 DEF Standing
<1>16. ASSUME NEW i \in 1..n
       PROVE  /\ ends[i] = ends[i - 1] + Len(time(i)) + Len(wire(i))
              /\ Standing(time(i), track, ends[i - 1] + 1)
              /\ Standing(wire(i), track, ends[i - 1] + Len(time(i)) + 1)
  <2>1. i - 1 \in 0..n /\ i \in 0..n
    BY <1>1
  <2>2. f[i - 1] \in S /\ f[i] \in S /\ f[i] = f[i - 1] \o time(i) \o wire(i)
    BY <1>10, <1>11, <2>1
  <2>3. /\ Len(f[i]) = Len(f[i - 1]) + Len(time(i)) + Len(wire(i))
        /\ Standing(time(i), f[i], Len(f[i - 1]) + 1)
        /\ Standing(wire(i), f[i], Len(f[i - 1]) + Len(time(i)) + 1)
    BY <1>3, <2>2
  <2>4. Begins(f[i], track) /\ track \in S
    BY <1>12, <1>13, <2>1
  <2>5. Len(f[i - 1]) + 1 \in Nat \ {0} /\ Len(f[i - 1]) + Len(time(i)) + 1 \in Nat \ {0}
    <3>1. PICK a \in Nat, b \in Nat : a = Len(f[i - 1]) /\ b = Len(time(i))
      BY <1>2, <2>2 DEF S
    <3>2. a + 1 \in Nat \ {0} /\ a + b + 1 \in Nat \ {0}
      BY <3>1
    <3> QED BY <3>1, <3>2
  <2>6. Standing(time(i), track, Len(f[i - 1]) + 1) /\ Standing(wire(i), track, Len(f[i - 1]) + Len(time(i)) + 1)
    BY <1>2, <2>2, <2>3, <2>4, <2>5, StandsOn DEF S
  <2> QED BY <1>14, <2>1, <2>3, <2>6
<1>17. n \in 0..n
  BY <1>1
<1>18. \A i \in 1..Len(shorts) : LaidAt(shorts, ends, track, i)
  BY <1>16 DEF LaidAt, n, time, wire
<1>19. Laid(shorts, ends, track)
  BY <1>12, <1>14, <1>15, <1>17, <1>18 DEF Laid, S, n
<1> QED BY <1>19 DEF shorts, track

\* What the reader makes of the tempo, of a message and of the end.
ReaderAt(pos, tick, running, out, over, bad) ==
  [pos |-> pos, tick |-> tick, running |-> running, out |-> out, over |-> over, bad |-> bad]

PosAt(r, pos) == [r EXCEPT !.pos = pos]
TickAt(r, pos, tick) == [r EXCEPT !.pos = pos, !.tick = tick]
RunningAt(r, pos, running) == [r EXCEPT !.pos = pos, !.running = running]
OutAt(r, pos, out) == [r EXCEPT !.pos = pos, !.out = out]

LEMMA Fields ==
  ASSUME NEW pos, NEW tick, NEW running, NEW out, NEW over, NEW bad
  PROVE  LET r == ReaderAt(pos, tick, running, out, over, bad)
         IN r.pos = pos /\ r.tick = tick /\ r.running = running /\ r.out = out /\ r.over = over /\ r.bad = bad
BY DEF ReaderAt

LEMMA Stopped ==
  ASSUME NEW pos, NEW tick, NEW running, NEW out, NEW over, NEW bad
  PROVE  Stop(ReaderAt(pos, tick, running, out, over, bad)) = ReaderAt(pos, tick, running, out, TRUE, bad)
<1>1. PICK yes : yes = TRUE
  OBVIOUS
<1>2. [ReaderAt(pos, tick, running, out, over, bad) EXCEPT !.over = yes] = ReaderAt(pos, tick, running, out, yes, bad)
  <2> HIDE <1>1
  <2> QED BY DEF ReaderAt
<1> QED BY <1>1, <1>2 DEF Stop

LEMMA PosMoved ==
  ASSUME NEW pos, NEW tick, NEW running, NEW out, NEW over, NEW bad, NEW x
  PROVE  PosAt(ReaderAt(pos, tick, running, out, over, bad), x) = ReaderAt(x, tick, running, out, over, bad)
BY DEF PosAt, ReaderAt

LEMMA TickMoved ==
  ASSUME NEW pos, NEW tick, NEW running, NEW out, NEW over, NEW bad, NEW x, NEW y
  PROVE  TickAt(ReaderAt(pos, tick, running, out, over, bad), x, y) = ReaderAt(x, y, running, out, over, bad)
<1>1. PICK r : r = ReaderAt(pos, tick, running, out, over, bad)
  OBVIOUS
<1>2. [r EXCEPT !.pos = x, !.tick = y] = [[r EXCEPT !.pos = x] EXCEPT !.tick = y]
  OBVIOUS
<1>3. [r EXCEPT !.pos = x] = ReaderAt(x, tick, running, out, over, bad)
  BY <1>1 DEF ReaderAt
<1>4. [ReaderAt(x, tick, running, out, over, bad) EXCEPT !.tick = y] = ReaderAt(x, y, running, out, over, bad)
  BY DEF ReaderAt
<1> QED BY <1>1, <1>2, <1>3, <1>4 DEF TickAt

LEMMA RunningMoved ==
  ASSUME NEW pos, NEW tick, NEW running, NEW out, NEW over, NEW bad, NEW x, NEW y
  PROVE  RunningAt(ReaderAt(pos, tick, running, out, over, bad), x, y) = ReaderAt(x, tick, y, out, over, bad)
<1>1. PICK r : r = ReaderAt(pos, tick, running, out, over, bad)
  OBVIOUS
<1>2. [r EXCEPT !.pos = x, !.running = y] = [[r EXCEPT !.pos = x] EXCEPT !.running = y]
  OBVIOUS
<1>3. [r EXCEPT !.pos = x] = ReaderAt(x, tick, running, out, over, bad)
  BY <1>1 DEF ReaderAt
<1>4. [ReaderAt(x, tick, running, out, over, bad) EXCEPT !.running = y] = ReaderAt(x, tick, y, out, over, bad)
  BY DEF ReaderAt
<1> QED BY <1>1, <1>2, <1>3, <1>4 DEF RunningAt

LEMMA OutMoved ==
  ASSUME NEW pos, NEW tick, NEW running, NEW out, NEW over, NEW bad, NEW x, NEW y
  PROVE  OutAt(ReaderAt(pos, tick, running, out, over, bad), x, y) = ReaderAt(x, tick, running, y, over, bad)
<1>1. PICK r : r = ReaderAt(pos, tick, running, out, over, bad)
  OBVIOUS
<1>2. [r EXCEPT !.pos = x, !.out = y] = [[r EXCEPT !.pos = x] EXCEPT !.out = y]
  OBVIOUS
<1>3. [r EXCEPT !.pos = x] = ReaderAt(x, tick, running, out, over, bad)
  BY <1>1 DEF ReaderAt
<1>4. [ReaderAt(x, tick, running, out, over, bad) EXCEPT !.out = y] = ReaderAt(x, tick, running, y, over, bad)
  BY DEF ReaderAt
<1> QED BY <1>1, <1>2, <1>3, <1>4 DEF OutAt

LEMMA ByteRead ==
  ASSUME NEW track \in Seq(Nat), NEW pos \in Nat \ {0}, pos <= Len(track), NEW n \in 0..127, track[pos] = n
  PROVE  read_vlq(track, pos) = <<n, 1>>
<1>1. Vlq(n) = <<n>>
  <2>1. n < 128
    OBVIOUS
  <2> QED BY <2>1, Zenon DEF Vlq
<1>2. PICK v \in Seq(Nat) : v = Vlq(n)
  <2>1. n \in Nat
    OBVIOUS
  <2> QED BY <2>1, VlqType
<1>3. Len(v) = 1 /\ v[1] = n
  BY <1>1, <1>2
<1>4. Standing(v, track, pos)
  <2>1. pos + Len(v) - 1 <= Len(track)
    BY <1>3
  <2>2. ASSUME NEW j \in 1..Len(v) PROVE track[pos + j - 1] = v[j]
    <3>1. j = 1 /\ pos + j - 1 = pos
      BY <1>3
    <3> QED BY <1>3, <3>1
  <2> QED BY <2>1, <2>2 DEF Standing
<1>5. n \in Nat /\ n < VlqLimit
  BY DEF VlqLimit
<1>6. read_vlq(track, pos) = <<n, Len(Vlq(n))>>
  BY <1>2, <1>4, <1>5, VlqRead
<1> QED BY <1>2, <1>3, <1>6

\* A round reads the ticks and a status byte.
Opens(track, pos, d, k, status) ==
  read_vlq(track, pos) = <<d, k>> /\ pos + k <= Len(track) /\ track[pos + k] = status /\ status >= 128

LEMMA RoundRead ==
  ASSUME NEW track \in Seq(Nat), NEW pos \in Nat \ {0}, NEW tick \in Nat, NEW running, NEW out, NEW over, NEW bad,
         NEW d \in Nat, NEW k \in 1..4, NEW status \in Nat, Opens(track, pos, d, k, status)
  PROVE  LET next == ReaderAt(pos + k + 1, tick + d, IF status < 240 THEN status ELSE running, out, over, bad)
         IN ReadOne(track, ReaderAt(pos, tick, running, out, over, bad))
              = IF status = 255 THEN Meta(track, next) ELSE Message(track, next, status)
<1> USE DEF Opens
<1>1. PICK r : r = ReaderAt(pos, tick, running, out, over, bad)
  OBVIOUS
<1>2. PICK timed : timed = ReaderAt(pos + k, tick + d, running, out, over, bad)
  OBVIOUS
<1>3. PICK next : next = ReaderAt(pos + k + 1, tick + d, IF status < 240 THEN status ELSE running, out, over, bad)
  OBVIOUS
<1>4. r.pos = pos /\ r.tick = tick /\ r.running = running /\ timed.pos = pos + k /\ timed.running = running
  BY SMTT(20), <1>1, <1>2, Fields
<1>5. TickAt(r, pos + k, tick + d) = timed
  BY <1>1, <1>2, TickMoved
<1>6. RunningAt(timed, pos + k + 1, IF status < 240 THEN status ELSE running) = next
  BY <1>2, <1>3, RunningMoved
<1>7. PICK delta : delta = read_vlq(track, pos) /\ delta[1] = d /\ delta[2] = k
  OBVIOUS
<1>8. Len(track) \in Nat /\ ~ pos > Len(track) /\ k # 0 /\ ~ pos + k > Len(track)
  OBVIOUS
<1> DEFINE moved == [r EXCEPT !.pos = r.pos + read_vlq(track, r.pos)[2], !.tick = @ + read_vlq(track, r.pos)[1]]
           at == r.pos + read_vlq(track, r.pos)[2]
           own == track[at] >= 128
           begun == IF own THEN track[at] ELSE r.running
           then == [moved EXCEPT !.pos = IF own THEN @ + 1 ELSE @, !.running = IF own /\ begun < 240 THEN begun ELSE @]
<1>9. at = pos + k /\ read_vlq(track, r.pos)[1] = d /\ read_vlq(track, r.pos)[2] = k
  BY <1>4, <1>7
<1>10. ReadOne(track, r) = IF begun = 255 THEN Meta(track, then) ELSE Message(track, then, begun)
  <2>1. ~ r.pos > Len(track) /\ read_vlq(track, r.pos)[2] # 0 /\ ~ at > Len(track)
    BY <1>4, <1>8, <1>9
  <2> QED BY <2>1 DEF ReadOne
<1>11. moved = timed
  <2>1. moved = TickAt(r, pos + k, r.tick + d)
    BY <1>4, <1>9 DEF TickAt
  <2> HIDE DEF moved
  <2> QED BY <1>4, <1>5, <2>1
<1>12. begun = status /\ own
  BY <1>9
<1> HIDE DEF moved, begun, own, at
<1>13. then = next
  <2>1. then = RunningAt(timed, timed.pos + 1, IF status < 240 THEN status ELSE timed.running)
    BY <1>11, <1>12 DEF RunningAt
  <2> HIDE DEF then
  <2> QED BY <1>4, <1>6, <2>1
<1> HIDE DEF then
<1>14. ReadOne(track, r) = IF status = 255 THEN Meta(track, next) ELSE Message(track, next, status)
  BY <1>10, <1>12, <1>13
<1> QED BY <1>1, <1>3, <1>14

\* The tempo, which comes first.
LEMMA TempoRead ==
  ASSUME NEW track \in Seq(Nat), Standing(Tempo, track, 1), NEW over, NEW bad
  PROVE  ReadOne(track, ReaderAt(1, 0, 0, <<>>, over, bad)) = ReaderAt(8, 0, 0, <<>>, over, bad)
<1>1. 7 <= Len(track) /\ \A j \in 1..7 : track[1 + j - 1] = Tempo[j]
  <2>1. Len(Tempo) = 7
    BY DEF Tempo
  <2> QED BY <2>1 DEF Standing
<1>2. track[1] = 0 /\ track[2] = 255 /\ track[3] = 81 /\ track[4] = 3
  <2>1. track[1] = Tempo[1] /\ track[2] = Tempo[2] /\ track[3] = Tempo[3] /\ track[4] = Tempo[4]
    BY <1>1
  <2> QED BY <2>1 DEF Tempo
<1>3. Len(track) \in Nat
  OBVIOUS
<1>4. read_vlq(track, 1) = <<0, 1>> /\ read_vlq(track, 4) = <<3, 1>>
  <2>1. 1 \in Nat \ {0} /\ 4 \in Nat \ {0} /\ 0 \in 0..127 /\ 3 \in 0..127 /\ 1 <= Len(track) /\ 4 <= Len(track)
    <3>1. PICK len \in Nat : len = Len(track) /\ 7 <= len
      BY <1>1, <1>3
    <3>2. 1 <= len /\ 4 <= len
      BY <3>1
    <3>3. 1 \in Nat \ {0} /\ 4 \in Nat \ {0} /\ 0 \in 0..127 /\ 3 \in 0..127
      OBVIOUS
    <3> QED BY <3>1, <3>2, <3>3
  <2>2. read_vlq(track, 1) = <<0, 1>>
    BY <1>2, <2>1, ByteRead
  <2>3. read_vlq(track, 4) = <<3, 1>>
    BY <1>2, <2>1, ByteRead
  <2> QED BY <2>2, <2>3
<1>5. PICK none : none = <<>>
  OBVIOUS
<1>6. PICK next : next = ReaderAt(3, 0, 0, none, over, bad)
  OBVIOUS
<1>7. ReadOne(track, ReaderAt(1, 0, 0, none, over, bad)) = Meta(track, next)
  <2>1. 1 + 1 <= Len(track) /\ track[1 + 1] = 255
    BY <1>1, <1>2, <1>3
  <2>2. ReadOne(track, ReaderAt(1, 0, 0, none, over, bad)) = Meta(track, ReaderAt(1 + 1 + 1, 0 + 0, 0, none, over, bad))
    <3>1. Opens(track, 1, 0, 1, 255)
      BY <1>4, <2>1 DEF Opens
    <3> QED BY <3>1, RoundRead
  <2> QED BY <1>6, <2>2
<1>8. next.pos = 3
  BY <1>6, Fields
<1>9. Meta(track, next) = PosAt(next, 8)
  <2>1. ~ next.pos + 1 > Len(track) /\ read_vlq(track, next.pos + 1)[2] = 1 /\ read_vlq(track, next.pos + 1)[1] = 3
        /\ track[next.pos] = 81
    <3>1. next.pos + 1 = 4
      BY <1>8
    <3>2. 7 <= Len(track)
      BY <1>1
    <3>3. ~ 4 > Len(track)
      BY <1>3, <3>2
    <3>4. read_vlq(track, 4)[2] = 1 /\ read_vlq(track, 4)[1] = 3
      BY <1>4
    <3>5. track[next.pos] = 81
      BY <1>2, <1>8
    <3> QED BY <3>1, <3>3, <3>4, <3>5
  <2>2. next.pos + 1 + 1 + 3 = 8
    BY <1>8
  <2>3. 81 # 47 /\ 1 # 0
    OBVIOUS
  <2>4. PICK length : length = read_vlq(track, next.pos + 1)
    OBVIOUS
  <2>5. Meta(track, next) = [next EXCEPT !.pos = @ + 1 + length[2] + length[1]]
    <3>1. ~ next.pos + 1 > Len(track) /\ length[2] # 0 /\ track[next.pos] # 47
      BY <2>1, <2>3, <2>4
    <3> QED BY <2>4, <3>1, ZenonT(30) DEF Meta
  <2>6. next.pos + 1 + length[2] + length[1] = 8
    BY <2>1, <2>2, <2>4
  <2> QED BY <2>5, <2>6 DEF PosAt
<1>10. PosAt(next, 8) = ReaderAt(8, 0, 0, none, over, bad)
  BY <1>6, PosMoved
<1> QED BY <1>5, <1>7, <1>9, <1>10

\* The end.
EndsHere(track, pos, tick, running, out, over, bad) ==
  ReadOne(track, ReaderAt(pos, tick, running, out, over, bad)) = ReaderAt(pos + 2, tick, running, out, TRUE, bad)

LEMMA EndRead ==
  ASSUME NEW track \in Seq(Nat), NEW pos \in Nat \ {0}, Standing(EndOfTrack, track, pos),
         NEW tick \in Nat, NEW running, NEW out, NEW over, NEW bad
  PROVE  EndsHere(track, pos, tick, running, out, over, bad)
<1>1. pos + 3 <= Len(track) /\ \A j \in 1..4 : track[pos + j - 1] = EndOfTrack[j]
  <2>1. Len(EndOfTrack) = 4
    BY DEF EndOfTrack
  <2> QED BY <2>1 DEF Standing
<1>2. track[pos] = 0 /\ track[pos + 1] = 255 /\ track[pos + 2] = 47 /\ track[pos + 3] = 0
  <2>1. track[pos + 1 - 1] = EndOfTrack[1] /\ track[pos + 2 - 1] = EndOfTrack[2]
        /\ track[pos + 3 - 1] = EndOfTrack[3] /\ track[pos + 4 - 1] = EndOfTrack[4]
    BY <1>1
  <2>2. pos + 1 - 1 = pos /\ pos + 2 - 1 = pos + 1 /\ pos + 3 - 1 = pos + 2 /\ pos + 4 - 1 = pos + 3
    OBVIOUS
  <2>3. EndOfTrack[1] = 0 /\ EndOfTrack[2] = 255 /\ EndOfTrack[3] = 47 /\ EndOfTrack[4] = 0
    BY DEF EndOfTrack
  <2> QED BY <2>1, <2>2, <2>3
<1>3. Len(track) \in Nat
  OBVIOUS
<1>4. read_vlq(track, pos) = <<0, 1>> /\ read_vlq(track, pos + 3) = <<0, 1>>
  <2>1. PICK last \in Nat \ {0} : last = pos + 3
    OBVIOUS
  <2>2. pos <= Len(track) /\ last <= Len(track) /\ 0 \in 0..127
    BY <1>1, <1>3, <2>1
  <2>3. read_vlq(track, pos) = <<0, 1>>
    BY SMTT(20), <1>2, <2>2, ByteRead
  <2>4. read_vlq(track, last) = <<0, 1>>
    BY SMTT(20), <1>2, <2>1, <2>2, ByteRead
  <2> QED BY <2>1, <2>3, <2>4
<1>5. PICK next : next = ReaderAt(pos + 2, tick, running, out, over, bad)
  OBVIOUS
<1>6. ReadOne(track, ReaderAt(pos, tick, running, out, over, bad)) = Meta(track, next)
  <2>1. pos + 1 <= Len(track)
    BY <1>1, <1>3
  <2>2. ReadOne(track, ReaderAt(pos, tick, running, out, over, bad))
          = Meta(track, ReaderAt(pos + 1 + 1, tick + 0, running, out, over, bad))
    <3>1. Opens(track, pos, 0, 1, 255)
      BY <1>2, <1>4, <2>1 DEF Opens
    <3> QED BY <3>1, RoundRead
  <2>3. pos + 1 + 1 = pos + 2 /\ tick + 0 = tick
    OBVIOUS
  <2> QED BY <1>5, <2>2, <2>3
<1>7. Meta(track, next) = Stop(next)
  <2>1. next.pos = pos + 2
    BY <1>5, Fields
  <2>2. pos + 2 + 1 = pos + 3 /\ ~ pos + 2 + 1 > Len(track)
    BY <1>1, <1>3
  <2>3. PICK length : length = read_vlq(track, next.pos + 1)
    OBVIOUS
  <2>4. ~ next.pos + 1 > Len(track) /\ length[2] # 0 /\ track[next.pos] = 47
    BY <1>2, <1>4, <2>1, <2>2, <2>3
  <2> QED BY <2>3, <2>4, ZenonT(30) DEF Meta
<1>8. Stop(next) = ReaderAt(pos + 2, tick, running, out, TRUE, bad)
  BY <1>5, Stopped
<1> QED BY <1>6, <1>7, <1>8 DEF EndsHere

\* A message, with the ticks before it.
Comes(track, pos, d, p) == Standing(Vlq(d), track, pos) /\ Standing(Wire(p), track, pos + Len(Vlq(d)))

ReadsOn(track, pos, tick, running, out, over, bad, d, p) ==
  \E then : ReadOne(track, ReaderAt(pos, tick, running, out, over, bad))
              = ReaderAt(pos + Len(Vlq(d)) + Len(Wire(p)), tick + d, then,
                         Append(out, [time |-> tick_to_nanos(tick + d), packet |-> p]), over, bad)

LEMMA MessageRead ==
  ASSUME NEW track \in Seq(Nat), NEW pos \in Nat \ {0}, NEW tick \in Nat, NEW running, NEW out, NEW over, NEW bad,
         NEW d \in Nat, d < VlqLimit, NEW p \in ShortPackets, p.status # 255, Comes(track, pos, d, p)
  PROVE  ReadsOn(track, pos, tick, running, out, over, bad, d, p)
<1>1. /\ p.status \in Nat /\ p.status >= 128 /\ p.status < 256
      /\ p.mt = 1 => p.status >= 240
      /\ p.mt = 2 => p.status < 240
      /\ p.mt \in {1, 2}
  <2>1. p.status \in (IF p.mt = 1 THEN 240..255 ELSE 128..239) /\ p.mt \in {1, 2}
    BY DEF ShortPackets, IsShort
  <2>2. CASE p.mt = 1
    <3>1. PICK x \in 240..255 : x = p.status
      BY <2>1, <2>2
    <3>2. x \in Nat /\ x >= 240 /\ x >= 128 /\ x < 256
      OBVIOUS
    <3> QED BY <2>2, <3>1, <3>2
  <2>3. CASE p.mt = 2
    <3>1. PICK x \in 128..239 : x = p.status
      BY <2>1, <2>3
    <3>2. x \in Nat /\ x < 240 /\ x >= 128 /\ x < 256
      OBVIOUS
    <3> QED BY <2>3, <3>1, <3>2
  <2> QED BY <2>1, <2>2, <2>3
<1>2. PICK need \in 0..2 : need = DataLen(p.status)
  BY WireBytes
<1>3. PICK k \in 1..4, size \in Nat : k = Len(Vlq(d)) /\ size = Len(Wire(p)) /\ size = 1 + need
  BY <1>2, VlqType, WireBytes
<1>4. read_vlq(track, pos) = <<d, k>>
  <2>1. Standing(Vlq(d), track, pos)
    BY DEF Comes
  <2> QED BY <1>3, <2>1, VlqRead
<1>5. pos + k + size - 1 <= Len(track) /\ \A j \in 1..size : track[pos + k + j - 1] = Wire(p)[j]
  <2>1. Standing(Wire(p), track, pos + k)
    BY <1>3 DEF Comes
  <2> QED BY <1>3, <2>1 DEF Standing
<1>6. /\ track[pos + k] = p.status
      /\ need >= 1 => track[pos + k + 1] = p.d1
      /\ need = 2 => track[pos + k + 2] = p.d2
  <2>1. pos + k + 1 - 1 = pos + k /\ pos + k + 2 - 1 = pos + k + 1 /\ pos + k + 3 - 1 = pos + k + 2
    OBVIOUS
  <2>2. 1 \in 1..size /\ (need >= 1 => 2 \in 1..size) /\ (need = 2 => 3 \in 1..size)
    BY <1>3
  <2>3. Wire(p)[1] = p.status /\ (need >= 1 => Wire(p)[2] = p.d1) /\ (need = 2 => Wire(p)[3] = p.d2)
    BY <1>2, WireBytes
  <2>4. track[pos + k + 1 - 1] = Wire(p)[1] /\ (need >= 1 => track[pos + k + 2 - 1] = Wire(p)[2])
        /\ (need = 2 => track[pos + k + 3 - 1] = Wire(p)[3])
    BY <1>5, <2>2
  <2> QED BY <2>1, <2>3, <2>4
<1>7. PICK then : then = IF p.status < 240 THEN p.status ELSE running
  BY Zenon
<1>8. PICK next : next = ReaderAt(pos + k + 1, tick + d, then, out, over, bad)
  OBVIOUS
<1>9. ReadOne(track, ReaderAt(pos, tick, running, out, over, bad)) = Message(track, next, p.status)
  <2>1. pos + k <= Len(track)
    BY <1>3, <1>5
  <2>2. PICK status \in Nat : status = p.status
    BY <1>1
  <2>3. LET after == ReaderAt(pos + k + 1, tick + d, IF status < 240 THEN status ELSE running, out, over, bad)
        IN ReadOne(track, ReaderAt(pos, tick, running, out, over, bad))
             = IF status = 255 THEN Meta(track, after) ELSE Message(track, after, status)
    <3>1. track[pos + k] = status /\ status >= 128
      BY <1>1, <1>6, <2>2
    <3>2. Opens(track, pos, d, k, status)
      BY <1>4, <2>1, <3>1 DEF Opens
    <3> QED BY <3>2, RoundRead
  <2> QED BY <1>7, <1>8, <2>2, <2>3
<1>10. next.pos = pos + k + 1 /\ next.tick = tick + d /\ next.out = out
  BY <1>8, Fields
<1> DEFINE data(i) == IF i <= need THEN track[next.pos + i - 1] ELSE 0
<1>11. data(1) = p.d1 /\ data(2) = p.d2
  <2>1. p.d1 \in Nat /\ p.d2 \in Nat /\ p.d1 < (IF need >= 1 THEN 128 ELSE 1) /\ p.d2 < (IF need = 2 THEN 128 ELSE 1)
    BY <1>2 DEF ShortPackets, AnyPackets, Below, IsShort
  <2>2. next.pos + 1 - 1 = pos + k + 1 /\ next.pos + 2 - 1 = pos + k + 2
    BY <1>10
  <2>3. data(1) = p.d1
    <3>1. CASE need >= 1
      BY <1>6, <2>2, <3>1
    <3>2. CASE need = 0
      BY <2>1, <3>2
    <3> QED BY <3>1, <3>2
  <2>4. data(2) = p.d2
    <3>1. CASE need = 2
      BY <1>6, <2>2, <3>1
    <3>2. CASE need # 2
      BY <2>1, <3>2
    <3> QED BY <3>1, <3>2
  <2> QED BY <2>3, <2>4
<1>12. (IF p.status >= 240 THEN System(p.status, p.d1, p.d2) ELSE Midi1(p.status, p.d1, p.d2)) = p
  <2>1. p = [mt |-> p.mt, status |-> p.status, d1 |-> p.d1, d2 |-> p.d2, v |-> p.v, low |-> p.low]
    BY DEF ShortPackets, AnyPackets
  <2>2. p.v = 0 /\ p.low = 0
    BY DEF ShortPackets, IsShort
  <2>3. CASE p.mt = 1
    BY <1>1, <2>1, <2>2, <2>3 DEF System, Packet
  <2>4. CASE p.mt = 2
    BY <1>1, <2>1, <2>2, <2>4 DEF Midi1, Packet
  <2> QED BY <1>1, <2>3, <2>4
<1>13. Message(track, next, p.status)
         = OutAt(next, next.pos + need, Append(out, [time |-> tick_to_nanos(tick + d), packet |-> p]))
  <2>1. ~ next.pos + need - 1 > Len(track)
    <3>1. PICK len \in Nat : len = Len(track) /\ pos + k + size - 1 <= len
      BY <1>5
    <3>2. next.pos + need - 1 = pos + k + size - 1
      BY <1>3, <1>10
    <3>3. ~ pos + k + size - 1 > len
      BY <1>3, <3>1
    <3> QED BY <3>1, <3>2, <3>3
  <2>2. Message(track, next, p.status) =
          [next EXCEPT !.pos = @ + need,
                       !.out = Append(@, [time |-> tick_to_nanos(next.tick),
                                          packet |-> IF p.status >= 240 THEN System(p.status, data(1), data(2))
                                                     ELSE Midi1(p.status, data(1), data(2))])]
    BY <1>2, <2>1 DEF Message
  <2> HIDE DEF data
  <2>3. (IF p.status >= 240 THEN System(p.status, data(1), data(2)) ELSE Midi1(p.status, data(1), data(2))) = p
    BY <1>11, <1>12
  <2>4. PICK e : e = [time |-> tick_to_nanos(tick + d), packet |-> p]
    OBVIOUS
  <2>5. Message(track, next, p.status) = [next EXCEPT !.pos = @ + need, !.out = Append(@, e)]
    BY <1>10, <2>2, <2>3, <2>4
  <2>6. [next EXCEPT !.pos = @ + need, !.out = Append(@, e)] = OutAt(next, next.pos + need, Append(next.out, e))
    BY DEF OutAt
  <2> QED BY <1>10, <2>4, <2>5, <2>6
<1>14. next.pos + need = pos + k + size
  BY <1>3, <1>10
<1>15. Message(track, next, p.status)
         = ReaderAt(pos + k + size, tick + d, then, Append(out, [time |-> tick_to_nanos(tick + d), packet |-> p]), over, bad)
  BY <1>8, <1>13, <1>14, OutMoved
<1> QED BY <1>3, <1>9, <1>15 DEF ReadsOn

\* The reader's rounds, one after the other.
RoundStep(track, f, i) == IF i = 0 THEN Reader0 ELSE LET r == f[i - 1] IN IF r.over THEN r ELSE ReadOne(track, r)

LEMMA Rounds ==
  ASSUME NEW track, Len(track) \in Nat
  PROVE  \E f : /\ f = [i \in 0..(Len(track) + 1) |-> RoundStep(track, f, i)]
                /\ events_from_smf0(track) = f[Len(track) + 1]
<1> DEFINE Steps(f, m) == f = [n \in 0..m |-> RoundStep(track, f, n)]
           T == {m \in Nat : \E f : Steps(f, m)}
<1>1. 0 \in T
  <2> DEFINE f == [n \in 0..0 |-> Reader0]
  <2>1. \A n \in 0..0 : RoundStep(track, f, n) = Reader0
    BY DEF RoundStep
  <2>2. Steps(f, 0)
    BY <2>1
  <2> QED BY <2>2
<1>2. ASSUME NEW m \in T PROVE m + 1 \in T
  <2>1. PICK f : Steps(f, m)
    OBVIOUS
  <2> DEFINE g == [n \in 0..(m + 1) |-> IF n <= m THEN f[n] ELSE RoundStep(track, f, n)]
  <2>2. ASSUME NEW n \in 0..(m + 1) PROVE g[n] = RoundStep(track, g, n)
    <3>1. n = 0 \/ n - 1 \in 0..m
      OBVIOUS
    <3>2. n # 0 => g[n - 1] = f[n - 1]
      BY <3>1
    <3>3. g[n] = RoundStep(track, f, n)
      BY SMTT(20), <2>1
    <3> HIDE DEF g
    <3>4. RoundStep(track, g, n) = RoundStep(track, f, n)
      BY <3>2 DEF RoundStep
    <3> QED BY <3>3, <3>4
  <2>3. g = [n \in 0..(m + 1) |-> g[n]]
    OBVIOUS
  <2> HIDE DEF g
  <2>4. Steps(g, m + 1)
    BY <2>2, <2>3
  <2>5. \E f1 : Steps(f1, m + 1)
    <3> HIDE DEF Steps
    <3> QED BY <2>4
  <2> QED BY <2>5
<1>3. T = Nat
  <2> HIDE DEF T
  <2>1. T \subseteq Nat
    BY DEF T
  <2> QED BY <1>1, <1>2, <2>1, EveryNatural
<1> DEFINE Body(f) == [i \in 0..(Len(track) + 1) |->
                         IF i = 0 THEN Reader0 ELSE LET r == f[i - 1] IN IF r.over THEN r ELSE ReadOne(track, r)]
           After0 == CHOOSE f : f = Body(f)
<1>4. PICK f : f = [i \in 0..(Len(track) + 1) |-> RoundStep(track, f, i)]
  <2>1. Len(track) + 1 \in T
    BY <1>3
  <2> QED BY <2>1
<1>5. f = Body(f)
  BY <1>4 DEF RoundStep
<1>6. After0 = Body(After0)
  <2> HIDE DEF Body
  <2> QED BY <1>5
<1>7. events_from_smf0(track) = After0[Len(track) + 1]
  BY DEF events_from_smf0
<1>8. After0 = [i \in 0..(Len(track) + 1) |-> RoundStep(track, After0, i)]
  <2> HIDE DEF After0
  <2> QED BY <1>6 DEF RoundStep
<1> HIDE DEF After0
<1> QED BY <1>7, <1>8

\* In the order of their times, messages are at the ticks that the numbers
\* between them add up to.
Ordered(shorts) == \A i, j \in DOMAIN shorts : i <= j => shorts[i].time <= shorts[j].time

LEMMA TicksAddUp ==
  ASSUME NEW shorts \in Seq(ShortEvents), Ordered(shorts), NEW i \in 1..Len(shorts)
  PROVE  /\ i = 1 => TickOf(shorts, i) = 0 /\ Delta(shorts, i) = 0
         /\ i # 1 => TickOf(shorts, i) = TickOf(shorts, i - 1) + Delta(shorts, i)
<1>1. ASSUME NEW j \in 1..Len(shorts) PROVE shorts[j].time \in Nat
  <2>1. shorts[j] \in ShortEvents
    OBVIOUS
  <2>2. shorts[j].time \in Instants
    BY <2>1 DEF ShortEvents
  <2> QED BY <2>2 DEF Instants
<1>2. CASE i = 1
  <2>1. PICK x \in Nat : x = shorts[1].time
    BY <1>1, <1>2
  <2>2. TickOf(shorts, 1) = nanos_to_tick(0)
    BY <2>1 DEF TickOf
  <2>3. nanos_to_tick(0) = 0
    BY DEF nanos_to_tick
  <2> QED BY <1>2, <2>2, <2>3 DEF Delta
<1>3. CASE i # 1
  <2>1. i - 1 \in 1..Len(shorts) /\ 1 \in 1..Len(shorts)
    BY <1>3
  <2>2. PICK x \in Nat, y \in Nat, z \in Nat : x = shorts[1].time /\ y = shorts[i - 1].time /\ z = shorts[i].time
    BY <1>1, <2>1
  <2>3. x <= y /\ y <= z
    <3>1. DOMAIN shorts = 1..Len(shorts) /\ 1 <= i - 1 /\ i - 1 <= i
      BY <2>1
    <3> QED BY <2>1, <2>2, <3>1 DEF Ordered
  <2>4. TickOf(shorts, i) = nanos_to_tick(z - x) /\ TickOf(shorts, i - 1) = nanos_to_tick(y - x)
    BY <2>2, <2>3 DEF TickOf
  <2>5. nanos_to_tick(y - x) <= nanos_to_tick(z - x) /\ nanos_to_tick(y - x) \in Nat /\ nanos_to_tick(z - x) \in Nat
    <3>1. PICK a \in Nat, b \in Nat : a = y - x /\ b = z - x /\ a <= b
      BY <2>3
    <3>2. nanos_to_tick(a) <= nanos_to_tick(b) /\ nanos_to_tick(a) \in Nat /\ nanos_to_tick(b) \in Nat
      BY <3>1 DEF nanos_to_tick
    <3> QED BY <3>1, <3>2
  <2>6. PICK a \in Nat, b \in Nat : a = TickOf(shorts, i - 1) /\ b = TickOf(shorts, i) /\ a <= b
    BY <2>4, <2>5
  <2>7. Delta(shorts, i) = IF b - a < 0 THEN 0 ELSE b - a
    BY <1>3, <2>6 DEF Delta
  <2> QED BY <1>3, <2>6, <2>7
<1> QED BY <1>2, <1>3

\* What the reader has after the first i messages.
ReadEvents == [time : Nat, packet : ShortPackets]

ReadSoFar(shorts, out, i) ==
  /\ out \in Seq(ReadEvents) /\ Len(out) = i
  /\ \A j \in 1..i : out[j].packet = shorts[j].packet
  /\ Ordered(shorts) => \A j \in 1..i : out[j].time = tick_to_nanos(TickOf(shorts, j))

LEMMA OneMore ==
  ASSUME NEW shorts \in Seq(ShortEvents), NEW i \in 1..Len(shorts), NEW out, ReadSoFar(shorts, out, i - 1),
         NEW tick \in Nat, Ordered(shorts) => tick = TickOf(shorts, i)
  PROVE  ReadSoFar(shorts, Append(out, [time |-> tick_to_nanos(tick), packet |-> shorts[i].packet]), i)
<1>1. tick_to_nanos(tick) \in Nat
  BY DEF tick_to_nanos
<1>2. shorts[i].packet \in ShortPackets
  <2>1. shorts[i] \in ShortEvents
    OBVIOUS
  <2> QED BY <2>1 DEF ShortEvents
<1>3. PICK e \in ReadEvents : e = [time |-> tick_to_nanos(tick), packet |-> shorts[i].packet]
  BY <1>1, <1>2 DEF ReadEvents
<1>4. e.time = tick_to_nanos(tick) /\ e.packet = shorts[i].packet
  BY <1>3
<1>5. out \in Seq(ReadEvents) /\ Len(out) = i - 1
  BY DEF ReadSoFar
<1>6. PICK more : more = Append(out, e)
  OBVIOUS
<1>7. more \in Seq(ReadEvents) /\ Len(more) = i /\ more[i] = e /\ \A j \in 1..(i - 1) : more[j] = out[j]
  <2>1. i - 1 \in Nat /\ i - 1 + 1 = i
    OBVIOUS
  <2> QED BY <1>5, <1>6, <2>1, AppendProperties
<1>8. ASSUME NEW j \in 1..i
      PROVE  /\ more[j].packet = shorts[j].packet
             /\ Ordered(shorts) => more[j].time = tick_to_nanos(TickOf(shorts, j))
  <2>1. CASE j = i
    BY <1>4, <1>7, <2>1
  <2>2. CASE j # i
    <3>1. j \in 1..(i - 1)
      BY <2>2
    <3> QED BY <1>7, <3>1 DEF ReadSoFar
  <2> QED BY <2>1, <2>2
<1>9. ReadSoFar(shorts, more, i)
  BY <1>7, <1>8 DEF ReadSoFar
<1> QED BY <1>3, <1>6, <1>9

ReadUpTo(shorts, ends, r, i, no) ==
  \E tick, running, out :
    /\ tick \in Nat /\ r = ReaderAt(ends[i] + 1, tick, running, out, no, no)
    /\ ReadSoFar(shorts, out, i)
    /\ Ordered(shorts) => tick = IF i = 0 THEN 0 ELSE TickOf(shorts, i)

LEMMA MessagesRead ==
  ASSUME NEW shorts \in Seq(ShortEvents), NEW ends, NEW track, Laid(shorts, ends, track),
         NEW i \in 1..Len(shorts), shorts[i].packet.status # 255,
         NEW no, NEW r, ReadUpTo(shorts, ends, r, i - 1, no)
  PROVE  ReadUpTo(shorts, ends, ReadOne(track, r), i, no)
<1>1. PICK tick, running, out :
        /\ tick \in Nat /\ r = ReaderAt(ends[i - 1] + 1, tick, running, out, no, no)
        /\ ReadSoFar(shorts, out, i - 1)
        /\ Ordered(shorts) => tick = IF i - 1 = 0 THEN 0 ELSE TickOf(shorts, i - 1)
  BY DEF ReadUpTo
<1>2. PICK p \in ShortPackets : p = shorts[i].packet
  <2>1. shorts[i] \in ShortEvents
    OBVIOUS
  <2> QED BY <2>1 DEF ShortEvents
<1>3. PICK d \in Nat : d = Delta(shorts, i) /\ d < VlqLimit
  BY TicksFit
<1>4. PICK pos \in Nat \ {0} : pos = ends[i - 1] + 1
  <2>1. i - 1 \in 0..Len(shorts)
    OBVIOUS
  <2>2. ends \in [0..Len(shorts) -> Nat]
    BY DEF Laid
  <2> QED BY <2>1, <2>2
<1>5. PICK k \in Nat, size \in Nat : k = Len(Vlq(d)) /\ size = Len(Wire(p))
  <2>1. Len(Vlq(d)) \in Nat
    BY VlqType
  <2>2. Len(Wire(p)) \in Nat
    BY WireBytes
  <2> QED BY <2>1, <2>2
<1>6. /\ track \in Seq(Nat)
      /\ ends[i] = ends[i - 1] + Len(Vlq(Delta(shorts, i))) + Len(Wire(shorts[i].packet))
      /\ Standing(Vlq(Delta(shorts, i)), track, ends[i - 1] + 1)
      /\ Standing(Wire(shorts[i].packet), track, ends[i - 1] + Len(Vlq(Delta(shorts, i))) + 1)
  BY DEF Laid, LaidAt
<1>7. ends[i - 1] \in Nat
  <2>1. i - 1 \in 0..Len(shorts)
    OBVIOUS
  <2>2. ends \in [0..Len(shorts) -> Nat]
    BY DEF Laid
  <2> QED BY <2>1, <2>2
<1>8. ends[i] + 1 = pos + k + size /\ Standing(Vlq(d), track, pos) /\ Standing(Wire(p), track, pos + k)
  <2>1. PICK e \in Nat : e = ends[i - 1]
    BY <1>7
  <2>2. pos = e + 1
    BY <1>4, <2>1
  <2>3. e + k + 1 = pos + k /\ e + k + size + 1 = pos + k + size
    <3>1. \A x \in Nat, y \in Nat, z \in Nat : x + y + 1 = (x + 1) + y /\ x + y + z + 1 = (x + 1) + y + z
      OBVIOUS
    <3>2. e \in Nat /\ k \in Nat /\ size \in Nat
      BY <1>5, <2>1
    <3> QED BY <2>2, <3>1, <3>2
  <2>4. ends[i] = e + k + size /\ Standing(Vlq(d), track, pos) /\ Standing(Wire(p), track, e + k + 1)
    <3>1. ends[i] = e + k + size
      BY <1>2, <1>3, <1>5, <1>6, <2>1
    <3>2. Standing(Vlq(d), track, pos) /\ Standing(Wire(p), track, e + k + 1)
      BY <1>2, <1>3, <1>4, <1>5, <1>6, <2>1
    <3> QED BY <3>1, <3>2
  <2> QED BY <2>3, <2>4
<1>9. PICK then : ReadOne(track, ReaderAt(pos, tick, running, out, no, no))
                    = ReaderAt(pos + k + size, tick + d, then,
                               Append(out, [time |-> tick_to_nanos(tick + d), packet |-> p]), no, no)
  <2>1. p.status # 255
    BY <1>2
  <2>2. Standing(Wire(p), track, pos + Len(Vlq(d)))
    BY <1>5, <1>8
  <2>3. ReadsOn(track, pos, tick, running, out, no, no, d, p)
    <3>1. /\ track \in Seq(Nat) /\ pos \in Nat \ {0} /\ tick \in Nat /\ d \in Nat /\ d < VlqLimit
          /\ p \in ShortPackets
      BY <1>1, <1>2, <1>3, <1>4, <1>6
    <3>2. Comes(track, pos, d, p)
      BY <1>8, <2>2 DEF Comes
    <3> QED BY <2>1, <3>1, <3>2, MessageRead
  <2> QED BY <1>5, <2>3 DEF ReadsOn
<1>10. tick + d \in Nat /\ (Ordered(shorts) => tick + d = TickOf(shorts, i))
  <2>1. ASSUME Ordered(shorts) PROVE tick + d = TickOf(shorts, i)
    <3>1. i = 1 => TickOf(shorts, i) = 0 /\ Delta(shorts, i) = 0
      BY <2>1, TicksAddUp
    <3>2. i # 1 => TickOf(shorts, i) = TickOf(shorts, i - 1) + Delta(shorts, i)
      BY <2>1, TicksAddUp
    <3>3. tick = IF i = 1 THEN 0 ELSE TickOf(shorts, i - 1)
      BY <1>1, <2>1
    <3>4. i # 1 => TickOf(shorts, i) = tick + Delta(shorts, i)
      BY <3>2, <3>3
    <3> QED BY <1>3, <3>1, <3>3, <3>4
  <2> QED BY <1>1, <1>3, <2>1
<1>11. ReadSoFar(shorts, Append(out, [time |-> tick_to_nanos(tick + d), packet |-> p]), i)
  <2>1. ReadSoFar(shorts, Append(out, [time |-> tick_to_nanos(tick + d), packet |-> shorts[i].packet]), i)
    <3>1. PICK t : t = tick + d
      OBVIOUS
    <3>2. t \in Nat /\ (Ordered(shorts) => t = TickOf(shorts, i))
      BY <1>10, <3>1
    <3>3. ReadSoFar(shorts, Append(out, [time |-> tick_to_nanos(t), packet |-> shorts[i].packet]), i)
      <4> HIDE <3>1
      <4> QED BY <1>1, <3>2, OneMore
    <3> QED BY <3>1, <3>3
  <2> QED BY <1>2, <2>1
<1>12. ReadOne(track, r) = ReaderAt(ends[i] + 1, tick + d, then,
                                    Append(out, [time |-> tick_to_nanos(tick + d), packet |-> p]), no, no)
  BY <1>1, <1>4, <1>8, <1>9
<1>13. i # 0
  OBVIOUS
<1>14. PICK t, o :
         /\ t \in Nat /\ ReadOne(track, r) = ReaderAt(ends[i] + 1, t, then, o, no, no)
         /\ ReadSoFar(shorts, o, i) /\ (Ordered(shorts) => t = IF i = 0 THEN 0 ELSE TickOf(shorts, i))
  BY <1>10, <1>11, <1>12, <1>13
<1> QED BY <1>14 DEF ReadUpTo

\* The track is longer than there are messages.
LEMMA LongEnough ==
  ASSUME NEW shorts \in Seq(ShortEvents), NEW ends, NEW track, Laid(shorts, ends, track)
  PROVE  track \in Seq(Nat) /\ Len(track) >= Len(shorts) + 11
<1> DEFINE n == Len(shorts)
           P == {i \in 0..n : ends[i] >= 7 + i}
<1>1. n \in Nat
  OBVIOUS
<1>2. track \in Seq(Nat) /\ ends \in [0..n -> Nat] /\ ends[0] = 7 /\ Len(track) = ends[n] + 4
  BY DEF Laid
<1>3. 0 \in P
  BY <1>1, <1>2
<1>4. ASSUME NEW i \in 1..n, i - 1 \in P PROVE i \in P
  <2>1. ends[i] = ends[i - 1] + Len(Vlq(Delta(shorts, i))) + Len(Wire(shorts[i].packet))
    <3>1. LaidAt(shorts, ends, track, i)
      BY DEF Laid
    <3> QED BY <3>1 DEF LaidAt
  <2>2. Delta(shorts, i) \in Nat
    BY TicksFit
  <2>3. shorts[i].packet \in ShortPackets
    <3>1. shorts[i] \in ShortEvents
      OBVIOUS
    <3> QED BY <3>1 DEF ShortEvents
  <2>4. PICK k \in 1..4 : k = Len(Vlq(Delta(shorts, i)))
    BY <2>2, VlqType
  <2>5. PICK size \in Nat : size = Len(Wire(shorts[i].packet))
    <3>1. DataLen(shorts[i].packet.status) \in 0..2 /\ Len(Wire(shorts[i].packet)) = 1 + DataLen(shorts[i].packet.status)
      BY <2>3, WireBytes
    <3> QED BY <3>1
  <2>6. PICK e \in Nat : e = ends[i - 1] /\ e >= 7 + (i - 1)
    <3>1. i - 1 \in 0..n
      BY <1>1
    <3>2. ends[i - 1] \in Nat
      BY <1>2, <3>1
    <3>3. ends[i - 1] >= 7 + (i - 1)
      BY <1>4
    <3> QED BY <3>2, <3>3
  <2>7. ends[i] = e + k + size
    BY <2>1, <2>4, <2>5, <2>6
  <2>8. e + k + size >= 7 + i
    <3>1. i \in Nat /\ i >= 1
      BY <1>1
    <3>2. e >= 6 + i
      BY <2>6, <3>1
    <3> QED BY SMTT(20), <2>4, <2>5, <2>6, <3>1, <3>2
  <2>9. i \in 0..n
    BY <1>1
  <2> QED BY <2>7, <2>8, <2>9
<1>5. \A i \in 0..n : i \in P
  <2> HIDE DEF P, n
  <2> QED BY <1>1, <1>3, <1>4, Climbs
<1>6. ends[n] >= 7 + n /\ ends[n] \in Nat
  <2>1. n \in 0..n
    BY <1>1
  <2> QED BY <1>2, <1>5, <2>1
<1> QED BY <1>1, <1>2, <1>6

\* A track that was written is read back, message for message.
PlayedBack(shorts, read) ==
  ~ read.bad /\ ReadSoFar(shorts, read.out, Len(shorts))

LEMMA Replayed ==
  ASSUME NEW shorts \in Seq(ShortEvents), NEW ends, NEW track, Laid(shorts, ends, track),
         \A i \in 1..Len(shorts) : shorts[i].packet.status # 255
  PROVE  PlayedBack(shorts, events_from_smf0(track))
<1>1. PICK n \in Nat, m \in Nat : n = Len(shorts) /\ m = Len(track) + 1 /\ n + 2 <= m
  <2>1. Len(shorts) \in Nat /\ Len(track) \in Nat /\ Len(track) >= Len(shorts) + 11
    BY LongEnough
  <2>2. PICK a \in Nat, b \in Nat : a = Len(shorts) /\ b = Len(track) /\ b >= a + 11
    BY <2>1
  <2>3. b + 1 \in Nat /\ a + 2 <= b + 1
    BY <2>2
  <2> QED BY <2>2, <2>3
<1>2. track \in Seq(Nat) /\ Len(track) \in Nat
  BY LongEnough
<1>3. PICK f : f = [i \in 0..m |-> RoundStep(track, f, i)] /\ events_from_smf0(track) = f[m]
  BY ZenonT(30), <1>1, <1>2, Rounds
<1>4. f[0] = Reader0 /\ \A i \in 1..m : f[i] = IF f[i - 1].over THEN f[i - 1] ELSE ReadOne(track, f[i - 1])
  <2>1. \A i \in 0..m : f[i] = RoundStep(track, f, i)
    BY <1>3
  <2>2. 0 \in 0..m /\ \A i \in 1..m : i \in 0..m /\ i # 0
    BY <1>1
  <2>3. f[0] = Reader0
    BY <2>1, <2>2 DEF RoundStep
  <2>4. ASSUME NEW i \in 1..m PROVE f[i] = IF f[i - 1].over THEN f[i - 1] ELSE ReadOne(track, f[i - 1])
    <3>1. f[i] = RoundStep(track, f, i) /\ i # 0
      BY <2>1, <2>2
    <3> QED BY <3>1 DEF RoundStep
  <2> QED BY <2>3, <2>4
<1>5. PICK no : no = FALSE
  OBVIOUS
<1>6. ASSUME NEW i \in 0..n, NEW r, ReadUpTo(shorts, ends, r, i, no) PROVE ~ r.over
  <2>1. PICK tick, running, out : r = ReaderAt(ends[i] + 1, tick, running, out, no, no)
    BY <1>6 DEF ReadUpTo
  <2>2. r.over = no
    BY <2>1, Fields
  <2> QED BY <1>5, <2>2
<1> DEFINE P == {i \in 0..n : ReadUpTo(shorts, ends, f[i + 1], i, no)}
<1>7. 0 \in P
  <2>1. Reader0 = ReaderAt(1, 0, 0, <<>>, no, no)
    BY <1>5 DEF Reader0, ReaderAt
  <2>2. ReadOne(track, Reader0) = ReaderAt(8, 0, 0, <<>>, no, no)
    <3>1. Standing(Tempo, track, 1)
      BY DEF Laid
    <3> QED BY <1>2, <2>1, <3>1, TempoRead
  <2>3. ~ Reader0.over
    BY DEF Reader0
  <2>4. f[1] = ReadOne(track, Reader0)
    <3>1. 1 \in 1..m /\ 1 - 1 = 0
      BY <1>1
    <3> QED BY <1>4, <2>3, <3>1
  <2>5. ends[0] + 1 = 8
    <3>1. ends[0] = 7
      BY DEF Laid
    <3> QED BY <3>1
  <2>6. ReadSoFar(shorts, <<>>, 0)
    <3>1. <<>> \in Seq(ReadEvents) /\ Len(<<>>) = 0 /\ 1..0 = {}
      OBVIOUS
    <3> QED BY <3>1 DEF ReadSoFar
  <2>7. ReadUpTo(shorts, ends, f[1], 0, no)
    <3>1. f[1] = ReaderAt(ends[0] + 1, 0, 0, <<>>, no, no) /\ 0 \in Nat
      BY <2>2, <2>4, <2>5
    <3> QED BY <2>6, <3>1 DEF ReadUpTo
  <2>8. 0 + 1 = 1 /\ 0 \in 0..n
    BY <1>1
  <2> QED BY <2>7, <2>8
<1>8. ASSUME NEW i \in 1..n, i - 1 \in P PROVE i \in P
  <2>1. i \in 1..Len(shorts) /\ i - 1 \in 0..n /\ i \in 0..n /\ i - 1 + 1 = i /\ i + 1 \in 1..m /\ i + 1 - 1 = i
    BY <1>1
  <2>2. ReadUpTo(shorts, ends, f[i], i - 1, no)
    BY <1>8, <2>1
  <2> HIDE DEF P
  <2>3. ~ f[i].over
    BY <1>6, <2>1, <2>2
  <2>4. f[i + 1] = ReadOne(track, f[i])
    BY <1>4, <2>1, <2>3
  <2>5. shorts[i].packet.status # 255
    BY <2>1
  <2>6. ReadUpTo(shorts, ends, ReadOne(track, f[i]), i, no)
    BY <2>1, <2>2, <2>5, MessagesRead
  <2> QED BY <2>1, <2>4, <2>6 DEF P
<1>9. ReadUpTo(shorts, ends, f[n + 1], n, no)
  <2>1. \A i \in 0..n : i \in P
    <3> HIDE DEF P
    <3> QED BY <1>1, <1>7, <1>8, Climbs
  <2>2. n \in 0..n
    BY <1>1
  <2> QED BY <2>1, <2>2
<1> HIDE DEF P
<1>10. PICK tick, running, out :
         /\ tick \in Nat /\ f[n + 1] = ReaderAt(ends[n] + 1, tick, running, out, no, no)
         /\ ReadSoFar(shorts, out, n)
  BY <1>9 DEF ReadUpTo
<1>11. PICK pos \in Nat \ {0} : pos = ends[n] + 1 /\ Standing(EndOfTrack, track, pos)
  <2>1. ends \in [0..Len(shorts) -> Nat] /\ Standing(EndOfTrack, track, ends[Len(shorts)] + 1)
    BY DEF Laid
  <2>2. n \in 0..Len(shorts)
    BY <1>1
  <2>3. PICK e \in Nat : e = ends[n]
    BY <2>1, <2>2
  <2> QED BY <1>1, <2>1, <2>3
<1>12. PICK yes : yes = TRUE
  OBVIOUS
<1>13. f[n + 2] = ReaderAt(pos + 2, tick, running, out, yes, no)
  <2>1. n + 2 \in 1..m /\ n + 2 - 1 = n + 1 /\ n \in 0..n
    BY <1>1
  <2>2. ~ f[n + 1].over
    BY <1>6, <1>9, <2>1
  <2>3. f[n + 2] = ReadOne(track, f[n + 1])
    BY <1>4, <2>1, <2>2
  <2>4. ReadOne(track, ReaderAt(pos, tick, running, out, no, no)) = ReaderAt(pos + 2, tick, running, out, yes, no)
    <3>1. EndsHere(track, pos, tick, running, out, no, no)
      <4> HIDE <1>12
      <4> QED BY <1>2, <1>10, <1>11, EndRead
    <3> QED BY <1>12, <3>1, Zenon DEF EndsHere
  <2>5. f[n + 1] = ReaderAt(pos, tick, running, out, no, no)
    <3> HIDE <1>12
    <3> QED BY <1>10, <1>11
  <2> HIDE <1>12
  <2> QED BY <2>3, <2>4, <2>5
<1>14. f[n + 2].over /\ f[n + 2].out = out /\ f[n + 2].bad = no
  <2>1. f[n + 2].over = yes /\ f[n + 2].out = out /\ f[n + 2].bad = no
    <3> HIDE <1>12
    <3> QED BY <1>13, Fields
  <2> QED BY <1>12, <2>1
<1> DEFINE Q == {j \in Nat : f[n + 2 + j] = f[n + 2]}
<1>15. f[m] = f[n + 2]
  <2>1. PICK rest \in Nat : m = n + 2 + rest
    <3>1. m - (n + 2) \in Nat /\ m = n + 2 + (m - (n + 2))
      BY <1>1
    <3> QED BY <3>1
  <2>2. 0 \in Q
    BY <1>1
  <2>3. ASSUME NEW j \in 1..rest, j - 1 \in Q PROVE j \in Q
    <3>1. n + 2 + j \in 1..m /\ (n + 2 + j) - 1 = n + 2 + (j - 1) /\ j \in Nat
      BY <1>1, <2>1
    <3>2. f[n + 2 + (j - 1)] = f[n + 2]
      BY <2>3
    <3>3. f[n + 2 + j] = f[n + 2 + (j - 1)]
      BY <1>4, <1>14, <3>1, <3>2
    <3> QED BY <3>1, <3>2, <3>3
  <2>4. \A j \in 0..rest : j \in Q
    <3> HIDE DEF Q
    <3> QED BY <2>1, <2>2, <2>3, Climbs
  <2>5. rest \in 0..rest
    BY <2>1
  <2> QED BY <2>1, <2>4, <2>5
<1> QED BY <1>1, <1>3, <1>5, <1>10, <1>14, <1>15 DEF PlayedBack

\* What is recorded plays back: the messages of a recording are read from the
\* file it is written to, each as it was, and none is lost or added.  In the
\* order of their times, each is at its tick.
THEOREM RecordingsPlayBack == PathSpec => []RecordingPlaysBack
<1>1. RecordTypes => RecordingPlaysBack
  <2> SUFFICES ASSUME RecordTypes PROVE RecordingPlaysBack
    OBVIOUS
  <2> DEFINE shorts == Shorts(recorded)
             read == events_from_smf0(write_smf0(recorded))
  <2>1. shorts \in Seq(ShortEvents)
    <3>1. recorded \in Seq(TimedCaptures)
      BY DEF RecordTypes
    <3> QED BY <3>1, ShortsOfAll
  <2>2. PICK ends : Laid(shorts, ends, write_smf0(recorded))
    BY <2>1, TrackLaid
  <2>3. DOMAIN shorts = 1..Len(shorts)
    BY <2>1
  <2>4. ASSUME \A i \in DOMAIN shorts : shorts[i].packet.status # 255
        PROVE  /\ ~ read.bad
               /\ [i \in DOMAIN read.out |-> read.out[i].packet] = [i \in DOMAIN shorts |-> shorts[i].packet]
               /\ Ordered(shorts) => \A i \in DOMAIN shorts : read.out[i].time = tick_to_nanos(TickOf(shorts, i))
    <3> HIDE DEF shorts
    <3>1. PlayedBack(shorts, read)
      BY <2>1, <2>2, <2>3, <2>4, Replayed
    <3> HIDE DEF read
    <3>2. ~ read.bad /\ ReadSoFar(shorts, read.out, Len(shorts))
      BY <3>1 DEF PlayedBack
    <3>3. DOMAIN read.out = 1..Len(shorts)
      BY <3>2 DEF ReadSoFar
    <3>4. \A i \in 1..Len(shorts) : read.out[i].packet = shorts[i].packet
      BY <3>2 DEF ReadSoFar
    <3>5. Ordered(shorts) => \A i \in 1..Len(shorts) : read.out[i].time = tick_to_nanos(TickOf(shorts, i))
      BY <3>2 DEF ReadSoFar
    <3> QED BY <2>3, <3>2, <3>3, <3>4, <3>5
  <2>5. Ordered(shorts) = (\A i, j \in DOMAIN shorts : i <= j => shorts[i].time <= shorts[j].time)
    BY DEF Ordered
  <2> QED BY <2>4, <2>5 DEF RecordingPlaysBack
<1> QED BY <1>1, RecordTyped, RecordGoesOn, PTL DEF PathSpec
=============================================================================

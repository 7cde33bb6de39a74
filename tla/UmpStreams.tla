----------------------------- MODULE UmpStreams -----------------------------
(***************************************************************************)
(* Texts and data that come in several packets: the names of a UMP stream  *)
(* (crates/midi-forge-core/src/ump_stream.rs), Flex Data texts (flex.rs)   *)
(* and SysEx8 (sysex8.rs), and what StreamTracker knows of an endpoint.    *)
(* Packets of several texts interleave, some are lost, and a sender may    *)
(* stop in the middle.                                                     *)
(*                                                                         *)
(* A text is a number and so many pieces; a piece is <<stream, text,       *)
(* part>>, its bytes are left out.                                         *)
(***************************************************************************)
EXTENDS Integers, Sequences, FiniteSets

CONSTANTS
  TextStreams,   \* what texts are sent on: [kind, group, id]
  MaxTexts,      \* bound: texts on one stream
  MaxPieces      \* bound: pieces of one text

\* The packets of a name or a product id carry nothing else to tell streams
\* apart by, those of a function block's name the block.
ASSUME UmpStreamsAssumption ==
  /\ TextStreams \subseteq
       [kind : {"name", "product"}, group : {0}, id : {0}] \cup [kind : {"block"}, group : {0}, id : 0..127]
       \cup [kind : {"flex", "sysex8"}, group : 0..15, id : Nat]
  /\ MaxTexts \in Nat \ {0} /\ MaxPieces \in Nat \ {0}

VARIABLES
  sending,     \* by stream, the packets of its text that are still to come
  texts,       \* by stream, how many were begun
  missing,     \* by stream, that a packet of it was lost
  buffers,     \* what the assemblers hold: a function from their keys
  delivered,   \* by stream, the last text an assembler returned, as pieces
  endpoint     \* StreamTracker's snapshot

streamVars == <<sending, texts, missing, buffers, delivered, endpoint>>

NoBlock(id) == [id |-> id, first_group |-> 0, n_groups |-> 0, midi1 |-> FALSE, midi2 |-> FALSE, direction |-> 0, name |-> <<>>]
NoEndpoint ==
  [midi1 |-> FALSE, midi2 |-> FALSE, jr |-> {}, protocol |-> 0, identity |-> FALSE, blocks |-> <<>>]

StreamsInit ==
  /\ sending = [s \in TextStreams |-> <<>>]
  /\ texts = [s \in TextStreams |-> 0]
  /\ missing = [s \in TextStreams |-> FALSE]
  /\ buffers = <<>>
  /\ delivered = [s \in TextStreams |-> <<>>]
  /\ endpoint = NoEndpoint

-----------------------------------------------------------------------------
(* The sender.  sysex8_packets and flex_text split alike; names are sent   *)
(* by a device that does the same.                                         *)

Form(part, n) ==
  CASE part = 1 /\ n = 1 -> "complete"
    [] part = 1 /\ n > 1 -> "start"
    [] part \in 2..(n - 1) -> "continue"
    [] part = n /\ n > 1 -> "end"

Split(s, text, n) == [part \in 1..n |-> [form |-> Form(part, n), piece |-> <<s, text, part>>]]

Send(s, n) ==
  /\ sending[s] = <<>> /\ texts[s] < MaxTexts
  /\ texts' = [texts EXCEPT ![s] = @ + 1]
  /\ sending' = [sending EXCEPT ![s] = Split(s, texts[s] + 1, n)]
  /\ UNCHANGED <<missing, buffers, delivered, endpoint>>

Abandon(s) ==
  /\ sending[s] # <<>>
  /\ sending' = [sending EXCEPT ![s] = <<>>]
  /\ UNCHANGED <<texts, missing, buffers, delivered, endpoint>>

\* A full queue, or an input that is opened in the middle.
Lose(s) ==
  /\ sending[s] # <<>>
  /\ sending' = [sending EXCEPT ![s] = Tail(@)]
  /\ missing' = [missing EXCEPT ![s] = TRUE]
  /\ UNCHANGED <<texts, buffers, delivered, endpoint>>

-----------------------------------------------------------------------------
(* The assemblers.                                                         *)

\* Bug: one SysEx8 at a time in a group.
OneAGroup(s) == IF s.kind = "sysex8" THEN <<s.kind, s.group>> ELSE <<s.kind, s.group, s.id>>

\* What open texts are told apart by.  There is one name and one product id,
\* and a name for each function block; Flex texts are told apart by group,
\* address and kind, SysEx8 by group and stream id.
AssemblyKey(s) ==
  CASE s.kind \in {"name", "product"} -> <<s.kind>>
    [] s.kind = "block" -> <<s.kind, s.id>>
    [] s.kind \in {"flex", "sysex8"} -> <<s.kind, s.group, s.id>>

BufferWithout(key) == [k \in (DOMAIN buffers) \ {key} |-> buffers[k]]
BufferWith(key, pieces) == [k \in (DOMAIN buffers) \cup {key} |-> IF k = key THEN pieces ELSE buffers[k]]

Returned(s, pieces) == [delivered EXCEPT ![s] = pieces]

Complete(s, p) ==
  p.form = "complete" /\ buffers' = BufferWithout(AssemblyKey(s)) /\ delivered' = Returned(s, <<p.piece>>)

Start(s, p) ==
  p.form = "start" /\ buffers' = BufferWith(AssemblyKey(s), <<p.piece>>) /\ delivered' = delivered

\* assemble: a name goes on, and ends, although its beginning was not seen ...
NameHeld(s) == IF AssemblyKey(s) \in DOMAIN buffers THEN buffers[AssemblyKey(s)] ELSE <<>>

ContinueName(s, p) ==
  p.form = "continue" /\ buffers' = BufferWith(AssemblyKey(s), Append(NameHeld(s), p.piece)) /\ delivered' = delivered

EndName(s, p) ==
  p.form = "end" /\ buffers' = BufferWithout(AssemblyKey(s)) /\ delivered' = Returned(s, Append(NameHeld(s), p.piece))

\* ... and the others refuse what does not go on with anything.
ContinueText(s, p) ==
  /\ p.form = "continue"
  /\ IF AssemblyKey(s) \in DOMAIN buffers
     THEN buffers' = BufferWith(AssemblyKey(s), Append(buffers[AssemblyKey(s)], p.piece))
     ELSE buffers' = buffers
  /\ delivered' = delivered

EndText(s, p) ==
  /\ p.form = "end"
  /\ buffers' = BufferWithout(AssemblyKey(s))
  /\ delivered' = IF AssemblyKey(s) \in DOMAIN buffers
                  THEN Returned(s, Append(buffers[AssemblyKey(s)], p.piece)) ELSE delivered

\* upsert_block: the block of that id, added if there is none.
Upserted(id) ==
  IF \E i \in DOMAIN endpoint.blocks : endpoint.blocks[i].id = id THEN endpoint.blocks
  ELSE Append(endpoint.blocks, NoBlock(id))
BlockAt(id) == CHOOSE i \in DOMAIN Upserted(id) : Upserted(id)[i].id = id

\* A block's name is kept with the block, which it may be the first to name.
Named(s) ==
  endpoint' = IF s.kind = "block" /\ delivered' # delivered
              THEN [endpoint EXCEPT !.blocks = [Upserted(s.id) EXCEPT ![BlockAt(s.id)].name = delivered'[s]]]
              ELSE endpoint

FeedName(s, p) == Complete(s, p) \/ Start(s, p) \/ ContinueName(s, p) \/ EndName(s, p)
FeedText(s, p) == Complete(s, p) \/ Start(s, p) \/ ContinueText(s, p) \/ EndText(s, p)

Arrives(s) ==
  /\ sending[s] # <<>>
  /\ sending' = [sending EXCEPT ![s] = Tail(@)]
  /\ IF s.kind \in {"name", "product", "block"} THEN FeedName(s, sending[s][1]) ELSE FeedText(s, sending[s][1])
  /\ Named(s)
  /\ UNCHANGED <<texts, missing>>

-----------------------------------------------------------------------------
(* What an endpoint tells of itself.                                       *)

\* A protocol byte: its second bit is MIDI 2.0, its first MIDI 1.0.
Protocol(byte) ==
  IF (byte \div 2) % 2 = 1 THEN 2 ELSE IF byte % 2 = 1 THEN 1 ELSE endpoint.protocol

Told == UNCHANGED <<sending, texts, missing, buffers, delivered>>

\* Endpoint Info: a device that speaks both is taken to speak MIDI 2.0 now.
EpInfo(protocols, jr) ==
  /\ endpoint' = [endpoint EXCEPT !.midi1 = protocols % 2 = 1, !.midi2 = (protocols \div 2) % 2 = 1,
                                  !.jr = jr, !.protocol = Protocol(protocols)]
  /\ Told

\* Stream Configuration, requested or notified.
StreamCfg(protocol) == endpoint' = [endpoint EXCEPT !.protocol = Protocol(protocol)] /\ Told

Identity == endpoint' = [endpoint EXCEPT !.identity = TRUE] /\ Told

\* Function Block Info; midi10 is 0 for a block that is not MIDI 1.0.
FbInfo(id, first_group, n_groups, midi10, direction) ==
  LET block == [Upserted(id)[BlockAt(id)] EXCEPT
                  !.first_group = first_group, !.n_groups = n_groups,
                  !.midi1 = midi10 \in {1, 2}, !.midi2 = midi10 = 0, !.direction = direction]
  IN endpoint' = [endpoint EXCEPT !.blocks = [Upserted(id) EXCEPT ![BlockAt(id)] = block]] /\ Told

StreamsNext ==
  \/ \E s \in TextStreams : (\E n \in 1..MaxPieces : Send(s, n)) \/ Abandon(s) \/ Lose(s) \/ Arrives(s)
  \/ \E protocols \in 0..255, jr \in SUBSET {"tx", "rx"} : EpInfo(protocols, jr)
  \/ \E protocol \in 0..255 : StreamCfg(protocol)
  \/ Identity
  \/ \E id \in 0..127, first, n, midi10, direction \in 0..255 : FbInfo(id, first, n, midi10, direction)

StreamsSpec == StreamsInit /\ [][StreamsNext]_streamVars

-----------------------------------------------------------------------------
(* Properties.                                                             *)

\* What is returned is one text from its first piece to its last, unless a
\* packet of its stream was lost; never a piece of another stream's; a Flex
\* text or SysEx8 at least begins with its beginning; and a block keeps the
\* name that came for it, once however its name and its data come.
AssembledWhole ==
  /\ \A s \in TextStreams :
       LET text == delivered[s]
       IN text # <<>> =>
            /\ \A i \in DOMAIN text : text[i][1] = s
            /\ ~ missing[s] => \E n \in 1..MaxPieces, k \in 1..texts[s] : text = [i \in 1..n |-> <<s, k, i>>]
            /\ s.kind \in {"flex", "sysex8"} => text[1][3] = 1
            /\ s.kind = "block" => \E i \in DOMAIN endpoint.blocks :
                                     endpoint.blocks[i].id = s.id /\ endpoint.blocks[i].name = text
  /\ \A i, j \in DOMAIN endpoint.blocks : endpoint.blocks[i].id = endpoint.blocks[j].id => i = j
=============================================================================

------------------------------ MODULE SysexThru ------------------------------
(***************************************************************************)
(* SysEx through the engine: every captured SysEx7 packet goes to the      *)
(* librarian's assembler and, over the links, to one assembler per output  *)
(* (EngineInner::thru_sysex), which hands whole dumps to the backend.      *)
(*                                                                         *)
(* Instruments send dumps of several packets, interleaved with each other. *)
(* A packet is the number of its dump and its place in it; what an         *)
(* assembler holds is the sequence of packets whose payload it holds.      *)
(***************************************************************************)
EXTENDS Naturals, Sequences

CONSTANTS
  Inputs,      \* capture ports, each with one instrument
  Outputs,     \* destination ports
  Wiring,      \* links the user makes in this instance
  UserOps,     \* controls the user touches, and mishaps, in this instance
  Faulty,      \* outputs whose driver may refuse a dump
  MaxPackets,  \* bound: packets of a dump
  MaxDumps     \* bound: dumps begun in a behaviour

VARIABLES
  sending,       \* the dump each instrument is in
  links,         \* Router.links
  open_outputs,
  thru_sysex,    \* the assembler of each output
  armed,         \* Librarian.armed
  assembler,     \* Librarian.assembler
  dumps,         \* Librarian.dumps
  wire,          \* dumps handed to each output's driver
  nextDump,      \* ghost: number of the next dump
  finished       \* ghost: dumps whose last packet was sent

control   == <<links, open_outputs, armed>>
librarian == <<assembler, dumps>>
vars      == <<sending, control, thru_sysex, librarian, wire, nextDump, finished>>

Packets == [dump : Nat, k : Nat, of : Nat]

ASSUME SysexConstants ==
  /\ Wiring \subseteq Inputs \X Outputs
  /\ Faulty \subseteq Outputs
  /\ MaxPackets \in Nat \ {0} /\ MaxDumps \in Nat

(* SysexDump::to_ump_packets: the status of a packet by its place.         *)
Place(p) ==
  CASE p.of = 1 -> "complete"
    [] p.of > 1 /\ p.k = 1 -> "start"
    [] p.of > 1 /\ p.k = p.of -> "end"
    [] OTHER -> "continue"

-----------------------------------------------------------------------------
(* SysexAssembler::push                                                    *)

Closed == [buf |-> << >>, open |-> FALSE]

(* The assembler after a packet ...                                        *)
(* Mutants of Push: a start keeps what an unfinished dump left behind;     *)
(* packets are taken without a start.                                      *)
PushAppends(a, p) ==
  CASE Place(p) = "start" -> [buf |-> Append(a.buf, p), open |-> TRUE]
    [] Place(p) = "continue" /\ a.open -> [a EXCEPT !.buf = Append(@, p)]
    [] OTHER -> Closed

PushUnopened(a, p) ==
  CASE Place(p) = "start" -> [buf |-> <<p>>, open |-> TRUE]
    [] Place(p) = "continue" -> [buf |-> Append(a.buf, p), open |-> TRUE]
    [] OTHER -> Closed

Push(a, p) ==
  CASE Place(p) = "start" -> [buf |-> <<p>>, open |-> TRUE]
    [] Place(p) = "continue" /\ a.open -> [a EXCEPT !.buf = Append(@, p)]
    [] OTHER -> Closed

(* ... and the dump it returns: a packet sequence, or none.                *)
Returned(a, p) ==
  CASE Place(p) = "complete" -> {<<p>>}
    [] Place(p) = "end" /\ a.open -> {Append(a.buf, p)}
    [] OTHER -> {}

-----------------------------------------------------------------------------
(* Instruments                                                             *)

(* An instrument begins a dump of n packets; one that was in the middle of *)
(* another has been cut off (unplugged, reset).                            *)
Begin(i, n) ==
  /\ nextDump <= MaxDumps
  /\ sending[i].at < sending[i].of => "cut" \in UserOps
  /\ sending' = [sending EXCEPT ![i] = [dump |-> nextDump, at |-> 0, of |-> n]]
  /\ nextDump' = nextDump + 1
  /\ UNCHANGED <<control, thru_sysex, librarian, wire, finished>>

(* The next packet of the dump leaves the instrument.                      *)
Leaves(i) ==
  LET s == sending[i]
  IN  /\ s.at < s.of
      /\ sending' = [sending EXCEPT ![i].at = s.at + 1]
      /\ finished' = IF s.at + 1 = s.of THEN finished \cup {s.dump} ELSE finished
      /\ UNCHANGED nextDump

Following(i) == [dump |-> sending[i].dump, k |-> sending[i].at + 1, of |-> sending[i].of]

(* A packet lost to a full capture queue (the backends drop the newest).   *)
Lose(i) ==
  /\ "lose" \in UserOps
  /\ Leaves(i)
  /\ UNCHANGED <<control, thru_sysex, librarian, wire>>

-----------------------------------------------------------------------------
(* drain_capture, for one SysEx packet                                     *)

(* Librarian::on_packet                                                    *)
OnPacket(p) ==
  IF armed
  THEN /\ assembler' = Push(assembler, p)
       /\ dumps' = dumps \cup Returned(assembler, p)
  ELSE UNCHANGED librarian

Reached(i) == {o \in open_outputs : <<i, o>> \in links}

(* Mutant of Entry: one assembler for all outputs.                         *)
EntryShared(o) == CHOOSE q \in Outputs : TRUE

(* thru_sysex is keyed by the destination.                                 *)
Entry(o) == o

(* A refused dump is gone: its assembler is closed already.                *)
Forward(i, p) ==
  /\ thru_sysex' = [o \in Outputs |->
       IF \E q \in Reached(i) : Entry(q) = o THEN Push(thru_sysex[o], p) ELSE thru_sysex[o]]
  /\ \E refused \in SUBSET Faulty :
       wire' = [o \in Outputs |->
         IF o \in Reached(i) \ refused
         THEN LET d == Returned(thru_sysex[Entry(o)], p)
              IN  IF d = {} THEN wire[o] ELSE Append(wire[o], CHOOSE x \in d : TRUE)
         ELSE wire[o]]

DrainPacket(i) ==
  /\ Leaves(i)
  /\ OnPacket(Following(i))
  /\ Forward(i, Following(i))
  /\ UNCHANGED control

-----------------------------------------------------------------------------
(* User controls                                                           *)

Unchanging == <<sending, thru_sysex, wire, nextDump, finished>>

Link(i, o) ==
  /\ "link" \in UserOps /\ <<i, o>> \in Wiring
  /\ links' = links \cup {<<i, o>>}
  /\ open_outputs' = open_outputs \cup {o}
  /\ UNCHANGED <<Unchanging, armed, librarian>>

Unlink(i, o) ==
  /\ "unlink" \in UserOps /\ <<i, o>> \in links
  /\ links' = links \ {<<i, o>>}
  /\ UNCHANGED <<Unchanging, open_outputs, armed, librarian>>

(* Neither closing an output nor opening it again resets its assembler.    *)
SetOutputOpen(o, b) ==
  /\ "close" \in UserOps
  /\ open_outputs' = IF b THEN open_outputs \cup {o} ELSE open_outputs \ {o}
  /\ UNCHANGED <<Unchanging, links, armed, librarian>>

(* "Arm receive".                                                          *)
Arm(b) ==
  /\ IF b THEN "arm" \in UserOps ELSE "disarm" \in UserOps
  /\ armed' = b
  /\ UNCHANGED <<Unchanging, links, open_outputs, librarian>>

(* "Clear dumps" also resets the assembler.                                *)
ClearDumps ==
  /\ "clear" \in UserOps
  /\ dumps' = {} /\ assembler' = Closed
  /\ UNCHANGED <<Unchanging, control>>

-----------------------------------------------------------------------------
Init ==
  /\ sending = [i \in Inputs |-> [dump |-> 0, at |-> 0, of |-> 0]]
  /\ links = {} /\ open_outputs = {} /\ armed = FALSE
  /\ thru_sysex = [o \in Outputs |-> Closed]
  /\ assembler = Closed /\ dumps = {}
  /\ wire = [o \in Outputs |-> << >>]
  /\ nextDump = 1 /\ finished = {}

Next ==
  \/ \E i \in Inputs : \/ \E n \in 1..MaxPackets : Begin(i, n)
                       \/ Lose(i)
                       \/ DrainPacket(i)
  \/ \E i \in Inputs, o \in Outputs : Link(i, o) \/ Unlink(i, o)
  \/ \E b \in BOOLEAN : Arm(b) \/ (\E o \in Outputs : SetOutputOpen(o, b))
  \/ ClearDumps

Spec == Init /\ [][Next]_vars

-----------------------------------------------------------------------------
(* Properties                                                              *)

Assemblers == [buf : Seq(Packets), open : BOOLEAN]

(* Every variable holds packets, assemblers or dumps of the right kind,    *)
(* and an assembler that is not in a dump holds no memory of one.          *)
TypeOK ==
  /\ sending \in [Inputs -> [dump : Nat, at : Nat, of : Nat]]
  /\ links \subseteq Wiring /\ open_outputs \subseteq Outputs
  /\ armed \in BOOLEAN
  /\ thru_sysex \in [Outputs -> Assemblers]
  /\ assembler \in Assemblers /\ dumps \subseteq Seq(Packets)
  /\ wire \in [Outputs -> Seq(Seq(Packets))]
  /\ nextDump \in Nat \ {0} /\ finished \subseteq Nat
  /\ \A a \in {thru_sysex[o] : o \in Outputs} \cup {assembler} : ~a.open => a = Closed

(* All packets of one dump, in order, and nothing else.                    *)
FirstOf(d, k, n) == [j \in 1..k |-> [dump |-> d, k |-> j, of |-> n]]

Whole(b) == \E d \in 1..(nextDump - 1), n \in 1..MaxPackets : b = FirstOf(d, n, n)

(* sysex.rs: "Reassemble UMP SysEx7 packets into complete dumps."  What    *)
(* thru sends to an output is a dump some instrument sent, whole ...       *)
ThruDumpsAreWhole == \A o \in Outputs : \A k \in 1..Len(wire[o]) : Whole(wire[o][k])

(* ... and so is what the librarian keeps, armed or cleared in mid-dump,   *)
(* unless packets of two dumps met in its one assembler for all inputs.    *)
LibrarianDumpsAreWhole ==
  \A b \in dumps : Whole(b) \/ \E j, k \in 1..Len(b) : b[j].dump # b[k].dump

(* Whatever mishap befell it, a dump starts with a start packet, ends with *)
(* an end packet, and has neither in between.                              *)
Framed(b) ==
  /\ Place(b[1]) = (IF Len(b) = 1 THEN "complete" ELSE "start")
  /\ Len(b) > 1 => Place(b[Len(b)]) = "end"
  /\ \A k \in 2..(Len(b) - 1) : Place(b[k]) = "continue"

DumpsAreFramed ==
  /\ \A o \in Outputs : \A k \in 1..Len(wire[o]) : Framed(wire[o][k])
  /\ \A b \in dumps : Framed(b)

(* Outputs fed by one instrument each: the thru path relays whole dumps,   *)
(* each at most once, in the order in which they were finished.            *)
Identify(b) == IF Whole(b) THEN b[1].dump ELSE 0

Heard == [o \in Outputs |-> [k \in 1..Len(wire[o]) |-> Identify(wire[o][k])]]

Relay == INSTANCE DumpRelay WITH received <- Heard, Dumps <- 1..MaxDumps

RelaysDumps == Relay!Spec

(* Strengthenings for outputs with one source and controls that only ever  *)
(* join them: dumps are numbered in the order they begin and finish once;  *)
(* an open assembler holds what its source has sent so far, or what a dump *)
(* that was cut off left, and then the source is about to start another.   *)
OneSourceEach == \A i, j \in Inputs, o \in Outputs : <<i, o>> \in Wiring /\ <<j, o>> \in Wiring => i = j

SendInv ==
  /\ nextDump <= MaxDumps + 1 /\ finished \subseteq 1..(nextDump - 1)
  /\ \A i \in Inputs :
       LET s == sending[i]
       IN  /\ s.dump < nextDump /\ s.at <= s.of /\ s.of <= MaxPackets
           /\ s.at < s.of => s.dump > 0 /\ s.dump \notin finished
  /\ \A i, j \in Inputs : i # j /\ sending[i].dump = sending[j].dump => sending[i].dump = 0

HeldBy(o, s) ==
  s.at = 0 \/ (s.at < s.of /\ thru_sysex[o].buf = FirstOf(s.dump, s.at, s.of))

HoldInv ==
  /\ \A i \in Inputs, o \in Outputs : <<i, o>> \in links => o \in open_outputs
  /\ \A o \in Outputs : thru_sysex[o].open =>
       \E i \in Inputs : <<i, o>> \in links /\ HeldBy(o, sending[i])

RelayInv == TypeOK /\ SendInv /\ HoldInv /\ ThruDumpsAreWhole
=============================================================================

---------------------------- MODULE Midi1Parser -----------------------------
(***************************************************************************)
(* The MIDI 1.0 bytestream parser (Midi1Parser::push_byte) and the SysEx7  *)
(* assembler that reads its packets (SysexAssembler::push), fed one byte   *)
(* at a time with an arbitrary byte stream.                                *)
(*                                                                         *)
(* A byte is a data byte, which is its value, or a status byte, which is   *)
(* the name of its kind.  Packets carry Chunk payload bytes (6 in the      *)
(* code).  The ghost variables decode the same stream by its framing       *)
(* alone: what is between F0 and the byte that ends it, and the last       *)
(* status with the data bytes since.                                       *)
(***************************************************************************)
EXTENDS Naturals, Sequences

CONSTANTS
  DataBytes,   \* values of data bytes, all below 0x80
  Chunk,       \* payload bytes of a SysEx7 packet (6 in the code)
  SysexCap,    \* longest SysEx payload (65 536 in the code)
  None,        \* no status, no dump
  MaxRun       \* bound: data bytes after one status

VARIABLES
  running_status, current, data, need,   \* data has `got` members
  sysex, emitted, in_sysex,
  out,       \* the packets push_byte returned for the last byte
  buf, open, \* the assembler
  dump,      \* what the assembler returned for the last byte
  payload,   \* ghost: SysEx payload on the wire since F0
  sent,      \* ghost: the payload that the last byte completed
  last,      \* ghost: last status byte that was not real time
  since      \* ghost: data bytes since then

parser    == <<running_status, current, data, need, sysex, emitted, in_sysex>>
assembler == <<buf, open, dump>>
wire      == <<payload, sent, last, since>>
vars      == <<parser, out, assembler, wire>>

-----------------------------------------------------------------------------
Channel  == {"note", "program"}      \* 8n..Bn, En and Cn, Dn
System   == {"song", "tune", "F7"}   \* F1/F3, a status without data, a stray F7
RealTime == {"clock"}                \* F8..FE
Statuses == Channel \cup System \cup RealTime \cup {"F0", "FF"}
Bytes    == DataBytes \cup Statuses

data_len == [s \in Channel \cup System |->
               CASE s = "note" -> 2
                 [] s \in {"program", "song"} -> 1
                 [] OTHER -> 0]

ASSUME ParserConstants ==
  /\ DataBytes \cap (Statuses \cup {None}) = {}
  /\ None \notin Statuses \cup Seq(DataBytes)
  /\ Chunk \in Nat \ {0} /\ SysexCap \in Nat \ {0} /\ MaxRun \in Nat

Short(status, bytes) == [type |-> "short", status |-> status, bytes |-> bytes]
Sysex7(status, bytes) == [type |-> "sysex7", status |-> status, bytes |-> bytes]

-----------------------------------------------------------------------------
(* flush_sysex                                                             *)

Pending == SubSeq(sysex, emitted + 1, Len(sysex))

(* Mutant of Ended: a dump that fits one packet is not marked complete.    *)
EndedNeverComplete == IF Pending # << >> THEN <<Sysex7("end", Pending)>> ELSE << >>

(* Ended by a status byte: what is still pending, as the last packet.      *)
Ended ==
  IF Pending # << >> THEN <<Sysex7(IF emitted = 0 THEN "complete" ELSE "end", Pending)>>
  ELSE IF emitted = 0 THEN <<Sysex7("complete", << >>)>> ELSE << >>

(* After one more byte: a packet as soon as Chunk bytes are pending.       *)
Grow(b) ==
  LET pending == Append(Pending, b)
  IN  /\ sysex' = Append(sysex, b)
      /\ IF Len(pending) < Chunk
         THEN out' = << >> /\ UNCHANGED emitted
         ELSE /\ out' = <<Sysex7(IF emitted = 0 THEN "start" ELSE "continue", pending)>>
              /\ emitted' = Len(sysex')

LeaveSysex == sysex' = << >> /\ emitted' = 0 /\ in_sysex' = FALSE

-----------------------------------------------------------------------------
(* push_byte                                                               *)

(* System real time passes through whatever it interrupts.                 *)
OnRealTime(b) ==
  /\ b \in RealTime
  /\ out' = <<Short(b, << >>)>>
  /\ UNCHANGED parser

(* FF passes through and starts the parser afresh.                         *)
OnReset(b) ==
  /\ b = "FF"
  /\ out' = <<Short(b, << >>)>>
  /\ running_status' = None /\ current' = None /\ data' = << >> /\ need' = 0
  /\ LeaveSysex

(* Mutant of SysexByte: no cap.                                            *)
SysexByteUncapped(b) ==
  /\ in_sysex /\ b \in DataBytes
  /\ Grow(b)
  /\ UNCHANGED <<running_status, current, data, need, in_sysex>>

SysexByte(b) ==
  /\ in_sysex /\ b \in DataBytes /\ Len(sysex) < SysexCap
  /\ Grow(b)
  /\ UNCHANGED <<running_status, current, data, need, in_sysex>>

(* At the cap the dump is cut and the byte that hit it is dropped.         *)
SysexFull(b) ==
  /\ in_sysex /\ b \in DataBytes /\ Len(sysex) >= SysexCap
  /\ out' = Ended
  /\ LeaveSysex
  /\ UNCHANGED <<running_status, current, data, need>>

SysexEnd(b) ==
  /\ in_sysex /\ b = "F7"
  /\ out' = Ended
  /\ LeaveSysex
  /\ UNCHANGED <<running_status, current, data, need>>

Before == IF in_sysex THEN Ended ELSE << >>

(* F0, also one that cuts off an open dump.                                *)
SysexStart(b) ==
  /\ b = "F0"
  /\ out' = Before
  /\ running_status' = None /\ current' = None /\ data' = << >> /\ need' = 0
  /\ sysex' = << >> /\ emitted' = 0 /\ in_sysex' = TRUE

(* Any other status, also one that cuts off an open dump.                  *)
OnStatus(b) ==
  /\ b \in Channel \cup System /\ ~(in_sysex /\ b = "F7")
  /\ need' = data_len[b] /\ data' = << >>
  /\ running_status' = IF b \in Channel THEN b ELSE None
  /\ current' = IF b \in Channel \/ data_len[b] > 0 THEN b ELSE None
  /\ out' = Before \o (IF data_len[b] = 0 THEN <<Short(b, << >>)>> ELSE << >>)
  /\ LeaveSysex

Status == IF current # None THEN current ELSE running_status

(* Mutant of OnData: system common messages run on like channel messages.  *)
OnDataRuns(b) ==
  /\ b \in DataBytes /\ ~in_sysex
  /\ IF Status = None
     THEN out' = << >> /\ UNCHANGED parser
     ELSE LET n == IF need = 0 THEN data_len[Status] ELSE need
              d == Append(data, b)
          IN  /\ UNCHANGED <<running_status, current, sysex, emitted, in_sysex>>
              /\ need' = n
              /\ IF Len(d) < n THEN data' = d /\ out' = << >>
                 ELSE data' = << >> /\ out' = <<Short(Status, d)>>

(* A data byte outside SysEx; without a status it means nothing.           *)
OnData(b) ==
  /\ b \in DataBytes /\ ~in_sysex
  /\ IF Status = None
     THEN out' = << >> /\ UNCHANGED parser
     ELSE LET n == IF need = 0 THEN data_len[Status] ELSE need
              d == Append(data, b)
          IN  /\ UNCHANGED <<running_status, sysex, emitted, in_sysex>>
              /\ IF Len(d) < n
                 THEN data' = d /\ need' = n /\ out' = << >> /\ UNCHANGED current
                 ELSE /\ data' = << >> /\ out' = <<Short(Status, d)>>
                      /\ IF Status \in System THEN current' = None /\ need' = 0
                         ELSE current' = running_status /\ need' = n

Parse(b) ==
  OnRealTime(b) \/ OnReset(b) \/ SysexByte(b) \/ SysexFull(b) \/ SysexEnd(b)
    \/ SysexStart(b) \/ OnStatus(b) \/ OnData(b)

-----------------------------------------------------------------------------
(* SysexAssembler::push                                                    *)

(* Mutant of Start: what an unfinished dump left in the buffer stays.      *)
StartAppends(p) == buf' = buf \o p.bytes /\ open' = TRUE /\ dump' = None

Start(p) == buf' = p.bytes /\ open' = TRUE /\ dump' = None

Accept(p) ==
  CASE p.status = "complete" -> buf' = << >> /\ open' = FALSE /\ dump' = p.bytes
    [] p.status = "start" -> Start(p)
    [] p.status = "continue" /\ open -> buf' = buf \o p.bytes /\ dump' = None /\ UNCHANGED open
    [] p.status = "end" /\ open -> buf' = << >> /\ open' = FALSE /\ dump' = buf \o p.bytes
    [] OTHER -> buf' = << >> /\ open' = FALSE /\ dump' = None

(* A byte yields at most one SysEx packet, always the first.               *)
Assemble(packets) ==
  IF packets # << >> /\ Head(packets).type = "sysex7"
  THEN Accept(Head(packets))
  ELSE dump' = None /\ UNCHANGED <<buf, open>>

-----------------------------------------------------------------------------
(* The stream by its framing: F0 opens a payload, F7 or another status     *)
(* ends it, and so does one byte more than the cap; FF forgets it.         *)
Observe(b) ==
  /\ payload' = CASE b = "F0" -> << >>
                  [] b \in RealTime -> payload
                  [] b \in DataBytes /\ payload # None /\ Len(payload) < SysexCap -> Append(payload, b)
                  [] OTHER -> None
  /\ sent' = IF payload # None /\ b \notin RealTime \cup {"FF"} /\ payload' \in {None, << >>}
             THEN payload ELSE None
  /\ IF b \in RealTime THEN UNCHANGED <<last, since>>
     ELSE IF b \in DataBytes THEN since' = Append(since, b) /\ UNCHANGED last
     ELSE since' = << >> /\ last' = b

Init ==
  /\ running_status = None /\ current = None /\ data = << >> /\ need = 0
  /\ sysex = << >> /\ emitted = 0 /\ in_sysex = FALSE
  /\ out = << >>
  /\ buf = << >> /\ open = FALSE /\ dump = None
  /\ payload = None /\ sent = None /\ last = None /\ since = << >>

PushByte(b) ==
  /\ b \in DataBytes => Len(since) < MaxRun
  /\ Parse(b)
  /\ Assemble(out')
  /\ Observe(b)

Next == \E b \in Bytes : PushByte(b)

Spec == Init /\ [][Next]_vars

-----------------------------------------------------------------------------
(* Properties                                                              *)

Payloads == Seq(DataBytes)

(* The parser's and assembler's fields hold what their Rust types allow,   *)
(* and the SysEx buffer never passes its cap.                              *)
TypeOK ==
  /\ running_status \in Channel \cup {None}
  /\ current \in Channel \cup System \cup {None}
  /\ data \in Payloads /\ Len(data) <= 1 /\ need \in 0..2
  /\ sysex \in Payloads /\ Len(sysex) <= SysexCap /\ in_sysex \in BOOLEAN
  /\ emitted \in 0..Len(sysex)
  /\ buf \in Payloads /\ open \in BOOLEAN /\ dump \in Payloads \cup {None}
  /\ payload \in Payloads \cup {None} /\ sent \in Payloads \cup {None}

(* An assembled dump is exactly one that was on the wire, complete at this *)
(* very byte: nothing of a dump that was cut, overlong or reset before it  *)
(* is left in the buffer.                                                  *)
NoCorruptDump == dump # None => dump = sent

(* sysex.rs: "Reassemble UMP SysEx7 packets into complete dumps."  Every   *)
(* dump that F7 ends on the wire is returned at that byte.                 *)
EveryDumpArrives == sent # None /\ last = "F7" => dump = sent

(* Dumps that do not exactly fill their last packet do arrive, also when   *)
(* another status or the cap ended them.                                   *)
FillsPackets(n) == \E k \in 1..n : n = k * Chunk

UnevenDumpsArrive == sent # None /\ ~FillsPackets(Len(sent)) => dump = sent

(* Running status, from the stream alone: a channel message at every       *)
(* data_len-th data byte after its status, a system common message at the  *)
(* data_len-th only, nothing inside a dump; and real time in between does  *)
(* not disturb any of that.                                                *)
Said ==
  IF last \in Channel /\ since # << >> /\ Len(since) % data_len[last] = 0
  THEN {Short(last, SubSeq(since, Len(since) - data_len[last] + 1, Len(since)))}
  ELSE IF last \in System /\ Len(since) = data_len[last] THEN {Short(last, since)}
  ELSE {}

IsShort(p) == p.type = "short" /\ p.status \in Channel \cup System

Shorts(packets) == {k \in DOMAIN packets : IsShort(packets[k])}

SaysOnly(packets, said) ==
  /\ {packets[k] : k \in Shorts(packets)} = said
  /\ \A j, k \in Shorts(packets) : j = k

RunningStatusHolds ==
  [][\/ \E b \in RealTime : out' = <<Short(b, << >>)>>
     \/ SaysOnly(out', IF sent' # None /\ last' = "F7" THEN {} ELSE Said')]_vars

(* Strengthening: the parser has put all but a part of a packet of the     *)
(* payload into the assembler.                                             *)
InStep ==
  /\ in_sysex <=> payload # None
  /\ in_sysex => /\ sysex = payload
                 /\ Len(sysex) - emitted < Chunk
                 /\ emitted > 0 => /\ open /\ buf = SubSeq(sysex, 1, emitted)
                                   /\ FillsPackets(emitted)
  /\ ~in_sysex => sysex = << >> /\ emitted = 0

(* Strengthening: the fields of the short messages follow from the last    *)
(* status and the data bytes since; none is open inside a dump.            *)
RunInv ==
  /\ since \in Payloads /\ last \in (Statuses \ RealTime) \cup {None}
  /\ in_sysex => last = "F0"
  /\ last \notin Channel \cup System =>
       running_status = None /\ current = None /\ data = << >> /\ need = 0
  /\ last \in Channel =>
       /\ running_status = last /\ current = last /\ need = data_len[last]
       /\ data = IF Len(since) % need = 0 THEN << >> ELSE <<since[Len(since)]>>
  /\ last \in System =>
       /\ running_status = None /\ data = << >>
       /\ IF Len(since) < data_len[last] THEN current = last /\ need = data_len[last]
          ELSE current = None /\ need = 0
=============================================================================

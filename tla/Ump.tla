-------------------------------- MODULE Ump --------------------------------
(***************************************************************************)
(* Universal MIDI Packets as the engine sees them                          *)
(* (crates/midi-forge-core/src/ump.rs, filter.rs, midi2.rs): their fields, *)
(* the family a thru filter puts them in, and the translation between      *)
(* MIDI 1.0 and MIDI 2.0 channel voice.                                    *)
(*                                                                         *)
(* A packet is a record.  The second word of a MIDI 2.0 packet is its      *)
(* upper half v and its lower half low; a MIDI 1.0 packet has neither, and *)
(* the group, which nothing here depends on, is left out.                  *)
(***************************************************************************)
EXTENDS Integers, Sequences

\* The numbers of a field that has n values.
Below(n) == {x \in Nat : x < n}

Packet(mt, status, d1, d2, v, low) == [mt |-> mt, status |-> status, d1 |-> d1, d2 |-> d2, v |-> v, low |-> low]
Midi1(status, d1, d2) == Packet(2, status, d1, d2, 0, 0)
Midi2(status, d1, d2, v, low) == Packet(4, status, d1, d2, v, low)
System(status, d1, d2) == Packet(1, status, d1, d2, 0, 0)

\* midi1_data_len
DataLen(status) ==
  CASE status \in (128..191) \cup (224..239) \cup {242} -> 2
    [] status \in (192..223) \cup {241, 243} -> 1
    [] OTHER -> 0

\* Packets at all, and those that well-formed senders make drivers capture: data
\* bytes have seven bits, as has the first of MIDI 2.0 channel voice, and are 0 if
\* the message has none.
AnyPackets ==
  [mt : Below(16), status : Below(256), d1 : Below(256), d2 : Below(256), v : Below(65536), low : Below(65536)]

IsShort(p) ==
  /\ p.status \in (IF p.mt = 1 THEN 240..255 ELSE 128..239)
  /\ p.d1 < (IF DataLen(p.status) >= 1 THEN 128 ELSE 1)
  /\ p.d2 < (IF DataLen(p.status) = 2 THEN 128 ELSE 1)
  /\ p.v = 0 /\ p.low = 0

UmpPackets == {p \in AnyPackets : (p.mt \in {1, 2} => IsShort(p)) /\ (p.mt = 4 => p.d1 < 128)}

Op(p) == p.status \div 16
IsVoice(p) == p.mt \in {2, 4}
Channel(p) == p.status % 16
WithChannel(p, ch) == IF IsVoice(p) THEN [p EXCEPT !.status = 16 * Op(p) + (ch % 16)] ELSE p

-----------------------------------------------------------------------------
(* Families, for filters (filter.rs).                                      *)

VoiceFamily(op) ==
  CASE op \in {8, 9} -> "notes"
    [] op = 10 -> "poly_pressure"
    [] op = 11 -> "control_change"
    [] op = 12 -> "program_change"
    [] op = 13 -> "channel_pressure"
    [] op = 14 -> "pitch_bend"

Midi2Family(op) ==
  CASE op \in 8..14 -> VoiceFamily(op)
    [] op \in 2..5 -> "control_change"
    [] op \in {0, 1, 15} -> "per_note"
    [] op = 6 -> "pitch_bend"
    [] OTHER -> "other"

SystemFamily(status) ==
  CASE status = 248 -> "clock"
    [] status \in 250..252 -> "transport"
    [] status = 254 -> "active_sensing"
    [] status = 255 -> "reset"
    [] status \in 241..246 -> "system_common"
    [] OTHER -> "other"

message_kind(p) ==
  CASE p.mt = 2 -> IF Op(p) \in 8..14 THEN VoiceFamily(Op(p)) ELSE "other"
    [] p.mt = 4 -> Midi2Family(Op(p))
    [] p.mt = 1 -> SystemFamily(p.status)
    [] p.mt = 0 -> "utility"
    [] p.mt = 3 -> "sysex"
    [] p.mt = 5 -> "sysex8"
    [] p.mt = 13 -> "flex"
    [] p.mt = 15 -> "stream"
    [] OTHER -> "other"

Families == {"notes", "poly_pressure", "control_change", "program_change", "channel_pressure",
             "pitch_bend", "sysex", "sysex8", "clock", "transport", "active_sensing", "reset",
             "system_common", "per_note", "utility", "flex", "stream", "other"}

\* A filter has a set of families, a set of channels and perhaps a channel to
\* force; NoChannel stands for None.
NoChannel == 16
PassFilter == [kinds |-> Families, channels |-> 0..15, force_channel |-> NoChannel]

\* Filter::apply: the packets sent on, none or one.
FilterApply(f, p) ==
  IF message_kind(p) \notin f.kinds \/ (IsVoice(p) /\ Channel(p) \notin f.channels) THEN <<>>
  ELSE IF f.force_channel # NoChannel THEN <<WithChannel(p, f.force_channel)>> ELSE <<p>>

-----------------------------------------------------------------------------
(* Translation (midi2.rs).                                                 *)

velocity16_to_7(v) ==
  IF v = 0 THEN 0
  ELSE LET scaled == (v * 127 + 32767) \div 65535 IN IF scaled < 1 THEN 1 ELSE scaled

\* Bug: the velocity is shifted, not scaled.
Shifted(v) == 512 * v

velocity7_to_16(v) == IF v = 0 THEN 0 ELSE (v * 65535) \div 127
value32_to_7(v) == v \div 512
value7_to_32(d) == 512 * (IF d > 127 THEN 127 ELSE d)
pitch32_to_14(v) == <<(v \div 4) % 128, v \div 512>>

upscale_to_midi2(p) ==
  IF p.mt # 2 THEN p
  ELSE CASE Op(p) = 8 \/ (Op(p) = 9 /\ p.d2 = 0) -> Midi2(128 + Channel(p), p.d1, 0, velocity7_to_16(p.d2), 0)
         [] Op(p) = 9 /\ p.d2 # 0 -> Midi2(p.status, p.d1, 0, velocity7_to_16(p.d2), 0)
         [] Op(p) \in {10, 11} -> Midi2(p.status, p.d1, 0, value7_to_32(p.d2), 0)
         [] Op(p) = 12 -> Midi2(p.status, 0, 0, 256 * p.d1, 0)
         [] Op(p) = 13 -> Midi2(p.status, 0, 0, value7_to_32(p.d1), 0)
         [] Op(p) = 14 -> Midi2(p.status, 0, 0, 4 * (p.d1 + 128 * p.d2), 0)
         [] OTHER -> p

\* A parameter number and its value, as three controllers.
Parameter(p, msb, lsb) ==
  LET status == 176 + Channel(p)
  IN <<Midi1(status, msb, p.d1 % 128), Midi1(status, lsb, p.d2 % 128), Midi1(status, 6, value32_to_7(p.v))>>

ProgramChange(p) ==
  LET program == Midi1(p.status, (p.v \div 256) % 128, 0)
      status == 176 + Channel(p)
  IN IF p.d1 % 2 = 0 THEN <<program>>
     ELSE <<Midi1(status, 0, (p.low \div 256) % 128), Midi1(status, 32, p.low % 128), program>>

AtLeastOne(d) == IF d = 0 THEN 1 ELSE d

\* Per-note and relative controllers have no MIDI 1.0 form.
downscale_to_midi1(p) ==
  IF p.mt # 4 THEN <<p>>
  ELSE CASE Op(p) = 8 -> <<Midi1(p.status, p.d1, velocity16_to_7(p.v))>>
         [] Op(p) = 9 -> <<Midi1(p.status, p.d1, AtLeastOne(velocity16_to_7(p.v)))>>
         [] Op(p) \in {10, 11} -> <<Midi1(p.status, p.d1, value32_to_7(p.v))>>
         [] Op(p) = 12 -> ProgramChange(p)
         [] Op(p) = 13 -> <<Midi1(p.status, value32_to_7(p.v), 0)>>
         [] Op(p) = 14 -> <<Midi1(p.status, pitch32_to_14(p.v)[1], pitch32_to_14(p.v)[2])>>
         [] Op(p) = 2 -> Parameter(p, 101, 100)
         [] Op(p) = 3 -> Parameter(p, 99, 98)
         [] Op(p) \in {0, 1, 4, 5, 6, 15} -> <<>>
         [] OTHER -> <<p>>
=============================================================================

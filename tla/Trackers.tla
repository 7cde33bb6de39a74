------------------------------ MODULE Trackers ------------------------------
(***************************************************************************)
(* What the engine keeps of the packets that pass                          *)
(* (crates/midi-forge-core/src/live.rs, hang.rs, nrpn.rs, mpe.rs): the     *)
(* live view, the stuck notes, parameter numbers and MPE.  Each is a       *)
(* record or set, and pushing a packet an operator on it; 16 channels are  *)
(* the functions' domain.                                                  *)
(***************************************************************************)
EXTENDS Ump, FiniteSets

CONSTANTS MaxSounding,   \* LiveChannel.sounding's limit (32)
          MaxHanging,    \* HangTracker's (256)
          MaxVoices      \* MpeTracker's (128)

ASSUME TrackerLimits == {MaxSounding, MaxHanging, MaxVoices} \subseteq Nat \ {0}

Channels == 0..15
NoByte == 128          \* None, where the code has an Option<u8>
AllSoundOff == 120
ResetControllers == 121
AllNotesOff == 123

\* A packet's MIDI 1.0 form, one packet after the other.
PushAll(Push(_, _), t, p) ==
  LET forms == downscale_to_midi1(p)
      After[i \in 0..Len(forms)] == IF i = 0 THEN t ELSE Push(After[i - 1], forms[i])
  IN After[Len(forms)]

-----------------------------------------------------------------------------
(* LiveView: by channel, the last of everything.                           *)

SilentChannel ==
  [last_note |-> NoByte, last_vel |-> 0, last_vel16 |-> 0, sounding |-> 0, program |-> 0, pressure |-> 0,
   bend |-> 8192, last_cc |-> <<NoByte, 0>>, last_cc32 |-> <<NoByte, 0>>, pn_bend |-> <<NoByte, 0>>]
SilentView == [ch \in Channels |-> SilentChannel]

Struck(c, note, vel7, vel16) ==
  [c EXCEPT !.last_note = note, !.last_vel = vel7, !.last_vel16 = vel16,
            !.sounding = IF @ < MaxSounding THEN @ + 1 ELSE @]

\* Any note-off takes one away, whichever note it names.
Lifted(c, vel7, vel16) ==
  [c EXCEPT !.last_vel = vel7, !.last_vel16 = vel16, !.sounding = IF @ > 0 THEN @ - 1 ELSE 0]

Controlled(c, cc, x) ==
  [c EXCEPT !.last_cc = <<cc, x>>, !.sounding = IF cc \in {AllNotesOff, AllSoundOff} THEN 0 ELSE @]

LiveMidi1(c, p) ==
  CASE Op(p) = 8 -> Lifted(c, p.d2, velocity7_to_16(p.d2))
    [] Op(p) = 9 -> IF p.d2 = 0 THEN Lifted(c, 0, 0) ELSE Struck(c, p.d1, p.d2, velocity7_to_16(p.d2))
    [] Op(p) = 11 -> Controlled(c, p.d1, p.d2)
    [] Op(p) = 12 -> [c EXCEPT !.program = p.d1]
    [] Op(p) = 13 -> [c EXCEPT !.pressure = p.d1]
    [] Op(p) = 14 -> [c EXCEPT !.bend = p.d1 + 128 * p.d2]
    [] OTHER -> c

\* A MIDI 2.0 note-on of velocity 0 is one.
LiveMidi2(c, p) ==
  CASE Op(p) = 8 -> Lifted(c, velocity16_to_7(p.v), p.v)
    [] Op(p) = 9 -> Struck(c, p.d1, velocity16_to_7(p.v), p.v)
    [] Op(p) = 11 -> [Controlled(c, p.d1, value32_to_7(p.v)) EXCEPT !.last_cc32 = <<p.d1, p.v>>]
    [] Op(p) = 12 -> [c EXCEPT !.program = (p.v \div 256) % 128]
    [] Op(p) = 13 -> [c EXCEPT !.pressure = value32_to_7(p.v)]
    [] Op(p) = 14 -> [c EXCEPT !.bend = pitch32_to_14(p.v)[1] + 128 * pitch32_to_14(p.v)[2]]
    [] Op(p) = 6 -> [c EXCEPT !.pn_bend = <<p.d1, p.v>>]
    [] OTHER -> c

LivePush(view, p) ==
  CASE p.mt = 2 -> [view EXCEPT ![Channel(p)] = LiveMidi1(@, p)]
    [] p.mt = 4 -> [view EXCEPT ![Channel(p)] = LiveMidi2(@, p)]
    [] OTHER -> view

-----------------------------------------------------------------------------
(* HangTracker: a set of notes, each 128 * channel + note.                 *)

Crowded(notes) ==
  IF Cardinality(notes) > MaxHanging
  THEN notes \ {CHOOSE n \in notes : \A m \in notes : n <= m}
  ELSE notes

HangMidi1(notes, p) ==
  LET note == 128 * Channel(p) + (p.d1 % 128)
  IN CASE p.mt # 2 -> notes
       [] p.mt = 2 /\ (Op(p) = 8 \/ (Op(p) = 9 /\ p.d2 = 0)) -> notes \ {note}
       [] p.mt = 2 /\ Op(p) = 9 /\ p.d2 # 0 -> Crowded(notes \cup {note})
       [] p.mt = 2 /\ Op(p) = 11 /\ p.d1 \in {AllNotesOff, AllSoundOff} -> {n \in notes : n \div 128 # Channel(p)}
       [] OTHER -> notes

HangPush(notes, p) == PushAll(HangMidi1, notes, p)

-----------------------------------------------------------------------------
(* NrpnTracker: by channel, the parameter number being set.                *)

EmptyCell == [kind |-> "none", msb |-> NoByte, lsb |-> NoByte, data_msb |-> NoByte]
NoValue == [kind |-> "none", channel |-> 0, msb |-> 0, lsb |-> 0, value |-> 0]
NoParameters == [cells |-> [ch \in Channels |-> EmptyCell], last |-> NoValue]

\* commit: once both halves of a number are known.
Commit(t, ch, msb, lsb) ==
  LET cell == t.cells[ch]
  IN IF cell.kind = "none" \/ cell.msb = NoByte \/ cell.lsb = NoByte THEN t
     ELSE [t EXCEPT !.last = [kind |-> cell.kind, channel |-> ch, msb |-> cell.msb, lsb |-> cell.lsb,
                              value |-> 128 * msb + lsb]]

NrpnControl(t, ch, cc, x) ==
  CASE cc = 101 -> [t EXCEPT !.cells[ch].kind = "rpn", !.cells[ch].msb = x]
    [] cc = 100 -> [t EXCEPT !.cells[ch].kind = "rpn", !.cells[ch].lsb = x]
    [] cc = 99 -> [t EXCEPT !.cells[ch].kind = "nrpn", !.cells[ch].msb = x]
    [] cc = 98 -> [t EXCEPT !.cells[ch].kind = "nrpn", !.cells[ch].lsb = x]
    [] cc = 6 -> Commit([t EXCEPT !.cells[ch].data_msb = x], ch, x, 0)
    [] cc = 38 -> LET msb == t.cells[ch].data_msb IN Commit(t, ch, IF msb = NoByte THEN 0 ELSE msb, x)
    [] OTHER -> t

\* Only the first packet of a MIDI 1.0 form is looked at.
NrpnPush(t, p) ==
  LET forms == downscale_to_midi1(p)
  IN IF forms = <<>> \/ forms[1].mt # 2 \/ Op(forms[1]) # 11 THEN t
     ELSE NrpnControl(t, Channel(p), forms[1].d1, forms[1].d2)

-----------------------------------------------------------------------------
(* MpeTracker.                                                             *)

CentredExpr == [pitch_bend |-> 8192, pressure |-> 0, timbre |-> 64]
NoMpe ==
  [lower |-> 0, upper |-> 0,     \* member channels of the zones, 0 for none
   rpn |-> [ch \in Channels |-> [msb |-> NoByte, lsb |-> NoByte, is_rpn |-> TRUE]],
   expr |-> [ch \in Channels |-> CentredExpr],
   note_pb_range |-> 48, master_pb_range |-> 2, voices |-> <<>>]

is_master(t, ch) == (ch = 0 /\ t.lower > 0) \/ (ch = 15 /\ t.upper > 0)

\* note_on: a new voice takes over the channel's expression.
Without(voices, ch, note) == SelectSeq(voices, LAMBDA v : ~ (v.channel = ch /\ v.note = note))
NoteOn(t, ch, note, velocity) ==
  LET others == Without(t.voices, ch, note)
      kept == IF Len(others) >= MaxVoices THEN Tail(others) ELSE others
      voice == [channel |-> ch, note |-> note, velocity |-> velocity, expr |-> t.expr[ch]]
  IN [t EXCEPT !.voices = Append(kept, voice)]

\* A change of expression reaches the channel's voices.
Express(t, ch, expr) ==
  [t EXCEPT !.expr[ch] = expr,
            !.voices = [i \in DOMAIN @ |-> IF @[i].channel = ch THEN [@[i] EXCEPT !.expr = expr] ELSE @[i]]]

\* apply_data_entry and apply_mcm.
DataEntry(t, ch, x) ==
  LET cell == t.rpn[ch]
  IN CASE ~ cell.is_rpn -> t
       [] cell.is_rpn /\ <<cell.msb, cell.lsb>> = <<0, 6>> ->
            CASE ch = 0 -> [t EXCEPT !.lower = IF x > 15 THEN 15 ELSE x]
              [] ch = 15 -> [t EXCEPT !.upper = IF x > 15 THEN 15 ELSE x]
              [] OTHER -> t
       [] cell.is_rpn /\ <<cell.msb, cell.lsb>> = <<0, 0>> ->
            IF is_master(t, ch) THEN [t EXCEPT !.master_pb_range = x] ELSE [t EXCEPT !.note_pb_range = x]
       [] OTHER -> t

MpeControl(t, ch, cc, x) ==
  CASE cc = 74 -> Express(t, ch, [t.expr[ch] EXCEPT !.timbre = x])
    [] cc \in {AllSoundOff, AllNotesOff} -> [t EXCEPT !.voices = SelectSeq(@, LAMBDA v : v.channel # ch)]
    [] cc = ResetControllers -> [t EXCEPT !.expr[ch] = CentredExpr]
    [] cc = 101 -> [t EXCEPT !.rpn[ch].msb = x, !.rpn[ch].is_rpn = TRUE]
    [] cc = 100 -> [t EXCEPT !.rpn[ch].lsb = x, !.rpn[ch].is_rpn = TRUE]
    [] cc \in {98, 99} -> [t EXCEPT !.rpn[ch].is_rpn = FALSE]
    [] cc = 6 -> DataEntry(t, ch, x)
    [] OTHER -> t

MpeMidi1(t, p) ==
  LET ch == Channel(p)
  IN CASE p.mt # 2 -> t
       [] p.mt = 2 /\ (Op(p) = 8 \/ (Op(p) = 9 /\ p.d2 = 0)) -> [t EXCEPT !.voices = Without(@, ch, p.d1)]
       [] p.mt = 2 /\ Op(p) = 9 /\ p.d2 # 0 -> NoteOn(t, ch, p.d1, p.d2)
       [] p.mt = 2 /\ Op(p) = 11 -> MpeControl(t, ch, p.d1, p.d2)
       [] p.mt = 2 /\ Op(p) = 13 -> Express(t, ch, [t.expr[ch] EXCEPT !.pressure = p.d1])
       [] p.mt = 2 /\ Op(p) = 14 -> Express(t, ch, [t.expr[ch] EXCEPT !.pitch_bend = p.d1 + 128 * p.d2])
       [] OTHER -> t

MpePush(t, p) == PushAll(MpeMidi1, t, p)
=============================================================================

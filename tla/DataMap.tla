------------------------------ MODULE DataMap ------------------------------
(***************************************************************************)
(* A link's data map (crates/midi-forge-core/src/map.rs): entries of a     *)
(* matcher and an action, the first that matches decides; presets and      *)
(* learned entries.  32-bit values are scaled with the 15 bits TLC's       *)
(* integers leave room for.                                                *)
(***************************************************************************)
EXTENDS Ump, FiniteSets

Between(x, lo, hi) == IF x < lo THEN lo ELSE IF x > hi THEN hi ELSE x
Lower(a, b) == IF a < b THEN a ELSE b
Upper(a, b) == IF a < b THEN b ELSE a
To7(x) == Between(x, 0, 127)

\* Rust's division of integers rounds towards zero, TLA+'s down.
Quotient(a, b) ==
  IF b < 0 THEN LET n == -a  d == -b IN IF n >= 0 THEN n \div d ELSE -((-n) \div d)
  ELSE IF a >= 0 THEN a \div b ELSE -((-a) \div b)

NoKind == "none"

\* VoiceKind::from_packet: per-note and registered controllers count as CC,
\* per-note bend as bend.
VoiceKindOf(p) ==
  IF ~ IsVoice(p) THEN NoKind
  ELSE CASE Op(p) = 8 -> "NoteOff" [] Op(p) = 9 -> "NoteOn" [] Op(p) = 10 -> "PolyPressure"
         [] Op(p) \in {11} \cup 0..5 -> "ControlChange" [] Op(p) = 12 -> "ProgramChange"
         [] Op(p) = 13 -> "ChannelPressure" [] Op(p) \in {14, 6} -> "PitchBend"
         [] OTHER -> NoKind

status_nibble(kind) ==
  CASE kind = "NoteOff" -> 8 [] kind = "NoteOn" -> 9 [] kind = "PolyPressure" -> 10
    [] kind = "ControlChange" -> 11 [] kind = "ProgramChange" -> 12
    [] kind = "ChannelPressure" -> 13 [] kind = "PitchBend" -> 14

-----------------------------------------------------------------------------
(* Value maps.                                                             *)

Keep == [map |-> "Keep"]
Constant(x) == [map |-> "Constant", to |-> x]
Offset(delta) == [map |-> "Offset", by |-> delta]
Scale(in, out, invert) == [map |-> "Scale", in |-> in, out |-> out, invert |-> invert]
Constant32(x) == [map |-> "Constant32", to |-> x]
Scale32(in, out, invert) == [map |-> "Scale32", in |-> in, out |-> out, invert |-> invert]

\* Bug: the value is not brought into the range first.
Unclamped(x, in, out) ==
  IF in[1] = in[2] THEN To7(out[1])
  ELSE To7(out[1] + Quotient((x - in[1]) * (out[2] - out[1]), in[2] - in[1]))

\* scale_7bit honours a range given backwards ...
scale_7bit(x, in, out) ==
  LET v == Between(x, Lower(in[1], in[2]), Upper(in[1], in[2]))
  IN IF in[1] = in[2] THEN To7(out[1])
     ELSE To7(out[1] + Quotient((v - in[1]) * (out[2] - out[1]), in[2] - in[1]))

\* ... and scale_32 takes it forwards.
scale_32(x, in, out) ==
  LET lo == Lower(in[1], in[2]) \div 2
      hi == Upper(in[1], in[2]) \div 2
      t == Between(x \div 2, lo, hi) - lo
      first == out[1] \div 2
      last == out[2] \div 2
  IN IF lo = hi THEN out[1] ELSE 2 * Between(first + Quotient(t * (last - first), hi - lo), 0, 32767)

\* ValueMap::apply, of a 7-bit value ...
Apply7(m, x) ==
  CASE m.map = "Keep" -> Lower(x, 127)
    [] m.map = "Constant" -> Lower(m.to, 127)
    [] m.map = "Offset" -> To7(x + m.by)
    [] m.map = "Scale" -> scale_7bit(IF m.invert THEN Upper(127 - x, 0) ELSE x, m.in, m.out)
    [] m.map = "Constant32" -> value32_to_7(m.to)
    [] m.map = "Scale32" -> LET wide == value7_to_32(x)
                            IN value32_to_7(scale_32(IF m.invert THEN 65535 - wide ELSE wide, m.in, m.out))

\* ... and apply32, of the upper half of a 32-bit one.
Apply32(m, v) ==
  CASE m.map = "Keep" -> v
    [] m.map = "Constant" -> value7_to_32(m.to)
    [] m.map \in {"Offset", "Scale"} -> value7_to_32(Apply7(m, value32_to_7(v)))
    [] m.map = "Constant32" -> m.to
    [] m.map = "Scale32" -> scale_32(IF m.invert THEN 65535 - v ELSE v, m.in, m.out)

-----------------------------------------------------------------------------
(* Matchers and entries.                                                   *)

AnyVoice == {"NoteOff", "NoteOn", "PolyPressure", "ControlChange", "ProgramChange", "ChannelPressure", "PitchBend"}
Notes == {"NoteOff", "NoteOn"}
DefaultMatcher == [kinds |-> AnyVoice, channels |-> 0..15, data1 |-> <<0, 127>>, data2 |-> <<0, 127>>]

in_range(x, range) == Lower(range[1], range[2]) <= x /\ x <= Upper(range[1], range[2])

\* A MIDI 2.0 packet is matched by the last packet of its MIDI 1.0 form.
LastForm(p) ==
  LET forms == downscale_to_midi1(p) IN IF p.mt = 4 /\ forms # <<>> THEN forms[Len(forms)] ELSE p

DataMatches(matcher, last) == in_range(last.d1, matcher.data1) /\ in_range(last.d2, matcher.data2)

Matches(matcher, p) ==
  /\ VoiceKindOf(p) \in matcher.kinds
  /\ Channel(p) \in matcher.channels
  /\ DataMatches(matcher, LastForm(p))

Drop == [drop |-> TRUE]
Rewrite(kind, channel, data1, data2) ==
  [drop |-> FALSE, kind |-> kind, channel |-> channel, data1 |-> data1, data2 |-> data2]
Entry(matcher, action) == [matcher |-> matcher, action |-> action]

\* What the map editor and Learn make of them.
ValueMaps ==
  {Keep} \cup {Constant(x) : x \in Below(128)} \cup {Offset(delta) : delta \in -127..127}
  \cup {Scale(in, out, invert) : in, out \in Below(128) \X Below(128), invert \in BOOLEAN}
  \cup {Constant32(x) : x \in Below(65536)}
  \cup {Scale32(in, out, invert) : in, out \in Below(65536) \X Below(65536), invert \in BOOLEAN}
Matchers ==
  [kinds : {AnyVoice, Notes} \cup {{kind} : kind \in AnyVoice}, channels : SUBSET Below(16),
   data1 : Below(128) \X Below(128), data2 : Below(128) \X Below(128)]
Actions ==
  {Drop} \cup [drop : {FALSE}, kind : AnyVoice \cup {NoKind}, channel : Below(17), data1 : ValueMaps, data2 : ValueMaps]
MapEntries == [matcher : Matchers, action : Actions]
DataMaps == [entries : Seq(MapEntries), pass_unmatched : BOOLEAN]

\* The second word after a rewrite: 32-bit maps are applied to it, 7-bit maps
\* to the data byte of its MIDI 1.0 form.
SecondWord(p, kind, data2) ==
  LET forms == downscale_to_midi1(p)
      d2 == Apply7(data2, IF forms = <<>> THEN 0 ELSE forms[Len(forms)].d2)
  IN CASE data2 = Keep -> <<p.v, p.low>>
       [] data2.map \in {"Constant32", "Scale32"} -> <<Apply32(data2, p.v), IF kind \in Notes THEN p.low ELSE 0>>
       [] OTHER -> CASE kind \in Notes -> <<velocity7_to_16(d2), p.low>>
                     [] kind = "ProgramChange" -> <<256 * d2, 0>>
                     [] OTHER -> <<512 * d2, 0>>

\* MapAction::apply and rewrite_midi2.
ActionApply(a, p) ==
  IF a.drop THEN <<>>
  ELSE LET kind == IF a.kind = NoKind THEN VoiceKindOf(p) ELSE a.kind
           channel == IF a.channel = NoChannel THEN Channel(p) ELSE a.channel % 16
           status == 16 * status_nibble(kind) + channel
           word == SecondWord(p, kind, a.data2)
       IN IF p.mt = 4 THEN <<Midi2(status, Apply7(a.data1, p.d1), p.d2, word[1], word[2])>>
          ELSE <<Midi1(status, Apply7(a.data1, p.d1), Apply7(a.data2, p.d2))>>

\* The first entry that matches, 0 if none does.
FirstMatch(m, p) ==
  LET hits == {i \in DOMAIN m.entries : Matches(m.entries[i].matcher, p)}
  IN IF hits = {} THEN 0 ELSE CHOOSE i \in hits : \A j \in hits : i <= j

\* DataMap::apply: that entry decides, or the rule for the rest.
Decided(m, p, hit) ==
  IF hit > 0 THEN ActionApply(m.entries[hit].action, p)
  ELSE IF m.pass_unmatched THEN <<p>> ELSE <<>>

MapApply(m, p) == IF VoiceKindOf(p) = NoKind THEN <<p>> ELSE Decided(m, p, FirstMatch(m, p))

-----------------------------------------------------------------------------
(* Presets, and Learn.                                                     *)

EmptyMap == [entries |-> <<>>, pass_unmatched |-> TRUE]
OneEntry(matcher, data1, data2) ==
  [EmptyMap EXCEPT !.entries = <<Entry(matcher, Rewrite(NoKind, NoChannel, data1, data2))>>]

transpose(semitones) == OneEntry([DefaultMatcher EXCEPT !.kinds = Notes], Offset(semitones), Keep)

remap_cc(from, to) ==
  OneEntry([DefaultMatcher EXCEPT !.kinds = {"ControlChange"}, !.data1 = <<from, from>>], Constant(to), Keep)

invert_velocity ==
  OneEntry([DefaultMatcher EXCEPT !.kinds = Notes, !.data2 = <<1, 127>>], Keep, Scale(<<0, 127>>, <<0, 127>>, TRUE))

\* Learning takes the first packet of the MIDI 1.0 form; a note-off in disguise
\* and a packet without such a form teach nothing.
Learnable(p) ==
  /\ downscale_to_midi1(p) # <<>>
  /\ LET first == downscale_to_midi1(p)[1]
     IN VoiceKindOf(first) # NoKind /\ ~ (VoiceKindOf(first) = "NoteOn" /\ first.d2 = 0)

learn_from(p) ==
  LET first == downscale_to_midi1(p)[1]
  IN [DefaultMatcher EXCEPT !.kinds = {VoiceKindOf(first)}, !.channels = {Channel(first)},
                            !.data1 = <<first.d1, first.d1>>]

\* Bug: what is learned comes last, after entries that may match first.
LearnLast(m, p) ==
  [m EXCEPT !.entries = Append(@, Entry(learn_from(p), Rewrite(NoKind, NoChannel, Keep, Keep)))]

\* DataMap::learn_insert, of a packet that is learnable.
learn_insert(m, p) ==
  [m EXCEPT !.entries = <<Entry(learn_from(p), Rewrite(NoKind, NoChannel, Keep, Keep))>> \o @]
=============================================================================

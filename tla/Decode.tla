------------------------------- MODULE Decode -------------------------------
(***************************************************************************)
(* What a packet is called and what it says                                *)
(* (crates/midi-forge-core/src/decode.rs, flex.rs, ump_stream.rs): the     *)
(* monitor, the scripts and the agents' tools know packets by the key and  *)
(* the fields given here.  The monitor's check boxes, which go by the      *)
(* filter's families instead, are here too (app.rs).                       *)
(*                                                                         *)
(* A decoded packet names its channel, if it has one, what it is of (a     *)
(* note, a controller, a parameter number, ...) and the value of that.  A  *)
(* flex packet has its bank and status in d1 and d2, a stream packet its   *)
(* status in d1; their texts and lists of numbers are left out, as are     *)
(* the payloads of SysEx packets, which other modules follow.              *)
(***************************************************************************)
EXTENDS Ump

Decoded(key, channel, of, value) == [key |-> key, channel |-> channel, of |-> of, value |-> value]
Plain(key) == Decoded(key, NoChannel, <<>>, <<>>)
Other == Plain("other")

\* A key for some of the values x can have, "other" for the rest.
KeyIn(keys, x) == IF x \in DOMAIN keys THEN keys[x] ELSE "other"

UtilityKeys == [op \in 0..4 |-> <<"noop", "jr_clock", "jr_timestamp", "dctpq", "delta_clockstamp">>[op + 1]]
StreamKeys ==
  [status \in 0..6 \cup 16..18 |->
     IF status > 6 THEN <<"stream_fb_discovery", "stream_fb_info", "stream_fb_name">>[status - 15]
     ELSE <<"stream_ep_discovery", "stream_ep_info", "stream_device_identity", "stream_ep_name",
            "stream_product_id", "stream_cfg_request", "stream_cfg">>[status + 1]]

decode_utility(p) == Plain(KeyIn(UtilityKeys, Op(p)))

decode_system(p) ==
  CASE p.status = 248 -> Plain("clock")
    [] p.status = 250 -> Plain("start")
    [] p.status = 251 -> Plain("continue")
    [] p.status = 252 -> Plain("stop")
    [] p.status = 241 -> Decoded("mtc", NoChannel, <<>>, <<p.d1>>)
    [] p.status = 242 -> Decoded("song_position", NoChannel, <<>>, <<(p.d1 % 128) + 128 * (p.d2 % 128)>>)
    [] OTHER -> Other

decode_midi1_channel(p) ==
  CASE Op(p) = 8 -> Decoded("note_off", Channel(p), <<p.d1>>, <<p.d2>>)
    [] Op(p) = 9 -> Decoded("note_on", Channel(p), <<p.d1>>, <<p.d2>>)
    [] Op(p) = 10 -> Decoded("poly_pressure", Channel(p), <<p.d1>>, <<p.d2>>)
    [] Op(p) = 11 -> Decoded("cc", Channel(p), <<p.d1>>, <<p.d2>>)
    [] Op(p) = 12 -> Decoded("program", Channel(p), <<>>, <<p.d1>>)
    [] Op(p) = 13 -> Decoded("channel_pressure", Channel(p), <<>>, <<p.d1>>)
    [] Op(p) = 14 -> Decoded("pitch_bend", Channel(p), <<>>, <<p.d1, p.d2>>)
    [] OTHER -> Other

\* A note's velocity is the upper half of the second word, its attribute the
\* lower; of the others the whole word is the value, as its two halves.
Note2(key, p) == Decoded(key, Channel(p), <<p.d1>>, <<p.v>>)
OfOne(key, p) == Decoded(key, Channel(p), <<p.d1>>, <<p.v, p.low>>)
OfTwo(key, p) == Decoded(key, Channel(p), <<p.d1, p.d2>>, <<p.v, p.low>>)
OfChannel(key, p) == Decoded(key, Channel(p), <<>>, <<p.v, p.low>>)

\* The program, and the bank if it is valid.
Program2(p) ==
  Decoded("m2_program", Channel(p),
          IF p.d1 % 2 = 0 THEN <<>> ELSE <<(p.low \div 256) % 128, p.low % 128>>, <<(p.v \div 256) % 128>>)

decode_midi2_channel(p) ==
  CASE Op(p) = 8 -> Note2("m2_note_off", p)
    [] Op(p) = 9 -> Note2("m2_note_on", p)
    [] Op(p) = 10 -> OfOne("m2_poly_pressure", p)
    [] Op(p) = 11 -> OfOne("m2_cc", p)
    [] Op(p) = 12 -> Program2(p)
    [] Op(p) = 13 -> OfChannel("m2_channel_pressure", p)
    [] Op(p) = 14 -> OfChannel("m2_pitch_bend", p)
    [] Op(p) = 2 -> OfTwo("m2_rc", p)
    [] Op(p) = 3 -> OfTwo("m2_ac", p)
    [] Op(p) = 4 -> OfTwo("m2_rc_rel", p)
    [] Op(p) = 5 -> OfTwo("m2_ac_rel", p)
    [] Op(p) = 6 -> OfOne("m2_pn_bend", p)
    [] Op(p) = 0 -> OfTwo("m2_pn_rc", p)
    [] Op(p) = 1 -> OfTwo("m2_pn_ac", p)
    [] Op(p) = 15 -> Decoded("m2_pn_mgmt", Channel(p), <<p.d1>>, <<p.d2>>)
    [] OTHER -> Other

\* SysEx8 and mixed data sets.
decode_data64(p) ==
  CASE Op(p) \in 0..3 -> Plain("sysex8") [] Op(p) \in 8..11 -> Plain("mixdata") [] OTHER -> Other

\* Bank 0 sets something up; every status of the banks 1 and 2 is a text.
decode_flex(p) ==
  CASE p.d1 = 0 /\ p.d2 = 0 -> Plain("flex_tempo")
    [] p.d1 = 0 /\ p.d2 = 1 -> Plain("flex_time_sig")
    [] p.d1 = 0 /\ p.d2 = 2 -> Plain("flex_metronome")
    [] p.d1 = 0 /\ p.d2 = 5 -> Plain("flex_key_sig")
    [] p.d1 \in {1, 2} -> Plain("flex_text")
    [] OTHER -> Other

decode_stream(p) == Plain(KeyIn(StreamKeys, p.d1))

decode(p) ==
  CASE p.mt = 0 -> decode_utility(p)
    [] p.mt = 1 -> decode_system(p)
    [] p.mt = 2 -> decode_midi1_channel(p)
    [] p.mt = 3 -> Plain("sysex")
    [] p.mt = 4 -> decode_midi2_channel(p)
    [] p.mt = 5 -> decode_data64(p)
    [] p.mt = 13 -> decode_flex(p)
    [] p.mt = 15 -> decode_stream(p)
    [] OTHER -> Other

-----------------------------------------------------------------------------
(* The monitor.                                                            *)

is_jr_clock(p) == p.mt = 0 /\ Op(p) = 1

\* monitor_type_ok: the check box that shows or hides a packet.
MonitorBox(p) ==
  LET kind == message_kind(p)
  IN CASE is_jr_clock(p) -> "jr_clock"
       [] ~ is_jr_clock(p) /\ kind \in {"notes", "per_note"} -> "notes"
       [] kind = "control_change" -> "cc"
       [] kind \in {"clock", "active_sensing"} -> "clock"
       [] ~ is_jr_clock(p) /\ kind \in {"sysex", "sysex8", "utility", "flex", "stream"} -> kind
       [] OTHER -> "other"

-----------------------------------------------------------------------------
(* What a MIDI 1.0 message and its translation to MIDI 2.0 have in common: *)
(* their keys, and the translation's value scaled down.                    *)

Counterpart ==
  [key \in {"note_off", "note_on", "poly_pressure", "cc", "program", "channel_pressure", "pitch_bend"} |->
     CASE key = "note_off" -> "m2_note_off" [] key = "note_on" -> "m2_note_on"
       [] key = "poly_pressure" -> "m2_poly_pressure" [] key = "cc" -> "m2_cc" [] key = "program" -> "m2_program"
       [] key = "channel_pressure" -> "m2_channel_pressure" [] key = "pitch_bend" -> "m2_pitch_bend"]

SameValue(key, value, wide) ==
  CASE key \in {"note_off", "note_on"} -> value = <<velocity16_to_7(wide[1])>>
    [] key = "program" -> value = wide
    [] key = "pitch_bend" -> value = pitch32_to_14(wide[1])
    [] OTHER -> value = <<value32_to_7(wide[1])>>

\* A note-on of velocity 0 is a note-off after its translation.
DecodedAlike(p, q) ==
  LET d == decode(p) e == decode(q)
      key == IF d.key = "note_on" /\ d.value = <<0>> THEN "note_off" ELSE d.key
  IN /\ e.key = Counterpart[key] /\ e.channel = d.channel /\ e.of = d.of
     /\ SameValue(key, d.value, e.value)
     /\ MonitorBox(p) = MonitorBox(q)

\* One family and one check box for all packets of a key.
KeptTogether(p, q) ==
  LET key == decode(p).key
  IN key = decode(q).key /\ key # "other" => message_kind(p) = message_kind(q) /\ MonitorBox(p) = MonitorBox(q)
=============================================================================

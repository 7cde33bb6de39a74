---------------------------- MODULE MC_EventPath ----------------------------
(***************************************************************************)
(* EventPath and UmpStreams for TLC.  Every behaviour has a theme, which   *)
(* says what is captured and which controls are used: what the trackers    *)
(* make of one kind of message does not depend on the others'.             *)
(***************************************************************************)
EXTENDS EventPath, UmpStreams

VARIABLE theme

mcVars == <<pathVars, streamVars, theme>>

note_on(ch, n, v) == Midi1(144 + ch, n, v)
note_off(ch, n, v) == Midi1(128 + ch, n, v)
cc(ch, n, x) == Midi1(176 + ch, n, x)

Notes1 == {note_on(0, 60, 100), note_on(0, 60, 0), note_off(0, 60, 64), note_on(1, 61, 1), cc(0, 123, 0)}
Notes2 == {Midi2(144, 60, 0, 0, 0), Midi2(144, 61, 0, 65535, 7), Midi2(128, 60, 0, 300, 0)}
Voice == {Midi1(160, 60, 90), Midi1(192, 5, 0), Midi1(208, 99, 0), Midi1(224, 1, 65), cc(0, 1, 127)}
Voice2 == {Midi2(176, 1, 0, 40000, 9), Midi2(192, 1, 0, 1280, 259), Midi2(208, 0, 0, 65535, 65535),
           Midi2(224, 0, 0, 32768, 0), Midi2(96, 60, 0, 1, 0), Midi2(64, 0, 6, 512, 0), Midi2(0, 60, 1, 1, 1)}
Mpe == {cc(0, 101, 0), cc(0, 100, 6), cc(0, 6, 2), cc(0, 98, 1), Midi2(32, 0, 6, 1024, 0), Midi2(33, 0, 0, 6144, 0),
        note_on(1, 60, 100), note_on(2, 62, 1), note_off(1, 60, 0), Midi1(225, 0, 70), Midi1(209, 33, 0),
        cc(1, 74, 9), cc(1, 121, 0), cc(2, 120, 0)}
Numbers == {cc(0, 101, 3), cc(0, 100, 1), cc(0, 99, 2), cc(0, 98, 4), cc(0, 6, 5), cc(0, 38, 6), cc(3, 38, 7),
            Midi2(32, 3, 1, 2560, 0), Midi2(48, 2, 4, 512, 0)}
Clocks == {System(248, 0, 0), System(250, 0, 0), System(251, 0, 0), System(252, 0, 0), System(242, 5, 1),
           System(241, 3, 0), System(241, 112, 0), System(254, 0, 0), note_on(0, 60, 100)}
Played == {note_on(0, 60, 100), Midi2(192, 1, 0, 1280, 259), System(242, 5, 1), System(255, 0, 0), Packet(3, 0, 0, 0, 0, 0)}
Cabled == {System(248, 0, 0)}
\* One packet at least of every type, and of every kind of voice.
AnyKind ==
  Voice \cup Voice2 \cup Notes1 \cup Notes2 \cup Clocks
  \cup {Packet(0, 16 * op, 0, 0, 0, 0) : op \in 0..5} \cup {Packet(3, 16 * form, 0, 0, 0, 0) : form \in 0..3}
  \cup {Packet(5, 16 * form, 0, 0, 0, 0) : form \in {0, 3, 4, 8, 11}}
  \cup {Packet(13, 0, bank, status, 0, 0) : bank \in 0..3, status \in {0, 1, 2, 3, 5}}
  \cup {Packet(15, 0, status, 0, 0, 0) : status \in 0..18}
  \cup {Packet(2, 240, 0, 0, 0, 0), Packet(6, 0, 0, 0, 0, 0), Midi2(112, 0, 0, 0, 0)}
  \cup {Midi2(16 * op, 1, 1, 1, 1) : op \in {0, 1, 2, 3, 5, 6, 10, 15}}

Packets ==
  CASE theme = "notes" -> Notes1 \cup Notes2
    [] theme = "links" -> Voice \cup Voice2 \cup {note_on(0, 60, 100), Midi2(144, 60, 0, 65535, 0)}
    [] theme = "learn" -> Voice \cup Voice2 \cup Notes1 \cup Notes2 \cup {System(248, 0, 0)}
    [] theme = "mpe" -> Mpe
    [] theme = "numbers" -> Numbers
    [] theme = "clock" -> Clocks
    [] theme = "record" -> Played
    [] theme = "monitor" -> AnyKind
    [] OTHER -> {}

Filters == {[PassFilter EXCEPT !.kinds = @ \ {"control_change"}], [PassFilter EXCEPT !.channels = {0}, !.force_channel = 5]}
Presets == {transpose(12), transpose(-12), remap_cc(1, 7), invert_velocity,
            OneEntry([DefaultMatcher EXCEPT !.kinds = {"PitchBend"}], Keep, Scale32(<<0, 65534>>, <<65534, 0>>, FALSE)),
            [EmptyMap EXCEPT !.entries = <<Entry([DefaultMatcher EXCEPT !.channels = {0}, !.data1 = <<60, 5>>], Drop)>>]}

\* Where there are many controls, fewer messages.
Budget == CASE theme \in {"links", "monitor"} -> 1 [] theme = "learn" -> 2 [] OTHER -> MaxEvents

PathStep ==
  \/ made < Budget /\ \E p \in Packets : Capture("device", p)
  \/ Drain
  \/ theme = "notes" /\ (OffHanging \/ Panic \/ ResetLive \/ \E p \in Notes1 : Inject(p))
  \/ theme = "links" /\ (\E f \in Filters : SetFilter(f))
  \/ theme \in {"links", "learn"} /\ made = 0 /\ (theme = "learn" => map = EmptyMap /\ ~ learn) /\ (\E preset \in Presets : AddPreset(preset))
  \/ theme = "links" /\ (TogglePassUnmatched \/ \E i \in DOMAIN map.entries : RemoveEntry(i))
  \/ theme = "learn" /\ ToggleLearn
  \/ theme = "mpe" /\ ClearVoices
  \/ theme = "clock" /\ (ToggleMute \/ ResetClock \/ (now < 10000 /\ Wait(5000)))
  \/ theme = "record" /\ (ToggleRecord \/ TogglePause \/ (made < Budget /\ Wait(200000)) \/ \E p \in Cabled : Capture("cable", p))

\* What is sent of a stream: names with the blocks they belong to, data.
Names == {s \in TextStreams : s.kind \in {"name", "block"}}
Sent == CASE theme = "names" -> Names [] theme = "data" -> TextStreams \ Names [] theme = "endpoint" -> {}

\* Names of block 1 and SysEx8 are sent again, the others once.
Most(s) == IF s.kind = "sysex8" \/ (s.kind = "block" /\ s.id = 1) THEN 2 ELSE 1

\* One stream is not reliable.
Reliable == \A s \in TextStreams : ~ missing[s]
StreamsStep ==
  \/ \E s \in TextStreams, n \in {1, MaxPieces} : s \in Sent /\ texts[s] < Most(s) /\ Send(s, n)
  \/ \E s \in TextStreams : Abandon(s) \/ (Reliable /\ Lose(s)) \/ Arrives(s)
  \/ theme = "names" /\ \E id \in {0, 1} : FbInfo(id, id, 1, id, 3)
  \/ theme = "endpoint" /\ (\E protocols \in 0..3, jr \in SUBSET {"tx"} : EpInfo(protocols, jr))
  \/ theme = "endpoint" /\ (Identity \/ \E protocol \in {1, 2} : StreamCfg(protocol))

PathThemes == {"notes", "links", "learn", "mpe", "numbers", "clock", "record", "monitor"}
StreamThemes == {"names", "data", "endpoint"}

Streams ==
  {[kind |-> "name", group |-> 0, id |-> 0], [kind |-> "block", group |-> 0, id |-> 0],
   [kind |-> "block", group |-> 0, id |-> 1], [kind |-> "flex", group |-> 0, id |-> 1],
   [kind |-> "sysex8", group |-> 0, id |-> 1], [kind |-> "sysex8", group |-> 0, id |-> 2]}

MCInit == PathInit /\ StreamsInit /\ theme \in PathThemes \cup StreamThemes

MCNext ==
  /\ theme' = theme
  /\ \/ theme \in PathThemes /\ PathStep /\ UNCHANGED streamVars
     \/ theme \in StreamThemes /\ StreamsStep /\ UNCHANGED pathVars

\* One message of every kind is compared with its translation, a note-on of
\* velocity 0 too, and every two packets with one another.
Compared == AnyKind \ {note_on(1, 61, 1), cc(0, 1, 127)}

MCSpec == MCInit /\ [][MCNext]_mcVars
=============================================================================

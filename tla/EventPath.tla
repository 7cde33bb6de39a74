------------------------------ MODULE EventPath ------------------------------
(***************************************************************************)
(* What the engine does with a captured message besides sending it         *)
(* (crates/midi-forge-app/src/app.rs, drain_capture, and the panels): it   *)
(* records it, shows it to every tracker, learns from it, and puts it      *)
(* through the filter and the map of a link, whose output's notes it       *)
(* tracks.  The engine thread's drain and the user's clicks take turns     *)
(* under one lock, so each is one step; the drivers capture at any time.   *)
(*                                                                         *)
(* There is one link, from the port "device" to an open output; a second   *)
(* port is an in-process cable, whose messages a poll appends after the    *)
(* device's, also when they are older.                                     *)
(***************************************************************************)
EXTENDS Decode, DataMap, Trackers, Smf, Timing

CONSTANTS MaxEvents, MaxTime,  \* bounds on messages and on the time, in us
          Probes               \* packets to compare with others

ASSUME ProbesAssumption == Probes \subseteq AnyPackets

\* No recording is so long (77 hours) that a time between two messages cannot be
\* read back from a file.
ASSUME TimesAssumption == MaxTime \in Nat /\ nanos_to_tick(MaxTime) < VlqLimit

Sources == {"device", "cable"}

VARIABLES
  now,          \* the time, as host and drivers know it
  made,         \* messages so far
  captured,     \* by source, what has not been polled
  paused,       \* the monitor is
  mute_clock,
  recording, recorded,
  learn,        \* the next message on the link's input teaches its map
  filter, map,  \* the link's
  clock, live, nrpn, mpe,
  hang          \* notes of the output that are not switched off

pathVars ==
  <<now, made, captured, paused, mute_clock, recording, recorded, learn, filter, map, clock, live, nrpn, mpe, hang>>
trackers == <<clock, live, nrpn, mpe, hang>>

Nothing == [s \in Sources |-> <<>>]

PathInit ==
  /\ now = 0 /\ made = 0 /\ captured = Nothing
  /\ paused = FALSE /\ mute_clock = FALSE
  /\ recording = FALSE /\ recorded = <<>>
  /\ learn = FALSE /\ filter = PassFilter /\ map = EmptyMap
  /\ clock = NoClock /\ live = SilentView /\ nrpn = NoParameters /\ mpe = NoMpe /\ hang = {}

-----------------------------------------------------------------------------
(* The drivers.                                                            *)

Wait(us) ==
  /\ now + us <= MaxTime
  /\ now' = now + us
  /\ UNCHANGED <<made, captured, paused, mute_clock, recording, recorded, learn, filter, map, trackers>>

Capture(source, packet) ==
  /\ made < MaxEvents
  /\ made' = made + 1
  /\ captured' = [captured EXCEPT ![source] = Append(@, [time |-> now, source |-> source, packet |-> packet])]
  /\ UNCHANGED <<now, paused, mute_clock, recording, recorded, learn, filter, map, trackers>>

-----------------------------------------------------------------------------
(* drain_capture.                                                          *)

Polled == captured["device"] \o captured["cable"]

\* What mute_clock keeps from the links.
IsMuted(p) == mute_clock /\ (message_kind(p) \in {"clock", "active_sensing"} \/ is_jr_clock(p))

\* Router::route for the one link.
Routed(e, m) ==
  LET kept == FilterApply(filter, e.packet)
  IN IF e.source # "device" \/ IsMuted(e.packet) \/ kept = <<>> THEN <<>> ELSE MapApply(m, kept[1])

\* The engine after one event more: the trackers see it, the map learns from
\* it, and what the link sends on is tracked.
Taught(t, e) == t.learn /\ e.source = "device" /\ Learnable(e.packet)

HangAfter(hung, sent) == IF sent = <<>> THEN hung ELSE HangPush(hung, sent[1])

OneEvent(t, e) ==
  LET m == IF Taught(t, e) THEN learn_insert(t.map, e.packet) ELSE t.map
  IN [clock |-> ClockPush(t.clock, e.packet, now),
      live |-> LivePush(t.live, e.packet),
      nrpn |-> NrpnPush(t.nrpn, e.packet),
      mpe |-> MpePush(t.mpe, e.packet),
      learn |-> t.learn /\ ~ Taught(t, e),
      map |-> m,
      hang |-> HangAfter(t.hang, Routed(e, m))]

Undrained == [clock |-> clock, live |-> live, nrpn |-> nrpn, mpe |-> mpe, learn |-> learn, map |-> map, hang |-> hang]

After[i \in 0..Len(Polled)] == IF i = 0 THEN Undrained ELSE OneEvent(After[i - 1], Polled[i])

Drained == After[Len(Polled)]

\* What was polled is recorded first, unless the monitor is paused.
Recorded(events) == IF recording /\ ~ paused THEN recorded \o events ELSE recorded

Drain ==
  /\ captured # Nothing
  /\ captured' = Nothing
  /\ recorded' = Recorded(Polled)
  /\ \E after \in {Drained} :
       /\ clock' = after.clock /\ live' = after.live /\ nrpn' = after.nrpn
       /\ mpe' = after.mpe /\ hang' = after.hang
       /\ learn' = after.learn /\ map' = after.map
  /\ UNCHANGED <<now, made, paused, mute_clock, recording, filter>>

-----------------------------------------------------------------------------
(* The panels.                                                             *)

\* Pause, Mute clock.
TogglePause ==
  /\ paused' = ~ paused
  /\ UNCHANGED <<now, made, captured, mute_clock, recording, recorded, learn, filter, map, trackers>>

ToggleMute ==
  /\ mute_clock' = ~ mute_clock
  /\ UNCHANGED <<now, made, captured, paused, recording, recorded, learn, filter, map, trackers>>

\* Record and Stop rec: a new recording starts empty.
ToggleRecord ==
  /\ recording' = ~ recording
  /\ recorded' = IF recording THEN recorded ELSE <<>>
  /\ UNCHANGED <<now, made, captured, paused, mute_clock, learn, filter, map, trackers>>

\* Learn, and Listening... which cancels it.
ToggleLearn ==
  /\ learn' = ~ learn
  /\ UNCHANGED <<now, made, captured, paused, mute_clock, recording, recorded, filter, map, trackers>>

\* The map editor appends a preset's entry, removes one, or says what happens
\* to the rest.
AddPreset(preset) ==
  /\ Len(map.entries) < 2
  /\ map' = [map EXCEPT !.entries = @ \o preset.entries]
  /\ UNCHANGED <<now, made, captured, paused, mute_clock, recording, recorded, learn, filter, trackers>>

RemoveEntry(i) ==
  /\ map' = [map EXCEPT !.entries = SubSeq(@, 1, i - 1) \o SubSeq(@, i + 1, Len(@))]
  /\ UNCHANGED <<now, made, captured, paused, mute_clock, recording, recorded, learn, filter, trackers>>

TogglePassUnmatched ==
  /\ map' = [map EXCEPT !.pass_unmatched = ~ @]
  /\ UNCHANGED <<now, made, captured, paused, mute_clock, recording, recorded, learn, filter, trackers>>

\* The filter editor.
SetFilter(f) ==
  /\ filter' = f
  /\ UNCHANGED <<now, made, captured, paused, mute_clock, recording, recorded, learn, map, trackers>>

\* Reset of the live panel and of the clock panel, Clear voices of MPE's.
ResetLive ==
  /\ live' = SilentView
  /\ UNCHANGED <<now, made, captured, paused, mute_clock, recording, recorded, learn, filter, map, clock, nrpn, mpe, hang>>

ResetClock ==
  /\ clock' = NoClock
  /\ UNCHANGED <<now, made, captured, paused, mute_clock, recording, recorded, learn, filter, map, live, nrpn, mpe, hang>>

ClearVoices ==
  /\ mpe' = [mpe EXCEPT !.voices = <<>>]
  /\ UNCHANGED <<now, made, captured, paused, mute_clock, recording, recorded, learn, filter, map, clock, live, nrpn, hang>>

\* Off hanging sends a note-off for each, and forgets them.
OffHanging ==
  /\ hang' = {}
  /\ UNCHANGED <<now, made, captured, paused, mute_clock, recording, recorded, learn, filter, map, clock, live, nrpn, mpe>>

Panic ==
  /\ hang' = {} /\ live' = SilentView /\ mpe' = [mpe EXCEPT !.voices = <<>>]
  /\ UNCHANGED <<now, made, captured, paused, mute_clock, recording, recorded, learn, filter, map, clock, nrpn>>

\* send_inject: what the user sends is tracked, but not by MPE or the clock,
\* and neither filtered nor recorded.
Inject(packet) ==
  /\ made < MaxEvents
  /\ made' = made + 1
  /\ hang' = HangPush(hang, packet) /\ live' = LivePush(live, packet) /\ nrpn' = NrpnPush(nrpn, packet)
  /\ UNCHANGED <<now, captured, paused, mute_clock, recording, recorded, learn, filter, map, clock, mpe>>

-----------------------------------------------------------------------------
(* Whatever is captured and clicked on.                                    *)

LinkFilters == [kinds : SUBSET Families, channels : SUBSET Below(16), force_channel : Below(17)]

PathNext ==
  \/ \E us \in Nat : Wait(us)
  \/ \E p \in UmpPackets : Inject(p) \/ \E source \in Sources : Capture(source, p)
  \/ Drain
  \/ TogglePause \/ ToggleMute \/ ToggleRecord \/ ToggleLearn \/ TogglePassUnmatched
  \/ \E preset \in DataMaps : AddPreset(preset)
  \/ \E i \in DOMAIN map.entries : RemoveEntry(i)
  \/ \E f \in LinkFilters : SetFilter(f)
  \/ ResetLive \/ ResetClock \/ ClearVoices \/ OffHanging \/ Panic

PathSpec == PathInit /\ [][PathNext]_pathVars

-----------------------------------------------------------------------------
(* Properties.                                                             *)

\* A message and its translation to MIDI 2.0 leave no two traces: all that the
\* trackers show but the 32-bit value of the last controller is the same, a
\* filter passes both or neither, and the same entry of the map takes both.
\* (To a map, a note-on of velocity 0 is a note-on in MIDI 1.0; its translation
\* is a note-off.)
Shown(view, ch) == [view EXCEPT ![ch].last_cc32 = <<NoByte, 0>>]

SeenAlike(p, q) ==
  /\ ClockPush(clock, p, now) = ClockPush(clock, q, now)
  /\ Shown(LivePush(live, p), Channel(p)) = Shown(LivePush(live, q), Channel(q))
  /\ NrpnPush(nrpn, p) = NrpnPush(nrpn, q)
  /\ MpePush(mpe, p) = MpePush(mpe, q)
  /\ HangPush(hang, p) = HangPush(hang, q)
  /\ (FilterApply(filter, p) = <<>>) = (FilterApply(filter, q) = <<>>)
  /\ VoiceKindOf(p) = VoiceKindOf(q) => FirstMatch(map, p) = FirstMatch(map, q)

Translations == {<<p, upscale_to_midi2(p)>> : p \in {q \in Probes \cap UmpPackets : q.mt = 2}}

\* They are decoded to the same channel, note and value, and the monitor shows
\* both or neither.  And what it shows under one key, one family of the filter
\* and one check box of the monitor take or leave together.
PacketsAgree ==
  /\ \A t \in Translations : DecodedAlike(t[1], t[2])
  /\ \A p, q \in Probes : KeptTogether(p, q)

\* Whatever was captured and clicked on before, the two protocols are treated
\* alike (midi2.rs, and all that goes by downscale_to_midi1).
ProtocolsAgree == PacketsAgree /\ \A t \in Translations : SeenAlike(t[1], t[2])

\* A recording that is saved and read back is what was recorded: the MIDI 1.0
\* form of every short message, at the tick it was played, as long as the
\* messages were captured in the order of their times.  (A System Reset is
\* the byte of a meta event in a file, and is read back as one.)
RecordingPlaysBack ==
  LET shorts == Shorts(recorded)
      read == events_from_smf0(write_smf0(recorded))
      plain == \A i \in DOMAIN shorts : shorts[i].packet.status # 255
      ordered == \A i, j \in DOMAIN shorts : i <= j => shorts[i].time <= shorts[j].time
  IN plain => /\ ~ read.bad
              /\ [i \in DOMAIN read.out |-> read.out[i].packet] = [i \in DOMAIN shorts |-> shorts[i].packet]
              /\ ordered => \A i \in DOMAIN shorts : read.out[i].time = tick_to_nanos(TickOf(shorts, i))

\* What a map learned matches what taught it, before anything else does, and
\* changes nothing of it.  A parameter number in one MIDI 2.0 message, and a
\* program change with a bank, are learned as the first of the controllers
\* they stand for and recognised by the last, so they are left out.
Teachers == {i \in DOMAIN Polled : Polled[i].source = "device" /\ Learnable(Polled[i].packet)}

LearnedEntriesMatch ==
  [][learn /\ ~ learn' /\ map' # map
     => LET p == Polled[CHOOSE i \in Teachers : \A j \in Teachers : i <= j].packet
        IN Len(downscale_to_midi1(p)) = 1 => FirstMatch(map', p) = 1 /\ MapApply(map', p) = <<p>>]_pathVars
=============================================================================

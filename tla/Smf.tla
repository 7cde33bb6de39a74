-------------------------------- MODULE Smf --------------------------------
(***************************************************************************)
(* Standard MIDI Files as the recorder writes and reads them               *)
(* (crates/midi-forge-core/src/smf.rs): one track at 480 ticks a quarter   *)
(* and 120 BPM, as a sequence of bytes.  The file's header is left out.    *)
(* Times are in microseconds.                                              *)
(***************************************************************************)
EXTENDS Ump

nanos_to_tick(us) == (us * 12) \div 12500
tick_to_nanos(tick) == (tick * 12500) \div 12

-----------------------------------------------------------------------------
(* Writing.                                                                *)

\* write_vlq: seven bits a byte, the highest first, all but the last marked.
write_vlq(n) ==
  LET Septets[m \in 0..n] == IF m < 128 THEN <<m + 128>> ELSE Append(Septets[m \div 128], (m % 128) + 128)
      bytes == Septets[n]
  IN [bytes EXCEPT ![Len(bytes)] = @ - 128]

\* Bug: every message is written with two data bytes.
TwoBytes(p) == <<p.status, p.d1, p.d2>>

Wire(p) == <<p.status>> \o SubSeq(<<p.d1, p.d2>>, 1, DataLen(p.status))

Tempo == <<0, 255, 81, 3, 7, 161, 32>>
EndOfTrack == <<0, 255, 47, 0>>

\* The short messages of the MIDI 1.0 form of an event, each with its time, and
\* those of the recorded events.
ShortsOf(e) ==
  LET forms == downscale_to_midi1(e.packet)
      Kept[j \in 0..Len(forms)] ==
        IF j = 0 THEN <<>>
        ELSE IF forms[j].mt \in {1, 2} THEN Append(Kept[j - 1], [time |-> e.time, packet |-> forms[j]])
        ELSE Kept[j - 1]
  IN Kept[Len(forms)]

Shorts(events) ==
  LET Upto[i \in 0..Len(events)] == IF i = 0 THEN <<>> ELSE Upto[i - 1] \o ShortsOf(events[i])
  IN Upto[Len(events)]

\* The tick of a short message, none if it is earlier than the first.
TickOf(shorts, i) ==
  LET since == shorts[i].time - shorts[1].time
  IN nanos_to_tick(IF since < 0 THEN 0 ELSE since)

\* The ticks since the message before, none if that one was later.
Delta(shorts, i) ==
  IF i = 1 THEN 0
  ELSE LET d == TickOf(shorts, i) - TickOf(shorts, i - 1) IN IF d < 0 THEN 0 ELSE d

write_smf0(events) ==
  LET shorts == Shorts(events)
      Upto[i \in 0..Len(shorts)] ==
        IF i = 0 THEN Tempo ELSE Upto[i - 1] \o write_vlq(Delta(shorts, i)) \o Wire(shorts[i].packet)
  IN Upto[Len(shorts)] \o EndOfTrack

-----------------------------------------------------------------------------
(* Reading.  The reader is at a byte with the tick, the running status and *)
(* the events so far; over when the track or the meta event that ends it   *)
(* is reached.                                                             *)

\* read_vlq takes four bytes at most, so that it can only read numbers below.
VlqLimit == 268435456

\* read_vlq from pos: its value and its length, which is 0 when it is bad.
read_vlq(track, pos) ==
  LET ends == {n \in 1..4 : pos + n - 1 <= Len(track) /\ track[pos + n - 1] < 128
                            /\ \A k \in 1..(n - 1) : track[pos + k - 1] >= 128}
      Value[n \in 0..4] == IF n = 0 THEN 0 ELSE 128 * Value[n - 1] + (track[pos + n - 1] % 128)
  IN IF ends = {} THEN <<0, 0>> ELSE LET n == CHOOSE n \in ends : TRUE IN <<Value[n], n>>

Reader0 == [pos |-> 1, tick |-> 0, running |-> 0, out |-> <<>>, over |-> FALSE, bad |-> FALSE]
Stop(r) == [r EXCEPT !.over = TRUE]
Fail(r) == [r EXCEPT !.over = TRUE, !.bad = TRUE]

\* A meta event at pos, after its status byte.
Meta(track, r) ==
  IF r.pos + 1 > Len(track) THEN Stop(r)
  ELSE LET length == read_vlq(track, r.pos + 1)
       IN IF length[2] = 0 THEN Fail(r)
          ELSE IF track[r.pos] = 47 THEN Stop(r)
          ELSE [r EXCEPT !.pos = @ + 1 + length[2] + length[1]]

\* A message at pos, after its status byte.
Message(track, r, status) ==
  LET need == DataLen(status)
      d(i) == IF i <= need THEN track[r.pos + i - 1] ELSE 0
      p == IF status >= 240 THEN System(status, d(1), d(2)) ELSE Midi1(status, d(1), d(2))
  IN IF r.pos + need - 1 > Len(track) THEN Stop(r)
     ELSE [r EXCEPT !.pos = @ + need, !.out = Append(@, [time |-> tick_to_nanos(r.tick), packet |-> p])]

\* A delta, a status byte or the running one, and what it begins.
ReadOne(track, r) ==
  LET delta == read_vlq(track, r.pos)
      at == r.pos + delta[2]
      timed == [r EXCEPT !.pos = at, !.tick = @ + delta[1]]
  IN IF r.pos > Len(track) THEN Stop(r)
     ELSE IF delta[2] = 0 THEN Fail(r)
     ELSE IF at > Len(track) THEN Stop(timed)
     ELSE LET own == track[at] >= 128
              status == IF own THEN track[at] ELSE r.running
              next == [timed EXCEPT !.pos = IF own THEN @ + 1 ELSE @,
                                    !.running = IF own /\ status < 240 THEN status ELSE @]
          IN IF status = 255 THEN Meta(track, next) ELSE Message(track, next, status)

\* events_from_smf0: every round reads a byte at least.
events_from_smf0(track) ==
  LET After[i \in 0..(Len(track) + 1)] ==
        IF i = 0 THEN Reader0
        ELSE LET r == After[i - 1] IN IF r.over THEN r ELSE ReadOne(track, r)
  IN After[Len(track) + 1]
=============================================================================

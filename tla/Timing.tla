------------------------------- MODULE Timing -------------------------------
(***************************************************************************)
(* Clock health (crates/midi-forge-core/src/timing.rs): intervals between  *)
(* clocks and between note-ons, the transport, the song position and the   *)
(* time code.  Times are in microseconds.                                  *)
(***************************************************************************)
EXTENDS Ump

CONSTANTS ClockCap, NoteCap   \* CLOCK_CAP (48), NOTE_CAP (64)

ASSUME HistoryCaps == {ClockCap, NoteCap} \subseteq Nat \ {0}

Never == -1                   \* None, where the code has an Option

(* IntervalHist.                                                           *)

NoIntervals == [last |-> Never, samples |-> <<>>]

Newest(samples, cap) ==
  IF Len(samples) > cap THEN SubSeq(samples, Len(samples) - cap + 1, Len(samples)) ELSE samples

\* A time that does not grow adds no interval, but is the last.
Arrival(hist, now, cap) ==
  [last |-> now,
   samples |-> IF hist.last # Never /\ now > hist.last
               THEN Newest(Append(hist.samples, now - hist.last), cap) ELSE hist.samples]

-----------------------------------------------------------------------------
(* MtcState: a time code in eight quarter frames.                          *)

NoTimeCode == [frames |-> 0, seconds |-> 0, minutes |-> 0, hours |-> 0, rate |-> 0, seen |-> {}]

SetLow(x, nibble) == 16 * (x \div 16) + nibble
SetHigh(x, bits) == 16 * bits + (x % 16)

push_qf(mtc, data) ==
  LET piece == (data \div 16) % 8
      nibble == data % 16
      set == CASE piece = 0 -> [mtc EXCEPT !.frames = SetLow(@, nibble)]
               [] piece = 1 -> [mtc EXCEPT !.frames = SetHigh(@, nibble % 2)]
               [] piece = 2 -> [mtc EXCEPT !.seconds = SetLow(@, nibble)]
               [] piece = 3 -> [mtc EXCEPT !.seconds = SetHigh(@, nibble % 4)]
               [] piece = 4 -> [mtc EXCEPT !.minutes = SetLow(@, nibble)]
               [] piece = 5 -> [mtc EXCEPT !.minutes = SetHigh(@, nibble % 4)]
               [] piece = 6 -> [mtc EXCEPT !.hours = SetLow(@, nibble)]
               [] piece = 7 -> [mtc EXCEPT !.hours = SetHigh(@, nibble % 2), !.rate = nibble \div 2]
  IN [set EXCEPT !.seen = @ \cup {piece}]

-----------------------------------------------------------------------------
(* ClockHealth.                                                            *)

NoClock ==
  [clock |-> NoIntervals, notes |-> NoIntervals, playing |-> FALSE, song_pos |-> Never, mtc |-> NoTimeCode, clocks |-> 0]

ClockSystem(c, p, now) ==
  CASE p.status = 248 -> [c EXCEPT !.clocks = @ + 1, !.clock = Arrival(@, now, ClockCap)]
    [] p.status = 250 -> [c EXCEPT !.playing = TRUE, !.song_pos = 0]
    [] p.status = 251 -> [c EXCEPT !.playing = TRUE]
    [] p.status = 252 -> [c EXCEPT !.playing = FALSE]
    [] p.status = 242 -> [c EXCEPT !.song_pos = (p.d1 % 128) + 128 * (p.d2 % 128)]
    [] p.status = 241 -> [c EXCEPT !.mtc = push_qf(@, p.d1)]
    [] OTHER -> c

ClockMidi1(c, p, now) ==
  CASE p.mt = 1 -> ClockSystem(c, p, now)
    [] p.mt = 2 /\ Op(p) = 9 /\ p.d2 > 0 -> [c EXCEPT !.notes = Arrival(@, now, NoteCap)]
    [] OTHER -> c

ClockPush(c, p, now) ==
  LET forms == downscale_to_midi1(p)
      After[i \in 0..Len(forms)] == IF i = 0 THEN c ELSE ClockMidi1(After[i - 1], forms[i], now)
  IN After[Len(forms)]
=============================================================================

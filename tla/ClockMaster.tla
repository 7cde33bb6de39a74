----------------------------- MODULE ClockMaster -----------------------------
(***************************************************************************)
(* The MIDI clock the engine generates                                     *)
(* (crates/midi-forge-core/src/clock_master.rs; tick_master of             *)
(* crates/midi-forge-app/src/app.rs; the Master row of clock.rs).  Times   *)
(* are in microseconds.  The engine polls once a tick, and a tick comes    *)
(* when it comes: each stands for the time that passed before it.          *)
(***************************************************************************)
EXTENDS Integers

CONSTANTS
  Tempi,       \* the tempi the user picks, in beats a minute
  CatchUp,     \* clocks at most in one poll (48)
  LateBy,      \* how long a tick may be after the one before
  MaxHost      \* bound on the time

ASSUME ClockMasterAssumption ==
  /\ Tempi \subseteq 20..400 /\ Tempi # {}
  /\ CatchUp \in Nat \ {0} /\ MaxHost \in Nat
  /\ LateBy \subseteq Nat

VARIABLES
  host_ns,          \* the time
  master,           \* the ClockMaster
  master_dest,      \* an output was picked
  heard,            \* clocks the output got since Start
  started,          \* when Start was pressed last, -1 before
  polled,           \* when the master was polled last since then
  smooth            \* nothing happened since that could lose or move a clock

masterVars == <<host_ns, master, master_dest, heard, started, polled, smooth>>

MasterInit ==
  /\ host_ns = 0
  /\ master = [enabled |-> FALSE, bpm |-> 120, running |-> FALSE, next_ns |-> 0, ticks |-> 0]
  /\ master_dest = FALSE
  /\ heard = 0 /\ started = -1 /\ polled = -1 /\ smooth = FALSE

\* 24 clocks a beat.
interval_of(bpm) == (2500000 + bpm \div 2) \div bpm
interval_ns == interval_of(master.bpm)

-----------------------------------------------------------------------------
(* The Master row.  Start, Continue and Stop also send themselves to the   *)
(* output, if one is picked; without one they do the rest.                 *)

Start ==
  /\ master' = [master EXCEPT !.enabled = TRUE, !.running = TRUE, !.next_ns = host_ns, !.ticks = 0]
  /\ heard' = 0 /\ started' = host_ns /\ polled' = -1 /\ smooth' = TRUE
  /\ UNCHANGED <<host_ns, master_dest>>

Continue ==
  /\ master' = [master EXCEPT !.enabled = TRUE, !.running = TRUE, !.next_ns = host_ns]
  /\ smooth' = FALSE
  /\ UNCHANGED <<host_ns, master_dest, heard, started, polled>>

Stop ==
  /\ master' = [master EXCEPT !.running = FALSE]
  /\ UNCHANGED <<host_ns, master_dest, heard, started, polled, smooth>>

Enable ==
  /\ master' = [master EXCEPT !.enabled = ~ @]
  /\ UNCHANGED <<host_ns, master_dest, heard, started, polled, smooth>>

set_bpm(bpm) ==
  /\ bpm # master.bpm
  /\ master' = [master EXCEPT !.bpm = bpm]
  /\ smooth' = FALSE
  /\ UNCHANGED <<host_ns, master_dest, heard, started, polled>>

PickDest ==
  /\ ~ master_dest /\ master_dest' = TRUE
  /\ UNCHANGED <<host_ns, master, heard, started, polled, smooth>>

-----------------------------------------------------------------------------
(* ClockMaster::poll.                                                      *)

IsLive == master.enabled /\ master.running

\* The clocks that are due at a time, at most CatchUp of them.
DueAt(now) ==
  IF ~ IsLive \/ master.next_ns > now THEN 0
  ELSE LET missed == (now - master.next_ns) \div interval_ns + 1 IN IF missed < CatchUp THEN missed ELSE CatchUp

\* Bug: the next clock is an interval after this poll.
FromNow(now, n) == IF n = 0 THEN master.next_ns ELSE now + interval_ns

\* After a whole burst the master does not try to catch up with the rest.
NextClock(now, n) == IF n = CatchUp THEN now + interval_ns ELSE master.next_ns + n * interval_ns

\* tick_master, some time after the tick before: it polls whether or not
\* there is an output, opens one that is closed, and gives up the burst where
\* the output refuses a clock: got of them are heard.
TickMaster(late, got) ==
  LET now == host_ns + late
      n == DueAt(now)
  IN /\ now <= MaxHost
     /\ got <= n /\ (master_dest \/ got = 0)
     /\ host_ns' = now
     /\ master' = [master EXCEPT !.ticks = @ + n, !.next_ns = NextClock(now, n)]
     /\ heard' = heard + got
     /\ smooth' = (smooth /\ n < CatchUp /\ got = n)
     /\ polled' = IF IsLive THEN now ELSE polled
     /\ UNCHANGED <<master_dest, started>>

MasterStep ==
  \/ Start \/ Continue \/ Stop \/ Enable \/ PickDest
  \/ \E bpm \in Tempi : set_bpm(bpm)
  \/ \E late \in LateBy, got \in 0..CatchUp : TickMaster(late, got)

MasterSpec == MasterInit /\ [][MasterStep]_masterVars

-----------------------------------------------------------------------------
(* Properties.                                                             *)

\* However late the ticks are, the output has heard the clocks that belong to
\* the time since Start, counting the one at its beginning; also after the
\* master was disabled for a while.  Only a change of tempo,
\* Continue, a burst cut short, an output that refuses or none may disturb
\* it, and then the next clock is still within an interval of the slowest
\* tempo.
ClockKeepsTime ==
  /\ smooth /\ polled >= started => heard = (polled - started) \div interval_ns + 1 /\ master.ticks = heard
  /\ IsLive => \E bpm \in Tempi \cup {120} : master.next_ns <= host_ns + interval_of(bpm)
=============================================================================

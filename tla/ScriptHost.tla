------------------------------ MODULE ScriptHost ------------------------------
(***************************************************************************)
(* The Lua engine (crates/midi-forge-script/src/engine.rs), its panel      *)
(* (crates/midi-forge-app/src/script.rs) and what a profile keeps of it.   *)
(* A program is a record of what it does: whether it loads, what on_midi   *)
(* does with an event, and how long after an event it schedules another.   *)
(* The engine thread's tick and the user's clicks take turns; a restart    *)
(* loses everything but the profile's file.  A scene saves and recalls the *)
(* same fields by the same calls, so it is a profile that a restart loses. *)
(* Times are in milliseconds.                                              *)
(***************************************************************************)
EXTENDS Integers, Sequences, FiniteSets

CONSTANTS
  Programs,     \* the texts a user loads or types
  MaxScheduled, \* bound: calls of midi.after
  MaxCount,     \* bound: what a program counts to in midi.state
  LastTick      \* bound on the time

ASSUME ScriptHostAssumption ==
  /\ Programs \subseteq [loads : BOOLEAN, on_midi : {"return", "missing", "fail", "count", "keep"}, after : Int]
  /\ {MaxScheduled, MaxCount, LastTick} \subseteq Nat

\* after: the delay of an event it schedules for every event, none if negative.
Program(loads, on_midi, after) == [loads |-> loads, on_midi |-> on_midi, after |-> after]
DEFAULT_SOURCE == Program(TRUE, "return", -1)
Empty == Program(TRUE, "missing", -1)

VARIABLES
  time,        \* the time
  now_ns,      \* what midi.after takes for it: the time of the last tick
  source,      \* the text in the editor
  lua,         \* the program that is running
  state,       \* midi.state: a set of entries
  enabled, error,
  timers,      \* in the order of the calls
  scheduled,   \* calls of midi.after since the program was started
  fired,       \* which of them were sent, and when
  profile      \* the file, with what was running when it was saved

scriptVars == <<time, now_ns, source, lua, state, enabled, error, timers, scheduled, fired, profile>>

NoProfile == [saved |-> FALSE, source |-> Empty, enabled |-> FALSE, state |-> {}, running |-> Empty, had |-> {}]

ScriptInit ==
  /\ time = 0 /\ now_ns = 0
  /\ source = DEFAULT_SOURCE /\ lua = DEFAULT_SOURCE /\ state = {}
  /\ enabled = FALSE /\ error = "none"
  /\ timers = <<>> /\ scheduled = 0 /\ fired = {}
  /\ profile = NoProfile

-----------------------------------------------------------------------------
(* midi.state: keys are strings or integers, values integers or tables.    *)

ATable == -1
StateEntry(key, value) == [key |-> key, value |-> value]
Count == IF \E e \in state : e.key = "n" THEN (CHOOSE e \in state : e.key = "n").value ELSE 0
Counted == {e \in state : e.key # "n"} \cup {StateEntry("n", Count + 1)}
Kept == state \cup {StateEntry("[1]", 1), StateEntry("t", ATable)}

\* export_state: integer keys become strings, tables are dropped.
Exported(entries) ==
  {IF e.key = "[1]" THEN StateEntry("1", e.value) ELSE e : e \in {x \in entries : x.value # ATable}}

-----------------------------------------------------------------------------
(* reload: a fresh VM and midi.state if the program loads.  The timers go  *)
(* on.                                                                     *)

Reloaded(program) ==
  IF program.loads THEN lua' = program /\ state' = {} /\ error' = "none"
  ELSE lua' = lua /\ state' = state /\ error' = "load"

Edit(program) ==
  /\ program # source /\ source' = program
  /\ UNCHANGED <<time, now_ns, lua, state, enabled, error, timers, scheduled, fired, profile>>

Apply ==
  /\ Reloaded(source)
  /\ UNCHANGED <<time, now_ns, source, enabled, timers, scheduled, fired, profile>>

\* Load .lua, and Reset with the default.
LoadText(program) ==
  /\ source' = program /\ Reloaded(program)
  /\ UNCHANGED <<time, now_ns, enabled, timers, scheduled, fired, profile>>

SetEnabled ==
  /\ enabled' = ~ enabled
  /\ UNCHANGED <<time, now_ns, source, lua, state, error, timers, scheduled, fired, profile>>

-----------------------------------------------------------------------------
(* process.  The program may have scheduled and remembered something when  *)
(* it fails; the event then goes on as it was.                             *)

Remembered ==
  CASE lua.on_midi = "count" -> Counted
    [] lua.on_midi = "keep" -> Kept
    [] OTHER -> state

Schedules == lua.after >= 0

\* due is so long after the last tick.
Scheduled == Append(timers, [id |-> scheduled + 1, due |-> now_ns + lua.after])

Process ==
  /\ enabled
  /\ Schedules => scheduled < MaxScheduled /\ now_ns + lua.after <= LastTick
  /\ Count < MaxCount
  /\ timers' = IF Schedules THEN Scheduled ELSE timers
  /\ scheduled' = IF Schedules THEN scheduled + 1 ELSE scheduled
  /\ state' = Remembered
  /\ error' = CASE lua.on_midi = "fail" -> "runtime"
                [] lua.on_midi # "fail" /\ error = "runtime" -> "none"
                [] OTHER -> error
  /\ UNCHANGED <<time, now_ns, source, lua, enabled, fired, profile>>

-----------------------------------------------------------------------------
(* tick.                                                                   *)

Wait(ms) ==
  /\ time + ms <= LastTick
  /\ time' = time + ms
  /\ UNCHANGED <<now_ns, source, lua, state, enabled, error, timers, scheduled, fired, profile>>

\* Bug: a timer is only sent by a tick in its very millisecond.
OnTheDot(timer) == timer.due = time

IsDue(timer) == timer.due <= time

\* Bug: what was sent is kept.
AllOfThem == timers

\* What Vec::retain leaves of the first n.
Retained[n \in 0..Len(timers)] ==
  CASE n = 0 -> <<>>
    [] n > 0 /\ IsDue(timers[n]) -> Retained[n - 1]
    [] n > 0 /\ ~ IsDue(timers[n]) -> Append(Retained[n - 1], timers[n])

Remaining == Retained[Len(timers)]

Tick ==
  /\ now_ns' = time
  /\ timers' = IF enabled THEN Remaining ELSE timers
  /\ fired' = IF enabled
              THEN fired \cup {[id |-> timers[i].id, due |-> timers[i].due, at |-> time] :
                               i \in {j \in DOMAIN timers : IsDue(timers[j])}}
              ELSE fired
  /\ UNCHANGED <<time, source, lua, state, enabled, error, scheduled, profile>>

-----------------------------------------------------------------------------
(* The profile, and restarts.                                              *)

SaveProfile ==
  /\ profile' = [saved |-> TRUE, source |-> source, enabled |-> enabled, state |-> Exported(state),
                 running |-> lua, had |-> state]
  /\ UNCHANGED <<time, now_ns, source, lua, state, enabled, error, timers, scheduled, fired>>

\* Bug: the state is imported before the program is loaded.
StateAfter(s) == IF s.source # Empty /\ s.source.loads THEN {} ELSE s.state

\* import_state comes last, also when the program did not load.
StateImported(s) == s.state

\* apply_profile_lua and import_state.  An empty text leaves the program alone.
LoadProfile ==
  /\ profile.saved
  /\ IF profile.source # Empty
     THEN /\ source' = profile.source
          /\ lua' = IF profile.source.loads THEN profile.source ELSE lua
          /\ error' = IF profile.source.loads THEN "none" ELSE "load"
     ELSE UNCHANGED <<source, lua, error>>
  /\ enabled' = profile.enabled
  /\ state' = StateImported(profile)
  /\ UNCHANGED <<time, now_ns, timers, scheduled, fired, profile>>

Restart ==
  /\ time' = 0 /\ now_ns' = 0
  /\ source' = DEFAULT_SOURCE /\ lua' = DEFAULT_SOURCE /\ state' = {}
  /\ enabled' = FALSE /\ error' = "none"
  /\ timers' = <<>> /\ scheduled' = 0 /\ fired' = {}
  /\ UNCHANGED profile

ScriptNext ==
  \/ \E program \in Programs : Edit(program) \/ LoadText(program)
  \/ Apply \/ SetEnabled \/ SaveProfile \/ LoadProfile \/ Restart
  \/ Process \/ Tick \/ \E ms \in 1..LastTick : Wait(ms)

ScriptSpec == ScriptInit /\ [][ScriptNext]_scriptVars

-----------------------------------------------------------------------------
(* Properties.                                                             *)

Pending == {timers[i].id : i \in DOMAIN timers}

\* Over reloads that succeed or fail, over disabling and loading a profile,
\* every call of midi.after is pending once or was sent once, and not before
\* its time.
TimersOnce ==
  /\ Len(timers) = Cardinality(Pending) /\ Cardinality(fired) = Cardinality({f.id : f \in fired})
  /\ Pending \cap {f.id : f \in fired} = {}
  /\ Pending \cup {f.id : f \in fired} = 1..scheduled
  /\ \A f \in fired : f.at >= f.due

\* A timer is sent, however late the ticks are, unless the script is disabled.
TimersFire == \A id \in 1..MaxScheduled : (id \in Pending) ~> (id \notin Pending \/ ~ enabled)

\* A profile that is loaded, in this session or after a restart, goes on with
\* the program and the state that were running when it was saved: if the
\* editor's text was what was running, was not empty, and midi.state held
\* nothing but integers under names.
Plain(entries) == Exported(entries) = entries
ScriptComesBack ==
  [][LoadProfile /\ profile.source = profile.running /\ profile.source # Empty /\ Plain(profile.had)
     => lua' = profile.running /\ state' = profile.had /\ enabled' = profile.enabled]_scriptVars
=============================================================================

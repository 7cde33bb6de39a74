----------------------------- MODULE NullPorts -----------------------------
(***************************************************************************)
(* The null backend (crates/midi-forge-io/src/null.rs): cables, and for    *)
(* the tests a keyboard and a synth in memory.  Whoever injects an event   *)
(* chooses its port, open or not.                                          *)
(***************************************************************************)
EXTENDS Capture

VARIABLES fixture,    \* with_fixture_ports, not empty
          null_open,  \* open_inputs and open_outputs
          pending     \* NullBackend.pending

nullVars == <<fixture, null_open, pending>>

\* open_input and open_output: the endpoint must exist and not be open.
OpenNull(id) ==
  /\ busy = "no" /\ fixture /\ id \notin null_open
  /\ null_open' = null_open \cup {id} /\ granted' = granted \cup {id}
  /\ UNCHANGED <<frameVars, cableVars, busy, polled, fixture, pending>>

CloseNull(id) ==
  /\ busy = "no" /\ id \in null_open
  /\ null_open' = null_open \ {id} /\ granted' = granted \ {id}
  /\ UNCHANGED <<frameVars, cableVars, busy, polled, fixture, pending>>

Inject ==
  /\ fixture /\ made < MaxMade
  /\ made' = made + 1
  /\ pending' = Append(pending, Frame(<<"in", 1>>, made', "short"))
  /\ UNCHANGED <<channel, dropped, lost, cableVars, busy, polled, granted, fixture, null_open>>

PollNull ==
  /\ busy = "no"
  /\ Polled(pending \o CableEvents, dropped + CableDropped)
  /\ pending' = <<>>
  /\ cables' = Drained
  /\ UNCHANGED <<dropped, fixture, null_open>>

NullInit == fixture \in BOOLEAN /\ null_open = {} /\ pending = <<>>

NullStep ==
  \/ \E id \in {<<"in", 1>>, <<"out", 1>>} : OpenNull(id) \/ CloseNull(id)
  \/ Inject
  \/ PollNull
=============================================================================

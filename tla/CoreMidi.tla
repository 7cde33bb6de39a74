------------------------------ MODULE CoreMidi ------------------------------
(***************************************************************************)
(* The CoreMIDI backend (crates/midi-forge-io/src/coremidi.rs).  Its       *)
(* cables are virtual ports other applications see: what is sent into one  *)
(* goes to them, and what arrives on one was sent by them.  A virtual      *)
(* destination calls back all the time and is armed while it is open.      *)
(* Capture's cables hold these ports here; they queue nothing, an output   *)
(* needs no opening, and the frame of a virtual port has no port number    *)
(* until it is polled.                                                     *)
(***************************************************************************)
EXTENDS Capture

VARIABLES sources,    \* CoreMidiBackend.inputs
          passed      \* virtual ports whose callback found them armed and has to push

coreVars == <<sources, passed>>

CreateVirtual ==
  /\ busy = "no" /\ next_index <= MaxCables
  /\ cables' = Put(cables, next_index, [EmptyCable EXCEPT !.out_open = TRUE])
  /\ next_index' = next_index + 1
  /\ UNCHANGED <<frameVars, busy, polled, granted, forgotten, coreVars>>

RemoveVirtual(c) ==
  /\ busy = "no" /\ c \in DOMAIN cables
  /\ cables' = Without(cables, {c})
  /\ granted' = granted \ {<<"cin", c>>}
  /\ UNCHANGED <<frameVars, next_index, busy, polled, forgotten, coreVars>>

\* open_input and close_input, of a virtual destination and of a source.
OpenVirtual(c) ==
  /\ busy = "no" /\ c \in DOMAIN cables /\ ~ cables[c].in_port
  /\ cables' = [cables EXCEPT ![c].in_port = TRUE]
  /\ granted' = granted \cup {<<"cin", c>>}
  /\ UNCHANGED <<frameVars, next_index, busy, polled, forgotten, coreVars>>

CloseVirtual(c) ==
  /\ busy = "no" /\ c \in DOMAIN cables
  /\ cables' = [cables EXCEPT ![c].in_port = FALSE]
  /\ granted' = granted \ {<<"cin", c>>}
  /\ UNCHANGED <<frameVars, next_index, busy, polled, forgotten, coreVars>>

OpenSource(id) ==
  /\ busy = "no" /\ id \notin sources
  /\ sources' = sources \cup {id} /\ granted' = granted \cup {id}
  /\ UNCHANGED <<frameVars, cableVars, busy, polled, passed>>

CloseSource(id) ==
  /\ busy = "no" /\ id \in sources
  /\ sources' = sources \ {id} /\ granted' = granted \ {id}
  /\ UNCHANGED <<frameVars, cableVars, busy, polled, passed>>

\* The callbacks: of a source at once; a virtual destination is first found
\* armed, then pushes.
SourceCallback(id) ==
  /\ id \in sources /\ made < MaxMade
  /\ made' = made + 1
  /\ TryPush(<<Frame(id, made', "short")>>)
  /\ UNCHANGED <<cableVars, busy, polled, granted, coreVars>>

VirtualArmed(c) ==
  /\ c \in DOMAIN cables /\ cables[c].in_port /\ c \notin passed
  /\ passed' = passed \cup {c}
  /\ UNCHANGED <<captureVars, sources>>

VirtualPush(c) ==
  /\ c \in passed /\ made < MaxMade
  /\ passed' = passed \ {c}
  /\ made' = made + 1
  /\ TryPush(<<Frame(<<"cin", c>>, made', "short")>>)
  /\ UNCHANGED <<cableVars, busy, polled, granted, sources>>

\* Bug: the frames of a closed virtual port are handed over.
HandedAll(frame) == TRUE

\* virtual_in_ports at the time of the poll decides.
Handed(frame) == frame.port[1] = "in" \/ (frame.port[2] \in DOMAIN cables /\ cables[frame.port[2]].in_port)

HandedUpTo[i \in 0..Len(channel)] ==
  IF i = 0 THEN <<>>
  ELSE IF Handed(channel[i]) THEN Append(HandedUpTo[i - 1], channel[i])
  ELSE HandedUpTo[i - 1]

PollCoreMidi ==
  /\ busy = "no"
  /\ Polled(HandedUpTo[Len(channel)], dropped)
  /\ UNCHANGED <<dropped, cables, coreVars>>

CoreMidiServes(id) == id \in sources \/ (id[1] = "cin" /\ CableServes(id))

-----------------------------------------------------------------------------
CoreMidiInit == sources = {} /\ passed = {}

CoreMidiStep ==
  \/ CreateVirtual
  \/ \E c \in DOMAIN cables :
       \/ RemoveVirtual(c)
       \/ OpenVirtual(c)
       \/ CloseVirtual(c)
       \/ VirtualArmed(c)
  \/ \E c \in passed : VirtualPush(c)
  \/ \E id \in {<<"in", 1>>} :
       \/ OpenSource(id)
       \/ CloseSource(id)
       \/ SourceCallback(id)
  \/ PollCoreMidi
=============================================================================

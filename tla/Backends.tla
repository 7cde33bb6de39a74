------------------------------ MODULE Backends ------------------------------
(***************************************************************************)
(* The backend the engine talks to (crates/midi-forge-io/src/backend.rs):  *)
(* default_backend picks one at the start, Windows MIDI Services before    *)
(* WinMM, and the engine calls it one call at a time under its lock while  *)
(* the drivers' threads push.                                              *)
(***************************************************************************)
EXTENDS WinMm, WmsSession, CoreMidi, NullPorts

VARIABLE backend      \* which one default_backend made

vars == <<backend, captureVars, winVars, sendVars, wmsVars, coreVars, nullVars>>

\* What a computer has, as far as the choice of a backend asks.
Machines ==
  [platform : {"windows", "macos", "other"},
   com : BOOLEAN, initializer : BOOLEAN, version : BOOLEAN, service : BOOLEAN,
   winmd : BOOLEAN, class : BOOLEAN, session : BOOLEAN]

default_backend(machine) ==
  CASE machine.platform = "windows" -> IF WmsStarts(machine) THEN "wms" ELSE "winmm"
    [] machine.platform = "macos" -> "coremidi"
    [] machine.platform = "other" -> "null"

Init ==
  /\ CaptureInit /\ WinMmInit /\ WmsInit /\ CoreMidiInit /\ NullInit
  /\ backend \in {default_backend(machine) : machine \in Machines}
  /\ fixture => backend = "null"

WinMmOnly(A) == backend = "winmm" /\ A /\ UNCHANGED <<backend, wmsVars, coreVars, nullVars>>

\* The actions of one backend leave what the others would hold alone.
Next ==
  /\ backend' = backend
  /\ \/ WinMmOnly(WinMmStep)
     \/ backend = "wms" /\ WmsStep /\ UNCHANGED <<winVars, sendVars, coreVars, nullVars>>
     \/ backend = "coremidi" /\ CoreMidiStep /\ UNCHANGED <<winVars, sendVars, wmsVars, nullVars>>
     \/ backend = "null" /\ NullStep /\ UNCHANGED <<winVars, sendVars, wmsVars, coreVars>>
     \/ /\ backend # "coremidi"
        /\ CableStep
        /\ UNCHANGED <<winVars, sendVars, wmsVars, coreVars, nullVars>>

Spec == Init /\ [][Next]_vars

\* The driver's callbacks run to their end, the call that waits looks again
\* every millisecond, and its deadline passes; the driver may keep a buffer.
WinMmFairness ==
  /\ WF_vars(WinMmOnly(\E id \in InputIds : PushFrame(id)))
  /\ WF_vars(WinMmOnly(\E id \in InputIds : FinishClose(id)))
  /\ WF_vars(WinMmOnly(LongDone \/ LongTimeout \/ GiveUp))

FairSpec == Spec /\ WinMmFairness

-----------------------------------------------------------------------------
(* Properties.                                                             *)

Serves(id) ==
  CASE backend = "winmm" -> WinMmServes(id) \/ CableServes(id)
    [] backend = "wms" -> WmsServes(id) \/ CableServes(id)
    [] backend = "coremidi" -> CoreMidiServes(id)
    [] backend = "null" -> id \in null_open \/ CableServes(id)

AllIds == (Devices \X {1}) \cup ({"cin", "cout"} \X (1..MaxCables))

\* The channel and the queues keep to their limit, and the rest to its type.
TypeOK ==
  /\ Len(channel) <= QueueCap /\ dropped <= MaxMade /\ made <= MaxMade
  /\ \A c \in DOMAIN cables : Len(cables[c].queue) <= QueueCap
  /\ busy \in {"no", "close", "long", "reset"}
  /\ granted \subseteq AllIds

\* An endpoint that was opened and not closed since is served whatever
\* happens to others: an output whose device's input closes keeps the shared
\* connection, a refused open takes nothing down, and nothing else is served.
\* (A WinMM input that is being closed is not served any more.)
OpenEndsAreServed ==
  busy # "close" => {id \in AllIds : Serves(id) /\ (backend = "coremidi" => id[1] # "cout")} = granted

\* The end of a cable that is closed is silent at once: a poll hands over
\* nothing for it, although messages were queued for it or a callback was
\* under way when it closed.
ClosedCablesAreSilent ==
  [][polled' # polled => \A i \in DOMAIN polled'.events :
       polled'.events[i].port[1] = "cin" => polled'.events[i].port \in granted]_vars

\* No loss goes uncounted: what a poll says it dropped is at least what was
\* lost since the last one, in the channel and in all cables, unless a cable
\* that was removed took its count with it.
LossIsReported ==
  [][lost > 0 /\ lost' = 0 /\ ~ forgotten => polled'.count >= lost]_vars

\* A dump leaves WinMM's parser with parts missing, or with another dump's,
\* only if frames were counted as lost, the driver gave a part of it back as
\* an error, or its input closed while its beginning was still to be polled:
\* never because an input is closed and opened in the middle of a dump whose
\* beginning the parser had, or because a callback outlasts the close.
TornOnlyByLoss == torn => dropped > 0 \/ cut

\* The buffer of a long send is not freed while the driver has it.
BufferOutlivesDriver == held => buffer # "freed"

\* The engine's call returns, though the driver may keep the buffer for ever
\* and messages keep coming: long sends and closes give the lock back.
CallsReturn == busy # "no" ~> busy = "no"
=============================================================================

------------------------------ MODULE DumpRelay ------------------------------
(***************************************************************************)
(* What the SysEx thru path promises: a dump an instrument has finished    *)
(* reaches each output whole, at once and at most once, or not at all, and *)
(* every output receives dumps in the order in which they were finished.   *)
(***************************************************************************)
EXTENDS Naturals, Sequences

CONSTANTS
  Outputs,
  Dumps      \* names of dumps

VARIABLES
  finished,   \* dumps some instrument has finished
  received    \* dumps each output has received

Init == finished = {} /\ received = [o \in Outputs |-> << >>]

Finish(d) ==
  /\ d \notin finished
  /\ finished' = finished \cup {d}
  /\ \E outs \in SUBSET Outputs :
       received' = [o \in Outputs |-> IF o \in outs THEN Append(received[o], d) ELSE received[o]]

Next == \E d \in Dumps : Finish(d)

Spec == Init /\ [][Next]_<<finished, received>>
=============================================================================

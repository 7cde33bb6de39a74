---------------------------- MODULE MC_SysexThru ----------------------------
(***************************************************************************)
(* Small instances of SysexThru for TLC.                                   *)
(***************************************************************************)
EXTENDS SysexThru

CONSTANTS in1, in2, out1, out2, out3

(* Two sources, one of them split over two outputs: one source an output.  *)
OneSource == {<<in1, out1>>, <<in1, out2>>, <<in2, out3>>}

(* Two sources merged on one output.                                       *)
Merged == {<<in1, out1>>, <<in2, out1>>}
=============================================================================

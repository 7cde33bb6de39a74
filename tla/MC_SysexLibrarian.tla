------------------------- MODULE MC_SysexLibrarian --------------------------
(***************************************************************************)
(* Small instances of SysexLibrarian for TLC.                              *)
(***************************************************************************)
EXTENDS SysexLibrarian
=============================================================================

--------------------------- MODULE MC_Midi1Parser ---------------------------
(***************************************************************************)
(* Small instances of Midi1Parser for TLC.                                 *)
(***************************************************************************)
EXTENDS Midi1Parser
=============================================================================

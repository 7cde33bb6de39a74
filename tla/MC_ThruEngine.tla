--------------------------- MODULE MC_ThruEngine ----------------------------
(***************************************************************************)
(* Small instances of ThruEngine for TLC.                                  *)
(***************************************************************************)
EXTENDS ThruEngine

JustPass    == {Pass}
PassOrBlock == {Pass, [s \in Shapes |-> Dropped]}

NoNotes    == {}
OneNote    == {{1}}      \* a channel with one note
OneChannel == {{1, 2}}   \* two notes of a channel
=============================================================================

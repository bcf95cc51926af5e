--------------------------- MODULE MCRebuildEvents ---------------------------
(* Instances of RebuildEvents for TLC.                                     *)
EXTENDS RebuildEvents

CONSTANTS unit1, unit2
=============================================================================

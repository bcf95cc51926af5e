------------------------- MODULE MCRevisionListing -------------------------
(* Instances of RevisionListing for TLC.                                   *)
EXTENDS RevisionListing, TLC

CONSTANTS r1, r2, jammy, noble

\* Two runs that build different tracks; one revision was there before.
EachItsOwn == r1 :> <<jammy>> @@ r2 :> <<noble>>
OneExisting == {<<jammy, 1>>}
=============================================================================

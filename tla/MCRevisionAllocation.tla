------------------------ MODULE MCRevisionAllocation ------------------------
(* Instances of RevisionAllocation for TLC.                                *)
EXTENDS RevisionAllocation, TLC

CONSTANTS r1, r2, jammy, noble

\* The first run builds two tracks, the second one of them.
TwoAndOne == r1 :> <<jammy, noble>> @@ r2 :> <<noble>>

\* Each run builds the same single track.
OneEach == r1 :> <<jammy>> @@ r2 :> <<jammy>>

\* One revision of jammy was there before.
OneExisting == {<<jammy, 1>>}
=============================================================================

---------------------------- MODULE MCCliUploads ----------------------------
(* Instances of CliUploads for TLC.                                        *)
EXTENDS CliUploads, TLC

CONSTANTS c1, c2, jammy0, jammy1

\* Two uploads of an image, one started a second after the other.
InTurn == c1 :> jammy0 @@ c2 :> jammy1
=============================================================================

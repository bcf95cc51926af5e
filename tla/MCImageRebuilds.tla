--------------------------- MODULE MCImageRebuilds ---------------------------
(* Instances of ImageRebuilds for TLC.                                     *)
EXTENDS ImageRebuilds, TLC

CONSTANTS latest, focal, v1, v2, v3, v4, v5, s1, s2, s3

\* Two pins on a track, a follower on another one, and a pin there.
SomeRequests ==
    {<<focal, "stable">> :> v2, <<focal, "edge">> :> v1,
     <<latest, "edge">> :> <<focal, "edge">>,
     <<latest, "edge">> :> v3}

\* Two rocks on one Ubuntu release, one on another.
Bases == s1 :> "noble" @@ s2 :> "noble" @@ s3 :> "jammy"

InOrder == <<v1, v2, v3, v4, v5>>

\* A revision of each rock was there before.
OnePerSource == <<s1, s2, s3>>
=============================================================================

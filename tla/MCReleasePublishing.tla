------------------------ MODULE MCReleasePublishing ------------------------
(* Instances of ReleasePublishing for TLC.                                 *)
EXTENDS ReleasePublishing, TLC

CONSTANTS latest, focal, v1, v2, v3

fe == <<focal, "edge">>
fs == <<focal, "stable">>
le == <<latest, "edge">>

\* A request for one channel, whose track ends on the day given.
One(c, target, day) == [channels |-> c :> target, eol |-> c[1] :> day]

\* Pins and followers that are valid alone and go wrong together, two
\* channels at once, a revision that does not exist; on day 1, a stable
\* channel of an ended track and one of latest, which cannot be released.
SomeRequests ==
    { [channels |-> (fe :> v1) @@ (le :> v1), eol |-> (focal :> 1) @@ (latest :> 1)],
      One(fe, le, 1), One(le, fe, 1), One(fe, v3, 1), One(le, v2, 1),
      One(fs, v2, 0), One(le, v2, 0) }

RunSymmetry == Permutations(Runs)
=============================================================================

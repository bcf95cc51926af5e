------------------------- MODULE MCDocumentationData -------------------------
(* Instances of DocumentationData for TLC.                                 *)
EXTENDS DocumentationData, TLC

CONSTANTS latest, jammy, focal, v1, v2, r1, r2

JammyStable == <<jammy, "stable">>
JammyEdge == <<jammy, "edge">>

\* Two revisions change places, one of them is released to both channels of
\* the track, or to another track as well.
SomeRequests ==
    {JammyStable :> v1 @@ JammyEdge :> v2, JammyStable :> v2,
     JammyEdge :> v1, JammyEdge :> JammyStable, <<focal, "edge">> :> v1}

\* Stable channels and their aliases on the first page.
TwoPages == [t \in OciTags |-> IF Len(t) = 1 \/ t[2] = "stable" THEN 1 ELSE 2]

NoDates == [t \in {} |-> 0]

\* The name of the track focal has a risk in it, and a dash, as focal-beta has.
AWord == {<<focal, "beta">>}

\* focal < jammy < latest, and the risks as they are spelt.
Letters ==
    [c \in Channels |->
        4 * (CASE c[1] = focal -> 0 [] c[1] = jammy -> 1 [] c[1] = latest -> 2)
          + [beta |-> 1, candidate |-> 2, edge |-> 3, stable |-> 4][c[2]]]
=============================================================================

------------------------ MODULE MCVulnerabilityScans ------------------------
(* Instances of VulnerabilityScans for TLC.                                *)
EXTENDS VulnerabilityScans, TLC

CONSTANTS jammy, latest, v5, v15

\* 15 ends in 5.
Digits == {<<v5, v5>>, <<v15, v15>>, <<v5, v15>>}

\* The tags as GHCR lists them: 15 before 5.
Lexical == <<[track |-> jammy, rev |-> v15], [track |-> jammy, rev |-> v5]>>

JammyStable == <<jammy, "stable">>
JammyEdge == <<jammy, "edge">>

\* Both revisions, one of them and a follower, a circle.
SomeRecords ==
    {JammyStable :> v5 @@ JammyEdge :> v15,
     JammyStable :> v5 @@ JammyEdge :> JammyStable,
     JammyStable :> JammyEdge @@ JammyEdge :> JammyStable @@ <<latest, "edge">> :> v5}

NoDates == [t \in {} |-> 0]
=============================================================================

------------------------ MODULE MCReleasePreparation ------------------------
(* Instances of ReleasePreparation for TLC.                                *)
EXTENDS ReleasePreparation, TLC

CONSTANTS latest, focal, v1, v2, v9, v10, v11, s1, s2

FocalStable == <<focal, "stable">>
FocalCandidate == <<focal, "candidate">>
FocalEdge == <<focal, "edge">>
LatestBeta == <<latest, "beta">>

\* Uploads to one or two channels of one track, and one to none.
To(source, cs, day) ==
    [source |-> source, channels |-> cs,
     eol |-> [t \in {c[1] : c \in cs} |-> day]]
SomeUploads ==
    {<<>>, <<To(s1, {}, 0)>>, <<To(s1, {LatestBeta}, 0)>>}
    \cup {<<To(s1, {FocalCandidate}, 1), To(s2, cs, day)>> :
             cs \in {{FocalCandidate}, {FocalEdge}, {FocalStable, FocalEdge}},
             day \in {0, 1}}

\* Release sections: none, a revision, one that does not exist, a channel
\* either way round, a channel that may be undefined.
SomeReleases ==
    {EmptyMapping, FocalStable :> v1, FocalStable :> v2,
     FocalStable :> FocalEdge, FocalEdge :> FocalStable,
     FocalEdge :> LatestBeta}

SomeTriggers ==
    {[release |-> m, eol |-> [t \in TracksOf(m) |-> 1], uploads |-> u] :
        m \in SomeReleases, u \in SomeUploads}
InOrder == <<v9, v10, v11>>
NameOrder == <<v1, v10, v11, v9>>
=============================================================================

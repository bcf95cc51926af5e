----------------------------- MODULE ReleaseTags -----------------------------
(***************************************************************************)
(* What src/image/release.py computes from the releases of an image, a     *)
(* release request and the list of revisions: is the request valid, which  *)
(* revision does each channel stand for, which OCI tags are to be moved.   *)
(*                                                                         *)
(* A channel is a <<track, risk>> pair, the tag <track>_<risk> of the      *)
(* code.  A mapping takes some channels to their targets: a revision, or   *)
(* another channel whose revision they follow.                             *)
(***************************************************************************)
EXTENDS Naturals

CONSTANTS
    Tracks,     \* tracks of the image
    Latest,     \* the track named "latest"
    Revisions,  \* revision numbers a request may name
    Listed      \* revisions get_canonical_tags_from_swift.sh lists

KnownRisks == {"stable", "candidate", "beta", "edge"}
Channels == Tracks \X KnownRisks
Targets == Revisions \cup Channels

ASSUME TagAssumption ==
    /\ Listed \subseteq Revisions
    /\ Revisions \cap Channels = {}
    /\ Tracks \cap KnownRisks = {}

\* What a _releases.json or a request may hold.
IsMapping(m) == DOMAIN m \subseteq Channels /\ m \in [DOMAIN m -> Targets]

TracksOf(request) == {c[1] : c \in DOMAIN request}

\* The dictionary {**old, **new} of Python.
Overlay(old, new) ==
    [c \in DOMAIN old \cup DOMAIN new |->
        IF c \in DOMAIN new THEN new[c] ELSE old[c]]

-----------------------------------------------------------------------------
(* Following a target to a revision.                                       *)

\* A set of mapped channels that following does not leave, except to a
\* target that is not mapped.
FollowClosed(m, S) == \A c \in S : m[c] \in DOMAIN m => m[c] \in S

\* The channels the loop looks up when it starts at target t: all those it
\* reaches, the loop ending at the first one it has seen before.
Followed(m, t) ==
    {c \in DOMAIN m :
        \A S \in SUBSET DOMAIN m :
            ({t} \cap DOMAIN m \subseteq S) /\ FollowClosed(m, S) => c \in S}

\* Where it ends: a revision, a channel that is undefined, or nowhere when
\* it has gone round in a circle.
Ends(m, t) == ({t} \cup {m[c] : c \in Followed(m, t)}) \ DOMAIN m

\* The target stands for a revision that exists.
Resolves(m, t) == Ends(m, t) \cap Listed # {}

RevisionOf(m, t) == CHOOSE v \in Ends(m, t) : v \in Listed

\* The request is valid against what the channels map to once it is applied:
\* no channel follows itself, none leads into a circle, to an undefined
\* channel or to a revision that does not exist.
ValidRequest(m, request) ==
    \A c \in DOMAIN request : request[c] # c /\ Resolves(m, request[c])

-----------------------------------------------------------------------------
(* The tags to release.                                                    *)

\* eol gives the end-of-life date of tracks, now is the execution time.
PastEndOfLife(eol, now, c) == c[1] \in DOMAIN eol /\ eol[c[1]] < now

\* remove_eol_tags: a channel goes if it or a channel it follows is on a
\* track past its end of life.
Removed(m, eol, now, request) ==
    {c \in DOMAIN request :
        \E d \in {c} \cup Followed(m, c) : PastEndOfLife(eol, now, d)}

OciTags == Channels \cup {<<k>> : k \in KnownRisks} \cup {<<t>> : t \in Tracks}

\* "latest" is left out of its tags: latest_edge is released as edge.
TagOf(c) == IF c[1] = Latest THEN <<c[2]>> ELSE c
StableAlias(c) == <<c[1]>>

\* The loop that adds the aliases runs over the channels of the request, not
\* over the ones that were kept, and takes each latest_<risk> out of the
\* dictionary of the latter: a KeyError if it is not there.
AliasingFails(m, eol, now, request) ==
    \E c \in Removed(m, eol, now, request) : c[1] = Latest

\* The tags and the revisions they are to point to.
TagsToRelease(m, eol, now, request) ==
    LET removed == Removed(m, eol, now, request)
        stable == {c \in DOMAIN request : c[2] = "stable"}
        pin(c) == RevisionOf(m, request[c])
    IN  {[tag |-> TagOf(c), rev |-> pin(c)] : c \in DOMAIN request \ removed}
          \cup {[tag |-> StableAlias(c), rev |-> pin(c)] : c \in stable}

\* Mutant: tags are added and none is taken away.
RetagKeeping(old, moved) == old \cup moved

\* The tags of `moved` replace those of the same name.
Retag(old, moved) ==
    {e \in old : \A f \in moved : f.tag # e.tag} \cup moved
=============================================================================

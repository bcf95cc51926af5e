---------------------------- MODULE ReleaseBoard ----------------------------
(***************************************************************************)
(* A sequence of releases of one image, each one done before the next one  *)
(* starts and none failing half-way: what release.py makes of the channels *)
(* of the image (_releases.json) and of its tags in the registries, and    *)
(* how the two drift apart.                                                *)
(***************************************************************************)
EXTENDS ReleaseTags

CONSTANTS
    Requests,   \* release sections of image.yaml, as mappings
    Dates,      \* end-of-life dates a request may give its tracks
    LastDay     \* bound of the clock

ASSUME BoardAssumption ==
    /\ \A request \in Requests : IsMapping(request)
    /\ Dates \subseteq Nat
    /\ LastDay \in Nat

VARIABLES
    channels,   \* the mapping in _releases.json
    eol,        \* the end-of-life dates of its tracks
    registry,   \* set of [tag, rev]: the tags in the registries
    now

boardVars == <<channels, eol, registry, now>>

BoardTypeOK ==
    /\ IsMapping(channels)
    /\ DOMAIN eol \subseteq Tracks /\ eol \in [DOMAIN eol -> Dates]
    /\ registry \subseteq [tag : OciTags, rev : Listed]
    /\ \A e, f \in registry : e.tag = f.tag => e = f
    /\ now \in 0..LastDay

BoardInit ==
    /\ channels = [c \in {} |-> c]
    /\ eol = [t \in {} |-> 0]
    /\ registry = {}
    /\ now \in 0..LastDay

\* Mutant: tags that are not going to be released are filtered out first.
AcceptedFiltered(request, dates) ==
    LET m == Overlay(channels, request)
        e == Overlay(eol, dates)
    IN  /\ \A c \in DOMAIN request :
              \/ c[2] # "stable" /\ c \in Removed(m, e, now, request)
              \/ request[c] # c /\ Resolves(m, request[c])
        /\ ~ AliasingFails(m, e, now, request)

\* release.py does not raise, given a request and the end-of-life dates of
\* its tracks, which the schema wants of every track.
Accepted(request, dates) ==
    LET m == Overlay(channels, request)
    IN  /\ ValidRequest(m, request)
        /\ ~ AliasingFails(m, Overlay(eol, dates), now, request)

\* Mutant: end-of-life dates that a request gives are those of the next one.
ReleaseOldDates(request, dates) ==
    LET m == Overlay(channels, request)
    IN  /\ Accepted(request, dates)
        /\ channels' = m
        /\ eol' = Overlay(eol, dates)
        /\ registry' = Retag(registry, TagsToRelease(m, eol, now, request))
        /\ UNCHANGED now

\* Mutant: a revision that channels get is taken from the mapping of before.
ReleaseOldPins(request, dates) ==
    LET m == Overlay(channels, request)
        e == Overlay(eol, dates)
        known == {c \in DOMAIN request : Resolves(channels, request[c])}
        old == [c \in known |-> request[c]]
        new == [c \in DOMAIN request \ known |-> request[c]]
    IN  /\ Accepted(request, dates)
        /\ channels' = m
        /\ eol' = e
        /\ registry' = Retag(registry, TagsToRelease(channels, e, now, old)
                                         \cup TagsToRelease(m, e, now, new))
        /\ UNCHANGED now

\* Nothing at all happens when release.py raises.
Release(request, dates) ==
    LET m == Overlay(channels, request)
        e == Overlay(eol, dates)
    IN  /\ Accepted(request, dates)
        /\ channels' = m
        /\ eol' = e
        /\ registry' = Retag(registry, TagsToRelease(m, e, now, request))
        /\ UNCHANGED now

Tick ==
    /\ now < LastDay
    /\ now' = now + 1
    /\ UNCHANGED <<channels, eol, registry>>

BoardNext ==
    \/ \E request \in Requests :
          \E dates \in [TracksOf(request) -> Dates] : Release(request, dates)
    \/ Tick

BoardSpec == BoardInit /\ [][BoardNext]_boardVars

-----------------------------------------------------------------------------
\* Every channel of the image stands for a revision that exists, those too
\* that no recent request has named: only the channels of a request are
\* validated, but a request can cut off or bend what others follow.
EveryChannelResolves == \A c \in DOMAIN channels : Resolves(channels, c)

\* The tag of a channel serves the revision the record gives the channel.
Served(c) ==
    [tag |-> TagOf(c), rev |-> RevisionOf(channels, c)] \in registry

\* Record and registries drift apart in two ways only: a channel that
\* follows another one (README.md:222) keeps its tag when that one moves,
\* and a channel of the request is recorded but not published when it or a
\* channel it follows has ended (release.py:223-295, 323-347).
TagsDriftByFollowingOnly ==
    [][\A c \in DOMAIN channels' :
          \/ Served(c)'
          \/ c \in DOMAIN channels /\ ~ Served(c)
          \/ \E d \in Followed(channels', c) :
                \/ PastEndOfLife(eol', now, d)
                \/ d # c /\ (d \in DOMAIN channels => channels'[d] # channels[d])
      ]_boardVars

\* release.py:269: "remove all EOL tags to be released".  The tag that a
\* release moves is that of a channel whose track has not ended, given the
\* dates of the same request, or the alias of a stable channel: the aliases
\* are computed from what the mapping was before (release.py:274-289).
EndedChannelsKeepTheirTags ==
    [][\A e \in registry' \ registry :
          \/ \E c \in DOMAIN channels' :
                e.tag = TagOf(c) /\ ~ PastEndOfLife(eol', now, c)
          \/ \E c \in DOMAIN channels' :
                c[2] = "stable" /\ e.tag = StableAlias(c)]_boardVars
=============================================================================

---------------------------- MODULE ImageRebuilds ----------------------------
(***************************************************************************)
(* The automatic rebuilds of one image.  find_images_to_update.py reads    *)
(* the record of its releases, then the tags of the registry, and makes    *)
(* one trigger that builds again what is released on an Ubuntu release     *)
(* and releases the new revisions to the same channels.  Image.yaml builds *)
(* it, merge_release_info.py merges it (ReleaseRequests) and release.py    *)
(* releases it (ReleaseBoard), while maintainers upload and release.       *)
(***************************************************************************)
EXTENDS ReleaseBoard, ReleaseRequests, FiniteSets

CONSTANTS
    Sources,    \* triplets source_commit_directory rocks are built from
    BaseOf,     \* the Ubuntu release each of them is based on
    Order,      \* revision numbers, ascending
    Built       \* the sources of the revisions there are at first

ASSUME RebuildAssumption ==
    /\ Order \in Seq(Listed)
    /\ Built \in Seq(Sources) /\ Len(Built) <= Len(Order)
    /\ \A i, j \in DOMAIN Order : Order[i] = Order[j] => i = j

VARIABLES
    built,      \* the source of each revision, in their order
    scan,       \* what the scan in progress has read, or NoScan
    rebuild,    \* the rebuild in progress, or NoRebuild
    overtaken   \* history: released by others since the scan began

rebuildVars == <<built, scan, rebuild, overtaken>>
imageVars == <<boardVars, rebuildVars>>

NoScan == [base |-> "none", released |-> {}, eol |-> EmptyMapping]
NoRebuild == [base |-> "none", uploads |-> <<>>]

RebuildInit ==
    /\ BoardInit
    /\ built = Built
    /\ scan = NoScan
    /\ rebuild = NoRebuild
    /\ overtaken = FALSE

Existing == {Order[i] : i \in DOMAIN built}
NumberOf(v) == CHOOSE i \in DOMAIN Order : Order[i] = v
SourceOf(v) == built[NumberOf(v)]

\* The members of S in the ascending order of their places.
Sorted(S, place) ==
    LET upTo(x) == {y \in S : place[y] <= place[x]}
    IN  [i \in 1..Cardinality(S) |-> CHOOSE x \in S : Cardinality(upTo(x)) = i]

-----------------------------------------------------------------------------
(* The scan.                                                               *)

\* find_released_revisions: targets that are numbers, not channels.
Released(m) == {m[c] : c \in DOMAIN m} \cap Revisions

TagsOf(v) == {e.tag : e \in {f \in registry : f.rev = v}}

\* Mutant: the alias <track> is taken for the tag of edge.
ChannelOfEdge(tag) ==
    IF Len(tag) = 2 THEN tag
    ELSE IF tag[1] \in KnownRisks THEN <<Latest, tag[1]>>
    ELSE <<tag[1], "edge">>

\* The inverse of TagOf and StableAlias.
ChannelOf(tag) ==
    IF Len(tag) = 2 THEN tag
    ELSE IF tag[1] \in KnownRisks THEN <<Latest, tag[1]>>
    ELSE <<tag[1], "stable">>

\* The revisions to be rebuilt: released, and on the base.
Matching == {v \in scan.released : BaseOf[SourceOf(v)] = scan.base}

\* release_to of a revision: the channels whose tags have its digest, on
\* tracks that have not ended.
ReleaseToOf(v) ==
    {c \in {ChannelOf(tag) : tag \in TagsOf(v)} :
        c[1] \in DOMAIN scan.eol /\ ~ PastEndOfLife(scan.eol, now, c)}

\* releases[to_track] raises when the record has no such track.
ScanRaises ==
    \E v \in Matching : \E tag \in TagsOf(v) :
        ChannelOf(tag)[1] \notin DOMAIN scan.eol

\* Revisions are grouped by triplet.  The tracks of a later one overwrite
\* those of the earlier ones, with all their risks.
GroupChannels(s) ==
    {c \in UNION {ReleaseToOf(v) : v \in Matching} :
        \E v \in Matching :
            /\ SourceOf(v) = s /\ c \in ReleaseToOf(v)
            /\ \A w \in Matching :
                  SourceOf(w) = s /\ (\E d \in ReleaseToOf(w) : d[1] = c[1])
                      => NumberOf(w) <= NumberOf(v)}

\* Groups in the order of the first revision that has channels.
FirstOf(s) ==
    LET places == {NumberOf(v) : v \in {w \in Matching :
                        SourceOf(w) = s /\ ReleaseToOf(w) # {}}}
    IN  CHOOSE n \in places : \A k \in places : n <= k

\* Mutant: a build per revision instead of one per triplet.
UberTriggerUngrouped ==
    LET revisions == {v \in Matching : ReleaseToOf(v) # {}}
        upload(v) ==
            [source |-> SourceOf(v), channels |-> ReleaseToOf(v),
             eol |-> [t \in {c[1] : c \in ReleaseToOf(v)} |-> scan.eol[t]]]
        sorted == Sorted(revisions, [v \in revisions |-> NumberOf(v)])
    IN  [i \in DOMAIN sorted |-> upload(sorted[i])]

UberTrigger ==
    LET groups == {s \in Sources : GroupChannels(s) # {}}
        upload(s) ==
            [source |-> s, channels |-> GroupChannels(s),
             eol |-> [t \in {c[1] : c \in GroupChannels(s)} |-> scan.eol[t]]]
        sorted == Sorted(groups, [s \in groups |-> FirstOf(s)])
    IN  [i \in DOMAIN sorted |-> upload(sorted[i])]

\* The archive of the branch _releases is downloaded.
ReadRecord(base) ==
    /\ scan = NoScan /\ rebuild = NoRebuild
    /\ Released(channels) # {}
    /\ scan' = [base |-> base, released |-> Released(channels), eol |-> eol]
    /\ overtaken' = FALSE
    /\ UNCHANGED <<boardVars, built, rebuild>>

\* trigger_image_rebuild: the tags are read and the rebuild is dispatched,
\* unless there is nothing to rebuild or the scan raises.
ReadTags ==
    /\ scan # NoScan
    /\ scan' = NoScan
    /\ rebuild' = IF ScanRaises \/ UberTrigger = <<>> THEN NoRebuild
                  ELSE [base |-> scan.base, uploads |-> UberTrigger]
    /\ UNCHANGED <<boardVars, built, overtaken>>

-----------------------------------------------------------------------------
(* The run of Image.yaml with the trigger.                                 *)

\* The bound on revisions leaves numbers for the rebuild.
Room == Len(built) + Len(rebuild.uploads) <= Len(Order)

NewFiles ==
    RevisionFiles(rebuild.uploads, SubSeq(Order, Len(built) + 1, Len(Order)), now)

\* The trigger of the rebuild, after each of the files in their order.
Merged ==
    LET sorted == Sorted(NewFiles, [f \in NewFiles |-> NumberOf(f.rev)])
        after[k \in 0..Len(sorted)] ==
            IF k = 0 THEN [release |-> EmptyMapping, eol |-> EmptyMapping,
                           uploads |-> rebuild.uploads]
            ELSE MergeRevision(after[k - 1], sorted[k])
    IN  after[Len(sorted)]

\* The rebuilt rocks get their numbers and are released; a release that is
\* refused leaves them uploaded.
Rebuild ==
    /\ rebuild # NoRebuild
    /\ Room
    /\ built' = built \o [i \in DOMAIN rebuild.uploads |->
                              rebuild.uploads[i].source]
    /\ IF NewFiles # {} /\ Accepted(Merged.release, DatesOf(Merged))
       THEN Release(Merged.release, DatesOf(Merged))
       ELSE UNCHANGED boardVars
    /\ rebuild' = NoRebuild
    /\ UNCHANGED <<scan, overtaken>>

\* It fails before it is released, or is cancelled by a newer run.
RebuildFails ==
    /\ rebuild # NoRebuild
    /\ rebuild' = NoRebuild
    /\ UNCHANGED <<boardVars, built, scan, overtaken>>

-----------------------------------------------------------------------------
(* What maintainers do meanwhile.                                          *)

Upload(s) ==
    /\ Len(built) < Len(Order)
    /\ built' = Append(built, s)
    /\ UNCHANGED <<boardVars, scan, rebuild, overtaken>>

UserRelease(request, dates) ==
    /\ {request[c] : c \in DOMAIN request} \cap Revisions \subseteq Existing
    /\ Release(request, dates)
    /\ overtaken' = TRUE
    /\ UNCHANGED <<built, scan, rebuild>>

RebuildNext ==
    \/ \E s \in Sources : ReadRecord(BaseOf[s])
    \/ ReadTags \/ Rebuild \/ RebuildFails
    \/ \E s \in Sources : Upload(s)
    \/ \E request \in Requests :
          \E dates \in [TracksOf(request) -> Dates] : UserRelease(request, dates)
    \/ Tick /\ UNCHANGED rebuildVars

RebuildSpec == RebuildInit /\ [][RebuildNext]_imageVars
-----------------------------------------------------------------------------
\* The trigger of a rebuild is one that image.yaml could hold: a triplet is
\* there once and each of its tracks has a date, whatever was released in
\* the middle of the scan (triggers.py:88-103).
RebuildTriggersAreValid ==
    rebuild # NoRebuild =>
        ImageSchema([release |-> EmptyMapping, eol |-> EmptyMapping,
                     uploads |-> rebuild.uploads])

\* The registry is what the record says, on tracks that have not ended.
InSync ==
    \A c \in DOMAIN channels :
        \/ PastEndOfLife(eol, now, c)
        \/ [tag |-> TagOf(c), rev |-> RevisionOf(channels, c)] \in registry
NothingElse ==
    \A e \in registry : \E c \in DOMAIN channels :
        /\ e.tag = TagOf(c) \/ (c[2] = "stable" /\ e.tag = StableAlias(c))
        /\ e.rev = RevisionOf(channels, c)

SourceAt(m, c) == SourceOf(RevisionOf(m, c))

\* What a scan must have found for its rebuild to change nothing but
\* revisions: each track on one base, each source released as one revision.
Clean ==
    /\ \A c, d \in DOMAIN channels : c[1] = d[1] =>
          BaseOf[SourceAt(channels, c)] = BaseOf[SourceAt(channels, d)]
    /\ \A v, w \in {RevisionOf(channels, c) : c \in DOMAIN channels} :
          SourceOf(v) = SourceOf(w) => v = w

\* The step ends a rebuild whose builds were uploaded.
IsRebuilt == rebuild # NoRebuild /\ rebuild' = NoRebuild /\ built' # built

Live(c) == ~ PastEndOfLife(eol, now, c)

\* A rebuild that nobody has overtaken, of an image whose registry and
\* record agree and are clean in that sense, leaves each channel with the
\* source it had, and gives all those of the base a new revision, unless a
\* track ends between the scan and the release.
RebuildIsTransparent ==
    [][ /\ IsRebuilt /\ ~ overtaken /\ InSync /\ NothingElse /\ Clean
        /\ \A i \in DOMAIN rebuild.uploads :
              \A c \in rebuild.uploads[i].channels : Live(c)
        => \A c \in DOMAIN channels :
              /\ SourceAt(channels, c) =
                    built'[NumberOf(RevisionOf(channels', c))]
              /\ Live(c) /\ BaseOf[SourceAt(channels, c)] = rebuild.base
                    => RevisionOf(channels', c) \notin Existing
      ]_imageVars

=============================================================================

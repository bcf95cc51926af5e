------------------------- MODULE ReleaseBoardProofs -------------------------
(***************************************************************************)
(* Theorems about the releases of an image, for any tracks, revisions,     *)
(* requests, dates and runs: about ReleaseBoard, where they follow each    *)
(* other, ReleasePreparation, where the runs make the requests,            *)
(* DocumentationData, which tables them, and ImageRebuilds, which repeats  *)
(* them.                                                                   *)
(***************************************************************************)
EXTENDS ReleasePreparation, ImageRebuilds, DocumentationData,
        ReleaseTagsProofs, FiniteSetTheorems

-----------------------------------------------------------------------------
(* The board.                                                              *)

\* A release of any mapping, with dates of any tracks, keeps the board as its
\* types say: a tag of the registries is a single tag, and points to a
\* revision that exists.
LEMMA ReleaseKeepsBoard ==
    ASSUME BoardTypeOK, NEW request, IsMapping(request),
           NEW dates, DOMAIN dates \subseteq Tracks,
           dates \in [DOMAIN dates -> Dates],
           Release(request, dates)
    PROVE  BoardTypeOK'
<1> DEFINE m == Overlay(channels, request)
           moved == TagsToRelease(m, Overlay(eol, dates), now, request)
<1>1. channels' = m /\ IsMapping(m) /\ ValidRequest(m, request)
  BY OverlayMapping DEF Release, Accepted, BoardTypeOK
<1>2. /\ DOMAIN eol' \subseteq Tracks
      /\ eol' \in [DOMAIN eol' -> Dates]
  BY DEF Release, BoardTypeOK, Overlay
<1>3. /\ moved \subseteq [tag : OciTags, rev : Listed]
      /\ \A x, y \in moved : x.tag = y.tag => x = y
  BY <1>1, TagsAreDistinct
<1>4. registry' = Retag(registry, moved) /\ now' = now
  BY DEF Release
<1> HIDE DEF moved, m
<1>5. /\ registry' \subseteq [tag : OciTags, rev : Listed]
      /\ \A x, y \in registry' : x.tag = y.tag => x = y
  BY <1>3, <1>4 DEF BoardTypeOK, Retag
<1>6. QED
  BY <1>1, <1>2, <1>4, <1>5 DEF BoardTypeOK

\* So does one of a request of the board.
LEMMA RequestKeepsBoard ==
    ASSUME BoardTypeOK, NEW request \in Requests,
           NEW dates \in [TracksOf(request) -> Dates],
           Release(request, dates)
    PROVE  BoardTypeOK'
<1>1. IsMapping(request)
  BY BoardAssumption
<1>2. DOMAIN dates \subseteq Tracks /\ dates \in [DOMAIN dates -> Dates]
  BY <1>1 DEF IsMapping, TracksOf, Channels
<1>3. QED
  BY <1>1, <1>2, ReleaseKeepsBoard

\* Type correctness of the board.
THEOREM BoardTypeCorrect == BoardSpec => []BoardTypeOK
<1>1. BoardInit => BoardTypeOK
  BY BoardAssumption DEF BoardInit, BoardTypeOK, IsMapping
<1>2. BoardTypeOK /\ [BoardNext]_boardVars => BoardTypeOK'
  <2> SUFFICES ASSUME BoardTypeOK, [BoardNext]_boardVars PROVE BoardTypeOK'
    OBVIOUS
  <2>1. CASE Tick
    BY <2>1, BoardAssumption DEF Tick, BoardTypeOK, IsMapping
  <2>2. CASE UNCHANGED boardVars
    BY <2>2 DEF boardVars, BoardTypeOK, IsMapping
  <2>3. QED
    BY <2>1, <2>2, RequestKeepsBoard DEF BoardNext
<1>3. QED
  BY <1>1, <1>2, PTL DEF BoardSpec

\* Releases keep every channel of the image on a revision that exists.
THEOREM ChannelsResolve == BoardSpec => [](IsMapping(channels) /\ EveryChannelResolves)
<1> DEFINE Inv == IsMapping(channels) /\ EveryChannelResolves
<1>1. BoardInit => Inv
  BY DEF BoardInit, IsMapping, EveryChannelResolves
<1>2. Inv /\ [BoardNext]_boardVars => Inv'
  <2> SUFFICES ASSUME Inv, [BoardNext]_boardVars PROVE Inv'
    OBVIOUS
  <2>1. ASSUME NEW request \in Requests,
               NEW dates \in [TracksOf(request) -> Dates],
               Release(request, dates)
        PROVE  Inv'
    <3>1. /\ IsMapping(request)
          /\ ValidRequest(Overlay(channels, request), request)
          /\ channels' = Overlay(channels, request)
      BY <2>1, BoardAssumption DEF Release, Accepted
    <3>2. IsMapping(channels')
      BY <3>1, OverlayMapping
    <3>3. \A c \in DOMAIN channels' : Resolves(channels', c)
      BY <3>1, RequestKeepsResolving DEF EveryChannelResolves
    <3>4. QED
      BY <3>2, <3>3 DEF EveryChannelResolves
  <2>2. CASE Tick
    BY <2>2 DEF Tick, EveryChannelResolves
  <2>3. CASE UNCHANGED boardVars
    BY <2>3 DEF boardVars, EveryChannelResolves
  <2>4. QED
    BY <2>1, <2>2, <2>3 DEF BoardNext
<1>3. QED
  BY <1>1, <1>2, PTL DEF BoardSpec

\* No release moves the tag of a channel that has ended, whichever dates its
\* request brings and whatever was released before, aliases of stable
\* channels excepted.
THEOREM EndedTagsStay == BoardSpec => EndedChannelsKeepTheirTags
<1> DEFINE Moves ==
      \A e \in registry' \ registry :
          \/ \E c \in DOMAIN channels' :
                e.tag = TagOf(c) /\ ~ PastEndOfLife(eol', now, c)
          \/ \E c \in DOMAIN channels' :
                c[2] = "stable" /\ e.tag = StableAlias(c)
<1>1. [BoardNext]_boardVars => [Moves]_boardVars
  <2>1. ASSUME NEW request \in Requests,
               NEW dates \in [TracksOf(request) -> Dates],
               Release(request, dates)
        PROVE  Moves
    <3> DEFINE m == Overlay(channels, request)
               dated == Overlay(eol, dates)
    <3>1. /\ channels' = m /\ eol' = dated
          /\ registry' = Retag(registry, TagsToRelease(m, dated, now, request))
      BY <2>1 DEF Release
    <3>2. DOMAIN request \subseteq DOMAIN m
      BY DEF Overlay
    <3> HIDE DEF m, dated
    <3> SUFFICES ASSUME NEW e \in registry' \ registry
                 PROVE  \/ \E c \in DOMAIN channels' :
                              e.tag = TagOf(c) /\ ~ PastEndOfLife(eol', now, c)
                        \/ \E c \in DOMAIN channels' :
                              c[2] = "stable" /\ e.tag = StableAlias(c)
      OBVIOUS
    <3>3. e \in TagsToRelease(m, dated, now, request)
      BY <3>1 DEF Retag
    <3>4. CASE \E c \in DOMAIN request \ Removed(m, dated, now, request) :
                  e = [tag |-> TagOf(c), rev |-> RevisionOf(m, request[c])]
      <4>1. PICK c \in DOMAIN request \ Removed(m, dated, now, request) :
                e.tag = TagOf(c)
        BY <3>4
      <4>2. ~ PastEndOfLife(dated, now, c)
        BY <4>1 DEF Removed
      <4>3. QED
        BY <3>1, <3>2, <4>1, <4>2
    <3>5. CASE \E c \in DOMAIN request :
                  /\ c[2] = "stable"
                  /\ e = [tag |-> StableAlias(c), rev |-> RevisionOf(m, request[c])]
      BY <3>1, <3>2, <3>5
    <3>6. QED
      BY <3>3, <3>4, <3>5 DEF TagsToRelease
  <2>2. CASE Tick
    BY <2>2 DEF Tick
  <2>3. CASE UNCHANGED boardVars
    BY <2>3
  <2>4. QED
    BY <2>1, <2>2, <2>3 DEF BoardNext
<1>2. QED
  BY <1>1, PTL DEF BoardSpec, EndedChannelsKeepTheirTags

\* Record and registries drift apart where a followed channel has ended or
\* has moved, and nowhere else: a release serves each channel that it asks
\* for and does not drop, and does not touch the tag of any other one.
THEOREM OnlyFollowingDrifts == BoardSpec => TagsDriftByFollowingOnly
<1> DEFINE Drifts(c) ==
      \/ Served(c)'
      \/ c \in DOMAIN channels /\ ~ Served(c)
      \/ \E d \in Followed(channels', c) :
            \/ PastEndOfLife(eol', now, d)
            \/ d # c /\ (d \in DOMAIN channels => channels'[d] # channels[d])
<1>1. ASSUME IsMapping(channels), NEW request, IsMapping(request), NEW dates,
             Release(request, dates), NEW c \in DOMAIN channels'
      PROVE  Drifts(c)
  <2> DEFINE m == Overlay(channels, request)
             dated == Overlay(eol, dates)
             moved == TagsToRelease(m, dated, now, request)
  <2>1. /\ channels' = m /\ eol' = dated
        /\ registry' = Retag(registry, moved)
    BY <1>1 DEF Release
  <2>2. /\ DOMAIN m = DOMAIN channels \cup DOMAIN request
        /\ \A d \in DOMAIN request : m[d] = request[d]
        /\ \A d \in DOMAIN channels \ DOMAIN request : m[d] = channels[d]
        /\ DOMAIN m \subseteq Channels /\ c \in DOMAIN m
    BY <1>1, <2>1 DEF Overlay, IsMapping
  <2>3. \A e \in moved :
            \/ \E d \in DOMAIN request : e.tag = TagOf(d)
            \/ \E d \in DOMAIN request : e.tag = StableAlias(d)
    BY DEF TagsToRelease
  <2>4. \A d \in DOMAIN request \ Removed(m, dated, now, request) :
            [tag |-> TagOf(d), rev |-> RevisionOf(m, request[d])] \in moved
    BY DEF TagsToRelease
  <2> HIDE DEF m, dated, moved
  <2>5. CASE c \in Removed(m, dated, now, request)
    <3>1. c \in Followed(m, c)
      BY <2>2, FollowedClosed
    <3>2. \E d \in Followed(m, c) : PastEndOfLife(dated, now, d)
      BY <2>5, <3>1 DEF Removed
    <3>3. QED
      BY <2>1, <3>2
  <2>6. CASE c \in DOMAIN request \ Removed(m, dated, now, request)
    <3>1. RevisionOf(m, c) = RevisionOf(m, request[c])
      BY <2>2, <2>6, EndsOneOn DEF RevisionOf
    <3>2. [tag |-> TagOf(c), rev |-> RevisionOf(m, c)] \in registry'
      BY <2>1, <2>4, <2>6, <3>1 DEF Retag
    <3>3. Served(c)'
      BY <2>1, <3>2 DEF Served
    <3>4. QED
      BY <3>3
  <2>7. CASE c \notin DOMAIN request
    <3> SUFFICES ASSUME Served(c),
                        \A d \in Followed(m, c) :
                            d # c => d \in DOMAIN channels /\ m[d] = channels[d]
                 PROVE  Served(c)'
      BY <2>1, <2>2, <2>7
    <3>1. \A d \in Followed(m, c) : d \in DOMAIN channels /\ m[d] = channels[d]
      BY <2>2, <2>7
    <3>2. RevisionOf(m, c) = RevisionOf(channels, c)
      BY <2>2, <3>1, SameWay DEF RevisionOf
    <3>3. \A e \in moved : e.tag # TagOf(c)
      BY <2>2, <2>3, <2>7, OwnTags
    <3>4. [tag |-> TagOf(c), rev |-> RevisionOf(m, c)] \in registry'
      BY <2>1, <3>2, <3>3 DEF Retag, Served
    <3>5. QED
      BY <2>1, <3>4 DEF Served
  <2>8. QED
    BY <2>5, <2>6, <2>7 DEF Removed
<1>2. IsMapping(channels) /\ [BoardNext]_boardVars
          => [\A c \in DOMAIN channels' : Drifts(c)]_boardVars
  <2>1. ASSUME IsMapping(channels), NEW request \in Requests,
               NEW dates \in [TracksOf(request) -> Dates],
               Release(request, dates)
        PROVE  \A c \in DOMAIN channels' : Drifts(c)
    <3>1. IsMapping(request)
      BY BoardAssumption
    <3>2. QED
      BY <1>1, <2>1, <3>1
  <2>2. ASSUME Tick PROVE \A c \in DOMAIN channels' : Drifts(c)
    BY <2>2 DEF Tick, Served
  <2>3. QED
    BY <2>1, <2>2 DEF BoardNext
<1>3. BoardSpec => []IsMapping(channels)
  BY ChannelsResolve, PTL
<1>4. QED
  BY <1>2, <1>3, PTL DEF BoardSpec, TagsDriftByFollowingOnly

-----------------------------------------------------------------------------
(* Merging and backfilling.                                                *)

\* The risks in their order.
LEMMA Ranks ==
    /\ \A k \in KnownRisks : Rank[k] \in 0..3 /\ (Rank[k] = 0 <=> k = "stable")
    /\ \A j, k \in KnownRisks : Rank[j] = Rank[k] => j = k
    /\ \A k \in KnownRisks \ {"stable"} :
          NextLower[k] \in KnownRisks /\ Rank[NextLower[k]] = Rank[k] - 1
BY DEF Rank, NextLower, KnownRisks

\* The channel that a risk which is missing follows.
Lower(c) == <<c[1], NextLower[c[2]]>>

\* Channels are told by track and risk, and there is none between a channel
\* and the next lower one.
LEMMA LowerIsNext ==
    ASSUME NEW c \in Channels, NEW d \in Channels, Below(d, c)
    PROVE  /\ Lower(c) \in Channels /\ Below(Lower(c), c) /\ Lower(c) # c
           /\ d = Lower(c) \/ Below(d, Lower(c))
<1>1. /\ c = <<c[1], c[2]>> /\ c[1] \in Tracks /\ c[2] \in KnownRisks
      /\ d = <<d[1], d[2]>> /\ d[2] \in KnownRisks
      /\ d[1] = c[1] /\ Rank[d[2]] < Rank[c[2]]
  BY DEF Channels, Below
<1>2. c[2] \in KnownRisks \ {"stable"}
  BY <1>1, Ranks
<1>3. /\ NextLower[c[2]] \in KnownRisks
      /\ Rank[NextLower[c[2]]] = Rank[c[2]] - 1
      /\ Rank[c[2]] \in Nat /\ Rank[d[2]] \in Nat
  BY <1>1, <1>2, Ranks
<1>4. Lower(c)[1] = c[1] /\ Lower(c)[2] = NextLower[c[2]]
  BY DEF Lower
<1>5. Lower(c) \in Channels /\ Below(Lower(c), c) /\ Lower(c) # c
  BY <1>1, <1>3, <1>4 DEF Below, Channels, Lower
<1>6. CASE Rank[d[2]] = Rank[NextLower[c[2]]]
  BY <1>1, <1>3, <1>5, <1>6, Ranks DEF Lower
<1>7. CASE Rank[d[2]] # Rank[NextLower[c[2]]]
  BY <1>1, <1>3, <1>4, <1>5, <1>7 DEF Below
<1>8. QED
  BY <1>5, <1>6, <1>7

\* What backfilling adds: the channels above one that is there, and each of
\* them follows the next lower one, which is there then.
LEMMA BackfillAdds ==
    ASSUME NEW m, DOMAIN m \subseteq Channels
    PROVE  LET b == Backfill(m)
           IN  /\ DOMAIN m \subseteq DOMAIN b /\ DOMAIN b \subseteq Channels
               /\ \A c \in DOMAIN m : b[c] = m[c]
               /\ \A c \in Channels \ DOMAIN m :
                     c \in DOMAIN b <=> \E d \in DOMAIN m : Below(d, c)
               /\ \A c \in DOMAIN b \ DOMAIN m :
                     b[c] = Lower(c) /\ Lower(c) \in DOMAIN b
               /\ b = [c \in DOMAIN b |-> b[c]]
<1> DEFINE missing == {c \in Channels \ DOMAIN m : \E d \in DOMAIN m : Below(d, c)}
           add == [c \in missing |-> <<c[1], NextLower[c[2]]>>]
           b == Backfill(m)
<1>1. b = Overlay(m, add)
  BY DEF Backfill
<1>2. DOMAIN add = missing /\ \A c \in missing : add[c] = Lower(c)
  BY DEF Lower
<1>3. /\ DOMAIN b = DOMAIN m \cup missing
      /\ \A c \in DOMAIN m : b[c] = m[c]
      /\ \A c \in missing : b[c] = Lower(c)
      /\ b = [c \in DOMAIN b |-> b[c]]
  <2> HIDE DEF missing, add, b
  <2>1. QED
    BY <1>1, <1>2 DEF Overlay, missing
<1>4. ASSUME NEW c \in missing PROVE Lower(c) \in DOMAIN b
  <2>1. PICK d \in DOMAIN m : Below(d, c)
    OBVIOUS
  <2>2. d = Lower(c) \/ Below(d, Lower(c))
    BY <2>1, LowerIsNext
  <2>3. Lower(c) \in Channels
    BY <2>1, LowerIsNext
  <2>4. QED
    BY <1>3, <2>1, <2>2, <2>3
<1> HIDE DEF b
<1>5. QED
  BY <1>3, <1>4 DEF b

\* It makes no difference whether the gaps were filled before other targets
\* were laid over: what had been added gives way to them, and is added again
\* where it was.
LEMMA BackfillOnce ==
    ASSUME NEW m, NEW p, DOMAIN m \subseteq Channels, DOMAIN p \subseteq Channels
    PROVE  Backfill(Overlay(Backfill(m), p)) = Backfill(Overlay(m, p))
<1> DEFINE b == Backfill(m)
           mp == Overlay(m, p)
           bp == Overlay(b, p)
           once == Backfill(mp)
           twice == Backfill(bp)
<1>1. /\ DOMAIN m \subseteq DOMAIN b /\ DOMAIN b \subseteq Channels
      /\ \A c \in DOMAIN m : b[c] = m[c]
      /\ \A c \in Channels \ DOMAIN m :
            c \in DOMAIN b <=> \E d \in DOMAIN m : Below(d, c)
      /\ \A c \in DOMAIN b \ DOMAIN m : b[c] = Lower(c)
  BY BackfillAdds
<1>2. /\ DOMAIN mp = DOMAIN m \cup DOMAIN p
      /\ DOMAIN bp = DOMAIN b \cup DOMAIN p
      /\ \A c \in DOMAIN p : mp[c] = p[c] /\ bp[c] = p[c]
      /\ \A c \in DOMAIN m \ DOMAIN p : mp[c] = m[c]
      /\ \A c \in DOMAIN b \ DOMAIN p : bp[c] = b[c]
  BY DEF Overlay
<1> HIDE DEF b, mp, bp
<1>3. /\ DOMAIN mp \subseteq DOMAIN once /\ DOMAIN once \subseteq Channels
      /\ \A c \in DOMAIN mp : once[c] = mp[c]
      /\ \A c \in Channels \ DOMAIN mp :
            c \in DOMAIN once <=> \E d \in DOMAIN mp : Below(d, c)
      /\ \A c \in DOMAIN once \ DOMAIN mp : once[c] = Lower(c)
      /\ once = [c \in DOMAIN once |-> once[c]]
  <2>1. DOMAIN mp \subseteq Channels
    BY <1>2
  <2>2. QED
    BY <2>1, BackfillAdds
<1>4. /\ DOMAIN bp \subseteq DOMAIN twice /\ DOMAIN twice \subseteq Channels
      /\ \A c \in DOMAIN bp : twice[c] = bp[c]
      /\ \A c \in Channels \ DOMAIN bp :
            c \in DOMAIN twice <=> \E d \in DOMAIN bp : Below(d, c)
      /\ \A c \in DOMAIN twice \ DOMAIN bp : twice[c] = Lower(c)
      /\ twice = [c \in DOMAIN twice |-> twice[c]]
  <2>1. DOMAIN bp \subseteq Channels
    BY <1>1, <1>2
  <2>2. QED
    BY <2>1, BackfillAdds
<1> HIDE DEF once, twice
<1>5. \A c, d, e \in Channels : Below(e, d) /\ Below(d, c) => Below(e, c)
  BY Ranks DEF Below, Channels
<1>6. DOMAIN once = DOMAIN twice
  <2>1. ASSUME NEW c \in DOMAIN once PROVE c \in DOMAIN twice
    BY <1>1, <1>2, <1>3, <1>4
  <2>2. ASSUME NEW c \in DOMAIN twice PROVE c \in DOMAIN once
    BY <1>1, <1>2, <1>3, <1>4, <1>5
  <2>3. QED
    BY <2>1, <2>2
<1>7. \A c \in DOMAIN once : once[c] = twice[c]
  BY <1>1, <1>2, <1>3, <1>4, <1>6
<1>8. once = twice
  BY <1>3, <1>4, <1>6, <1>7
<1>9. QED
  BY <1>8 DEF once, twice, mp, bp, b


\* Laying one mapping over another is associative.
LEMMA OverlayAssociative ==
    ASSUME NEW a, NEW p, NEW q
    PROVE  Overlay(Overlay(a, p), q) = Overlay(a, Overlay(p, q))
BY DEF Overlay

\* A mapping stays one when it is backfilled.
LEMMA BackfillMapping ==
    ASSUME NEW m, IsMapping(m)
    PROVE  IsMapping(Backfill(m))
<1> DEFINE b == Backfill(m)
<1>1. /\ DOMAIN b \subseteq Channels
      /\ \A c \in DOMAIN m : b[c] = m[c]
      /\ \A c \in DOMAIN b \ DOMAIN m : b[c] = Lower(c) /\ Lower(c) \in DOMAIN b
      /\ b = [c \in DOMAIN b |-> b[c]]
  BY BackfillAdds DEF IsMapping
<1> HIDE DEF b
<1>2. \A c \in DOMAIN b : b[c] \in Targets
  BY <1>1 DEF IsMapping, Targets
<1>3. IsMapping(b)
  BY <1>1, <1>2 DEF IsMapping
<1>4. QED
  BY <1>3 DEF b

-----------------------------------------------------------------------------
(* Revision files.                                                         *)

\* The revisions that are handed out, and the files about them.
Handed == {Numbers[i] : i \in DOMAIN Numbers}
IsFile(f) == f.rev \in Handed /\ f.channels \subseteq Channels

\* Each revision has its place in the order of file names.
LEMMA HandedPositions ==
    /\ Handed \subseteq Listed
    /\ \A v \in Handed : Position(v) \in Nat
    /\ \A v, w \in Handed : Position(v) = Position(w) => v = w
<1>1. ASSUME NEW v \in Handed
      PROVE  v \in Listed /\ Position(v) \in DOMAIN ByName /\ ByName[Position(v)] = v
  <2>1. PICK i \in DOMAIN Numbers : v = Numbers[i]
    BY DEF Handed
  <2>2. \E j \in DOMAIN ByName : ByName[j] = v
    BY <2>1, PreparationAssumption
  <2>3. QED
    BY <2>1, <2>2, PreparationAssumption DEF Position
<1>2. DOMAIN ByName \subseteq Nat
  BY PreparationAssumption
<1>3. QED
  BY <1>1, <1>2

\* The builds of a trigger get revision files with the next numbers.
LEMMA UploadsHaveFiles ==
    ASSUME NEW t, ImageSchema(t), NEW first \in Nat, NEW day,
           first + Len(t.uploads) <= Len(Numbers)
    PROVE  \A f \in RevisionFiles(t.uploads,
                        SubSeq(Numbers, first + 1, first + Len(t.uploads)), day) :
               IsFile(f)
<1> DEFINE n == Len(t.uploads)
           numbers == SubSeq(Numbers, first + 1, first + n)
<1>1. n \in Nat /\ DOMAIN t.uploads = 1..n
  BY DEF ImageSchema
<1>2. \A i \in 1..n : numbers[i] \in Handed
  BY <1>1, PreparationAssumption DEF Handed
<1> HIDE DEF n, numbers
<1>3. SUFFICES ASSUME NEW f \in RevisionFiles(t.uploads, numbers, day)
               PROVE  IsFile(f)
  BY DEF n, numbers
<1>4. PICK i \in DOMAIN t.uploads :
          f = [rev |-> numbers[i],
               channels |-> LiveChannels(t.uploads[i], day),
               eol |-> [k \in {c[1] : c \in LiveChannels(t.uploads[i], day)} |->
                            t.uploads[i].eol[k]]]
  BY <1>3, Zenon DEF RevisionFiles
<1>5. f.channels \subseteq Channels
  BY <1>4 DEF LiveChannels, ImageSchema
<1>6. QED
  BY <1>1, <1>2, <1>4, <1>5 DEF IsFile

\* There is a first one among some files: their positions are numbers.
LEMMA FirstFile ==
    ASSUME NEW fs, fs # {}, \A f \in fs : IsFile(f)
    PROVE  /\ FirstByName(fs) \in fs
           /\ \A g \in fs : Position(FirstByName(fs).rev) <= Position(g.rev)
<1> DEFINE places == {Position(f.rev) : f \in fs}
<1>1. places \subseteq Nat /\ places # {}
  BY HandedPositions DEF IsFile
<1>2. PICK x \in places : \A y \in places : x <= y
  <2> HIDE DEF places
  <2>1. QED
    BY <1>1, LeastNumber
<1>3. PICK f \in fs : x = Position(f.rev)
  BY <1>2
<1>4. \A g \in fs : Position(f.rev) <= Position(g.rev)
  BY <1>2, <1>3
<1>5. QED
  BY <1>4 DEF FirstByName

\* The file whose pin of a channel counts.
IsLast(fs, c, f) ==
    /\ f \in fs /\ c \in f.channels
    /\ \A g \in fs : c \in g.channels => Position(g.rev) <= Position(f.rev)

\* The pins of some files, and a trigger with these laid over.
PinsOf(fs) == [c \in Pinned(fs) |-> LastPin(fs, c).rev]
Laid(release, fs) ==
    IF Pinned(fs) = {} THEN release ELSE Backfill(Overlay(release, PinsOf(fs)))

\* The files about the last pin of a channel agree on the revision.
LEMMA LastPinIs ==
    ASSUME NEW fs, \A g \in fs : IsFile(g), NEW c, NEW f, IsLast(fs, c, f)
    PROVE  LastPin(fs, c) \in fs /\ LastPin(fs, c).rev = f.rev
<1> DEFINE last == LastPin(fs, c)
<1>1. /\ last \in fs /\ c \in last.channels
      /\ \A g \in fs : c \in g.channels => Position(g.rev) <= Position(last.rev)
  BY DEF LastPin, IsLast
<1> HIDE DEF last
<1>2. Position(last.rev) <= Position(f.rev) /\ Position(f.rev) <= Position(last.rev)
  BY <1>1 DEF IsLast
<1>3. last.rev \in Handed /\ f.rev \in Handed
  BY <1>1 DEF IsLast, IsFile
<1>4. last.rev = f.rev
  BY <1>2, <1>3, HandedPositions
<1>5. QED
  BY <1>1, <1>4 DEF last

\* The pins of files that know their last ones are a mapping.
LEMMA PinsMapping ==
    ASSUME NEW fs, \A f \in fs : IsFile(f),
           \A c \in Pinned(fs) : \E f \in fs : IsLast(fs, c, f)
    PROVE  /\ IsMapping(PinsOf(fs)) /\ DOMAIN PinsOf(fs) = Pinned(fs)
           /\ \A c \in Pinned(fs) : PinsOf(fs)[c] \in Listed
<1>1. \A c \in Pinned(fs) : LastPin(fs, c).rev \in Listed
  BY LastPinIs, HandedPositions DEF IsFile
<1>2. Pinned(fs) \subseteq Channels
  BY DEF Pinned, IsFile
<1>3. QED
  BY <1>1, <1>2, TagAssumption DEF PinsOf, IsMapping, Targets

\* One more file, later in the order than those before: its pins are the last
\* ones, and the trigger with all pins laid over is that with its pins laid
\* over what was made of the others.
LEMMA OneFileMore ==
    ASSUME NEW fs, NEW f, \A g \in fs \cup {f} : IsFile(g),
           \A c \in Pinned(fs) : \E g \in fs : IsLast(fs, c, g),
           \A g \in fs : Position(g.rev) <= Position(f.rev),
           NEW release, IsMapping(release)
    PROVE  LET all == fs \cup {f}
           IN  /\ \A c \in Pinned(all) : \E g \in all : IsLast(all, c, g)
               /\ Laid(release, all) =
                     IF f.channels = {} THEN Laid(release, fs)
                     ELSE Backfill(Overlay(Laid(release, fs), Pins(f)))
<1> DEFINE all == fs \cup {f}
<1>1. Pinned(all) = Pinned(fs) \cup f.channels
  BY DEF Pinned
<1>2. \A c \in f.channels : IsLast(all, c, f)
  BY HandedPositions DEF IsLast, IsFile
<1>3. ASSUME NEW c \in Pinned(fs) \ f.channels, NEW g \in fs, IsLast(fs, c, g)
      PROVE  IsLast(all, c, g)
  BY <1>3 DEF IsLast
<1>4. \A c \in Pinned(all) : \E g \in all : IsLast(all, c, g)
  BY <1>1, <1>2, <1>3
<1>5. \A c \in f.channels : LastPin(all, c).rev = f.rev
  BY <1>2, LastPinIs
<1>6. ASSUME NEW c \in Pinned(fs) \ f.channels
      PROVE  LastPin(all, c).rev = LastPin(fs, c).rev
  <2>1. PICK g \in fs : IsLast(fs, c, g)
    OBVIOUS
  <2>2. IsLast(all, c, g)
    BY <1>3, <2>1
  <2>3. QED
    BY <2>1, <2>2, LastPinIs
<1>7. PinsOf(all) = Overlay(PinsOf(fs), Pins(f))
  <2> HIDE DEF all
  <2>1. QED
    BY <1>1, <1>5, <1>6 DEF PinsOf, Pins, Overlay
<1>8. CASE f.channels = {}
  <2>1. Pinned(all) = Pinned(fs)
    BY <1>1, <1>8
  <2>2. PinsOf(all) = PinsOf(fs)
    <3> HIDE DEF all
    <3>1. QED
      BY <1>6, <1>8, <2>1 DEF PinsOf
  <2>3. QED
    BY <1>4, <1>8, <2>1, <2>2 DEF Laid
<1>9. CASE f.channels # {}
  <2>1. Pinned(all) # {}
    BY <1>1, <1>9
  <2>2. Laid(release, all)
            = Backfill(Overlay(Overlay(release, PinsOf(fs)), Pins(f)))
    BY <1>7, <2>1, OverlayAssociative DEF Laid
  <2>3. CASE Pinned(fs) = {}
    <3>1. Overlay(release, PinsOf(fs)) = release
      BY <2>3 DEF Overlay, PinsOf, IsMapping
    <3>2. QED
      BY <1>4, <1>9, <2>2, <2>3, <3>1 DEF Laid
  <2>4. CASE Pinned(fs) # {}
    <3>1. /\ DOMAIN Overlay(release, PinsOf(fs)) \subseteq Channels
          /\ DOMAIN Pins(f) \subseteq Channels
      <4>1. IsMapping(PinsOf(fs))
        BY PinsMapping
      <4>2. QED
        BY <4>1 DEF Overlay, IsMapping, Pins, IsFile
    <3>2. Backfill(Overlay(Laid(release, fs), Pins(f)))
              = Backfill(Overlay(Overlay(release, PinsOf(fs)), Pins(f)))
      BY <2>4, <3>1, BackfillOnce DEF Laid
    <3>3. QED
      BY <1>4, <1>9, <2>2, <3>2
  <2>5. QED
    BY <2>3, <2>4
<1>10. QED
  BY <1>8, <1>9


-----------------------------------------------------------------------------
(* The invariant.                                                          *)

Stages == {"idle", "uploaded", "merging", "saved"} \cup Over

Types ==
    /\ IsMapping(channels)
    /\ stage \in [Runs -> Stages]
    /\ DOMAIN asked = Runs /\ DOMAIN trigger = Runs
    /\ DOMAIN files = Runs /\ DOMAIN merged = Runs
    /\ given \in Nat

\* The revision files a run has merged.
Done(r) == merged[r] \ files[r]

\* What a run has made of its trigger so far: files are merged in the order
\* of their names, and no pin is lost to a backfill.
Merging(r) ==
    /\ IsMapping(asked[r].release)
    /\ DOMAIN trigger[r] = {"release", "eol", "uploads"}
    /\ files[r] \subseteq merged[r]
    /\ \A f \in merged[r] : IsFile(f)
    /\ \A f \in Done(r), g \in files[r] : Position(f.rev) <= Position(g.rev)
    /\ \A c \in Pinned(Done(r)) : \E f \in Done(r) : IsLast(Done(r), c, f)
    /\ trigger[r].release = Laid(asked[r].release, Done(r))
    /\ stage[r] = "idle" => merged[r] = {}
    /\ stage[r] = "saved" => files[r] = {}

IInv == Types /\ \A r \in Runs : Merging(r)

\* What is released is a mapping.
LEMMA LaidMapping ==
    ASSUME NEW r \in Runs, Merging(r)
    PROVE  IsMapping(trigger[r].release)
<1>1. /\ IsMapping(PinsOf(Done(r)))
      /\ \A f \in Done(r) : IsFile(f)
  BY PinsMapping DEF Merging, Done
<1>2. IsMapping(Backfill(Overlay(asked[r].release, PinsOf(Done(r)))))
  BY <1>1, OverlayMapping, BackfillMapping DEF Merging
<1>3. QED
  BY <1>2 DEF Merging, Laid

\* A step that leaves the trigger and the files of a run alone.
LEMMA RunIsAsBefore ==
    ASSUME NEW r \in Runs, Merging(r),
           asked'[r] = asked[r], trigger'[r] = trigger[r],
           files'[r] = files[r], merged'[r] = merged[r],
           stage'[r] = "idle" => stage[r] = "idle",
           stage'[r] = "saved" => stage[r] = "saved" \/ files[r] = {}
    PROVE  Merging(r)'
BY DEF Merging, Done, Laid, PinsOf, Pinned, IsLast, LastPin

\* A run starts with nothing merged.
LEMMA NothingMerged ==
    ASSUME NEW r \in Runs, NEW t, ImageSchema(t),
           asked'[r] = t, trigger'[r] = t, files'[r] = merged'[r],
           \A f \in merged'[r] : IsFile(f),
           stage'[r] = "idle" => merged'[r] = {},
           stage'[r] = "saved" => merged'[r] = {}
    PROVE  Merging(r)'
<1>1. merged'[r] \ files'[r] = {}
  OBVIOUS
<1>2. Done(r)' = {} /\ Pinned(Done(r))' = {}
  BY <1>1 DEF Done, Pinned
<1>3. QED
  BY <1>2 DEF Merging, ImageSchema, Laid, Pinned

\* One turn of the loop over the revision files.
LEMMA MergeNextStep ==
    ASSUME IInv, NEW r \in Runs, MergeNext(r)
    PROVE  Merging(r)'
<1> DEFINE f == FirstByName(files[r])
           all == Done(r) \cup {f}
<1>1. /\ stage[r] = "merging" /\ files[r] # {}
      /\ files' = [files EXCEPT ![r] = @ \ {f}]
      /\ trigger' = [trigger EXCEPT ![r] =
            IF f.channels = {} THEN @ ELSE MergeRevision(@, f)]
      /\ UNCHANGED <<boardVars, stage, asked, given, merged>>
  BY DEF MergeNext
<1>2. Merging(r)
  BY DEF IInv
<1>3. f \in files[r] /\ \A g \in files[r] : Position(f.rev) <= Position(g.rev)
  BY <1>1, <1>2, FirstFile DEF Merging
<1> HIDE DEF f
<1>4. /\ files'[r] = files[r] \ {f}
      /\ trigger'[r] = IF f.channels = {} THEN trigger[r]
                       ELSE MergeRevision(trigger[r], f)
  BY <1>1 DEF IInv, Types
<1>5. Done(r)' = all
  BY <1>1, <1>2, <1>3, <1>4 DEF Done, Merging
<1>6. /\ \A g \in all : IsFile(g)
      /\ \A g \in Done(r) : Position(g.rev) <= Position(f.rev)
  BY <1>2, <1>3 DEF Merging, Done
<1>7. /\ \A c \in Pinned(all) : \E g \in all : IsLast(all, c, g)
      /\ Laid(asked[r].release, all) =
            IF f.channels = {} THEN Laid(asked[r].release, Done(r))
            ELSE Backfill(Overlay(Laid(asked[r].release, Done(r)), Pins(f)))
  BY <1>2, <1>6, OneFileMore DEF Merging
<1>8. /\ trigger'[r].release = Laid(asked[r].release, all)
      /\ DOMAIN trigger'[r] = {"release", "eol", "uploads"}
  <2>1. CASE f.channels = {}
    BY <1>2, <1>4, <1>7, <2>1 DEF Merging
  <2>2. CASE f.channels # {}
    BY <1>2, <1>4, <1>7, <2>2 DEF Merging, MergeRevision
  <2>3. QED
    BY <2>1, <2>2
<1>9. \A g \in all, h \in files'[r] : Position(g.rev) <= Position(h.rev)
  BY <1>2, <1>3, <1>4 DEF Merging
<1> HIDE DEF all
<1>10. /\ asked'[r] = asked[r] /\ merged'[r] = merged[r]
       /\ stage'[r] # "idle" /\ stage'[r] # "saved"
  BY <1>1
<1>11. /\ Pinned(Done(r))' = Pinned(all)
       /\ \A c, g : IsLast(Done(r), c, g)' <=> IsLast(all, c, g)
  BY <1>5 DEF Pinned, IsLast
<1>12. Laid(asked[r].release, Done(r))' = Laid(asked[r].release, all)
  BY <1>5, <1>10 DEF Laid, PinsOf, Pinned, LastPin
<1>13. QED
  BY <1>2, <1>4, <1>5, <1>7, <1>8, <1>9, <1>10, <1>11, <1>12 DEF Merging


\* The record stays a mapping.
LEMMA RecordMapping ==
    ASSUME IInv, [PreparationNext]_preparationVars
    PROVE  IsMapping(channels')
<1>1. ASSUME NEW r \in Runs, ReleaseRun(r) PROVE IsMapping(channels')
  <2>1. \/ channels' = channels
        \/ channels' = Overlay(channels, trigger[r].release)
    BY <1>1 DEF ReleaseRun, Release, boardVars
  <2>2. IsMapping(trigger[r].release)
    BY LaidMapping DEF IInv
  <2>3. QED
    BY <2>1, <2>2, OverlayMapping DEF IInv, Types
<1>2. CASE channels' = channels
  BY <1>2 DEF IInv, Types
<1>3. QED
  BY <1>1, <1>2 DEF PreparationNext, Advance, Start, Prepare, MergeNext, Save,
                    Dispatch, Fail, Tick, preparationVars, boardVars

\* Every step keeps the invariant.
LEMMA InvariantStep == IInv /\ [PreparationNext]_preparationVars => IInv'
<1> SUFFICES ASSUME IInv, [PreparationNext]_preparationVars PROVE IInv'
  OBVIOUS
<1>1. IsMapping(channels')
  BY RecordMapping
<1>2. ASSUME NEW r \in Runs, Start(r) PROVE IInv'
  <2>1. stage[r] = "idle"
    BY <1>2 DEF Start
  <2> DEFINE n(t) == Len(t.uploads)
             made(t) == RevisionFiles(t.uploads,
                            SubSeq(Numbers, given + 1, given + n(t)), now)
  <2>2. PICK t \in Triggers :
            /\ given + n(t) <= Len(Numbers)
            /\ given' = given + n(t)
            /\ asked' = [asked EXCEPT ![r] = t]
            /\ trigger' = [trigger EXCEPT ![r] = t]
            /\ files' = [files EXCEPT ![r] = made(t)]
            /\ merged' = [merged EXCEPT ![r] = made(t)]
            /\ \E s \in {"failed", "uploaded", "nothing"} : Goto(r, s)
    BY <1>2 DEF Start
  <2>3. ImageSchema(t) /\ n(t) \in Nat
    <3>1. ImageSchema(t)
      BY PreparationAssumption
    <3>2. t.uploads \in Seq({t.uploads[i] : i \in DOMAIN t.uploads})
      BY <3>1 DEF ImageSchema
    <3>3. QED
      BY <3>1, <3>2
  <2>4. \A f \in made(t) : IsFile(f)
    BY <2>2, <2>3, UploadsHaveFiles DEF IInv, Types
  <2> HIDE DEF n, made
  <2>5. Types'
    BY <1>1, <2>2, <2>3 DEF IInv, Types, Goto, Stages, Over
  <2>6. Merging(r)'
    <3>1. /\ asked'[r] = t /\ trigger'[r] = t
          /\ files'[r] = made(t) /\ merged'[r] = made(t)
          /\ stage'[r] \in {"failed", "uploaded", "nothing"}
      BY <2>2 DEF IInv, Types, Goto
    <3>2. QED
      BY <2>3, <2>4, <3>1, NothingMerged
  <2>7. ASSUME NEW q \in Runs \ {r} PROVE Merging(q)'
    <3>1. /\ asked'[q] = asked[q] /\ trigger'[q] = trigger[q]
          /\ files'[q] = files[q] /\ merged'[q] = merged[q]
          /\ stage'[q] = stage[q]
      BY <2>2 DEF IInv, Types, Goto
    <3>2. QED
      BY <3>1, RunIsAsBefore DEF IInv
  <2>8. QED
    BY <2>5, <2>6, <2>7 DEF IInv
<1>3. ASSUME NEW r \in Runs, Prepare(r) PROVE IInv'
  <2>1. /\ UNCHANGED <<asked, trigger, files, given, merged>>
        /\ \A q \in Runs : stage'[q] \in {"merging", "cancelled", stage[q]}
    BY <1>3 DEF Prepare
  <2>2. Types'
    BY <1>1, <1>3 DEF Prepare, IInv, Types, Stages, Over
  <2>3. \A q \in Runs : Merging(q)'
    BY <2>1, RunIsAsBefore DEF IInv
  <2>4. QED
    BY <2>2, <2>3 DEF IInv
<1>4. ASSUME NEW r \in Runs, MergeNext(r) PROVE IInv'
  <2>1. Types'
    BY <1>1, <1>4 DEF MergeNext, IInv, Types
  <2>2. ASSUME NEW q \in Runs \ {r} PROVE Merging(q)'
    <3>1. /\ asked'[q] = asked[q] /\ trigger'[q] = trigger[q]
          /\ files'[q] = files[q] /\ merged'[q] = merged[q]
          /\ stage'[q] = stage[q]
      BY <1>4 DEF MergeNext, IInv, Types
    <3>2. QED
      BY <3>1, RunIsAsBefore DEF IInv
  <2>3. QED
    BY <1>4, <2>1, <2>2, MergeNextStep DEF IInv
<1>5. ASSUME NEW r \in Runs, Dispatch(r) PROVE IInv'
  <2>1. PICK t \in Triggers : /\ asked' = [asked EXCEPT ![r] = t]
                              /\ trigger' = [trigger EXCEPT ![r] = t]
    BY <1>5 DEF Dispatch
  <2>2. /\ stage[r] = "idle" /\ stage' = [stage EXCEPT ![r] = "saved"]
        /\ UNCHANGED <<files, given, merged>>
    BY <1>5 DEF Dispatch, Goto
  <2>3. Types'
    BY <1>1, <2>1, <2>2 DEF IInv, Types, Stages
  <2>4. Merging(r)'
    <3>1. asked'[r] = t /\ trigger'[r] = t /\ stage'[r] = "saved"
      BY <2>1, <2>2 DEF IInv, Types
    <3>2. merged[r] = {} /\ files[r] = {}
      BY <2>2 DEF IInv, Merging
    <3>3. QED
      BY <2>2, <3>1, <3>2, NothingMerged, PreparationAssumption
  <2>5. ASSUME NEW q \in Runs \ {r} PROVE Merging(q)'
    <3>1. /\ asked'[q] = asked[q] /\ trigger'[q] = trigger[q]
          /\ stage'[q] = stage[q]
      BY <2>1, <2>2 DEF IInv, Types
    <3>2. QED
      BY <2>2, <3>1, RunIsAsBefore DEF IInv
  <2>6. QED
    BY <2>3, <2>4, <2>5 DEF IInv
<1>6. ASSUME NEW r \in Runs, Save(r) \/ ReleaseRun(r) \/ Fail(r) PROVE IInv'
  <2>1. /\ UNCHANGED <<asked, trigger, files, given, merged>>
        /\ \/ Goto(r, "saved") /\ files[r] = {}
           \/ Goto(r, "released") \/ Goto(r, "refused") \/ Goto(r, "failed")
    BY <1>6 DEF Save, ReleaseRun, Fail
  <2>2. Types'
    BY <1>1, <2>1 DEF Goto, IInv, Types, Stages, Over
  <2>3. ASSUME NEW q \in Runs PROVE Merging(q)'
    <3>1. \/ stage'[q] = stage[q]
          \/ stage'[q] \in {"released", "refused", "failed"}
          \/ stage'[q] = "saved" /\ files[q] = {}
      BY <2>1 DEF Goto, IInv, Types
    <3>2. QED
      BY <2>1, <3>1, RunIsAsBefore DEF IInv
  <2>4. QED
    BY <2>2, <2>3 DEF IInv
<1>7. CASE UNCHANGED runVars
  <2>1. \A q \in Runs : Merging(q)'
    BY <1>7, RunIsAsBefore DEF runVars, IInv
  <2>2. QED
    BY <1>1, <1>7, <2>1 DEF runVars, IInv, Types
<1>8. QED
  BY <1>2, <1>3, <1>4, <1>5, <1>6, <1>7 DEF PreparationNext, Advance, preparationVars

\* What runs make of their triggers, at any time.
THEOREM Invariant == PreparationSpec => []IInv
<1>1. PreparationInit => IInv
  <2> SUFFICES ASSUME PreparationInit PROVE IInv
    OBVIOUS
  <2>1. Types
    BY DEF PreparationInit, BoardInit, Types, IsMapping, Stages
  <2>2. \A r \in Runs : Done(r) = {} /\ Pinned(Done(r)) = {}
    BY DEF PreparationInit, Done, Pinned
  <2>3. \A r \in Runs : Merging(r)
    BY <2>2 DEF PreparationInit, Merging, NoTrigger, EmptyMapping, IsMapping, Laid
  <2>4. QED
    BY <2>1, <2>3 DEF IInv
<1>2. QED
  BY <1>1, InvariantStep, PTL DEF PreparationSpec

-----------------------------------------------------------------------------
(* Merging, and runs that cancel each other.                               *)

\* Merging file by file, each time with a backfill, comes to the same as one
\* backfill over all pins, for any number of files, channels and tracks.
THEOREM MergesAtOnce == PreparationSpec => []MergedAtOnce
<1>1. IInv => MergedAtOnce
  <2> SUFFICES ASSUME IInv, NEW r \in Runs, files[r] = {},
                      Pinned(merged[r]) # {}
               PROVE  trigger[r].release =
                          Backfill(Overlay(asked[r].release, PinsOf(merged[r])))
    BY DEF MergedAtOnce, PinsOf
  <2>1. Done(r) = merged[r]
    BY DEF Done
  <2>2. QED
    BY <2>1 DEF IInv, Merging, Laid
<1>2. QED
  BY <1>1, Invariant, PTL

\* However many runs there are and whatever fails, a run is cancelled only
\* when another one has got to its job and is not cancelled.
THEOREM OneSurvives == PreparationSpec => []SomeRunSurvives
<1> DEFINE Inv == SomeRunSurvives /\ DOMAIN stage = Runs
<1>1. PreparationInit => Inv
  BY DEF PreparationInit, SomeRunSurvives
<1>2. Inv /\ [PreparationNext]_preparationVars => Inv'
  <2> SUFFICES ASSUME Inv, [PreparationNext]_preparationVars PROVE Inv'
    OBVIOUS
  <2>1. ASSUME NEW r \in Runs, Prepare(r) PROVE Inv'
    <3>1. /\ DOMAIN stage' = Runs
          /\ stage'[r] = "merging"
      BY <2>1 DEF Prepare
    <3>2. QED
      BY <3>1 DEF SomeRunSurvives
  <2>2. ASSUME NEW r \in Runs,
               \E s \in Stages \ {"idle", "uploaded", "cancelled"} : Goto(r, s)
        PROVE  Inv'
    <3>1. PICK s \in Stages \ {"idle", "uploaded", "cancelled"} : Goto(r, s)
      BY <2>2
    <3>2. /\ DOMAIN stage' = Runs
          /\ stage'[r] = s
      BY <3>1 DEF Goto
    <3>3. QED
      BY <3>2 DEF SomeRunSurvives
  <2>3. ASSUME NEW r \in Runs, Start(r) PROVE Inv'
    <3>1. stage[r] = "idle"
      BY <2>3 DEF Start
    <3>2. PICK s \in {"failed", "uploaded", "nothing"} : Goto(r, s)
      BY <2>3 DEF Start
    <3>3. /\ DOMAIN stage' = Runs
          /\ \A q \in Runs : stage'[q] = IF q = r THEN s ELSE stage[q]
      BY <3>2 DEF Goto
    <3>4. QED
      BY <3>1, <3>3 DEF SomeRunSurvives
  <2>4. CASE UNCHANGED stage
    BY <2>4 DEF SomeRunSurvives
  <2>5. QED
    BY <2>1, <2>2, <2>3, <2>4
       DEF PreparationNext, Advance, MergeNext, Save, Dispatch, ReleaseRun, Fail,
           Tick, Stages, Over, preparationVars, runVars
<1>3. QED
  BY <1>1, <1>2, PTL DEF PreparationSpec


-----------------------------------------------------------------------------
(* What the merged trigger promises.                                       *)

\* Channels that follow safer ones of their tracks only, with nothing they
\* follow missing, all get to a revision: there is no circle.
LEMMA DownwardResolves ==
    ASSUME NEW m, IsMapping(m), FollowsDownward(m),
           \A c \in DOMAIN m : m[c] \in Listed \cup DOMAIN m
    PROVE  \A c \in DOMAIN m : m[c] # c /\ Resolves(m, m[c])
<1> DEFINE Good(k) == \A c \in DOMAIN m : Rank[c[2]] <= k => Resolves(m, m[c])
<1>1. \A c \in DOMAIN m : c \in Channels /\ Rank[c[2]] \in 0..3
  BY Ranks DEF IsMapping, Channels
<1>2. \A v \in Listed : v \notin Channels /\ v \notin DOMAIN m
  BY TagAssumption DEF IsMapping
<1>3. \A c \in DOMAIN m : m[c] \in Listed => Resolves(m, m[c])
  BY <1>2, EndsAtRevision DEF Resolves
<1>4. ASSUME NEW c \in DOMAIN m, m[c] \notin Listed
      PROVE  /\ m[c] \in DOMAIN m /\ Rank[m[c][2]] < Rank[c[2]] /\ m[c] # c
             /\ Resolves(m, m[m[c]]) => Resolves(m, m[c])
  <2>1. m[c] \in DOMAIN m /\ m[c] \in Channels
    BY <1>1, <1>4
  <2>2. Below(m[c], c)
    BY <2>1 DEF FollowsDownward
  <2>3. Rank[m[c][2]] < Rank[c[2]] /\ m[c] # c
    BY <1>1, <2>2 DEF Below
  <2>4. QED
    BY <2>1, <2>3, EndsOneOn DEF Resolves
<1>5. Good(0)
  BY <1>1, <1>3, <1>4
<1>6. ASSUME NEW k \in 0..2, Good(k) PROVE Good(k + 1)
  BY <1>1, <1>3, <1>4, <1>6
<1>7. Good(3)
  <2> HIDE DEF Good
  <2>1. Good(1)
    BY <1>5, <1>6
  <2>2. Good(2)
    BY <1>6, <2>1
  <2>3. QED
    BY <1>6, <2>2
<1>8. \A c \in DOMAIN m : m[c] # c
  BY <1>2, <1>4, <1>1
<1>9. QED
  BY <1>1, <1>7, <1>8

\* What follows a mapped channel or stands for a revision that exists.
LEMMA ResolvesNext ==
    ASSUME NEW m, IsMapping(m), NEW c \in DOMAIN m, Resolves(m, c)
    PROVE  m[c] \in Listed \cup DOMAIN m
<1> SUFFICES ASSUME m[c] \notin DOMAIN m PROVE m[c] \in Listed
  OBVIOUS
<1>1. Ends(m, c) = {m[c]}
  BY EndsOneOn, EndsAtRevision
<1>2. QED
  BY <1>1 DEF Resolves

\* Merging the uploads into a release section leaves it valid against any
\* record where the section was valid and followed safer channels only:
\* pins are revisions that exist, and backfilling follows downward.
THEOREM MergeStaysValid == PreparationSpec => []DownwardMergeStaysValid
<1>1. IInv => DownwardMergeStaysValid
  <2> DEFINE before(r) == Overlay(channels, asked[r].release)
             after(r) == Overlay(channels, trigger[r].release)
  <2> SUFFICES ASSUME IInv, NEW r \in Runs, FollowsDownward(before(r)),
                      \A c \in DOMAIN before(r) : Resolves(before(r), c)
               PROVE  ValidRequest(after(r), trigger[r].release)
    BY DEF DownwardMergeStaysValid
  <2>1. /\ IsMapping(channels) /\ IsMapping(asked[r].release)
        /\ IsMapping(trigger[r].release)
    BY LaidMapping DEF IInv, Types, Merging
  <2>2. /\ IsMapping(before(r)) /\ IsMapping(after(r))
        /\ DOMAIN before(r) = DOMAIN channels \cup DOMAIN asked[r].release
        /\ DOMAIN after(r) = DOMAIN channels \cup DOMAIN trigger[r].release
        /\ \A c \in DOMAIN trigger[r].release : after(r)[c] = trigger[r].release[c]
        /\ \A c \in DOMAIN channels \ DOMAIN trigger[r].release :
              after(r)[c] = channels[c]
        /\ \A c \in DOMAIN asked[r].release : before(r)[c] = asked[r].release[c]
        /\ \A c \in DOMAIN channels \ DOMAIN asked[r].release :
              before(r)[c] = channels[c]
    BY <2>1, OverlayMapping DEF Overlay
  <2> HIDE DEF before, after
  <2>3. \A c \in DOMAIN before(r) : before(r)[c] \in Listed \cup DOMAIN before(r)
    BY <2>2, ResolvesNext
  <2>4. /\ DOMAIN asked[r].release \subseteq DOMAIN trigger[r].release
        /\ \A c \in DOMAIN trigger[r].release :
              \/ c \in DOMAIN asked[r].release
                 /\ trigger[r].release[c] = asked[r].release[c]
              \/ trigger[r].release[c] \in Listed
              \/ /\ trigger[r].release[c] \in DOMAIN trigger[r].release
                 /\ Below(trigger[r].release[c], c)
    <3> DEFINE pins == PinsOf(Done(r))
               laid == Overlay(asked[r].release, pins)
               filled == Backfill(laid)
    <3>1. CASE Pinned(Done(r)) = {}
      BY <3>1 DEF IInv, Merging, Laid
    <3>2. CASE Pinned(Done(r)) # {}
      <4>1. /\ IsMapping(pins)
            /\ \A c \in DOMAIN pins : pins[c] \in Listed
        BY PinsMapping DEF IInv, Merging, Done
      <4>2. IsMapping(laid)
        BY <2>1, <4>1, OverlayMapping
      <4>3. trigger[r].release = filled
        BY <3>2 DEF IInv, Merging, Laid
      <4>4. /\ DOMAIN laid = DOMAIN asked[r].release \cup DOMAIN pins
            /\ \A c \in DOMAIN pins : laid[c] = pins[c]
            /\ \A c \in DOMAIN asked[r].release \ DOMAIN pins :
                  laid[c] = asked[r].release[c]
        BY DEF Overlay
      <4> HIDE DEF pins, laid
      <4>5. /\ DOMAIN laid \subseteq DOMAIN filled
            /\ DOMAIN filled \subseteq Channels
            /\ \A c \in DOMAIN laid : filled[c] = laid[c]
            /\ \A c \in Channels \ DOMAIN laid :
                  c \in DOMAIN filled <=> \E d \in DOMAIN laid : Below(d, c)
            /\ \A c \in DOMAIN filled \ DOMAIN laid :
                  filled[c] = Lower(c) /\ Lower(c) \in DOMAIN filled
        BY <4>2, BackfillAdds DEF IsMapping
      <4> HIDE DEF filled
      <4>6. DOMAIN laid \subseteq Channels
        BY <4>2 DEF IsMapping
      <4>7. \A c \in DOMAIN filled \ DOMAIN laid : Below(filled[c], c)
        BY <4>5, <4>6, LowerIsNext
      <4>8. QED
        BY <4>1, <4>3, <4>4, <4>5, <4>7
    <3>3. QED
      BY <3>1, <3>2
  <2>5. \A c \in DOMAIN after(r) :
            \/ c \in DOMAIN before(r) /\ after(r)[c] = before(r)[c]
            \/ after(r)[c] \in Listed
            \/ after(r)[c] \in DOMAIN after(r) /\ Below(after(r)[c], c)
    BY <2>2, <2>4
  <2>6. DOMAIN before(r) \subseteq DOMAIN after(r)
    BY <2>2, <2>4
  <2>7. \A v \in Listed : v \notin Channels
    BY TagAssumption
  <2>8. FollowsDownward(after(r))
    BY <2>5, <2>7 DEF FollowsDownward
  <2>9. \A c \in DOMAIN after(r) : after(r)[c] \in Listed \cup DOMAIN after(r)
    BY <2>3, <2>5, <2>6
  <2>10. \A c \in DOMAIN after(r) :
             after(r)[c] # c /\ Resolves(after(r), after(r)[c])
    BY <2>2, <2>8, <2>9, DownwardResolves
  <2>11. QED
    BY <2>2, <2>10 DEF ValidRequest
<1>2. QED
  BY <1>1, Invariant, PTL


\* Up from a channel with a revision, as far as no other channel is named,
\* each risk follows the next lower one: all of them stand for the revision.
LEMMA PinIsFollowed ==
    ASSUME NEW m, IsMapping(m), NEW named, NEW c \in named,
           named \subseteq DOMAIN m, m[c] \in Listed,
           \A d \in Channels \ named : Below(c, d) =>
               d \in DOMAIN m /\ m[d] = Lower(d) /\ Lower(d) \in DOMAIN m
    PROVE  \A d \in Channels :
               /\ d = c \/ Below(c, d)
               /\ d \notin named \ {c}
               /\ \A e \in named : ~ (Below(c, e) /\ Below(e, d))
               => RevisionOf(m, m[d]) = m[c]
<1> DEFINE Between(d) == /\ d = c \/ Below(c, d)
                         /\ d \notin named \ {c}
                         /\ \A e \in named : ~ (Below(c, e) /\ Below(e, d))
           Good(k) == \A d \in Channels :
                          Between(d) /\ Rank[d[2]] <= k => Ends(m, m[d]) = {m[c]}
<1>1. /\ \A d \in Channels : Rank[d[2]] \in 0..3
      /\ c \in Channels /\ named \subseteq Channels
  BY Ranks DEF IsMapping, Channels
<1>2. \A d, e, f \in Channels : Below(f, e) /\ Below(e, d) => Below(f, d)
  BY <1>1 DEF Below
<1>3. Ends(m, m[c]) = {m[c]}
  BY EndsAtRevision, TagAssumption DEF IsMapping
<1>4. ASSUME NEW d \in Channels, Between(d), d # c
      PROVE  /\ Lower(d) \in Channels /\ Rank[Lower(d)[2]] < Rank[d[2]]
             /\ Between(Lower(d))
             /\ Ends(m, m[d]) = Ends(m, m[Lower(d)])
  <2>1. Below(c, d) /\ d \notin named
    BY <1>4
  <2>2. m[d] = Lower(d) /\ Lower(d) \in DOMAIN m
    BY <2>1
  <2>3. /\ Lower(d) \in Channels /\ Below(Lower(d), d)
        /\ c = Lower(d) \/ Below(c, Lower(d))
    BY <1>1, <2>1, LowerIsNext
  <2>4. Rank[Lower(d)[2]] < Rank[d[2]]
    BY <2>3 DEF Below
  <2>5. Lower(d) \notin named \ {c}
    BY <1>4, <2>3
  <2>6. ASSUME NEW e \in named, Below(c, e), Below(e, Lower(d)) PROVE FALSE
    BY <1>1, <1>2, <1>4, <2>3, <2>6
  <2>7. QED
    BY <2>2, <2>3, <2>4, <2>5, <2>6, EndsOneOn
<1>5. Good(0)
  <2>1. ASSUME NEW d \in Channels, Between(d), d # c PROVE Rank[d[2]] > 0
    BY <1>1, <1>4, <2>1
  <2> HIDE DEF Between
  <2>2. QED
    BY <1>1, <1>3, <2>1
<1>6. ASSUME NEW k \in 0..2, Good(k) PROVE Good(k + 1)
  <2> SUFFICES ASSUME NEW d \in Channels, Between(d), Rank[d[2]] <= k + 1
               PROVE  Ends(m, m[d]) = {m[c]}
    OBVIOUS
  <2>1. CASE d = c
    BY <1>3, <2>1
  <2>2. CASE d # c
    <3>1. /\ Lower(d) \in Channels /\ Rank[Lower(d)[2]] < Rank[d[2]]
          /\ Between(Lower(d))
          /\ Ends(m, m[d]) = Ends(m, m[Lower(d)])
      BY <1>4, <2>2
    <3> HIDE DEF Between
    <3>2. Rank[Lower(d)[2]] <= k
      BY <1>1, <3>1
    <3>3. QED
      BY <1>6, <3>1, <3>2
  <2>3. QED
    BY <2>1, <2>2
<1>7. Good(3)
  <2> HIDE DEF Good
  <2>1. Good(1)
    BY <1>5, <1>6
  <2>2. Good(2)
    BY <1>6, <2>1
  <2>3. QED
    BY <1>6, <2>2
<1>8. \A d \in Channels : Between(d) => RevisionOf(m, m[d]) = m[c]
  <2> HIDE DEF Between
  <2>1. QED
    BY <1>1, <1>7 DEF RevisionOf
<1>9. QED
  BY <1>8

\* Once a run has released, the channels of its uploads serve the new
\* revisions, and so do the riskier ones that nobody has named: whatever was
\* on record before, and whatever was released since the run began.
THEOREM PinsServed == PreparationSpec => PinsAreServed
<1> DEFINE Serves(r) ==
      \A c \in Pinned(merged[r]) : \A d \in Channels :
          /\ d = c \/ Below(c, d)
          /\ d \notin (DOMAIN asked[r].release \cup Pinned(merged[r])) \ {c}
          /\ \A e \in DOMAIN asked[r].release \cup Pinned(merged[r]) :
                ~ (Below(c, e) /\ Below(e, d))
          => RevisionOf(channels', channels'[d]) = LastPin(merged[r], c).rev
<1>1. ASSUME IInv, NEW r \in Runs, ReleaseRun(r), stage'[r] = "released"
      PROVE  Serves(r)
  <2> DEFINE pins == PinsOf(merged[r])
             laid == Overlay(asked[r].release, pins)
             filled == Backfill(laid)
             named == DOMAIN asked[r].release \cup Pinned(merged[r])
  <2> SUFFICES ASSUME NEW c \in Pinned(merged[r])
               PROVE  \A d \in Channels :
                         /\ d = c \/ Below(c, d)
                         /\ d \notin named \ {c}
                         /\ \A e \in named : ~ (Below(c, e) /\ Below(e, d))
                         => RevisionOf(channels', channels'[d])
                                = LastPin(merged[r], c).rev
    OBVIOUS
  <2>1. /\ files[r] = {} /\ Merging(r) /\ IsMapping(channels)
        /\ Done(r) = merged[r]
    BY <1>1 DEF ReleaseRun, IInv, Types, Merging, Done
  <2>2. trigger[r].release = filled
    BY <2>1 DEF Merging, Laid
  <2>3. channels' = Overlay(channels, filled)
    <3>1. stage'[r] # "refused"
      BY <1>1
    <3>2. Release(trigger[r].release, DatesOf(trigger[r]))
      BY <1>1, <3>1 DEF ReleaseRun, Goto, IInv, Types
    <3>3. QED
      BY <2>2, <3>2 DEF Release
  <2>4. /\ IsMapping(pins) /\ DOMAIN pins = Pinned(merged[r])
        /\ \A e \in DOMAIN pins : pins[e] \in Listed
        /\ pins[c] = LastPin(merged[r], c).rev
    BY <2>1, PinsMapping DEF Merging, PinsOf
  <2>5. /\ IsMapping(laid) /\ DOMAIN laid = named
        /\ laid[c] = LastPin(merged[r], c).rev
    BY <2>1, <2>4, OverlayMapping DEF Merging, Overlay
  <2> HIDE DEF pins, laid, named
  <2>6. /\ DOMAIN laid \subseteq DOMAIN filled
        /\ \A e \in DOMAIN laid : filled[e] = laid[e]
        /\ \A e \in Channels \ DOMAIN laid :
              e \in DOMAIN filled <=> \E f \in DOMAIN laid : Below(f, e)
        /\ \A e \in DOMAIN filled \ DOMAIN laid :
              filled[e] = Lower(e) /\ Lower(e) \in DOMAIN filled
    BY <2>5, BackfillAdds DEF IsMapping
  <2>7. IsMapping(filled)
    BY <2>5, BackfillMapping
  <2> HIDE DEF filled
  <2>8. /\ IsMapping(channels')
        /\ DOMAIN channels' = DOMAIN channels \cup DOMAIN filled
        /\ \A e \in DOMAIN filled : channels'[e] = filled[e]
    BY <2>1, <2>3, <2>7, OverlayMapping DEF Overlay
  <2>9. c \in named /\ named \subseteq DOMAIN channels'
    BY <2>5, <2>6, <2>8 DEF named
  <2>10. channels'[c] = LastPin(merged[r], c).rev
    BY <2>5, <2>6, <2>8, <2>9
  <2>11. channels'[c] \in Listed
    BY <2>4, <2>10
  <2>12. \A d \in Channels \ named : Below(c, d) =>
             /\ d \in DOMAIN channels' /\ channels'[d] = Lower(d)
             /\ Lower(d) \in DOMAIN channels'
    BY <2>5, <2>6, <2>8, <2>9
  <2>13. QED
    BY <2>8, <2>9, <2>10, <2>11, <2>12, PinIsFollowed
<1>2. ASSUME IInv, PreparationNext, NEW r \in Runs,
             stage[r] = "saved", stage'[r] = "released"
      PROVE  ReleaseRun(r)
  <2>1. ASSUME NEW q \in Runs, q # r, NEW s, Goto(q, s) PROVE FALSE
    BY <1>2, <2>1 DEF Goto, IInv, Types
  <2>2. ~ Goto(r, "failed")
    BY <1>2 DEF Goto, IInv, Types
  <2>3. ~ UNCHANGED stage
    BY <1>2
  <2>4. ASSUME NEW q \in Runs, Prepare(q) PROVE FALSE
    BY <1>2, <2>4 DEF Prepare
  <2>5. ASSUME NEW q \in Runs, Advance(q) \/ Fail(q) PROVE ReleaseRun(r)
    BY <1>2, <2>1, <2>2, <2>3, <2>4, <2>5
       DEF Advance, Start, MergeNext, Save, Dispatch, ReleaseRun, Fail
  <2>6. QED
    BY <1>2, <2>3, <2>5 DEF PreparationNext, Tick, runVars
<1>3. IInv /\ [PreparationNext]_preparationVars
          => [\A r \in Runs : stage[r] = "saved" /\ stage'[r] = "released"
                  => Serves(r)]_preparationVars
  BY <1>1, <1>2
<1>4. QED
  BY <1>3, Invariant, PTL DEF PreparationSpec, PinsAreServed

-----------------------------------------------------------------------------
(* The documentation.                                                      *)

\* Some member of a finite set has the last place.
LEMMA LastPlace ==
    ASSUME NEW S, IsFiniteSet(S), S # {}, NEW f, \A x \in S : f[x] \in Nat
    PROVE  \E x \in S : \A y \in S : f[y] <= f[x]
<1> DEFINE After(x) == {y \in S : f[x] < f[y]}
           counts == {Cardinality(After(x)) : x \in S}
<1>1. \A x \in S : IsFiniteSet(After(x))
  BY FS_Subset
<1>2. counts \subseteq Nat /\ counts # {}
  BY <1>1, FS_CardinalityType
<1> HIDE DEF counts
<1>3. PICK n \in counts : \A k \in counts : n <= k
  BY <1>2, LeastNumber
<1>4. PICK x \in S : n = Cardinality(After(x))
  BY <1>3 DEF counts
<1>5. ASSUME NEW y \in S, ~ (f[y] <= f[x]) PROVE FALSE
  <2>1. /\ After(y) \in SUBSET After(x)
        /\ y \in After(x) /\ y \notin After(y)
    BY <1>5
  <2>2. Cardinality(After(y)) <= Cardinality(After(x))
        /\ Cardinality(After(y)) # Cardinality(After(x))
    <3> HIDE DEF After
    <3>1. QED
      BY <1>1, <2>1, FS_Subset
  <2>3. Cardinality(After(x)) \in Nat /\ Cardinality(After(y)) \in Nat
    BY <1>1, FS_CardinalityType
  <2>4. Cardinality(After(y)) \in counts
    BY DEF counts
  <2>5. QED
    BY <1>3, <1>4, <2>2, <2>3, <2>4
<1>6. QED
  BY <1>5

\* The channels of an image are as finite as its tracks, and so are the tags.
LEMMA FiniteTags ==
    IsFiniteSet(KnownRisks) /\ IsFiniteSet(Channels) /\ IsFiniteSet(OciTags)
<1>1. IsFiniteSet(KnownRisks)
  <2>1. IsFiniteSet({} \cup {"stable"})
    BY FS_EmptySet, FS_AddElement
  <2>2. IsFiniteSet({} \cup {"stable"} \cup {"candidate"})
    BY <2>1, FS_AddElement
  <2>3. IsFiniteSet({} \cup {"stable"} \cup {"candidate"} \cup {"beta"})
    BY <2>2, FS_AddElement
  <2>4. IsFiniteSet({} \cup {"stable"} \cup {"candidate"} \cup {"beta"} \cup {"edge"})
    BY <2>3, FS_AddElement
  <2>5. KnownRisks = {} \cup {"stable"} \cup {"candidate"} \cup {"beta"} \cup {"edge"}
    BY DEF KnownRisks
  <2>6. QED
    BY <2>4, <2>5
<1>2. IsFiniteSet(Channels)
  BY <1>1, DocumentationAssumption, FS_Product DEF Channels
<1>3. ASSUME NEW S, IsFiniteSet(S) PROVE IsFiniteSet({<<x>> : x \in S})
  <2>1. [x \in S |-> <<x>>] \in Surjection(S, {<<x>> : x \in S})
    BY DEF Surjection
  <2>2. QED
    BY <1>3, <2>1, FS_Surjection
<1>4. IsFiniteSet({<<k>> : k \in KnownRisks}) /\ IsFiniteSet({<<t>> : t \in Tracks})
  BY <1>1, <1>3, DocumentationAssumption
<1>5. IsFiniteSet(Channels \cup {<<k>> : k \in KnownRisks} \cup {<<t>> : t \in Tracks})
  <2>1. IsFiniteSet(Channels \cup {<<k>> : k \in KnownRisks})
    BY <1>2, <1>4, FS_Union
  <2>2. QED
    BY <1>4, <2>1, FS_Union
<1>6. QED
  BY <1>1, <1>2, <1>5 DEF OciTags

\* No tag is on a page after the last one.
LEMMA LastPageIsLast == LastPage \in Nat /\ \A t \in OciTags : PageOf[t] <= LastPage
<1>1. <<"stable">> \in OciTags
  BY DEF OciTags, KnownRisks
<1>2. PICK t \in OciTags : \A u \in OciTags : PageOf[u] <= PageOf[t]
  BY <1>1, FiniteTags, LastPlace, DocumentationAssumption
<1>3. QED
  BY <1>2, DocumentationAssumption DEF LastPage

\* A revision that gets a row has a channel tag to be listed under.
LEMMA ChannelIsFound ==
    ASSUME NEW entries, NEW v \in Listable(entries)
    PROVE  LET tags == TagsIn(entries, v)
           IN  /\ FindChannelTag(tags) \in FindChannelTags(tags)
               /\ FindChannelTag(tags) \in tags
<1> DEFINE tags == TagsIn(entries, v)
           S == FindChannelTags(tags)
<1>1. S # {} /\ S \subseteq tags /\ S \subseteq Channels
  BY DocumentationAssumption DEF Listable, FindChannelTags, IsChannelTag, Channels
<1> HIDE DEF S, tags
<1>2. IsFiniteSet(S)
  BY <1>1, FiniteTags, FS_Subset
<1>3. PICK t \in S : \A u \in S : Alphabet[u] <= Alphabet[t]
  BY <1>1, <1>2, LastPlace, DocumentationAssumption
<1>4. FindChannelTag(tags) \in S
  BY <1>3 DEF FindChannelTag, S
<1>5. QED
  BY <1>1, <1>4 DEF tags, S

\* A run is one record of its knowledge, which starts empty.
DocRunOK(r) ==
    /\ run[r] = [step |-> run[r].step, dates |-> run[r].dates,
                 page |-> run[r].page, read |-> run[r].read,
                 rows |-> run[r].rows]
    /\ run[r].step \in {"idle", "start", "list", "inspect"} \cup Registries
    /\ run[r].page \in Nat
    /\ run[r].step \in {"idle", "start", "list"} => run[r].rows = {}

\* What it has read are entries the registry has held, one per tag, of the
\* pages it has seen; what the registry holds by now it could have read.
ReadOK(r) ==
    run[r].step \notin {"idle", "start"} =>
        /\ registry \subseteq seen[r] /\ run[r].read \subseteq seen[r]
        /\ run[r].read \subseteq [tag : OciTags, rev : Listed]
        /\ \A e, f \in run[r].read : e.tag = f.tag => e = f
        /\ \A e \in run[r].read : PageOf[e.tag] <= run[r].page

\* Each of its rows is that of a revision it has read, with architectures
\* that the channel tag has shown since the run began.
RowsOK(r) ==
    /\ \A row \in run[r].rows :
          /\ row.rev \in Listable(run[r].read)
          /\ row.channel = FindChannelTag(TagsIn(run[r].read, row.rev))
          /\ row.tags = TagsIn(run[r].read, row.rev) \ {row.channel}
          /\ [tag |-> row.channel, rev |-> row.arches] \in seen[r]
    /\ \A row, other \in run[r].rows : row.rev = other.rev => row = other

\* Unless something was released meanwhile, it has read what there is on the
\* pages it has seen, and its rows are rows of the table.
UndisturbedOK(r) ==
    /\ begun[r] \in Nat /\ begun[r] <= released
    /\ begun[r] = released /\ run[r].step \notin {"idle", "start"} =>
          /\ run[r].dates = Overlay(eol, Override)
          /\ run[r].read = {e \in registry : PageOf[e.tag] <= run[r].page}
          /\ run[r].step # "list" => run[r].page = LastPage
          /\ \A row \in run[r].rows :
                row = Row(Overlay(eol, Override), registry, row.rev, row.rev)
          /\ run[r].step \in Registries =>
                Listable(run[r].read) \subseteq {row.rev : row \in run[r].rows}

\* What is known of a run, and of all.
KnownOf(r) == DocRunOK(r) /\ ReadOK(r) /\ RowsOK(r) /\ UndisturbedOK(r)

DocShape ==
    /\ run = [r \in DocRuns |-> run[r]]
    /\ docs = [g \in Registries |-> docs[g]]
    /\ seen = [r \in DocRuns |-> seen[r]]
    /\ begun = [r \in DocRuns |-> begun[r]]
    /\ released \in Nat

DocInv == BoardTypeOK /\ DocShape /\ \A r \in DocRuns : KnownOf(r)

\* A run that nothing changes for stays as it is known.
LEMMA KnownStays ==
    ASSUME UNCHANGED <<boardVars, released>>, NEW q,
           UNCHANGED <<run[q], seen[q], begun[q]>>, KnownOf(q)
    PROVE  KnownOf(q)'
BY DEF KnownOf, DocRunOK, ReadOK, RowsOK, UndisturbedOK, Row, boardVars

\* A step of one run, that releases nothing, is to be proved for that run.
LEMMA DocRunStep ==
    ASSUME DocInv, NEW r \in DocRuns, UNCHANGED <<boardVars, released>>,
           \E x : run' = [run EXCEPT ![r] = x],
           \E x : seen' = [seen EXCEPT ![r] = x],
           \E x : begun' = [begun EXCEPT ![r] = x],
           docs' = [g \in Registries |-> docs'[g]],
           KnownOf(r)'
    PROVE  DocInv'
<1>1. BoardTypeOK'
  BY DEF DocInv, BoardTypeOK, IsMapping, boardVars
<1>2. DocShape'
  BY DEF DocInv, DocShape
<1>3. \A q \in DocRuns \ {r} : UNCHANGED <<run[q], seen[q], begun[q]>>
  BY DEF DocInv, DocShape
<1>4. \A q \in DocRuns \ {r} : KnownOf(q)'
  BY <1>3, KnownStays DEF DocInv
<1>5. QED
  BY <1>1, <1>2, <1>4 DEF DocInv

\* A release leaves the runs what they know, and disturbs all of them.
LEMMA ReleaseStep ==
    ASSUME DocInv, NEW r \in DocRuns, ReleaseThenDocument(r)
    PROVE  DocInv'
<1>1. \E request \in Requests :
          \E dates \in [TracksOf(request) -> Dates] : Release(request, dates)
  BY DEF ReleaseThenDocument
<1>2. BoardTypeOK'
  BY <1>1, RequestKeepsBoard DEF DocInv
<1>3. /\ run' = [run EXCEPT ![r].step = "start"] /\ run[r].step = "idle"
      /\ released' = released + 1
      /\ seen' = [q \in DocRuns |-> seen[q] \cup registry']
      /\ UNCHANGED <<docs, begun>>
  BY DEF ReleaseThenDocument, DocGoto, Note
<1>4. DocShape'
  BY <1>3 DEF DocInv, DocShape
<1>5. ASSUME NEW q \in DocRuns PROVE KnownOf(q)'
  <2>1. /\ KnownOf(q) /\ KnownOf(r) /\ seen'[q] = seen[q] \cup registry'
        /\ begun'[q] = begun[q]
    BY <1>3 DEF DocInv
  <2>2. /\ run'[q].read = run[q].read /\ run'[q].rows = run[q].rows
        /\ run'[q].page = run[q].page /\ run'[q].dates = run[q].dates
        /\ run'[q].step = IF q = r THEN "start" ELSE run[q].step
        /\ run'[q] = [step |-> run'[q].step, dates |-> run'[q].dates,
                      page |-> run'[q].page, read |-> run'[q].read,
                      rows |-> run'[q].rows]
    BY <1>3, <2>1 DEF DocInv, DocShape, KnownOf, DocRunOK
  <2>3. DocRunOK(q)'
    BY <1>3, <2>1, <2>2 DEF KnownOf, DocRunOK
  <2>4. ReadOK(q)'
    BY <1>3, <2>1, <2>2 DEF KnownOf, ReadOK
  <2>5. RowsOK(q)'
    BY <2>1, <2>2 DEF KnownOf, RowsOK
  <2>6. UndisturbedOK(q)'
    <3>1. begun'[q] \in Nat /\ begun'[q] < released'
      BY <1>3, <2>1 DEF DocInv, DocShape, KnownOf, UndisturbedOK
    <3>2. QED
      BY <3>1, <1>4 DEF UndisturbedOK, DocShape
  <2>7. QED
    BY <2>3, <2>4, <2>5, <2>6 DEF KnownOf
<1>6. QED
  BY <1>2, <1>4, <1>5 DEF DocInv

\* A run that starts, or is over, knows nothing.
LEMMA StartStep ==
    ASSUME DocInv, NEW r \in DocRuns, UNCHANGED <<boardVars, released, seen, begun>>,
           docs' = [g \in Registries |-> docs'[g]],
           \/ run[r].step = "idle" /\ run' = [run EXCEPT ![r].step = "start"]
           \/ run' = [run EXCEPT ![r] = Idle]
    PROVE  DocInv'
<1>1. KnownOf(r) /\ DocShape
  BY DEF DocInv
<1>2. /\ run'[r] = [step |-> run'[r].step, dates |-> run'[r].dates,
                    page |-> run'[r].page, read |-> run'[r].read,
                    rows |-> run'[r].rows]
      /\ run'[r].step \in {"idle", "start"}
      /\ run'[r].page \in Nat /\ run'[r].rows = {}
  <2>1. CASE run' = [run EXCEPT ![r] = Idle]
    BY <1>1, <2>1 DEF Idle, DocShape
  <2>2. CASE run[r].step = "idle" /\ run' = [run EXCEPT ![r].step = "start"]
    BY <1>1, <2>2 DEF DocShape, KnownOf, DocRunOK
  <2>3. QED
    BY <2>1, <2>2
<1>3. KnownOf(r)'
  BY <1>1, <1>2 DEF KnownOf, DocRunOK, ReadOK, RowsOK, UndisturbedOK
<1>4. /\ \E x : run' = [run EXCEPT ![r] = x]
      /\ \E x : seen' = [seen EXCEPT ![r] = x]
      /\ \E x : begun' = [begun EXCEPT ![r] = x]
  <2>1. seen' = [seen EXCEPT ![r] = seen[r]] /\ begun' = [begun EXCEPT ![r] = begun[r]]
    BY <1>1 DEF DocShape
  <2>2. QED
    BY <2>1
<1>5. QED
  BY <1>3, <1>4, DocRunStep

\* What a run knows, part by part.
Part(s, d, p, e, w) == [step |-> s, dates |-> d, page |-> p, read |-> e, rows |-> w]

LEMMA PageIsRead ==
    ASSUME NEW y, y = Part(y.step, y.dates, y.page, y.read, y.rows),
           NEW s2, NEW p2, NEW e2
    PROVE  [y EXCEPT !.page = p2, !.read = e2, !.step = s2]
              = Part(s2, y.dates, p2, e2, y.rows)
<1> DEFINE s == y.step
           d == y.dates
           p == y.page
           e == y.read
           w == y.rows
<1> HIDE DEF s, d, p, e, w
<1>1. /\ [Part(s, d, p, e, w) EXCEPT !.page = p2] = Part(s, d, p2, e, w)
      /\ [Part(s, d, p2, e, w) EXCEPT !.read = e2] = Part(s, d, p2, e2, w)
      /\ [Part(s, d, p2, e2, w) EXCEPT !.step = s2] = Part(s2, d, p2, e2, w)
  BY DEF Part
<1>2. PICK z : z = [y EXCEPT !.page = p2]
  OBVIOUS
<1>3. PICK u : u = [z EXCEPT !.read = e2]
  OBVIOUS
<1>4. [y EXCEPT !.page = p2, !.read = e2, !.step = s2] = [u EXCEPT !.step = s2]
  BY <1>2, <1>3
<1>5. y = Part(s, d, p, e, w)
  BY DEF s, d, p, e, w
<1>6. z = Part(s, d, p2, e, w)
  BY <1>1, <1>2, <1>5
<1>7. u = Part(s, d, p2, e2, w)
  BY <1>1, <1>3, <1>6
<1>8. QED
  BY <1>1, <1>4, <1>7 DEF d, w

\* What it knows when it has read the record.
LEMMA TracksAreRead ==
    ASSUME NEW d
    PROVE  [Idle EXCEPT !.step = "list", !.dates = d] = Part("list", d, 0, {}, {})
<1> DEFINE none == [t \in {} |-> 0]
<1> HIDE DEF none
<1>1. /\ [Part("idle", none, 0, {}, {}) EXCEPT !.step = "list"]
             = Part("list", none, 0, {}, {})
      /\ [Part("list", none, 0, {}, {}) EXCEPT !.dates = d] = Part("list", d, 0, {}, {})
  BY DEF Part
<1>2. Idle = Part("idle", none, 0, {}, {})
  BY DEF Idle, Part, none
<1>3. PICK z : z = [Idle EXCEPT !.step = "list"]
  OBVIOUS
<1>4. [Idle EXCEPT !.step = "list", !.dates = d] = [z EXCEPT !.dates = d]
  BY <1>3
<1>5. QED
  BY <1>1, <1>2, <1>3, <1>4

\* Only a run's own step changes what it knows: the three forms of it.
LEMMA OnlyItsRun ==
    ASSUME DocShape, NEW r \in DocRuns,
           UNCHANGED <<released, docs, seen, begun>>
    PROVE  /\ \E x : seen' = [seen EXCEPT ![r] = x]
           /\ \E x : begun' = [begun EXCEPT ![r] = x]
           /\ docs' = [g \in Registries |-> docs'[g]]
<1>1. seen' = [seen EXCEPT ![r] = seen[r]] /\ begun' = [begun EXCEPT ![r] = begun[r]]
  BY DEF DocShape
<1>2. docs' = [g \in Registries |-> docs'[g]]
  BY DEF DocShape
<1>3. QED
  BY <1>1, <1>2

\* When it has read the record, the registry is all it can have missed.
LEMMA GetAllTracksStep ==
    ASSUME DocInv, NEW r \in DocRuns, GetAllTracks(r)
    PROVE  DocInv'
<1> DEFINE x == [Idle EXCEPT !.step = "list", !.dates = Overlay(eol, Override)]
<1>1. /\ run' = [run EXCEPT ![r] = x]
      /\ seen' = [seen EXCEPT ![r] = registry]
      /\ begun' = [begun EXCEPT ![r] = released]
      /\ UNCHANGED <<boardVars, docs, released>>
  BY DEF GetAllTracks, counters
<1>2. x = [step |-> "list", dates |-> Overlay(eol, Override), page |-> 0,
           read |-> {}, rows |-> {}]
  BY TracksAreRead DEF Part
<1> HIDE DEF x
<1>3. run'[r] = x /\ seen'[r] = registry /\ begun'[r] = released
  BY <1>1 DEF DocInv, DocShape
<1>4. UNCHANGED <<channels, eol, registry, now>>
  BY <1>1 DEF boardVars
<1>5. DocRunOK(r)' /\ ReadOK(r)' /\ RowsOK(r)'
  BY <1>2, <1>3, <1>4 DEF DocRunOK, ReadOK, RowsOK
<1>6. UndisturbedOK(r)'
  <2>1. {e \in registry : PageOf[e.tag] <= 0} = {}
    BY DocumentationAssumption DEF DocInv, BoardTypeOK
  <2>2. QED
    BY <1>1, <1>2, <1>3, <1>4, <2>1 DEF UndisturbedOK, DocInv, DocShape, Registries
<1>7. docs' = [g \in Registries |-> docs'[g]]
  BY <1>1 DEF DocInv, DocShape
<1>8. KnownOf(r)'
  BY <1>5, <1>6 DEF KnownOf
<1>9. /\ \E y : run' = [run EXCEPT ![r] = y]
      /\ \E y : seen' = [seen EXCEPT ![r] = y]
      /\ \E y : begun' = [begun EXCEPT ![r] = y]
  BY <1>1
<1>10. QED
  BY <1>1, <1>7, <1>8, <1>9, DocRunStep

\* One more page: what is on it can have no tag of an earlier one.
LEMMA DescribeImageTagsStep ==
    ASSUME DocInv, NEW r \in DocRuns, DescribeImageTags(r)
    PROVE  DocInv'
<1> DEFINE page == run[r].page + 1
           onIt == {e \in registry : PageOf[e.tag] = page}
           x == [run[r] EXCEPT !.page = page, !.read = run[r].read \cup onIt,
                               !.step = IF page = LastPage THEN "inspect" ELSE "list"]
<1>1. /\ run[r].step = "list"
      /\ run' = [run EXCEPT ![r] = x]
      /\ UNCHANGED <<boardVars, docs, released, seen, begun>>
  BY DEF DescribeImageTags, counters, history
<1>2. KnownOf(r) /\ DocShape /\ BoardTypeOK
  BY DEF DocInv
<1>3. x = [step |-> IF page = LastPage THEN "inspect" ELSE "list",
           dates |-> run[r].dates, page |-> page,
           read |-> run[r].read \cup onIt, rows |-> {}]
  <2>1. /\ run[r] = Part(run[r].step, run[r].dates, run[r].page, run[r].read,
                        run[r].rows)
        /\ run[r].rows = {}
    BY <1>1, <1>2 DEF KnownOf, DocRunOK, Part
  <2> HIDE DEF page, onIt
  <2>2. x = Part(IF page = LastPage THEN "inspect" ELSE "list", run[r].dates,
                 page, run[r].read \cup onIt, {})
    <3>1. ASSUME NEW s2, NEW p2, NEW e2
          PROVE  [run[r] EXCEPT !.page = p2, !.read = e2, !.step = s2]
                    = Part(s2, run[r].dates, p2, e2, run[r].rows)
      BY <2>1, PageIsRead, Zenon
    <3>2. QED
      BY <2>1, <3>1, Zenon
  <2>3. QED
    BY <2>2 DEF Part
<1> HIDE DEF x
<1>4. run'[r] = x /\ seen'[r] = seen[r] /\ begun'[r] = begun[r]
  BY <1>1, <1>2 DEF DocShape
<1>5. UNCHANGED <<channels, eol, registry, now, released>>
  BY <1>1 DEF boardVars
<1>6. DocRunOK(r)' /\ RowsOK(r)'
  BY <1>2, <1>3, <1>4 DEF KnownOf, DocRunOK, RowsOK
<1>7. /\ run[r].page \in Nat
      /\ \A e \in registry : e \in [tag : OciTags, rev : Listed]
      /\ \A e \in registry : PageOf[e.tag] \in Nat \ {0}
      /\ registry \subseteq seen[r] /\ run[r].read \subseteq seen[r]
      /\ \A e \in run[r].read : e \in [tag : OciTags, rev : Listed]
      /\ \A e \in run[r].read : PageOf[e.tag] <= run[r].page
                                /\ PageOf[e.tag] \in Nat \ {0}
  BY <1>1, <1>2, DocumentationAssumption DEF KnownOf, DocRunOK, ReadOK, BoardTypeOK
<1>8. /\ \A e, f \in registry : e.tag = f.tag => e = f
      /\ \A e, f \in run[r].read : e.tag = f.tag => e = f
  BY <1>1, <1>2 DEF KnownOf, ReadOK, BoardTypeOK
<1>9. ReadOK(r)'
  <2>1. \A e, f \in run[r].read \cup onIt : e.tag = f.tag => e = f
    <3>1. \A e \in run[r].read, f \in onIt : e.tag # f.tag
      BY <1>7
    <3>2. QED
      BY <1>8, <3>1
  <2>2. \A e \in run[r].read \cup onIt : PageOf[e.tag] <= page
    BY <1>7
  <2>3. /\ run[r].read \cup onIt \subseteq seen[r]
        /\ run[r].read \cup onIt \subseteq [tag : OciTags, rev : Listed]
    BY <1>7
  <2> HIDE DEF onIt, page
  <2>4. QED
    BY <1>3, <1>4, <1>5, <1>7, <2>1, <2>2, <2>3 DEF ReadOK
<1>10. UndisturbedOK(r)'
  <2>1. begun[r] = released =>
            /\ run[r].dates = Overlay(eol, Override)
            /\ run[r].read = {e \in registry : PageOf[e.tag] <= run[r].page}
    BY <1>1, <1>2 DEF KnownOf, UndisturbedOK
  <2>2. begun[r] = released =>
            run[r].read \cup onIt = {e \in registry : PageOf[e.tag] <= page}
    <3> SUFFICES ASSUME begun[r] = released
                 PROVE  run[r].read \cup onIt = {e \in registry : PageOf[e.tag] <= page}
      OBVIOUS
    <3>1. \A e \in registry : PageOf[e.tag] <= page
                                  <=> PageOf[e.tag] <= run[r].page \/ PageOf[e.tag] = page
      BY <1>7
    <3>2. QED
      BY <2>1, <3>1
  <2>3. begun[r] \in Nat /\ begun[r] <= released
    BY <1>2 DEF KnownOf, UndisturbedOK
  <2> HIDE DEF onIt, page
  <2>4. QED
    BY <1>3, <1>4, <1>5, <2>1, <2>2, <2>3 DEF UndisturbedOK, Registries
<1>11. KnownOf(r)'
  BY <1>6, <1>9, <1>10 DEF KnownOf
<1>12. QED
  BY <1>1, <1>2, <1>11, DocRunStep, OnlyItsRun

\* What a step, or a row more, makes of it.
LEMMA PartChanges ==
    ASSUME NEW y, y = Part(y.step, y.dates, y.page, y.read, y.rows), NEW v
    PROVE  /\ [y EXCEPT !.step = v] = Part(v, y.dates, y.page, y.read, y.rows)
           /\ [y EXCEPT !.rows = v] = Part(y.step, y.dates, y.page, y.read, v)
<1> DEFINE s == y.step
           d == y.dates
           p == y.page
           e == y.read
           w == y.rows
<1> HIDE DEF s, d, p, e, w
<1>1. /\ [Part(s, d, p, e, w) EXCEPT !.step = v] = Part(v, d, p, e, w)
      /\ [Part(s, d, p, e, w) EXCEPT !.rows = v] = Part(s, d, p, e, v)
  BY DEF Part
<1>2. y = Part(s, d, p, e, w)
  BY DEF s, d, p, e, w
<1>3. /\ [y EXCEPT !.step = v] = Part(v, d, p, e, w)
      /\ [y EXCEPT !.rows = v] = Part(s, d, p, e, v)
  BY <1>1, <1>2
<1>4. QED
  BY <1>3 DEF s, d, p, e, w

\* A step of a run that has built its rows, or publishes them.
LEMMA GoOn ==
    ASSUME DocInv, NEW r \in DocRuns, NEW s \in Registries,
           run[r].step \notin {"idle", "start", "list"}, DocGoto(r, s),
           UNCHANGED <<boardVars, released, seen, begun>>,
           docs' = [g \in Registries |-> docs'[g]],
           run[r].step = "inspect" => Pending(r) = {}
    PROVE  DocInv'
<1>1. KnownOf(r) /\ DocShape
  BY DEF DocInv
<1>2. run[r] = Part(run[r].step, run[r].dates, run[r].page, run[r].read, run[r].rows)
  BY <1>1 DEF KnownOf, DocRunOK, Part
<1>3. run'[r] = [run[r] EXCEPT !.step = s]
  BY <1>1 DEF DocShape, DocGoto
<1>4. run'[r] = Part(s, run[r].dates, run[r].page, run[r].read, run[r].rows)
  BY <1>2, <1>3, PartChanges
<1>5. /\ run'[r].step = s /\ run'[r].dates = run[r].dates
      /\ run'[r].page = run[r].page /\ run'[r].read = run[r].read
      /\ run'[r].rows = run[r].rows
      /\ run'[r] = [step |-> run'[r].step, dates |-> run'[r].dates,
                    page |-> run'[r].page, read |-> run'[r].read,
                    rows |-> run'[r].rows]
  BY <1>4 DEF Part
<1>6. DocRunOK(r)'
  BY <1>1, <1>5 DEF KnownOf, DocRunOK, Registries
<1>7. ReadOK(r)'
  BY <1>1, <1>5 DEF KnownOf, ReadOK, Registries, boardVars
<1>8. RowsOK(r)'
  BY <1>1, <1>5 DEF KnownOf, RowsOK
<1>9. UndisturbedOK(r)'
  <2>1. begun[r] = released =>
            Listable(run[r].read) \subseteq {row.rev : row \in run[r].rows}
    BY <1>1 DEF KnownOf, UndisturbedOK, Pending, DocRunOK, Registries
  <2>2. UNCHANGED <<eol, registry, now, released, begun>>
    BY DEF boardVars
  <2>3. /\ begun[r] \in Nat /\ begun[r] <= released
        /\ begun[r] = released =>
              /\ run[r].dates = Overlay(eol, Override)
              /\ run[r].read = {e \in registry : PageOf[e.tag] <= run[r].page}
              /\ run[r].page = LastPage
              /\ \A row \in run[r].rows :
                    row = Row(Overlay(eol, Override), registry, row.rev, row.rev)
    BY <1>1 DEF KnownOf, UndisturbedOK, Registries
  <2>4. QED
    BY <1>5, <2>1, <2>2, <2>3 DEF UndisturbedOK, Row
<1>10. KnownOf(r)'
  BY <1>6, <1>7, <1>8, <1>9 DEF KnownOf
<1>11. /\ \E x : run' = [run EXCEPT ![r] = x]
       /\ \E x : seen' = [seen EXCEPT ![r] = x]
       /\ \E x : begun' = [begun EXCEPT ![r] = x]
  <2>1. run' = [run EXCEPT ![r] = run'[r]]
    BY <1>1 DEF DocShape, DocGoto
  <2>2. seen' = [seen EXCEPT ![r] = seen[r]] /\ begun' = [begun EXCEPT ![r] = begun[r]]
    BY <1>1 DEF DocShape
  <2>3. QED
    BY <2>1, <2>2
<1>12. QED
  BY <1>10, <1>11, DocRunStep

\* One more row is that of a revision that had none.  Without a release in
\* between, its channel tag still shows the revision it was read with.
LEMMA BuildReleaseStep ==
    ASSUME DocInv, NEW r \in DocRuns, BuildRelease(r)
    PROVE  DocInv'
<1>1. PICK v \in Pending(r) : \E e \in registry :
          /\ e.tag = FindChannelTag(TagsIn(run[r].read, v))
          /\ run' = [run EXCEPT ![r].rows =
                        @ \cup {Row(run[r].dates, run[r].read, v, e.rev)}]
  BY DEF BuildRelease
<1>2. PICK e \in registry :
          /\ e.tag = FindChannelTag(TagsIn(run[r].read, v))
          /\ run' = [run EXCEPT ![r].rows =
                        @ \cup {Row(run[r].dates, run[r].read, v, e.rev)}]
  BY <1>1
<1> DEFINE new == Row(run[r].dates, run[r].read, v, e.rev)
           rows == run[r].rows \cup {new}
<1>3. /\ KnownOf(r) /\ DocShape /\ BoardTypeOK
      /\ run[r].step = "inspect"
      /\ v \in Listable(run[r].read) /\ \A row \in run[r].rows : row.rev # v
      /\ UNCHANGED <<boardVars, docs, released, seen, begun>>
  BY <1>1 DEF DocInv, BuildRelease, Pending, counters, history
<1>4. run'[r] = [run[r] EXCEPT !.rows = rows]
  BY <1>2, <1>3 DEF DocShape
<1>5. /\ new.rev = v /\ new.arches = e.rev
      /\ new.channel = FindChannelTag(TagsIn(run[r].read, v))
      /\ new.tags = TagsIn(run[r].read, v) \ {new.channel}
  BY DEF Row
<1> HIDE DEF new
<1>6. run[r] = Part("inspect", run[r].dates, run[r].page, run[r].read, run[r].rows)
  BY <1>3 DEF KnownOf, DocRunOK, Part
<1>7. run'[r] = Part("inspect", run[r].dates, run[r].page, run[r].read, rows)
  <2> HIDE DEF rows
  <2>1. QED
    BY <1>3, <1>4, <1>6, PartChanges
<1>8. /\ run'[r].step = "inspect" /\ run'[r].dates = run[r].dates
      /\ run'[r].page = run[r].page /\ run'[r].read = run[r].read
      /\ run'[r].rows = rows
      /\ run'[r] = [step |-> run'[r].step, dates |-> run'[r].dates,
                    page |-> run'[r].page, read |-> run'[r].read,
                    rows |-> run'[r].rows]
  BY <1>7 DEF Part
<1>9. DocRunOK(r)' /\ ReadOK(r)'
  BY <1>3, <1>8 DEF KnownOf, DocRunOK, ReadOK, boardVars
<1>10. RowsOK(r)'
  <2>1. [tag |-> new.channel, rev |-> new.arches] \in seen[r]
    <3>1. e = [tag |-> e.tag, rev |-> e.rev] /\ registry \subseteq seen[r]
      BY <1>3 DEF BoardTypeOK, KnownOf, ReadOK
    <3>2. QED
      BY <1>2, <1>5, <3>1
  <2>2. \A row \in rows :
            /\ row.rev \in Listable(run[r].read)
            /\ row.channel = FindChannelTag(TagsIn(run[r].read, row.rev))
            /\ row.tags = TagsIn(run[r].read, row.rev) \ {row.channel}
            /\ [tag |-> row.channel, rev |-> row.arches] \in seen[r]
    BY <1>3, <1>5, <2>1 DEF KnownOf, RowsOK
  <2>3. \A row, other \in rows : row.rev = other.rev => row = other
    BY <1>3, <1>5 DEF KnownOf, RowsOK
  <2> HIDE DEF rows
  <2>4. QED
    BY <1>3, <1>8, <2>2, <2>3 DEF RowsOK
<1>11. UndisturbedOK(r)'
  <2>1. ASSUME begun[r] = released
        PROVE  new = Row(Overlay(eol, Override), registry, v, v)
    <3>1. /\ run[r].dates = Overlay(eol, Override)
          /\ run[r].read = {f \in registry : PageOf[f.tag] <= LastPage}
      BY <1>3, <2>1 DEF KnownOf, UndisturbedOK
    <3>2. run[r].read = registry
      BY <1>3, <3>1, LastPageIsLast DEF BoardTypeOK
    <3>3. e.tag \in TagsIn(registry, v)
      BY <1>2, <1>3, <3>2, ChannelIsFound
    <3>4. PICK f \in registry : f.tag = e.tag /\ f.rev = v
      BY <3>3 DEF TagsIn
    <3>5. e.rev = v
      BY <1>3, <3>4 DEF BoardTypeOK
    <3>6. QED
      BY <3>1, <3>2, <3>5 DEF new
  <2>2. UNCHANGED <<eol, registry, now, released, begun>>
    BY <1>3 DEF boardVars
  <2>3. /\ begun[r] \in Nat /\ begun[r] <= released
        /\ begun[r] = released =>
              /\ run[r].dates = Overlay(eol, Override)
              /\ run[r].read = {f \in registry : PageOf[f.tag] <= run[r].page}
              /\ run[r].page = LastPage
              /\ \A row \in run[r].rows :
                    row = Row(Overlay(eol, Override), registry, row.rev, row.rev)
    BY <1>3 DEF KnownOf, UndisturbedOK
  <2>4. begun[r] = released => \A row \in rows :
            row = Row(Overlay(eol, Override), registry, row.rev, row.rev)
    BY <1>5, <2>1, <2>3
  <2> HIDE DEF rows
  <2>5. QED
    BY <1>8, <2>2, <2>3, <2>4 DEF UndisturbedOK, Row, Registries
<1>12. KnownOf(r)'
  BY <1>9, <1>10, <1>11 DEF KnownOf
<1>13. \E x : run' = [run EXCEPT ![r] = x]
  <2>1. run' = [run EXCEPT ![r] = run'[r]]
    BY <1>2, <1>3 DEF DocShape
  <2>2. QED
    BY <2>1
<1>14. QED
  BY <1>3, <1>12, <1>13, DocRunStep, OnlyItsRun

\* What is known of the runs stays so at every step.
LEMMA DocInvariantStep ==
    ASSUME DocInv, [DocNext]_docVars
    PROVE  DocInv'
<1>1. DocShape /\ \A r \in DocRuns : KnownOf(r)
  BY DEF DocInv
<1>2. ASSUME NEW r \in DocRuns, DocDispatch(r) PROVE DocInv'
  <2>1. /\ run[r].step = "idle" /\ run' = [run EXCEPT ![r].step = "start"]
        /\ UNCHANGED <<boardVars, docs, released, seen, begun>>
    BY <1>2 DEF DocDispatch, DocGoto, counters, history
  <2>2. QED
    BY <1>1, <2>1, StartStep, OnlyItsRun
<1>3. ASSUME NEW r \in DocRuns, TableBuilt(r) PROVE DocInv'
  <2>1. /\ run[r].step = "inspect" /\ Pending(r) = {} /\ DocGoto(r, "hub")
        /\ UNCHANGED <<boardVars, docs, released, seen, begun>>
    BY <1>3 DEF TableBuilt, counters, history
  <2>2. QED
    BY <1>1, <2>1, GoOn, OnlyItsRun DEF Registries
<1>4. ASSUME NEW r \in DocRuns, PublishHub(r) PROVE DocInv'
  <2>1. /\ run[r].step = "hub" /\ DocGoto(r, "ecr")
        /\ UNCHANGED <<boardVars, released, seen, begun>>
        /\ \/ docs' = [docs EXCEPT !["hub"] = run[r].rows]
           \/ docs' = docs
    BY <1>4 DEF PublishHub, history
  <2>2. docs' = [g \in Registries |-> docs'[g]]
    BY <1>1, <2>1 DEF DocShape
  <2>3. QED
    BY <2>1, <2>2, GoOn DEF Registries
<1>5. ASSUME NEW r \in DocRuns, PublishEcr(r) PROVE DocInv'
  <2>1. /\ run' = [run EXCEPT ![r] = Idle]
        /\ UNCHANGED <<boardVars, released, seen, begun>>
        /\ docs' = [docs EXCEPT !["ecr"] = run[r].rows]
    BY <1>5 DEF PublishEcr, counters, history
  <2>2. docs' = [g \in Registries |-> docs'[g]]
    BY <1>1, <2>1 DEF DocShape
  <2>3. QED
    BY <2>1, <2>2, StartStep
<1>6. ASSUME NEW r \in DocRuns, SplitRaises(r) \/ DocFail(r) PROVE DocInv'
  <2>1. /\ run' = [run EXCEPT ![r] = Idle]
        /\ UNCHANGED <<boardVars, released, seen, begun, docs>>
    BY <1>6 DEF SplitRaises, DocFail, counters, history
  <2>2. QED
    BY <1>1, <2>1, StartStep, OnlyItsRun
<1>7. CASE UNCHANGED docVars
  <2>1. UNCHANGED <<boardVars, released, docs, seen, begun, run>>
    BY <1>7 DEF docVars
  <2>2. BoardTypeOK' /\ DocShape'
    BY <2>1 DEF DocInv, BoardTypeOK, IsMapping, boardVars, DocShape
  <2>3. \A r \in DocRuns : KnownOf(r)'
    BY <1>1, <2>1, KnownStays
  <2>4. QED
    BY <2>2, <2>3 DEF DocInv
<1>8. QED
  BY <1>2, <1>3, <1>4, <1>5, <1>6, <1>7, ReleaseStep, GetAllTracksStep,
     DescribeImageTagsStep, BuildReleaseStep DEF DocNext, DocAdvance

\* What has been read and listed so far stays within what the registry had
\* since the run began, whatever is released meanwhile.
THEOREM DocInvariant == DocSpec => []DocInv
<1>1. DocInit => DocInv
  <2> SUFFICES ASSUME DocInit PROVE DocInv
    OBVIOUS
  <2>1. BoardTypeOK
    BY BoardAssumption DEF DocInit, BoardInit, BoardTypeOK, IsMapping
  <2>2. DocShape
    BY DEF DocInit, DocShape
  <2>3. ASSUME NEW r \in DocRuns PROVE KnownOf(r)
    <3>1. run[r] = Idle /\ begun[r] = 0 /\ released = 0
      BY DEF DocInit
    <3>2. DocRunOK(r) /\ ReadOK(r) /\ RowsOK(r) /\ UndisturbedOK(r)
      BY <3>1 DEF Idle, DocRunOK, ReadOK, RowsOK, UndisturbedOK
    <3>3. QED
      BY <3>2 DEF KnownOf
  <2>4. QED
    BY <2>1, <2>2, <2>3 DEF DocInv
<1>2. DocInv /\ [DocNext]_docVars => DocInv'
  BY DocInvariantStep
<1>3. QED
  BY <1>1, <1>2, PTL DEF DocSpec

\* Whatever is released while a run reads the tags page by page, no tag is
\* on two of its rows, and each stands there with a revision, and each
\* channel with architectures, that the registries have held since the run
\* began.
THEOREM TablesAreTrue == DocSpec => []TableIsTrue
<1>1. DocInv => TableIsTrue
  <2> SUFFICES ASSUME DocInv, NEW r \in DocRuns, NEW row \in run[r].rows
               PROVE  LET shown == {row.channel} \cup row.tags
                      IN  /\ \A t \in shown : [tag |-> t, rev |-> row.rev] \in seen[r]
                          /\ [tag |-> row.channel, rev |-> row.arches] \in seen[r]
                          /\ \A other \in run[r].rows \ {row} :
                                shown \cap ({other.channel} \cup other.tags) = {}
    BY DEF TableIsTrue
  <2> DEFINE read == run[r].read
             shown(x) == {x.channel} \cup x.tags
  <2>1. KnownOf(r) /\ run[r].step \notin {"idle", "start"}
    BY DEF DocInv, KnownOf, DocRunOK
  <2>2. /\ read \subseteq seen[r] /\ read \subseteq [tag : OciTags, rev : Listed]
        /\ \A e, f \in read : e.tag = f.tag => e = f
    BY <2>1 DEF KnownOf, ReadOK
  <2>3. ASSUME NEW x \in run[r].rows PROVE shown(x) = TagsIn(read, x.rev)
    <3>1. /\ x.rev \in Listable(read)
          /\ x.channel = FindChannelTag(TagsIn(read, x.rev))
          /\ x.tags = TagsIn(read, x.rev) \ {x.channel}
      BY <2>1, <2>3 DEF KnownOf, RowsOK
    <3>2. QED
      BY <3>1, ChannelIsFound
  <2>4. [tag |-> row.channel, rev |-> row.arches] \in seen[r]
    BY <2>1 DEF KnownOf, RowsOK
  <2>5. \A x, y \in run[r].rows : x.rev = y.rev => x = y
    BY <2>1 DEF KnownOf, RowsOK
  <2> HIDE DEF read, shown
  <2>6. ASSUME NEW t \in shown(row) PROVE [tag |-> t, rev |-> row.rev] \in seen[r]
    <3>1. PICK e \in read : e.tag = t /\ e.rev = row.rev
      BY <2>3, <2>6 DEF TagsIn
    <3>2. e = [tag |-> t, rev |-> row.rev]
      BY <2>2, <3>1
    <3>3. QED
      BY <2>2, <3>2
  <2>7. ASSUME NEW other \in run[r].rows \ {row}
        PROVE  shown(row) \cap shown(other) = {}
    <3>1. row.rev # other.rev
      BY <2>5, <2>7
    <3>2. QED
      BY <2>2, <2>3, <3>1 DEF TagsIn
  <2>8. QED
    BY <2>4, <2>6, <2>7 DEF shown
<1>2. QED
  BY <1>1, DocInvariant, PTL

\* A revision is listed under a channel of its most stable risk, unless the
\* name of the channel's track contains a more stable one.
LEMMA MostStable ==
    ASSUME NEW tags, NEW c \in FindChannelTags(tags),
           \A k \in Shows(c) : Rank[c[2]] <= Rank[k],
           NEW t \in tags, IsChannelTag(t)
    PROVE  Rank[c[2]] <= Rank[t[2]]
<1>1. t[2] \in KnownRisks /\ t[2] \in Shows(t)
  BY DEF IsChannelTag, Shows
<1>2. PICK k \in Shows(c) :
          \A j \in {l \in KnownRisks :
                       \E u \in {x \in tags : IsChannelTag(x)} : l \in Shows(u)} :
              Rank[k] <= Rank[j]
  BY DEF FindChannelTags
<1>3. Rank[c[2]] <= Rank[k] /\ Rank[k] <= Rank[t[2]]
  BY <1>1, <1>2
<1>4. c[2] \in KnownRisks /\ k \in KnownRisks
  BY <1>2 DEF FindChannelTags, IsChannelTag, Shows
<1>5. QED
  BY <1>1, <1>3, <1>4, Ranks

\* A run that nothing was released to since it began publishes the table of
\* all there is in the registries, each revision on one row under its most
\* stable channel, however many pages the tags were on.
THEOREM UndisturbedRunsAreComplete == DocSpec => UndisturbedRunIsComplete
<1> DEFINE Complete ==
      \A r \in DocRuns : \A g \in Registries :
          run[r].step = g /\ docs'[g] # docs[g] /\ run'[r].step # g
              /\ begun[r] = released
              => /\ docs'[g] = Table
                 /\ \A row \in Table : \A t \in row.tags :
                       /\ \A k \in Shows(row.channel) :
                             Rank[row.channel[2]] <= Rank[k]
                       /\ IsChannelTag(t)
                       => Rank[row.channel[2]] <= Rank[t[2]]
<1>1. ASSUME DocInv, [DocNext]_docVars PROVE [Complete]_docVars
  <2> SUFFICES ASSUME DocNext,
                      NEW r \in DocRuns, NEW g \in Registries,
                      run[r].step = g, docs'[g] # docs[g], run'[r].step # g,
                      begun[r] = released
               PROVE  /\ docs'[g] = Table
                      /\ \A row \in Table : \A t \in row.tags :
                            /\ \A k \in Shows(row.channel) :
                                  Rank[row.channel[2]] <= Rank[k]
                            /\ IsChannelTag(t)
                            => Rank[row.channel[2]] <= Rank[t[2]]
    BY <1>1
  <2>1. DocShape /\ KnownOf(r) /\ BoardTypeOK
    BY <1>1 DEF DocInv
  <2>2. docs'[g] = run[r].rows
    <3>1. PICK q \in DocRuns : PublishHub(q) \/ PublishEcr(q)
      BY DEF DocNext, DocAdvance, ReleaseThenDocument, DocDispatch, GetAllTracks,
             DescribeImageTags, BuildRelease, SplitRaises, TableBuilt, DocFail
    <3>2. q = r
      BY <2>1, <3>1 DEF DocShape, PublishHub, PublishEcr, DocGoto
    <3>3. QED
      BY <2>1, <3>1, <3>2 DEF DocShape, PublishHub, PublishEcr, Registries
  <2>3. /\ run[r].read = {e \in registry : PageOf[e.tag] <= LastPage}
        /\ \A row \in run[r].rows :
              /\ row = Row(Overlay(eol, Override), registry, row.rev, row.rev)
              /\ row.rev \in Listable(run[r].read)
        /\ Listable(run[r].read) \subseteq {row.rev : row \in run[r].rows}
    BY <2>1 DEF KnownOf, UndisturbedOK, RowsOK, Registries
  <2>4. run[r].read = registry
    BY <2>1, <2>3, LastPageIsLast DEF BoardTypeOK
  <2>5. run[r].rows = Table
    BY <2>3, <2>4 DEF Table
  <2>6. ASSUME NEW row \in Table, NEW t \in row.tags,
               \A k \in Shows(row.channel) : Rank[row.channel[2]] <= Rank[k],
               IsChannelTag(t)
        PROVE  Rank[row.channel[2]] <= Rank[t[2]]
    <3>1. PICK v \in Listable(registry) :
              row = Row(Overlay(eol, Override), registry, v, v)
      BY <2>6 DEF Table
    <3>2. /\ row.channel = FindChannelTag(TagsIn(registry, v))
          /\ t \in TagsIn(registry, v)
      BY <2>6, <3>1 DEF Row
    <3>3. row.channel \in FindChannelTags(TagsIn(registry, v))
      BY <3>1, <3>2, ChannelIsFound
    <3>4. QED
      BY <2>6, <3>2, <3>3, MostStable
  <2>7. QED
    BY <2>2, <2>5, <2>6
<1>2. QED
  BY <1>1, DocInvariant, PTL DEF DocSpec, UndisturbedRunIsComplete

-----------------------------------------------------------------------------
(* Sorting and merging.                                                    *)

\* Sorting lists each member of a finite set once, in ascending order.
LEMMA SortedLists ==
    ASSUME NEW S, IsFiniteSet(S), NEW place, \A x \in S : place[x] \in Nat,
           \A x, y \in S : place[x] = place[y] => x = y
    PROVE  LET s == Sorted(S, place)
           IN  /\ Cardinality(S) \in Nat /\ Len(s) = Cardinality(S)
               /\ s = [i \in 1..Cardinality(S) |-> s[i]]
               /\ \A i \in 1..Cardinality(S) : s[i] \in S
               /\ \A x \in S : \E i \in 1..Cardinality(S) : s[i] = x
               /\ \A i, j \in 1..Cardinality(S) : s[i] = s[j] => i = j
<1> DEFINE n == Cardinality(S)
           upTo(x) == {y \in S : place[y] <= place[x]}
           rank(x) == Cardinality(upTo(x))
           s == Sorted(S, place)
<1>1. n \in Nat
  BY FS_CardinalityType
<1>2. ASSUME NEW x \in S PROVE rank(x) \in 1..n /\ IsFiniteSet(upTo(x))
  <2>1. IsFiniteSet(upTo(x)) /\ rank(x) <= n
    BY FS_Subset
  <2>2. x \in upTo(x)
    OBVIOUS
  <2>3. rank(x) \in Nat /\ rank(x) # 0
    <3> HIDE DEF upTo
    <3>1. QED
      BY <2>1, <2>2, FS_CardinalityType, FS_EmptySet
  <2> HIDE DEF rank, n, upTo
  <2>4. QED
    BY <1>1, <2>1, <2>3
<1>3. ASSUME NEW x \in S, NEW y \in S, place[x] < place[y] PROVE rank(x) # rank(y)
  <2>1. upTo(x) \in SUBSET upTo(y) /\ y \in upTo(y) /\ y \notin upTo(x)
    BY <1>3
  <2>2. IsFiniteSet(upTo(y))
    BY <1>2
  <2> HIDE DEF upTo
  <2>3. QED
    BY <2>1, <2>2, FS_Subset
<1>4. \A x, y \in S : rank(x) = rank(y) => x = y
  <2> HIDE DEF rank
  <2>1. \A x, y \in S : x = y \/ place[x] < place[y] \/ place[y] < place[x]
    OBVIOUS
  <2>2. QED
    BY <1>3, <2>1
<1> HIDE DEF rank, n
<1>5. [x \in S |-> rank(x)] \in Injection(S, 1..n)
  BY <1>2, <1>4 DEF Injection, IsInjective
<1>6. IsFiniteSet(1..n) /\ Cardinality(1..n) = n
  BY <1>1, FS_Interval
<1>7. [x \in S |-> rank(x)] \in Surjection(S, 1..n)
  BY <1>5, <1>6, FS_Injection DEF n
<1>8. \A i \in 1..n : \E x \in S : rank(x) = i
  BY <1>7 DEF Surjection
<1>9. s = [i \in 1..n |-> CHOOSE x \in S : rank(x) = i]
  BY DEF s, Sorted, rank, n
<1> HIDE DEF s
<1>10. \A i \in 1..n : s[i] \in S /\ rank(s[i]) = i
  BY <1>8, <1>9
<1>11. DOMAIN s = 1..n /\ s = [i \in 1..n |-> s[i]]
  BY <1>9
<1>12. Len(s) = n
  BY <1>1, <1>11
<1>13. ASSUME NEW x \in S PROVE \E i \in 1..n : s[i] = x
  <2>1. rank(x) \in 1..n
    BY <1>2
  <2>2. s[rank(x)] \in S /\ rank(s[rank(x)]) = rank(x)
    BY <1>10, <2>1
  <2>3. s[rank(x)] = x
    BY <1>4, <2>2
  <2>4. QED
    BY <2>1, <2>3
<1>14. \A i, j \in 1..n : s[i] = s[j] => i = j
  BY <1>10
<1>15. QED
  BY <1>1, <1>10, <1>11, <1>12, <1>13, <1>14 DEF s, n

\* What a trigger is after each of n files.
InTurn(n, base, fs) ==
    LET after[k \in 0..n] ==
            IF k = 0 THEN base ELSE MergeRevision(after[k - 1], fs[k])
    IN  after

\* Merging files one after the other is defined as far as there are files.
LEMMA MergesInTurn ==
    ASSUME NEW n \in Nat, NEW base, NEW fs
    PROVE  LET after == InTurn(n, base, fs)
           IN  /\ after[0] = base
               /\ \A k \in 1..n : after[k] = MergeRevision(after[k - 1], fs[k])
<1> DEFINE Turn(g, k) == IF k = 0 THEN base ELSE MergeRevision(g[k - 1], fs[k])
           Is(g, k) == g = [j \in 0..k |-> Turn(g, j)]
           bad == {k \in 0..n : ~ \E g : Is(g, k)}
<1>1. bad = {}
  <2> SUFFICES ASSUME bad # {} PROVE FALSE
    OBVIOUS
  <2>1. PICK k \in bad : \A j \in bad : k <= j
    <3>1. bad \subseteq Nat
      OBVIOUS
    <3> HIDE DEF bad
    <3>2. QED
      BY <3>1, LeastNumber
  <2>2. k # 0
    <3>1. Is([j \in 0..0 |-> base], 0)
      OBVIOUS
    <3>2. QED
      BY <2>1, <3>1
  <2>3. PICK g : Is(g, k - 1)
    BY <2>1, <2>2
  <2> DEFINE h == [j \in 0..k |-> IF j = k THEN MergeRevision(g[k - 1], fs[k]) ELSE g[j]]
  <2>4. \A j \in 0..(k - 1) : g[j] = Turn(g, j) /\ h[j] = g[j]
    BY <2>3
  <2>5. \A j \in 0..k : h[j] = Turn(h, j)
    <3>1. h[k] = MergeRevision(h[k - 1], fs[k])
      BY <2>1, <2>2, <2>4
    <3>2. ASSUME NEW j \in 0..(k - 1) PROVE h[j] = Turn(h, j)
      <4>1. k \in Nat /\ (j # 0 => j - 1 \in 0..(k - 1))
        BY <2>1
      <4> HIDE DEF h
      <4>2. h[j] = g[j] /\ g[j] = Turn(g, j)
        BY <2>4, <3>2
      <4>3. CASE j = 0
        BY <4>2, <4>3
      <4>4. CASE j # 0
        <5>1. h[j - 1] = g[j - 1]
          BY <2>4, <4>1, <4>4
        <5>2. QED
          BY <4>2, <5>1
      <4>5. QED
        BY <4>3, <4>4
    <3> HIDE DEF h
    <3>3. QED
      BY <2>1, <2>2, <3>1, <3>2
  <2>6. h = [j \in 0..k |-> h[j]]
    OBVIOUS
  <2> HIDE DEF h, Turn
  <2>7. Is(h, k)
    BY <2>5, <2>6
  <2>8. QED
    BY <2>1, <2>7
<1>2. \E g : Is(g, n)
  BY <1>1
<1> DEFINE after == CHOOSE g : Is(g, n)
<1>3. Is(after, n)
  BY <1>2
<1> HIDE DEF after
<1>4. /\ after[0] = base
      /\ \A k \in 1..n : after[k] = MergeRevision(after[k - 1], fs[k])
  BY <1>3
<1>5. after = InTurn(n, base, fs)
  BY DEF after, InTurn
<1>6. QED
  BY <1>4, <1>5

-----------------------------------------------------------------------------
(* The automatic rebuilds.                                                 *)

\* Revisions are numbered as far as there are some, and what is released on
\* channels is there.
BuiltOK ==
    /\ built \in Seq(Sources) /\ Len(built) <= Len(Order)
    /\ Released(channels) \subseteq Existing

\* A scan knows revisions that exist, and dates of the image's tracks.
ScanOK ==
    /\ scan.released \subseteq Existing
    /\ DOMAIN scan.eol \subseteq Tracks /\ scan.eol \in [DOMAIN scan.eol -> Dates]
    /\ scan # NoScan => rebuild = NoRebuild

\* The uploads of a rebuild: one per source, each to channels whose tracks
\* have dates.
UploadOK(u) ==
    /\ u.source \in Sources /\ u.channels \subseteq Channels /\ u.channels # {}
    /\ DOMAIN u.eol = {c[1] : c \in u.channels}
    /\ u.eol \in [DOMAIN u.eol -> Dates]
UploadsOK(us) ==
    /\ us = [i \in 1..Len(us) |-> us[i]] /\ Len(us) \in Nat
    /\ \A i \in DOMAIN us : UploadOK(us[i])
    /\ \A i, j \in DOMAIN us : us[i].source = us[j].source => i = j

\* What the record and the registry give a rebuild to find, as long as
\* nobody releases anything: what is in its uploads is released from their
\* sources, which are on the base, and what is released from the base is in
\* its uploads, unless a track has ended or the source is released as several
\* revisions.
Found(base, us) ==
    /\ \A i \in DOMAIN us : \A c \in us[i].channels :
          /\ c[1] \in DOMAIN eol /\ us[i].eol[c[1]] = eol[c[1]]
          /\ BaseOf[us[i].source] = base
          /\ \E v \in Released(channels) :
                SourceOf(v) = us[i].source /\ \E tag \in TagsOf(v) : c = ChannelOf(tag)
    /\ \A v \in Released(channels) :
          /\ BaseOf[SourceOf(v)] = base
          /\ \A w \in Released(channels) : SourceOf(w) = SourceOf(v) => w = v
          => \A tag \in TagsOf(v) :
                \/ PastEndOfLife(eol, now, ChannelOf(tag))
                \/ \E i \in DOMAIN us : us[i].source = SourceOf(v)
                                        /\ ChannelOf(tag) \in us[i].channels

RebuildInv ==
    /\ BoardTypeOK /\ EveryChannelResolves
    /\ BuiltOK /\ ScanOK
    /\ UploadsOK(rebuild.uploads)
    /\ rebuild # NoRebuild => rebuild.uploads # <<>>
    /\ scan # NoScan /\ ~ overtaken =>
          scan.released = Released(channels) /\ scan.eol = eol
    /\ rebuild # NoRebuild /\ ~ overtaken => Found(rebuild.base, rebuild.uploads)

\* Revisions have their numbers in the order.
LEMMA NumberIs ==
    /\ Len(Order) \in Nat /\ DOMAIN Order = 1..Len(Order)
    /\ \A i \in 1..Len(Order) : Order[i] \in Listed /\ NumberOf(Order[i]) = i
    /\ \A i, j \in 1..Len(Order) : Order[i] = Order[j] => i = j
<1>1. /\ Len(Order) \in Nat /\ DOMAIN Order = 1..Len(Order)
      /\ \A i \in 1..Len(Order) : Order[i] \in Listed
  BY RebuildAssumption
<1>2. \A i, j \in 1..Len(Order) : Order[i] = Order[j] => i = j
  BY <1>1, RebuildAssumption
<1>3. ASSUME NEW i \in 1..Len(Order) PROVE NumberOf(Order[i]) = i
  BY <1>1, <1>2 DEF NumberOf
<1>4. QED
  BY <1>1, <1>2, <1>3

\* The revision file of the i-th upload.
FileOf(us, i) ==
    [rev |-> Order[Len(built) + i], channels |-> LiveChannels(us[i], now),
     eol |-> [t \in {c[1] : c \in LiveChannels(us[i], now)} |-> us[i].eol[t]]]

\* A revision file is that of an upload some channels of which have not ended.
LEMMA NewFilesAre ==
    ASSUME UploadsOK(rebuild.uploads), built \in Seq(Sources), Room
    PROVE  /\ NewFiles = {FileOf(rebuild.uploads, i) :
                  i \in {j \in DOMAIN rebuild.uploads :
                             LiveChannels(rebuild.uploads[j], now) # {}}}
           /\ \A i \in DOMAIN rebuild.uploads : Len(built) + i \in 1..Len(Order)
           /\ DOMAIN rebuild.uploads = 1..Len(rebuild.uploads)
<1> DEFINE us == rebuild.uploads
           numbers == SubSeq(Order, Len(built) + 1, Len(Order))
<1>1. /\ Len(built) \in Nat /\ Len(us) \in Nat /\ DOMAIN us = 1..Len(us)
      /\ Len(built) + Len(us) <= Len(Order)
      /\ \A i \in DOMAIN us : us[i].channels # {}
  BY DEF UploadsOK, UploadOK, Room
<1>2. \A i \in DOMAIN us : Len(built) + i \in 1..Len(Order)
  BY <1>1, NumberIs
<1>3. \A i \in DOMAIN us : numbers[i] = Order[Len(built) + i]
  BY <1>1, <1>2, NumberIs, RebuildAssumption
<1> HIDE DEF us, numbers
<1>4. NewFiles = RevisionFiles(us, numbers, now)
  BY DEF NewFiles, us, numbers
<1>5. RevisionFiles(us, numbers, now)
          = {FileOf(us, i) : i \in {j \in DOMAIN us : LiveChannels(us[j], now) # {}}}
  BY <1>1, <1>3 DEF RevisionFiles, FileOf
<1>6. QED
  BY <1>1, <1>2, <1>4, <1>5 DEF us

\* They are as many as can be sorted.
LEMMA NewFilesAreSorted ==
    ASSUME UploadsOK(rebuild.uploads), built \in Seq(Sources), Room
    PROVE  /\ IsFiniteSet(NewFiles)
           /\ \A f \in NewFiles : NumberOf(f.rev) \in Nat
           /\ \A f, g \in NewFiles : NumberOf(f.rev) = NumberOf(g.rev) => f = g
<1> DEFINE us == rebuild.uploads
           live == {j \in DOMAIN us : LiveChannels(us[j], now) # {}}
<1>1. /\ NewFiles = {FileOf(us, i) : i \in live}
      /\ \A i \in live : Len(built) + i \in 1..Len(Order)
      /\ live \subseteq 1..Len(us)
  BY NewFilesAre
<1>2. Len(us) \in Nat /\ Len(built) \in Nat
  BY DEF UploadsOK
<1>3. \A i \in live : FileOf(us, i).rev = Order[Len(built) + i]
  BY DEF FileOf
<1> HIDE DEF us, live
<1>4. \A i \in live : NumberOf(FileOf(us, i).rev) = Len(built) + i
  BY <1>1, <1>3, NumberIs
<1>5. IsFiniteSet(live)
  <2>1. IsFiniteSet(1..Len(us))
    BY <1>2, FS_Interval
  <2>2. QED
    BY <1>1, <2>1, FS_Subset
<1>6. [i \in live |-> FileOf(us, i)] \in Surjection(live, NewFiles)
  BY <1>1 DEF Surjection
<1>7. IsFiniteSet(NewFiles)
  BY <1>5, <1>6, FS_Surjection
<1>8. ASSUME NEW f \in NewFiles PROVE NumberOf(f.rev) \in Nat
  BY <1>1, <1>4, <1>8
<1>9. ASSUME NEW f \in NewFiles, NEW g \in NewFiles, NumberOf(f.rev) = NumberOf(g.rev)
      PROVE  f = g
  <2>1. PICK i \in live : f = FileOf(us, i)
    BY <1>1
  <2>2. PICK j \in live : g = FileOf(us, j)
    BY <1>1
  <2>3. Len(built) + i = Len(built) + j /\ i \in Nat /\ j \in Nat
    BY <1>1, <1>4, <1>9, <2>1, <2>2
  <2>4. i = j
    BY <1>2, <2>3
  <2>5. QED
    BY <2>1, <2>2, <2>4
<1>10. QED
  BY <1>7, <1>8, <1>9

\* Dates that come from the uploads.
DatedBy(us, e) ==
    /\ e = [t \in DOMAIN e |-> e[t]]
    /\ \A t \in DOMAIN e : \E i \in DOMAIN us :
          t \in DOMAIN us[i].eol /\ e[t] = us[i].eol[t]

\* What release.py takes for the dates of such a trigger comes from them too.
LEMMA DatesAre ==
    ASSUME NEW t, UploadsOK(t.uploads), DatedBy(t.uploads, t.eol)
    PROVE  DatedBy(t.uploads, DatesOf(t))
<1> DEFINE us == t.uploads
           dated(x) == {i \in DOMAIN us : x \in DOMAIN us[i].eol}
           last(x) == CHOOSE i \in dated(x) : \A j \in dated(x) : j <= i
           e == DatesOf(t)
<1>1. /\ DOMAIN e = DOMAIN t.eol \cup UNION {DOMAIN us[i].eol : i \in DOMAIN us}
      /\ e = [x \in DOMAIN e |-> e[x]]
      /\ \A x \in DOMAIN e :
            e[x] = IF dated(x) = {} THEN t.eol[x] ELSE us[last(x)].eol[x]
  BY DEF DatesOf
<1>2. ASSUME NEW x, dated(x) # {} PROVE last(x) \in dated(x)
  <2>1. Len(us) \in Nat /\ DOMAIN us = 1..Len(us)
    BY DEF UploadsOK
  <2>2. dated(x) \subseteq 1..Len(us)
    BY <2>1
  <2>3. IsFiniteSet(1..Len(us))
    BY <2>1, FS_Interval
  <2> DEFINE f == [i \in dated(x) |-> i]
  <2>4. \A i \in dated(x) : f[i] = i /\ f[i] \in Nat
    BY <2>2
  <2> HIDE DEF dated, f, us
  <2>5. IsFiniteSet(dated(x))
    BY <2>2, <2>3, FS_Subset
  <2>6. \E i \in dated(x) : \A j \in dated(x) : f[j] <= f[i]
    BY <1>2, <2>4, <2>5, LastPlace
  <2>7. \E i \in dated(x) : \A j \in dated(x) : j <= i
    BY <2>4, <2>6
  <2>8. QED
    BY <2>7
<1> HIDE DEF last, e
<1>3. ASSUME NEW x \in DOMAIN e
      PROVE  \E i \in DOMAIN us : x \in DOMAIN us[i].eol /\ e[x] = us[i].eol[x]
  <2>1. CASE dated(x) = {}
    <3>1. e[x] = t.eol[x] /\ x \in DOMAIN t.eol
      BY <1>1, <2>1
    <3>2. QED
      BY <3>1 DEF DatedBy
  <2>2. CASE dated(x) # {}
    BY <1>1, <1>2, <2>2
  <2>3. QED
    BY <2>1, <2>2
<1>4. QED
  BY <1>1, <1>3 DEF DatedBy, e

\* A trigger that is made of some pins, and a file that can be merged into it.
MadeOf(us, t, L) ==
    /\ DOMAIN t = {"release", "eol", "uploads"}
    /\ t.uploads = us /\ DatedBy(us, t.eol)
    /\ IsMapping(L) /\ t.release = Backfill(L)
GoodFile(us, f) ==
    f.channels \subseteq Channels /\ f.rev \in Listed /\ DatedBy(us, f.eol)

\* One file more: its pins are laid over those of the others, and the gaps
\* are filled as if for the first time.
LEMMA MergeOne ==
    ASSUME NEW us, NEW t, NEW L, MadeOf(us, t, L), NEW f, GoodFile(us, f)
    PROVE  MadeOf(us, MergeRevision(t, f), Overlay(L, Pins(f)))
<1> DEFINE u == MergeRevision(t, f)
<1> USE DEF MadeOf, GoodFile
<1>1. /\ u.release = Backfill(Overlay(t.release, Pins(f)))
      /\ u.eol = Overlay(t.eol, f.eol) /\ u.uploads = t.uploads
      /\ DOMAIN u = {"release", "eol", "uploads"}
  BY DEF MergeRevision
<1>2. IsMapping(Pins(f)) /\ DOMAIN Pins(f) = f.channels
  BY TagAssumption DEF IsMapping, Pins, Targets
<1>3. Backfill(Overlay(t.release, Pins(f))) = Backfill(Overlay(L, Pins(f)))
  BY <1>2, BackfillOnce DEF IsMapping
<1>4. IsMapping(Overlay(L, Pins(f)))
  BY <1>2, OverlayMapping
<1>5. DatedBy(us, Overlay(t.eol, f.eol))
  BY DEF DatedBy, Overlay
<1> HIDE DEF u
<1>6. MadeOf(us, u, Overlay(L, Pins(f)))
  BY <1>1, <1>3, <1>4, <1>5
<1>7. QED
  BY <1>6 DEF u

\* What the files make of a rebuild's trigger: pins, each of which is that of
\* a file with the channel, and the gaps above them filled.
LEMMA MergedIs ==
    ASSUME UploadsOK(rebuild.uploads), built \in Seq(Sources), Room
    PROVE  /\ \E L : /\ IsMapping(L) /\ DOMAIN L = Pinned(NewFiles)
                     /\ \A c \in DOMAIN L : \E f \in NewFiles :
                           c \in f.channels /\ L[c] = f.rev
                     /\ Merged.release = Backfill(L)
           /\ Merged.uploads = rebuild.uploads
           /\ DatedBy(rebuild.uploads, Merged.eol)
<1> DEFINE us == rebuild.uploads
           n == Cardinality(NewFiles)
           sorted == Sorted(NewFiles, [f \in NewFiles |-> NumberOf(f.rev)])
           base == [release |-> EmptyMapping, eol |-> EmptyMapping, uploads |-> us]
<1>1. /\ n \in Nat /\ Len(sorted) = n
      /\ \A i \in 1..n : sorted[i] \in NewFiles
      /\ \A x \in NewFiles : \E i \in 1..n : sorted[i] = x
  <2> DEFINE place == [f \in NewFiles |-> NumberOf(f.rev)]
  <2>1. /\ \A f \in NewFiles : place[f] \in Nat
        /\ \A f, g \in NewFiles : place[f] = place[g] => f = g
    BY NewFilesAreSorted
  <2> HIDE DEF place
  <2>2. /\ n \in Nat /\ Len(Sorted(NewFiles, place)) = n
        /\ \A i \in 1..n : Sorted(NewFiles, place)[i] \in NewFiles
        /\ \A x \in NewFiles : \E i \in 1..n : Sorted(NewFiles, place)[i] = x
    BY <2>1, NewFilesAreSorted, SortedLists
  <2> HIDE DEF n
  <2>3. QED
    BY <2>2 DEF place
<1> HIDE DEF sorted, n, base
<1> DEFINE after == InTurn(n, base, sorted)
<1>2. Merged = after[n]
  <2>1. Merged = InTurn(Len(sorted), base, sorted)[Len(sorted)]
    BY DEF Merged, InTurn, sorted, base
  <2>2. QED
    BY <1>1, <2>1
<1>3. /\ after[0] = base
      /\ \A k \in 1..n : after[k] = MergeRevision(after[k - 1], sorted[k])
  BY <1>1, MergesInTurn
<1> HIDE DEF after
<1> DEFINE Up(k) == {sorted[j] : j \in 1..k}
           Good(k) ==
              \E L : /\ MadeOf(us, after[k], L) /\ DOMAIN L = Pinned(Up(k))
                     /\ \A c \in DOMAIN L : \E f \in Up(k) :
                           c \in f.channels /\ L[c] = f.rev
<1>4. ASSUME NEW f \in NewFiles
      PROVE  GoodFile(us, f)
  <2>1. PICK i \in DOMAIN us : f = FileOf(us, i) /\ Len(built) + i \in 1..Len(Order)
    BY NewFilesAre
  <2>2. UploadOK(us[i])
    BY <2>1 DEF UploadsOK
  <2>3. \A t \in DOMAIN f.eol : t \in DOMAIN us[i].eol /\ f.eol[t] = us[i].eol[t]
    BY <2>1, <2>2 DEF FileOf, LiveChannels, UploadOK
  <2>4. f.eol = [t \in DOMAIN f.eol |-> f.eol[t]]
    BY <2>1 DEF FileOf
  <2>5. f.channels \subseteq Channels
    BY <2>1, <2>2 DEF FileOf, LiveChannels, UploadOK
  <2>6. f.rev \in Listed
    BY <2>1, NumberIs DEF FileOf
  <2> HIDE DEF us
  <2>7. QED
    BY <2>1, <2>3, <2>4, <2>5, <2>6 DEF DatedBy, GoodFile
<1>5. Good(0)
  <2>1. EmptyMapping = Backfill(EmptyMapping)
    BY DEF Backfill, Overlay, EmptyMapping
  <2>2. IsMapping(EmptyMapping) /\ DOMAIN EmptyMapping = {}
    BY DEF IsMapping, EmptyMapping
  <2>3. Up(0) = {} /\ Pinned({}) = {}
    BY DEF Pinned
  <2>4. DatedBy(us, EmptyMapping)
    BY DEF DatedBy, EmptyMapping
  <2>5. /\ DOMAIN base = {"release", "eol", "uploads"}
        /\ base.release = EmptyMapping /\ base.eol = EmptyMapping /\ base.uploads = us
    BY DEF base
  <2>6. MadeOf(us, after[0], EmptyMapping)
    BY <1>3, <2>1, <2>2, <2>4, <2>5 DEF MadeOf
  <2> HIDE DEF Up
  <2>7. QED
    BY <2>2, <2>3, <2>6
<1>6. ASSUME NEW k \in 1..n, Good(k - 1) PROVE Good(k)
  <2> DEFINE f == sorted[k]
  <2>1. PICK L : /\ MadeOf(us, after[k - 1], L) /\ DOMAIN L = Pinned(Up(k - 1))
                 /\ \A c \in DOMAIN L : \E g \in Up(k - 1) :
                       c \in g.channels /\ L[c] = g.rev
    BY <1>6
  <2>2. f \in NewFiles /\ after[k] = MergeRevision(after[k - 1], f)
    BY <1>1, <1>3
  <2>3. Up(k) = Up(k - 1) \cup {f}
    <3>1. 1..k = 1..(k - 1) \cup {k}
      BY <1>1
    <3>2. QED
      BY <3>1
  <2> DEFINE K == Overlay(L, Pins(f))
  <2> HIDE DEF f, Up, us
  <2>4. MadeOf(us, after[k], K)
    <3>1. MadeOf(us, MergeRevision(after[k - 1], f), Overlay(L, Pins(f)))
      BY <1>4, <2>1, <2>2, MergeOne
    <3>2. QED
      BY <2>2, <3>1
  <2>5. /\ DOMAIN K = Pinned(Up(k))
        /\ \A c \in DOMAIN K : \E g \in Up(k) : c \in g.channels /\ K[c] = g.rev
    <3>1. DOMAIN K = DOMAIN L \cup f.channels
      BY DEF Overlay, Pins
    <3>2. \A c \in DOMAIN K : K[c] = IF c \in f.channels THEN f.rev ELSE L[c]
      BY DEF Overlay, Pins
    <3>3. Pinned(Up(k)) = Pinned(Up(k - 1)) \cup f.channels
      BY <2>3 DEF Pinned
    <3> HIDE DEF K
    <3>4. DOMAIN K = Pinned(Up(k))
      BY <2>1, <3>1, <3>3
    <3>5. ASSUME NEW c \in DOMAIN K
          PROVE  \E g \in Up(k) : c \in g.channels /\ K[c] = g.rev
      <4>1. CASE c \in f.channels
        BY <2>3, <3>2, <4>1
      <4>2. CASE c \notin f.channels
        <5>1. c \in DOMAIN L /\ K[c] = L[c]
          BY <3>1, <3>2, <4>2
        <5>2. PICK g \in Up(k - 1) : c \in g.channels /\ L[c] = g.rev
          BY <2>1, <5>1
        <5>3. QED
          BY <2>3, <5>1, <5>2
      <4>3. QED
        BY <4>1, <4>2
    <3>6. QED
      BY <3>4, <3>5
  <2> HIDE DEF K
  <2>6. QED
    BY <2>4, <2>5
<1>7. Good(n)
  <2> HIDE DEF Good
  <2> DEFINE bad == {k \in 0..n : ~ Good(k)}
  <2> SUFFICES ASSUME bad # {} PROVE FALSE
    BY <1>1
  <2>1. bad \subseteq Nat
    BY <1>1
  <2>2. PICK k \in bad : \A j \in bad : k <= j
    <3> HIDE DEF bad
    <3>1. QED
      BY <2>1, LeastNumber
  <2>3. k # 0
    BY <1>5, <2>2
  <2>4. k \in 1..n /\ k - 1 \in 0..n /\ ~ (k <= k - 1)
    BY <1>1, <2>2, <2>3
  <2>5. Good(k - 1)
    BY <2>2, <2>4
  <2>6. QED
    BY <1>6, <2>2, <2>4, <2>5
<1>8. Up(n) = NewFiles
  BY <1>1
<1> HIDE DEF Up
<1>9. QED
  BY <1>2, <1>7, <1>8 DEF MadeOf


-----------------------------------------------------------------------------
(* What a scan finds.                                                      *)

\* A channel that a tag stands for, if its track is one of the image.
LEMMA ChannelOfTag ==
    ASSUME NEW tag \in OciTags, ChannelOf(tag)[1] \in Tracks
    PROVE  ChannelOf(tag) \in Channels
<1>1. CASE tag \in Channels
  <2>1. ChannelOf(tag) = tag
    BY <1>1 DEF Channels, ChannelOf
  <2>2. QED
    BY <1>1, <2>1
<1>2. CASE \E k \in KnownRisks : tag = <<k>>
  <2>1. PICK k \in KnownRisks : tag = <<k>>
    BY <1>2
  <2>2. ChannelOf(tag) = <<Latest, k>>
    BY <2>1 DEF ChannelOf
  <2>3. QED
    BY <2>2 DEF Channels
<1>3. CASE \E t \in Tracks : tag = <<t>>
  <2>1. PICK t \in Tracks : tag = <<t>>
    BY <1>3
  <2>2. ChannelOf(tag) = <<t, "stable">>
    BY <2>1, TagAssumption DEF ChannelOf
  <2>3. QED
    BY <2>2 DEF Channels, KnownRisks
<1>4. QED
  BY <1>1, <1>2, <1>3 DEF OciTags

\* A revision that exists has a number and was built from a source.
LEMMA ExistingHaveSources ==
    ASSUME BuiltOK, NEW v \in Existing
    PROVE  /\ NumberOf(v) \in 1..Len(built) /\ SourceOf(v) \in Sources
           /\ v = Order[NumberOf(v)] /\ v \in Listed /\ Len(built) \in Nat
<1>1. PICK i \in DOMAIN built : v = Order[i]
  BY DEF Existing
<1>2. i \in 1..Len(built) /\ i \in 1..Len(Order) /\ Len(built) \in Nat
  BY <1>1, NumberIs DEF BuiltOK
<1>3. NumberOf(v) = i /\ v \in Listed
  BY <1>1, <1>2, NumberIs
<1>4. built[i] \in Sources
  BY <1>1 DEF BuiltOK
<1>5. QED
  BY <1>1, <1>2, <1>3, <1>4 DEF SourceOf

\* The sources that are rebuilt, and their uploads.
Groups == {s \in Sources : GroupChannels(s) # {}}
UploadOf(s) ==
    [source |-> s, channels |-> GroupChannels(s),
     eol |-> [t \in {c[1] : c \in GroupChannels(s)} |-> scan.eol[t]]]

\* A group has its place from one of its revisions.
LEMMA GroupsHavePlaces ==
    ASSUME BuiltOK, ScanOK, NEW s \in Groups
    PROVE  \E v \in Matching : SourceOf(v) = s /\ FirstOf(s) = NumberOf(v)
<1> DEFINE places == {NumberOf(v) : v \in {w \in Matching :
                          SourceOf(w) = s /\ ReleaseToOf(w) # {}}}
<1>1. PICK v \in Matching : SourceOf(v) = s /\ ReleaseToOf(v) # {}
  BY DEF Groups, GroupChannels
<1>2. Matching \subseteq Existing
  BY DEF Matching, ScanOK
<1>3. places \subseteq Nat
  BY <1>2, ExistingHaveSources
<1>4. NumberOf(v) \in places
  BY <1>1
<1>5. \E n \in places : \A k \in places : n <= k
  <2> HIDE DEF places
  <2>1. QED
    BY <1>3, <1>4, LeastNumber
<1>6. FirstOf(s) = CHOOSE n \in places : \A k \in places : n <= k
  BY DEF FirstOf
<1>7. FirstOf(s) \in places
  <2> HIDE DEF places
  <2>1. QED
    BY <1>5, <1>6
<1>8. QED
  BY <1>7

\* The trigger holds each group once.
LEMMA TriggerIs ==
    ASSUME BuiltOK, ScanOK
    PROVE  /\ Len(UberTrigger) \in Nat
           /\ UberTrigger = [i \in 1..Len(UberTrigger) |-> UberTrigger[i]]
           /\ \A i \in DOMAIN UberTrigger : \E s \in Groups : UberTrigger[i] = UploadOf(s)
           /\ \A s \in Groups : \E i \in DOMAIN UberTrigger : UberTrigger[i] = UploadOf(s)
           /\ \A i, j \in DOMAIN UberTrigger :
                 UberTrigger[i].source = UberTrigger[j].source => i = j
<1> DEFINE place == [s \in Groups |-> FirstOf(s)]
           sorted == Sorted(Groups, place)
           n == Cardinality(Groups)
<1>1. ASSUME NEW s \in Groups
      PROVE  place[s] \in 1..Len(built) /\ place[s] \in Nat /\ Len(built) \in Nat
  <2>1. PICK v \in Matching : FirstOf(s) = NumberOf(v)
    BY GroupsHavePlaces
  <2>2. v \in Existing
    BY DEF Matching, ScanOK
  <2>3. QED
    BY <2>1, <2>2, ExistingHaveSources
<1>2. ASSUME NEW s \in Groups, NEW r \in Groups, place[s] = place[r] PROVE s = r
  <2>1. PICK v \in Matching : SourceOf(v) = s /\ FirstOf(s) = NumberOf(v)
    BY GroupsHavePlaces
  <2>2. PICK w \in Matching : SourceOf(w) = r /\ FirstOf(r) = NumberOf(w)
    BY GroupsHavePlaces
  <2>3. NumberOf(v) = NumberOf(w)
    BY <1>2, <2>1, <2>2
  <2>4. QED
    BY <2>1, <2>2, <2>3 DEF SourceOf
<1>3. IsFiniteSet(Groups)
  <2>1. Len(built) \in Nat
    BY DEF BuiltOK
  <2>2. IsFiniteSet(1..Len(built))
    BY <2>1, FS_Interval
  <2>3. place \in Injection(Groups, 1..Len(built))
    BY <1>1, <1>2 DEF Injection, IsInjective
  <2>4. QED
    BY <2>2, <2>3, FS_Injection
<1> HIDE DEF place
<1>4. /\ n \in Nat /\ Len(sorted) = n /\ sorted = [i \in 1..n |-> sorted[i]]
      /\ \A i \in 1..n : sorted[i] \in Groups
      /\ \A s \in Groups : \E i \in 1..n : sorted[i] = s
      /\ \A i, j \in 1..n : sorted[i] = sorted[j] => i = j
  BY <1>1, <1>2, <1>3, SortedLists
<1>5. UberTrigger = [i \in DOMAIN sorted |-> UploadOf(sorted[i])]
  BY DEF UberTrigger, Groups, UploadOf, place
<1> HIDE DEF sorted, n
<1>6. DOMAIN sorted = 1..n
  BY <1>4
<1>7. /\ DOMAIN UberTrigger = 1..n /\ Len(UberTrigger) = n
      /\ \A i \in 1..n : UberTrigger[i] = UploadOf(sorted[i])
      /\ UberTrigger = [i \in 1..n |-> UberTrigger[i]]
  BY <1>4, <1>5, <1>6
<1> HIDE DEF UberTrigger
<1>8. \A s : UploadOf(s).source = s
  BY DEF UploadOf
<1>9. \A i \in 1..n : UberTrigger[i].source = sorted[i]
  BY <1>7, <1>8
<1>10. QED
  BY <1>4, <1>7, <1>9

\* Its uploads go to channels of tracks that have dates, those of the scan.
LEMMA TriggerOK ==
    ASSUME BoardTypeOK, BuiltOK, ScanOK
    PROVE  UploadsOK(UberTrigger)
<1>1. ASSUME NEW s \in Groups PROVE UploadOK(UploadOf(s))
  <2>1. \A c \in GroupChannels(s) : c \in Channels /\ c[1] \in DOMAIN scan.eol
    <3> SUFFICES ASSUME NEW c \in GroupChannels(s)
                 PROVE  c \in Channels /\ c[1] \in DOMAIN scan.eol
      OBVIOUS
    <3>1. PICK v \in Matching : c \in ReleaseToOf(v)
      BY DEF GroupChannels
    <3>2. PICK tag \in TagsOf(v) : c = ChannelOf(tag) /\ c[1] \in DOMAIN scan.eol
      BY <3>1 DEF ReleaseToOf
    <3>3. tag \in OciTags
      BY <3>2 DEF TagsOf, BoardTypeOK
    <3>4. c[1] \in Tracks
      BY <3>2 DEF ScanOK
    <3>5. QED
      BY <3>2, <3>3, <3>4, ChannelOfTag
  <2> DEFINE dates == [t \in {c[1] : c \in GroupChannels(s)} |-> scan.eol[t]]
  <2>2. \A t \in DOMAIN dates : dates[t] \in Dates
    BY <2>1 DEF ScanOK
  <2>3. dates \in [DOMAIN dates -> Dates]
    BY <2>2
  <2>4. GroupChannels(s) # {} /\ s \in Sources
    BY DEF Groups
  <2>5. /\ UploadOf(s).source = s /\ UploadOf(s).channels = GroupChannels(s)
        /\ UploadOf(s).eol = dates
    BY DEF UploadOf
  <2>6. DOMAIN dates = {c[1] : c \in GroupChannels(s)}
    OBVIOUS
  <2> HIDE DEF dates
  <2>7. QED
    BY <2>1, <2>3, <2>4, <2>5, <2>6 DEF UploadOK
<1>2. QED
  BY <1>1, TriggerIs DEF UploadsOK

\* When nobody has released anything since the scan began, it finds what the
\* record and the registry hold.
LEMMA TriggerFinds ==
    ASSUME BoardTypeOK, BuiltOK, ScanOK, ~ ScanRaises,
           scan.released = Released(channels), scan.eol = eol
    PROVE  Found(scan.base, UberTrigger)
<1>1. ASSUME NEW i \in DOMAIN UberTrigger, NEW c \in UberTrigger[i].channels
      PROVE  /\ c[1] \in DOMAIN eol /\ UberTrigger[i].eol[c[1]] = eol[c[1]]
             /\ BaseOf[UberTrigger[i].source] = scan.base
             /\ \E v \in Released(channels) : SourceOf(v) = UberTrigger[i].source
                    /\ \E tag \in TagsOf(v) : c = ChannelOf(tag)
  <2>1. PICK s \in Groups : UberTrigger[i] = UploadOf(s)
    BY TriggerIs
  <2>2. /\ UberTrigger[i].source = s /\ c \in GroupChannels(s)
        /\ UberTrigger[i].eol = [t \in {d[1] : d \in GroupChannels(s)} |-> scan.eol[t]]
    BY <1>1, <2>1 DEF UploadOf
  <2>3. PICK v \in Matching : SourceOf(v) = s /\ c \in ReleaseToOf(v)
    BY <2>2 DEF GroupChannels
  <2>4. \E tag \in TagsOf(v) : c = ChannelOf(tag)
    BY <2>3 DEF ReleaseToOf
  <2>5. /\ c[1] \in DOMAIN scan.eol /\ v \in Released(channels)
        /\ BaseOf[SourceOf(v)] = scan.base
    BY <2>3 DEF ReleaseToOf, Matching
  <2>6. UberTrigger[i].eol[c[1]] = scan.eol[c[1]]
    BY <2>2
  <2>7. QED
    BY <2>2, <2>3, <2>4, <2>5, <2>6
<1>2. ASSUME NEW v \in Released(channels), BaseOf[SourceOf(v)] = scan.base,
             \A w \in Released(channels) : SourceOf(w) = SourceOf(v) => w = v,
             NEW tag \in TagsOf(v), ~ PastEndOfLife(eol, now, ChannelOf(tag))
      PROVE  \E i \in DOMAIN UberTrigger :
                UberTrigger[i].source = SourceOf(v)
                /\ ChannelOf(tag) \in UberTrigger[i].channels
  <2> DEFINE s == SourceOf(v)
             c == ChannelOf(tag)
  <2>1. v \in Matching
    BY <1>2 DEF Matching
  <2>2. c \in ReleaseToOf(v)
    BY <1>2, <2>1 DEF ScanRaises, ReleaseToOf
  <2>3. \A w \in Matching : SourceOf(w) = s => w = v
    BY <1>2 DEF Matching
  <2>4. v \in Existing
    BY <2>1 DEF Matching, ScanOK
  <2>5. NumberOf(v) \in Nat /\ s \in Sources
    BY <2>4, ExistingHaveSources
  <2> HIDE DEF s, c
  <2>6. c \in GroupChannels(s)
    BY <2>1, <2>2, <2>3, <2>5 DEF GroupChannels, s
  <2>7. PICK i \in DOMAIN UberTrigger : UberTrigger[i] = UploadOf(s)
    BY <2>5, <2>6, TriggerIs DEF Groups
  <2>8. UberTrigger[i].source = s /\ c \in UberTrigger[i].channels
    BY <2>6, <2>7 DEF UploadOf
  <2>9. QED
    BY <2>8 DEF s, c
<1>3. QED
  BY <1>1, <1>2 DEF Found


-----------------------------------------------------------------------------
(* Rebuilds keep what is known of them.                                    *)

\* The builds of a rebuild become the last revisions.
LEMMA RebuiltAre ==
    ASSUME BuiltOK, UploadsOK(rebuild.uploads), Room,
           built' = built \o [i \in DOMAIN rebuild.uploads |-> rebuild.uploads[i].source]
    PROVE  LET n == Len(built)
               us == rebuild.uploads
           IN  /\ n \in Nat /\ Len(us) \in Nat /\ DOMAIN us = 1..Len(us)
               /\ built' \in Seq(Sources) /\ Len(built') = n + Len(us)
               /\ n + Len(us) <= Len(Order)
               /\ \A i \in 1..n : built'[i] = built[i]
               /\ \A i \in 1..Len(us) : built'[n + i] = us[i].source
               /\ Existing' = Existing \cup {Order[n + i] : i \in 1..Len(us)}
<1> DEFINE n == Len(built)
           us == rebuild.uploads
           k == Len(us)
           new == [i \in 1..k |-> us[i].source]
<1>1. /\ n \in Nat /\ k \in Nat /\ DOMAIN us = 1..k /\ n + k <= Len(Order)
      /\ built \in Seq(Sources) /\ DOMAIN built = 1..n
      /\ \A i \in 1..k : us[i].source \in Sources
  BY DEF UploadsOK, UploadOK, BuiltOK, Room
<1>2. built' = built \o new
  BY <1>1
<1>3. new \in Seq(Sources) /\ Len(new) = k /\ \A i \in 1..k : new[i] = us[i].source
  BY <1>1
<1> HIDE DEF n, k, us, new
<1>4. ASSUME NEW a \in Seq(Sources), NEW b \in Seq(Sources)
      PROVE  /\ a \o b \in Seq(Sources) /\ Len(a \o b) = Len(a) + Len(b)
             /\ DOMAIN (a \o b) = 1..(Len(a) + Len(b))
             /\ \A i \in 1..Len(a) : (a \o b)[i] = a[i]
             /\ \A i \in 1..Len(b) : (a \o b)[Len(a) + i] = b[i]
  <2>1. a \o b \in Seq(Sources) /\ Len(a \o b) = Len(a) + Len(b)
    OBVIOUS
  <2>2. \A i \in 1..Len(a) : (a \o b)[i] = a[i]
    OBVIOUS
  <2>3. \A i \in 1..Len(b) : (a \o b)[Len(a) + i] = b[i]
    OBVIOUS
  <2>4. QED
    BY <2>1, <2>2, <2>3
<1>5. built' \in Seq(Sources) /\ Len(built') = n + k /\ DOMAIN built' = 1..(n + k)
  BY <1>1, <1>2, <1>3, <1>4 DEF n
<1>6. \A i \in 1..n : built'[i] = built[i]
  BY <1>1, <1>2, <1>3, <1>4 DEF n
<1>7. \A i \in 1..k : built'[n + i] = new[i]
  BY <1>1, <1>2, <1>3, <1>4 DEF n
<1>8. Existing' = Existing \cup {Order[n + i] : i \in 1..k}
  <2>1. 1..(n + k) = 1..n \cup {n + i : i \in 1..k}
    <3>1. \A j \in 1..(n + k) : j \in 1..n \/ (j - n \in 1..k /\ j = n + (j - n))
      BY <1>1
    <3>2. \A i \in 1..k : n + i \in 1..(n + k)
      BY <1>1
    <3>3. 1..n \subseteq 1..(n + k)
      BY <1>1
    <3>4. QED
      BY <3>1, <3>2, <3>3
  <2>2. Existing' = {Order[j] : j \in 1..(n + k)} /\ Existing = {Order[j] : j \in 1..n}
    BY <1>1, <1>5 DEF Existing
  <2>3. QED
    BY <2>1, <2>2
<1>9. QED
  BY <1>1, <1>3, <1>5, <1>6, <1>7, <1>8 DEF n, k, us

\* What a rebuild asks for: new revisions of its files for their channels,
\* and dates of the image's tracks.
LEMMA MergedTypes ==
    ASSUME UploadsOK(rebuild.uploads), built \in Seq(Sources), Room
    PROVE  /\ IsMapping(Merged.release)
           /\ \A c \in DOMAIN Merged.release :
                 \/ Merged.release[c] \in Channels
                 \/ \E i \in DOMAIN rebuild.uploads :
                       Merged.release[c] = Order[Len(built) + i]
           /\ DOMAIN DatesOf(Merged) \subseteq Tracks
           /\ DatesOf(Merged) \in [DOMAIN DatesOf(Merged) -> Dates]
<1> DEFINE us == rebuild.uploads
<1>1. PICK L : /\ IsMapping(L) /\ Merged.release = Backfill(L)
               /\ \A c \in DOMAIN L : \E f \in NewFiles : L[c] = f.rev
  BY MergedIs
<1>2. IsMapping(Merged.release)
  BY <1>1, BackfillMapping
<1>3. ASSUME NEW c \in DOMAIN Merged.release
      PROVE  \/ Merged.release[c] \in Channels
             \/ \E i \in DOMAIN us : Merged.release[c] = Order[Len(built) + i]
  <2>1. CASE c \in DOMAIN L
    <3>1. Merged.release[c] = L[c]
      BY <1>1, <2>1, BackfillAdds DEF IsMapping
    <3>2. PICK f \in NewFiles : L[c] = f.rev
      BY <1>1, <2>1
    <3>3. PICK i \in DOMAIN us : f = FileOf(us, i)
      BY <3>2, NewFilesAre
    <3>4. f.rev = Order[Len(built) + i]
      BY <3>3 DEF FileOf
    <3>5. QED
      BY <3>1, <3>2, <3>4
  <2>2. CASE c \notin DOMAIN L
    <3>1. Merged.release[c] = Lower(c) /\ Lower(c) \in DOMAIN Merged.release
      BY <1>1, <1>3, <2>2, BackfillAdds DEF IsMapping
    <3>2. QED
      BY <1>2, <3>1 DEF IsMapping
  <2>3. QED
    BY <2>1, <2>2
<1>4. DatedBy(us, DatesOf(Merged))
  <2>1. Merged.uploads = us /\ DatedBy(us, Merged.eol)
    BY MergedIs
  <2> HIDE DEF us
  <2>2. UploadsOK(us)
    BY DEF us
  <2> HIDE DEF Merged
  <2>3. QED
    BY <2>1, <2>2, DatesAre
<1>5. \A i \in DOMAIN us : DOMAIN us[i].eol \subseteq Tracks
                           /\ us[i].eol \in [DOMAIN us[i].eol -> Dates]
  BY DEF UploadsOK, UploadOK, Channels
<1> DEFINE dates == DatesOf(Merged)
<1> HIDE DEF us, dates
<1>6. \A t \in DOMAIN dates : t \in Tracks /\ dates[t] \in Dates
  BY <1>4, <1>5 DEF DatedBy, dates
<1>7. dates = [t \in DOMAIN dates |-> dates[t]]
  BY <1>4 DEF DatedBy, dates
<1>8. DOMAIN dates \subseteq Tracks /\ dates \in [DOMAIN dates -> Dates]
  BY <1>6, <1>7
<1>9. QED
  BY <1>2, <1>3, <1>8 DEF us, dates

\* A release keeps the channels on revisions that exist if it asks for such.
LEMMA ReleaseKeepsRecord ==
    ASSUME BoardTypeOK, EveryChannelResolves, NEW request, IsMapping(request),
           NEW dates, DOMAIN dates \subseteq Tracks,
           dates \in [DOMAIN dates -> Dates],
           Release(request, dates), Released(channels) \subseteq Existing',
           Existing \subseteq Existing',
           {request[c] : c \in DOMAIN request} \cap Revisions \subseteq Existing'
    PROVE  /\ BoardTypeOK' /\ EveryChannelResolves'
           /\ Released(channels') \subseteq Existing'
<1>1. BoardTypeOK'
  BY ReleaseKeepsBoard
<1>2. /\ channels' = Overlay(channels, request)
      /\ ValidRequest(Overlay(channels, request), request)
  BY DEF Release, Accepted
<1>3. IsMapping(channels)
  BY DEF BoardTypeOK
<1>4. \A c \in DOMAIN channels' : Resolves(channels', c)
  BY <1>2, <1>3, RequestKeepsResolving DEF EveryChannelResolves
<1>5. EveryChannelResolves'
  BY <1>4 DEF EveryChannelResolves
<1>6. Released(channels') \subseteq Existing'
  <2> SUFFICES ASSUME NEW c \in DOMAIN channels', channels'[c] \in Revisions
               PROVE  channels'[c] \in Existing'
    BY DEF Released
  <2> DEFINE E == Existing'
  <2>1. Released(channels) \subseteq E
        /\ {request[d] : d \in DOMAIN request} \cap Revisions \subseteq E
    OBVIOUS
  <2> HIDE DEF E
  <2>2. channels'[c] \in E
    <3>1. CASE c \in DOMAIN request
      BY <1>2, <2>1, <3>1 DEF Overlay
    <3>2. CASE c \notin DOMAIN request
      BY <1>2, <2>1, <3>2 DEF Overlay, Released
    <3>3. QED
      BY <3>1, <3>2
  <2>3. QED
    BY <2>2 DEF E
<1>7. QED
  BY <1>1, <1>5, <1>6

\* What was found stays found while nothing is released.
LEMMA StaysFound ==
    ASSUME NEW base, NEW us, Found(base, us), BoardTypeOK, BuiltOK,
           UNCHANGED <<channels, eol, registry>>, now' \in Nat, now <= now',
           \A v \in Existing : SourceOf(v)' = SourceOf(v)
    PROVE  Found(base, us)'
<1>1. /\ Released(channels)' = Released(channels)
      /\ Released(channels) \subseteq Existing
  BY DEF Released, BuiltOK
<1>2. \A v : TagsOf(v)' = TagsOf(v)
  BY DEF TagsOf
<1>3. ASSUME NEW c, PastEndOfLife(eol, now, c) PROVE PastEndOfLife(eol', now', c)
  <2>1. eol[c[1]] \in Nat /\ now \in Nat
    BY <1>3, BoardAssumption DEF BoardTypeOK, PastEndOfLife
  <2>2. QED
    BY <1>3, <2>1 DEF PastEndOfLife
<1>4. \A v \in Released(channels) : SourceOf(v)' = SourceOf(v)
  BY <1>1
<1> DEFINE R == Released(channels)
<1>5. ASSUME NEW i \in DOMAIN us, NEW c \in us[i].channels
      PROVE  /\ c[1] \in DOMAIN eol /\ us[i].eol[c[1]] = eol[c[1]]
             /\ \E v \in R : SourceOf(v)' = us[i].source
                             /\ \E tag \in TagsOf(v)' : c = ChannelOf(tag)
  <2>1. PICK v \in R : SourceOf(v) = us[i].source
                       /\ \E tag \in TagsOf(v) : c = ChannelOf(tag)
    BY <1>5 DEF Found
  <2>2. c[1] \in DOMAIN eol /\ us[i].eol[c[1]] = eol[c[1]]
    BY <1>5 DEF Found
  <2>3. SourceOf(v)' = SourceOf(v) /\ TagsOf(v)' = TagsOf(v)
    BY <1>2, <1>4
  <2>4. QED
    BY <2>1, <2>2, <2>3
<1>6. ASSUME NEW v \in R, BaseOf[SourceOf(v)'] = base,
             \A w \in R : SourceOf(w)' = SourceOf(v)' => w = v,
             NEW tag \in TagsOf(v)'
      PROVE  \/ PastEndOfLife(eol', now', ChannelOf(tag))
             \/ \E i \in DOMAIN us : us[i].source = SourceOf(v)'
                                     /\ ChannelOf(tag) \in us[i].channels
  <2>1. SourceOf(v)' = SourceOf(v) /\ \A w \in R : SourceOf(w)' = SourceOf(w)
    BY <1>4
  <2>2. tag \in TagsOf(v)
    BY <1>2, <1>6
  <2>3. BaseOf[SourceOf(v)] = base /\ \A w \in R : SourceOf(w) = SourceOf(v) => w = v
    BY <1>6, <2>1
  <2>4. \/ PastEndOfLife(eol, now, ChannelOf(tag))
        \/ \E i \in DOMAIN us : us[i].source = SourceOf(v)
                                /\ ChannelOf(tag) \in us[i].channels
    BY <2>2, <2>3 DEF Found
  <2>5. QED
    BY <1>3, <2>1, <2>4
<1>7. eol' = eol /\ Released(channels)' = R
  BY <1>1
<1>8. QED
  BY <1>5, <1>6, <1>7 DEF Found


LEMMA RebuildStep ==
    ASSUME RebuildInv, Rebuild
    PROVE  RebuildInv'
<1> DEFINE us == rebuild.uploads
<1>1. /\ BoardTypeOK /\ EveryChannelResolves /\ BuiltOK /\ ScanOK /\ UploadsOK(us)
      /\ rebuild # NoRebuild /\ Room /\ rebuild' = NoRebuild
      /\ built' = built \o [i \in DOMAIN us |-> us[i].source]
      /\ UNCHANGED <<scan, overtaken>>
  BY DEF RebuildInv, Rebuild
<1>2. /\ Len(built) \in Nat /\ DOMAIN us = 1..Len(us)
      /\ built' \in Seq(Sources) /\ Len(built') <= Len(Order)
      /\ Existing' = Existing \cup {Order[Len(built) + i] : i \in 1..Len(us)}
  BY <1>1, RebuiltAre
<1>3. scan = NoScan
  BY <1>1 DEF ScanOK
<1>4. /\ BoardTypeOK' /\ EveryChannelResolves'
      /\ Released(channels') \subseteq Existing'
  <2>1. CASE NewFiles # {} /\ Accepted(Merged.release, DatesOf(Merged))
    <3> DEFINE request == Merged.release
               dates == DatesOf(Merged)
    <3>1. Release(request, dates)
      BY <2>1 DEF Rebuild
    <3>2. /\ IsMapping(request)
          /\ \A c \in DOMAIN request :
                \/ request[c] \in Channels
                \/ \E i \in DOMAIN us : request[c] = Order[Len(built) + i]
          /\ DOMAIN dates \subseteq Tracks
          /\ dates \in [DOMAIN dates -> Dates]
      BY <1>1, MergedTypes DEF BuiltOK
    <3> HIDE DEF request, dates
    <3>3. {request[c] : c \in DOMAIN request} \cap Revisions \subseteq Existing'
      BY <1>2, <3>2, TagAssumption
    <3>4. Released(channels) \subseteq Existing' /\ Existing \subseteq Existing'
      BY <1>1, <1>2 DEF BuiltOK
    <3>5. QED
      BY <1>1, <3>1, <3>2, <3>3, <3>4, ReleaseKeepsRecord
  <2>2. CASE UNCHANGED boardVars
    BY <1>1, <1>2, <2>2 DEF boardVars, BoardTypeOK, EveryChannelResolves, BuiltOK
  <2>3. QED
    BY <2>1, <2>2 DEF Rebuild
<1>5. BuiltOK'
  BY <1>2, <1>4 DEF BuiltOK
<1>6. ScanOK' /\ scan' = NoScan
  BY <1>1, <1>3 DEF ScanOK, NoScan, EmptyMapping
<1>7. UploadsOK(rebuild.uploads)'
  BY <1>1 DEF UploadsOK, NoRebuild
<1>8. QED
  BY <1>1, <1>4, <1>5, <1>6, <1>7 DEF RebuildInv

LEMMA ReadTagsStep ==
    ASSUME RebuildInv, ReadTags
    PROVE  RebuildInv'
<1>1. /\ BoardTypeOK /\ EveryChannelResolves /\ BuiltOK /\ ScanOK
      /\ scan' = NoScan /\ UNCHANGED <<boardVars, built, overtaken>>
      /\ ~ overtaken => scan.released = Released(channels) /\ scan.eol = eol
  BY DEF RebuildInv, ReadTags
<1>2. BoardTypeOK' /\ EveryChannelResolves' /\ BuiltOK'
  BY <1>1 DEF boardVars, BoardTypeOK, EveryChannelResolves, BuiltOK, Existing
<1>3. ScanOK'
  BY <1>1 DEF ScanOK, NoScan, EmptyMapping
<1>4. CASE rebuild' = NoRebuild
  <2>1. UploadsOK(rebuild.uploads)'
    BY <1>4 DEF UploadsOK, NoRebuild
  <2>2. QED
    BY <1>1, <1>2, <1>3, <1>4, <2>1 DEF RebuildInv
<1>5. CASE /\ ~ ScanRaises /\ UberTrigger # <<>>
           /\ rebuild' = [base |-> scan.base, uploads |-> UberTrigger]
  <2> DEFINE us == UberTrigger
  <2>1. UploadsOK(us)
    BY <1>1, TriggerOK
  <2>2. ~ overtaken => Found(scan.base, us)
    BY <1>1, <1>5, TriggerFinds
  <2> HIDE DEF us
  <2>3. rebuild'.uploads = us /\ rebuild'.base = scan.base /\ us # <<>>
    BY <1>5 DEF us
  <2>4. UploadsOK(rebuild.uploads)'
    BY <2>1, <2>3 DEF UploadsOK
  <2>5. ~ overtaken' => Found(rebuild.base, rebuild.uploads)'
    <3> SUFFICES ASSUME ~ overtaken' PROVE Found(rebuild.base, rebuild.uploads)'
      OBVIOUS
    <3>1. Found(scan.base, us)
      BY <1>1, <2>2
    <3>2. UNCHANGED <<channels, eol, registry, now, built>>
      BY <1>1 DEF boardVars
    <3>3. Released(channels)' = Released(channels)
      BY <3>2 DEF Released
    <3>4. \A v : TagsOf(v)' = TagsOf(v) /\ SourceOf(v)' = SourceOf(v)
      BY <3>2 DEF TagsOf, SourceOf
    <3>5. QED
      BY <2>3, <3>1, <3>2, <3>3, <3>4 DEF Found
  <2>6. QED
    BY <1>1, <1>2, <1>3, <2>3, <2>4, <2>5 DEF RebuildInv
<1>6. QED
  BY <1>4, <1>5 DEF ReadTags

\* Nothing is released by others, and revisions keep their sources.
LEMMA RestStep ==
    ASSUME RebuildInv, UNCHANGED <<channels, eol, registry, scan, rebuild, overtaken>>,
           now' \in 0..LastDay, now <= now', built' \in Seq(Sources),
           Len(built') <= Len(Order), Len(built) <= Len(built'),
           \A i \in DOMAIN built : built'[i] = built[i]
    PROVE  RebuildInv'
<1>1. /\ BoardTypeOK /\ EveryChannelResolves /\ BuiltOK /\ ScanOK
  BY DEF RebuildInv
<1>2. BoardTypeOK' /\ EveryChannelResolves'
  BY <1>1 DEF BoardTypeOK, EveryChannelResolves
<1>3. Existing \subseteq Existing'
  <2>1. DOMAIN built \subseteq DOMAIN built'
    BY <1>1 DEF BuiltOK
  <2>2. QED
    BY <2>1 DEF Existing
<1>4. BuiltOK' /\ ScanOK'
  BY <1>1, <1>3 DEF BuiltOK, ScanOK, Released
<1>5. ASSUME NEW v \in Existing PROVE SourceOf(v)' = SourceOf(v)
  <2>1. NumberOf(v) \in DOMAIN built
    BY <1>1, ExistingHaveSources DEF BuiltOK
  <2>2. QED
    BY <2>1 DEF SourceOf
<1>6. ~ overtaken /\ rebuild # NoRebuild => Found(rebuild.base, rebuild.uploads)'
  <2> DEFINE base == rebuild.base
             us == rebuild.uploads
  <2> SUFFICES ASSUME ~ overtaken, rebuild # NoRebuild PROVE Found(base, us)'
    OBVIOUS
  <2>1. Found(base, us)
    BY DEF RebuildInv
  <2>2. now' \in Nat
    BY BoardAssumption
  <2>3. Found(rebuild.base, rebuild.uploads)'
    BY <1>1, <1>5, <2>1, <2>2, StaysFound
  <2>4. QED
    BY <2>3
<1>7. UploadsOK(rebuild.uploads)'
  BY DEF RebuildInv, UploadsOK
<1>8. QED
  BY <1>1, <1>2, <1>4, <1>6, <1>7 DEF RebuildInv, Released

LEMMA RebuildInvStep == RebuildInv /\ [RebuildNext]_imageVars => RebuildInv'
<1> SUFFICES ASSUME RebuildInv, [RebuildNext]_imageVars PROVE RebuildInv'
  OBVIOUS
<1> USE DEF RebuildInv
<1>1. ASSUME NEW base, ReadRecord(base) PROVE RebuildInv'
  <2>1. /\ scan' = [base |-> base, released |-> Released(channels), eol |-> eol]
        /\ rebuild = NoRebuild /\ overtaken' = FALSE /\ rebuild' = rebuild
        /\ UNCHANGED <<channels, eol, registry, now, built>>
        /\ BoardTypeOK /\ EveryChannelResolves /\ BuiltOK /\ UploadsOK(rebuild.uploads)
    BY <1>1 DEF ReadRecord, boardVars
  <2>2. BoardTypeOK' /\ EveryChannelResolves' /\ BuiltOK'
    BY <2>1 DEF BoardTypeOK, EveryChannelResolves, BuiltOK, Existing
  <2>3. ScanOK'
    BY <2>1 DEF ScanOK, BuiltOK, BoardTypeOK, Existing
  <2>4. UploadsOK(rebuild.uploads)'
    BY <2>1 DEF UploadsOK
  <2>5. scan'.released = Released(channels') /\ scan'.eol = eol'
    BY <2>1 DEF Released
  <2>6. QED
    BY <2>1, <2>2, <2>3, <2>4, <2>5
<1>2. CASE RebuildFails
  <2>1. /\ rebuild' = NoRebuild /\ UNCHANGED <<boardVars, built, scan, overtaken>>
        /\ BoardTypeOK /\ EveryChannelResolves /\ BuiltOK /\ ScanOK
    BY <1>2 DEF RebuildFails
  <2>2. BoardTypeOK' /\ EveryChannelResolves' /\ BuiltOK' /\ ScanOK'
    BY <2>1 DEF boardVars, BoardTypeOK, EveryChannelResolves, BuiltOK, ScanOK, Existing
  <2>3. UploadsOK(rebuild.uploads)'
    BY <2>1 DEF UploadsOK, NoRebuild
  <2>4. QED
    BY <2>1, <2>2, <2>3 DEF boardVars, Released
<1>3. ASSUME NEW s \in Sources, Upload(s) PROVE RebuildInv'
  <2>1. built \in Seq(Sources) /\ Len(built) < Len(Order) /\ built' = Append(built, s)
    BY <1>3 DEF Upload, BuiltOK
  <2>2. /\ built' \in Seq(Sources) /\ Len(built') = Len(built) + 1
        /\ Len(built) \in Nat /\ \A i \in DOMAIN built : built'[i] = built[i]
    BY <2>1
  <2>3. Len(built') <= Len(Order) /\ Len(built) <= Len(built')
    BY <2>1, <2>2, NumberIs
  <2>4. now' = now /\ UNCHANGED <<channels, eol, registry, scan, rebuild, overtaken>>
    BY <1>3 DEF Upload, boardVars
  <2>5. now \in 0..LastDay /\ now <= now
    BY BoardAssumption DEF BoardTypeOK
  <2>6. QED
    BY <2>2, <2>3, <2>4, <2>5, RestStep
<1>4. ASSUME NEW request \in Requests, NEW dates \in [TracksOf(request) -> Dates],
             UserRelease(request, dates)
      PROVE  RebuildInv'
  <2>1. /\ BoardTypeOK /\ EveryChannelResolves /\ BuiltOK /\ ScanOK
        /\ Release(request, dates) /\ overtaken' = TRUE
        /\ UNCHANGED <<built, scan, rebuild>>
        /\ {request[c] : c \in DOMAIN request} \cap Revisions \subseteq Existing
    BY <1>4 DEF UserRelease
  <2>2. IsMapping(request)
    BY BoardAssumption
  <2>3. DOMAIN dates \subseteq Tracks /\ dates \in [DOMAIN dates -> Dates]
    BY <2>2 DEF IsMapping, TracksOf, Channels
  <2>4. Existing' = Existing
    BY <2>1 DEF Existing
  <2>5. /\ BoardTypeOK' /\ EveryChannelResolves'
        /\ Released(channels') \subseteq Existing'
    BY <2>1, <2>2, <2>3, <2>4, ReleaseKeepsRecord DEF BuiltOK
  <2>6. BuiltOK' /\ ScanOK'
    BY <2>1, <2>4, <2>5 DEF BuiltOK, ScanOK
  <2>7. UploadsOK(rebuild.uploads)'
    BY <2>1 DEF UploadsOK
  <2>8. QED
    BY <2>1, <2>5, <2>6, <2>7
<1>5. CASE Tick /\ UNCHANGED rebuildVars
  <2>1. /\ now' = now + 1 /\ now < LastDay /\ built' = built
        /\ UNCHANGED <<channels, eol, registry, scan, rebuild, overtaken>>
        /\ BoardTypeOK /\ BuiltOK
    BY <1>5 DEF Tick, rebuildVars
  <2>2. now' \in 0..LastDay /\ now <= now'
    BY <2>1, BoardAssumption DEF BoardTypeOK
  <2>3. /\ built' \in Seq(Sources) /\ Len(built') <= Len(Order)
        /\ Len(built) <= Len(built')
    BY <2>1 DEF BuiltOK
  <2>4. QED
    BY <2>1, <2>2, <2>3, RestStep
<1>6. CASE UNCHANGED imageVars
  <2>1. /\ UNCHANGED <<channels, eol, registry, now, built, scan, rebuild, overtaken>>
        /\ BoardTypeOK /\ BuiltOK
    BY <1>6 DEF imageVars, boardVars, rebuildVars
  <2>2. now' \in 0..LastDay /\ now <= now'
    BY <2>1, BoardAssumption DEF BoardTypeOK
  <2>3. /\ built' \in Seq(Sources) /\ Len(built') <= Len(Order)
        /\ Len(built) <= Len(built')
    BY <2>1 DEF BuiltOK
  <2>4. QED
    BY <2>1, <2>2, <2>3, RestStep
<1>7. QED
  BY <1>1, <1>2, <1>3, <1>4, <1>5, <1>6, RebuildStep, ReadTagsStep DEF RebuildNext

\* What a scan has read, and what its trigger holds, is what record and
\* registry hold until somebody releases something.
THEOREM RebuildInvariant == RebuildSpec => []RebuildInv
<1>1. RebuildInit => RebuildInv
  <2> SUFFICES ASSUME RebuildInit PROVE RebuildInv
    OBVIOUS
  <2>1. /\ BoardInit /\ built = Built /\ scan = NoScan /\ rebuild = NoRebuild
    BY DEF RebuildInit
  <2>2. BoardTypeOK /\ EveryChannelResolves /\ Released(channels) = {}
    BY <2>1, BoardAssumption
       DEF BoardInit, BoardTypeOK, IsMapping, EveryChannelResolves, Released
  <2>3. BuiltOK
    BY <2>1, <2>2, RebuildAssumption DEF BuiltOK
  <2>4. ScanOK /\ UploadsOK(rebuild.uploads)
    BY <2>1 DEF ScanOK, NoScan, UploadsOK, NoRebuild, EmptyMapping
  <2>5. QED
    BY <2>1, <2>2, <2>3, <2>4 DEF RebuildInv
<1>2. QED
  BY <1>1, RebuildInvStep, PTL DEF RebuildSpec

\* The trigger of an automatic rebuild is one that image.yaml could hold,
\* whatever was uploaded and released while the scan was reading.
THEOREM RebuildTriggersValid == RebuildSpec => []RebuildTriggersAreValid
<1>1. RebuildInv => RebuildTriggersAreValid
  <2> SUFFICES ASSUME UploadsOK(rebuild.uploads) PROVE RebuildTriggersAreValid
    BY DEF RebuildInv
  <2> DEFINE us == rebuild.uploads
             t == [release |-> EmptyMapping, eol |-> EmptyMapping, uploads |-> us]
  <2>1. /\ DOMAIN t = {"release", "eol", "uploads"} /\ t.uploads = us
        /\ t.release = EmptyMapping /\ t.eol = EmptyMapping
    OBVIOUS
  <2>2. IsMapping(EmptyMapping) /\ TracksOf(EmptyMapping) = DOMAIN EmptyMapping
    BY DEF IsMapping, EmptyMapping, TracksOf
  <2> HIDE DEF us, t
  <2>3. UploadsOK(us)
    BY DEF us
  <2>4. us \in Seq({us[i] : i \in DOMAIN us})
    BY <2>3 DEF UploadsOK
  <2>5. \A i \in DOMAIN us :
           /\ us[i].channels \subseteq Channels
           /\ {c[1] : c \in us[i].channels} = DOMAIN us[i].eol
           /\ \A j \in DOMAIN us \ {i} : us[i].source # us[j].source
    BY <2>3 DEF UploadsOK, UploadOK
  <2>6. ImageSchema(t)
    BY <2>1, <2>2, <2>4, <2>5 DEF ImageSchema
  <2>7. QED
    BY <2>6 DEF RebuildTriggersAreValid, t, us
<1>2. QED
  BY <1>1, RebuildInvariant, PTL

-----------------------------------------------------------------------------
(* A rebuild that nobody has overtaken.                                    *)

\* Following ends at one place.
LEMMA EndsUnique ==
    ASSUME NEW m, NEW t, NEW x \in Ends(m, t), NEW y \in Ends(m, t)
    PROVE  x = y
<1> DEFINE F == Followed(m, t)
<1>1. {t} \cap DOMAIN m \subseteq F /\ FollowClosed(m, F) /\ F \subseteq DOMAIN m
  BY FollowedClosed DEF Followed
<1>2. CASE t \notin DOMAIN m
  BY <1>2, EndsAtRevision
<1>3. CASE t \in DOMAIN m
  <2>1. PICK d \in F : x = m[d] /\ x \notin DOMAIN m
    BY <1>3 DEF Ends
  <2>2. PICK e \in F : y = m[e] /\ y \notin DOMAIN m
    BY <1>3 DEF Ends
  <2> DEFINE S == {f \in F : d \in Followed(m, f)}
  <2>3. S \in SUBSET DOMAIN m /\ {t} \cap DOMAIN m \subseteq S
    BY <1>1, <1>3, <2>1
  <2>4. ASSUME NEW f \in S, m[f] \in DOMAIN m PROVE m[f] \in S
    <3> DEFINE G == Followed(m, m[f])
    <3>1. /\ m[f] \in G /\ FollowClosed(m, G) /\ G \subseteq DOMAIN m
          /\ m[f] \in F /\ f \in DOMAIN m
      BY <1>1, <2>4, FollowedClosed DEF FollowClosed, Followed
    <3>2. FollowClosed(m, G \cup {f}) /\ G \cup {f} \in SUBSET DOMAIN m
      BY <3>1 DEF FollowClosed
    <3>3. {f} \cap DOMAIN m \subseteq G \cup {f}
      OBVIOUS
    <3> HIDE DEF G
    <3>4. Followed(m, f) \subseteq G \cup {f}
      BY <3>2, <3>3, FollowedLeast
    <3>5. d # f /\ d \in Followed(m, f)
      BY <2>1, <2>4
    <3>6. d \in G
      BY <3>4, <3>5
    <3>7. QED
      BY <3>1, <3>6 DEF G
  <2>5. FollowClosed(m, S)
    BY <2>4 DEF FollowClosed
  <2> HIDE DEF S
  <2>6. e \in S
    BY <2>2, <2>3, <2>5, FollowedLeast
  <2>7. d \in Followed(m, e)
    BY <2>6 DEF S
  <2>8. FollowClosed(m, {e}) /\ {e} \in SUBSET DOMAIN m
    BY <1>1, <2>2 DEF FollowClosed
  <2>9. Followed(m, e) \subseteq {e}
    BY <2>8, FollowedLeast
  <2>10. QED
    BY <2>1, <2>2, <2>7, <2>9
<1>4. QED
  BY <1>2, <1>3

\* The revision of a channel is that of what it follows.
LEMMA RevisionIs ==
    ASSUME NEW m, NEW t, NEW v \in Listed, v \in Ends(m, t)
    PROVE  RevisionOf(m, t) = v
<1>1. RevisionOf(m, t) \in Ends(m, t)
  BY DEF RevisionOf
<1>2. QED
  BY <1>1, EndsUnique

\* A resolving channel has a revision that exists, and what it follows has
\* the same one.
LEMMA RevisionShared ==
    ASSUME NEW m, NEW c \in DOMAIN m, Resolves(m, c),
           NEW d \in Followed(m, c), Resolves(m, d)
    PROVE  /\ RevisionOf(m, c) \in Listed /\ RevisionOf(m, c) \in Ends(m, c)
           /\ RevisionOf(m, d) = RevisionOf(m, c)
<1>1. /\ RevisionOf(m, c) \in Listed /\ RevisionOf(m, c) \in Ends(m, c)
      /\ RevisionOf(m, d) \in Listed /\ RevisionOf(m, d) \in Ends(m, d)
  BY DEF Resolves, RevisionOf
<1>2. d \in DOMAIN m
  BY DEF Followed
<1>3. Ends(m, d) = Ends(m, m[d]) /\ Ends(m, m[d]) \subseteq Ends(m, c)
  BY <1>2, EndsOneOn, EndsOnTheWay
<1>4. QED
  BY <1>1, <1>3, EndsUnique

\* Pins of channels that are there, laid over a mapping with the gaps above
\* them filled, where nothing was in the gaps: the channels of the mapping
\* get their pins, or one that they followed got it, or have what they had.
LEMMA LaidOver ==
    ASSUME NEW old, IsMapping(old), \A c \in DOMAIN old : Resolves(old, c),
           NEW L, IsMapping(L), DOMAIN L \subseteq DOMAIN old,
           \A c \in DOMAIN L : L[c] \in Listed,
           NEW R, R = Backfill(L), DOMAIN R \cap DOMAIN old \subseteq DOMAIN L,
           NEW m, m = Overlay(old, R)
    PROVE  /\ ValidRequest(m, R)
           /\ \A c \in DOMAIN R : \A d \in Followed(m, c) : d \in DOMAIN R /\ d[1] = c[1]
           /\ \A c \in DOMAIN old :
                 \/ RevisionOf(m, c) = RevisionOf(old, c)
                 \/ \E d \in Followed(old, c) \cap DOMAIN L : RevisionOf(m, c) = L[d]
           /\ \A c \in DOMAIN L : RevisionOf(m, c) = L[c]
<1>1. /\ DOMAIN L \subseteq DOMAIN R /\ DOMAIN R \subseteq Channels
      /\ \A c \in DOMAIN L : R[c] = L[c]
      /\ \A c \in DOMAIN R \ DOMAIN L : R[c] = Lower(c) /\ Lower(c) \in DOMAIN R
      /\ \A c \in DOMAIN R \ DOMAIN L : \E d \in DOMAIN L : Below(d, c)
  BY BackfillAdds DEF IsMapping
<1>2. IsMapping(R)
  BY BackfillMapping
<1>3. /\ DOMAIN m = DOMAIN old \cup DOMAIN R /\ DOMAIN m \subseteq Channels
      /\ \A c \in DOMAIN R : m[c] = R[c]
      /\ \A c \in DOMAIN old \ DOMAIN R : m[c] = old[c]
  BY <1>2 DEF Overlay, IsMapping
<1>4. \A v \in Listed : v \notin Channels /\ v \notin DOMAIN m
  BY <1>3, TagAssumption
<1>5. \A c \in DOMAIN R \ DOMAIN L : Below(R[c], c) /\ R[c][1] = c[1]
  <2> SUFFICES ASSUME NEW c \in DOMAIN R \ DOMAIN L PROVE Below(R[c], c) /\ R[c][1] = c[1]
    OBVIOUS
  <2>1. PICK d \in DOMAIN L : Below(d, c)
    BY <1>1
  <2>2. c \in Channels /\ d \in Channels /\ R[c] = Lower(c)
    BY <1>1
  <2>3. QED
    BY <2>1, <2>2, LowerIsNext DEF Below
<1>6. \A c \in DOMAIN R : R[c] # c /\ Resolves(R, R[c])
  <2>1. FollowsDownward(R)
    BY <1>1, <1>4, <1>5 DEF FollowsDownward
  <2>2. \A c \in DOMAIN R : R[c] \in Listed \cup DOMAIN R
    BY <1>1
  <2>3. QED
    BY <1>2, <2>1, <2>2, DownwardResolves
<1>7. ASSUME NEW c \in DOMAIN R
      PROVE  \A d \in Followed(m, c) : d \in DOMAIN R /\ d[1] = c[1]
  <2> DEFINE S == {d \in DOMAIN R : d[1] = c[1]}
  <2>1. S \in SUBSET DOMAIN m /\ {c} \cap DOMAIN m \subseteq S
    BY <1>3
  <2>2. ASSUME NEW d \in S, m[d] \in DOMAIN m PROVE m[d] \in S
    BY <1>1, <1>3, <1>4, <1>5, <2>2
  <2>3. FollowClosed(m, S)
    BY <2>2 DEF FollowClosed
  <2> HIDE DEF S
  <2>4. Followed(m, c) \subseteq S
    BY <2>1, <2>3, FollowedLeast
  <2>5. QED
    BY <2>4 DEF S
<1>8. ASSUME NEW c \in DOMAIN R PROVE Resolves(m, R[c])
  <2>1. CASE R[c] \in DOMAIN R
    <3>1. Ends(m, R[c]) = Ends(R, R[c])
      <4>1. DOMAIN R \subseteq DOMAIN m /\ R[c] \in DOMAIN m
        BY <1>3, <2>1
      <4>2. \A d \in Followed(m, R[c]) : d \in DOMAIN R /\ m[d] = R[d]
        BY <1>3, <1>7, <2>1
      <4>3. QED
        BY <4>1, <4>2, SameWay
    <3>2. QED
      BY <1>6, <3>1 DEF Resolves
  <2>2. CASE R[c] \notin DOMAIN R
    <3>1. R[c] \in Listed
      BY <1>1, <2>2
    <3>2. QED
      BY <1>4, <3>1, EndsAtRevision DEF Resolves
  <2>3. QED
    BY <2>1, <2>2
<1>9. ValidRequest(m, R)
  BY <1>6, <1>8 DEF ValidRequest
<1>10. \A c \in DOMAIN L : RevisionOf(m, c) = L[c]
  <2> SUFFICES ASSUME NEW c \in DOMAIN L PROVE RevisionOf(m, c) = L[c]
    OBVIOUS
  <2>1. m[c] = L[c] /\ c \in DOMAIN m /\ L[c] \in Listed /\ L[c] \notin DOMAIN m
    BY <1>1, <1>3, <1>4
  <2>2. L[c] \in Ends(m, c)
    BY <2>1, EndsOneOn, EndsAtRevision
  <2>3. QED
    BY <2>1, <2>2, RevisionIs
<1>11. ASSUME NEW c \in DOMAIN old
       PROVE  \/ RevisionOf(m, c) = RevisionOf(old, c)
              \/ \E d \in Followed(old, c) \cap DOMAIN L : RevisionOf(m, c) = L[d]
  <2> DEFINE S == Followed(old, c)
             x == RevisionOf(m, c)
  <2>1. S \subseteq DOMAIN old /\ c \in S /\ FollowClosed(old, S)
    BY FollowedClosed DEF Followed
  <2>2. ASSUME NEW d \in S
        PROVE  \/ d \in DOMAIN L /\ m[d] = L[d] /\ m[d] \notin DOMAIN m
               \/ /\ m[d] = old[d]
                  /\ old[d] \in DOMAIN old \/ (old[d] \in Listed /\ old[d] \notin DOMAIN m)
    <3>1. CASE d \in DOMAIN L
      BY <1>1, <1>3, <1>4, <3>1
    <3>2. CASE d \notin DOMAIN L
      <4>1. m[d] = old[d] /\ d \in DOMAIN old
        BY <1>3, <2>1, <3>2
      <4>2. old[d] \in Listed \cup DOMAIN old
        BY <4>1, ResolvesNext
      <4>3. QED
        BY <1>4, <4>1, <4>2
    <3>3. QED
      BY <3>1, <3>2
  <2>3. FollowClosed(m, S) /\ S \in SUBSET DOMAIN m /\ {c} \cap DOMAIN m \subseteq S
    <3>1. ASSUME NEW d \in S, m[d] \in DOMAIN m PROVE m[d] \in S
      BY <1>4, <2>1, <2>2, <3>1 DEF FollowClosed
    <3>2. QED
      BY <1>3, <2>1, <3>1 DEF FollowClosed
  <2>4. Followed(m, c) \subseteq S
    <3> HIDE DEF S
    <3>1. QED
      BY <2>3, FollowedLeast
  <2>5. \A d \in DOMAIN m : Resolves(m, d)
    BY <1>2, <1>9, RequestKeepsResolving
  <2>6. x \in Listed /\ x \in Ends(m, c) /\ c \in DOMAIN m
    BY <1>3, <2>5 DEF Resolves, RevisionOf
  <2>7. PICK d \in Followed(m, c) : x = m[d] /\ x \notin DOMAIN m
    BY <2>6 DEF Ends
  <2>8. d \in S
    BY <2>4, <2>7
  <2>9. CASE d \in DOMAIN L /\ m[d] = L[d]
    BY <2>7, <2>8, <2>9
  <2>10. CASE m[d] = old[d]
    <3>1. x = old[d] /\ x \notin DOMAIN old
      BY <1>3, <2>7, <2>10
    <3>2. x \in Ends(old, c)
      BY <2>8, <3>1 DEF Ends
    <3>3. RevisionOf(old, c) = x
      BY <2>6, <3>2, RevisionIs
    <3>4. QED
      BY <3>3
  <2>11. QED
    BY <2>2, <2>8, <2>9, <2>10
<1>12. QED
  BY <1>7, <1>9, <1>10, <1>11

\* A tag of a channel and the alias of a stable one stand for it.
LEMMA TagsStandFor ==
    ASSUME NEW c \in Channels
    PROVE  /\ ChannelOf(TagOf(c)) = c
           /\ c[2] = "stable" => ChannelOf(StableAlias(c)) = c
<1>1. c = <<c[1], c[2]>> /\ c[1] \in Tracks /\ c[2] \in KnownRisks
  BY DEF Channels
<1>2. c[1] \notin KnownRisks
  BY <1>1, TagAssumption
<1>3. CASE c[1] = Latest
  <2>1. TagOf(c) = <<c[2]>>
    BY <1>3 DEF TagOf
  <2>2. QED
    BY <1>1, <1>2, <1>3, <2>1 DEF ChannelOf, StableAlias
<1>4. CASE c[1] # Latest
  <2>1. TagOf(c) = c /\ Len(c) = 2
    BY <1>1, <1>4 DEF TagOf
  <2>2. ChannelOf(TagOf(c)) = c
    BY <2>1 DEF ChannelOf
  <2>3. QED
    BY <1>1, <1>2, <2>2 DEF ChannelOf, StableAlias
<1>5. QED
  BY <1>3, <1>4

\* What a rebuild finds when it comes to release, if nobody has released
\* anything since its scan began and no track of it has ended.
Calm ==
    /\ RebuildInv /\ rebuild # NoRebuild /\ ~ overtaken /\ Room
    /\ InSync /\ NothingElse /\ Clean
    /\ \A i \in DOMAIN rebuild.uploads :
          \A c \in rebuild.uploads[i].channels : Live(c)

\* The revisions of the channels are those released.
LEMMA ReleasedAre ==
    ASSUME BoardTypeOK, EveryChannelResolves
    PROVE  /\ \A c \in DOMAIN channels :
                 /\ RevisionOf(channels, c) \in Listed
                 /\ RevisionOf(channels, c) \in Released(channels)
           /\ \A v \in Released(channels) :
                 \E c \in DOMAIN channels : v = RevisionOf(channels, c)
<1>1. IsMapping(channels) /\ \A c \in DOMAIN channels : Resolves(channels, c)
  BY DEF BoardTypeOK, EveryChannelResolves
<1>2. \A v \in Revisions : v \notin DOMAIN channels
  BY <1>1, TagAssumption DEF IsMapping
<1>3. ASSUME NEW c \in DOMAIN channels
      PROVE  /\ RevisionOf(channels, c) \in Listed
             /\ RevisionOf(channels, c) \in Released(channels)
  <2> DEFINE v == RevisionOf(channels, c)
  <2>1. v \in Listed /\ v \in Ends(channels, c)
    BY <1>1 DEF Resolves, RevisionOf
  <2> HIDE DEF v
  <2>2. PICK d \in Followed(channels, c) : v = channels[d]
    BY <2>1 DEF Ends
  <2>3. d \in DOMAIN channels /\ v \in Revisions
    BY <2>1, TagAssumption DEF Followed
  <2>4. v \in Released(channels)
    BY <2>2, <2>3 DEF Released
  <2>5. QED
    BY <2>1, <2>4 DEF v
<1>4. ASSUME NEW v \in Released(channels)
      PROVE  \E c \in DOMAIN channels : v = RevisionOf(channels, c)
  <2>1. PICK c \in DOMAIN channels : v = channels[c] /\ v \in Revisions
    BY DEF Released
  <2>2. Ends(channels, c) = {v}
    BY <1>2, <2>1, EndsOneOn, EndsAtRevision
  <2>3. v \in Listed
    BY <1>1, <2>1, <2>2 DEF Resolves
  <2>4. RevisionOf(channels, c) = v
    BY <2>2, <2>3, RevisionIs
  <2>5. QED
    BY <2>4
<1>5. QED
  BY <1>3, <1>4

\* The channels of its uploads are recorded, on the sources that are built,
\* and so is each live channel of the base.
LEMMA UploadsAreRecorded ==
    ASSUME Calm
    PROVE  LET us == rebuild.uploads
           IN  /\ \A i \in DOMAIN us : \A c \in us[i].channels :
                     /\ c \in DOMAIN channels /\ SourceAt(channels, c) = us[i].source
                     /\ BaseOf[us[i].source] = rebuild.base
                     /\ c[1] \in DOMAIN eol /\ us[i].eol[c[1]] = eol[c[1]]
               /\ \A c \in DOMAIN channels :
                     Live(c) /\ BaseOf[SourceAt(channels, c)] = rebuild.base
                        => \E i \in DOMAIN us : c \in us[i].channels
<1> DEFINE us == rebuild.uploads
           base == rebuild.base
<1>1. /\ BoardTypeOK /\ EveryChannelResolves /\ Found(base, us)
      /\ InSync /\ NothingElse /\ Clean
  BY DEF Calm, RebuildInv
<1> HIDE DEF us, base
<1>2. DOMAIN channels \subseteq Channels
  BY <1>1 DEF BoardTypeOK, IsMapping
<1>3. ASSUME NEW v, NEW tag \in TagsOf(v)
      PROVE  ChannelOf(tag) \in DOMAIN channels /\ v = RevisionOf(channels, ChannelOf(tag))
  <2>1. PICK e \in registry : e.rev = v /\ e.tag = tag
    BY DEF TagsOf
  <2>2. PICK c \in DOMAIN channels :
            /\ tag = TagOf(c) \/ (c[2] = "stable" /\ tag = StableAlias(c))
            /\ v = RevisionOf(channels, c)
    BY <1>1, <2>1 DEF NothingElse
  <2>3. ChannelOf(tag) = c
    BY <1>2, <2>2, TagsStandFor
  <2>4. QED
    BY <2>2, <2>3
<1>4. ASSUME NEW i \in DOMAIN us, NEW c \in us[i].channels
      PROVE  /\ c \in DOMAIN channels /\ SourceAt(channels, c) = us[i].source
             /\ BaseOf[us[i].source] = base
             /\ c[1] \in DOMAIN eol /\ us[i].eol[c[1]] = eol[c[1]]
  <2>1. PICK v \in Released(channels) :
            SourceOf(v) = us[i].source /\ \E tag \in TagsOf(v) : c = ChannelOf(tag)
    BY <1>1 DEF Found
  <2>2. c \in DOMAIN channels /\ v = RevisionOf(channels, c)
    BY <1>3, <2>1
  <2>3. /\ BaseOf[us[i].source] = base
        /\ c[1] \in DOMAIN eol /\ us[i].eol[c[1]] = eol[c[1]]
    BY <1>1 DEF Found
  <2>4. QED
    BY <2>1, <2>2, <2>3 DEF SourceAt
<1>5. ASSUME NEW c \in DOMAIN channels, Live(c), BaseOf[SourceAt(channels, c)] = base
      PROVE  \E i \in DOMAIN us : c \in us[i].channels
  <2> DEFINE v == RevisionOf(channels, c)
             tag == TagOf(c)
  <2>1. v \in Released(channels)
    BY <1>1, ReleasedAre
  <2>2. [tag |-> tag, rev |-> v] \in registry
    BY <1>1, <1>5 DEF InSync, Live
  <2>3. tag \in TagsOf(v)
    BY <2>2 DEF TagsOf
  <2>4. ChannelOf(tag) = c
    BY <1>2, TagsStandFor
  <2>5. BaseOf[SourceOf(v)] = base
    BY <1>5 DEF SourceAt
  <2> HIDE DEF tag
  <2>6. \A w \in Released(channels) : SourceOf(w) = SourceOf(v) => w = v
    BY <1>1, ReleasedAre DEF Clean
  <2> HIDE DEF v
  <2>7. ~ PastEndOfLife(eol, now, c)
    BY <1>5 DEF Live
  <2>8. QED
    BY <1>1, <2>1, <2>3, <2>4, <2>5, <2>6, <2>7 DEF Found
<1>6. QED
  BY <1>4, <1>5 DEF us, base

\* It asks for its own new revisions on the channels of its uploads.
LEMMA CalmPins ==
    ASSUME Calm
    PROVE  LET us == rebuild.uploads
           IN  /\ NewFiles # {}
               /\ \E L : /\ IsMapping(L) /\ Merged.release = Backfill(L)
                         /\ DOMAIN L = UNION {us[i].channels : i \in DOMAIN us}
                         /\ \A c \in DOMAIN L : \E i \in DOMAIN us :
                               c \in us[i].channels /\ L[c] = Order[Len(built) + i]
<1> DEFINE us == rebuild.uploads
<1>1. /\ UploadsOK(us) /\ us # <<>> /\ built \in Seq(Sources) /\ Room
      /\ \A i \in DOMAIN us : \A c \in us[i].channels : Live(c)
  BY DEF Calm, RebuildInv, BuiltOK
<1>2. /\ NewFiles = {FileOf(us, i) : i \in {j \in DOMAIN us : LiveChannels(us[j], now) # {}}}
      /\ DOMAIN us = 1..Len(us)
  BY <1>1, NewFilesAre
<1>3. PICK L : /\ IsMapping(L) /\ DOMAIN L = Pinned(NewFiles)
               /\ \A c \in DOMAIN L : \E f \in NewFiles : c \in f.channels /\ L[c] = f.rev
               /\ Merged.release = Backfill(L)
  BY <1>1, MergedIs
<1>4. \A i \in DOMAIN us : \A c \in us[i].channels :
          c[1] \in DOMAIN eol /\ us[i].eol[c[1]] = eol[c[1]]
  BY UploadsAreRecorded
<1> HIDE DEF us
<1>5. \A i \in DOMAIN us : LiveChannels(us[i], now) = us[i].channels
  BY <1>1, <1>4 DEF LiveChannels, Live, PastEndOfLife
<1>6. \A i \in DOMAIN us : us[i].channels # {}
  BY <1>1 DEF UploadsOK, UploadOK
<1>7. NewFiles = {FileOf(us, i) : i \in DOMAIN us}
  BY <1>2, <1>5, <1>6
<1>8. \A i \in DOMAIN us : /\ FileOf(us, i).channels = us[i].channels
                           /\ FileOf(us, i).rev = Order[Len(built) + i]
  BY <1>5 DEF FileOf
<1>9. DOMAIN us # {}
  <2>1. \A s \in Seq({us[i] : i \in DOMAIN us}) : Len(s) = 0 => s = <<>>
    OBVIOUS
  <2>2. us \in Seq({us[i] : i \in DOMAIN us}) /\ Len(us) \in Nat
    BY <1>1 DEF UploadsOK
  <2>3. Len(us) # 0
    BY <1>1, <2>1, <2>2
  <2>4. QED
    BY <1>2, <2>2, <2>3
<1>10. NewFiles # {} /\ Pinned(NewFiles) = UNION {us[i].channels : i \in DOMAIN us}
  BY <1>7, <1>8, <1>9 DEF Pinned
<1>11. \A c \in DOMAIN L : \E i \in DOMAIN us :
           c \in us[i].channels /\ L[c] = Order[Len(built) + i]
  BY <1>3, <1>7, <1>8
<1>12. QED
  BY <1>3, <1>10, <1>11 DEF us

\* The release is accepted, and changes no date; each channel gets a pin, or
\* what one of those it followed got, or keeps its revision.
LEMMA CalmRelease ==
    ASSUME Calm
    PROVE  LET us == rebuild.uploads
               m == Overlay(channels, Merged.release)
               pin(i) == Order[Len(built) + i]
           IN  /\ NewFiles # {} /\ Accepted(Merged.release, DatesOf(Merged))
               /\ \A c \in DOMAIN channels :
                     \/ RevisionOf(m, c) = RevisionOf(channels, c)
                     \/ \E d \in Followed(channels, c) : \E i \in DOMAIN us :
                           d \in us[i].channels /\ RevisionOf(m, c) = pin(i)
               /\ \A i \in DOMAIN us : \A c \in us[i].channels :
                     \E j \in DOMAIN us : RevisionOf(m, c) = pin(j)
<1> DEFINE us == rebuild.uploads
           R == Merged.release
           dates == DatesOf(Merged)
           m == Overlay(channels, R)
           pin(i) == Order[Len(built) + i]
<1>1. /\ BoardTypeOK /\ EveryChannelResolves /\ Clean /\ UploadsOK(us)
      /\ built \in Seq(Sources) /\ Room
      /\ \A i \in DOMAIN us : \A c \in us[i].channels : Live(c)
  BY DEF Calm, RebuildInv, BuiltOK
<1>2. /\ IsMapping(channels) /\ \A c \in DOMAIN channels : Resolves(channels, c)
  BY <1>1 DEF BoardTypeOK, EveryChannelResolves
<1>3. PICK L : /\ IsMapping(L) /\ R = Backfill(L)
               /\ DOMAIN L = UNION {us[i].channels : i \in DOMAIN us}
               /\ \A c \in DOMAIN L : \E i \in DOMAIN us :
                     c \in us[i].channels /\ L[c] = pin(i)
  BY CalmPins
<1>4. /\ \A i \in DOMAIN us : \A c \in us[i].channels :
            /\ c \in DOMAIN channels /\ SourceAt(channels, c) = us[i].source
            /\ BaseOf[us[i].source] = rebuild.base
            /\ c[1] \in DOMAIN eol /\ us[i].eol[c[1]] = eol[c[1]]
      /\ \A c \in DOMAIN channels :
            Live(c) /\ BaseOf[SourceAt(channels, c)] = rebuild.base
               => \E i \in DOMAIN us : c \in us[i].channels
  BY UploadsAreRecorded
<1>5. \A i \in DOMAIN us : pin(i) \in Listed
  BY <1>1, NewFilesAre, NumberIs
<1>6. NewFiles # {}
  BY CalmPins
<1>7. DatedBy(us, dates)
  <2>1. Merged.uploads = us /\ DatedBy(us, Merged.eol)
    BY <1>1, MergedIs
  <2> HIDE DEF us, Merged
  <2>2. QED
    BY <1>1, <2>1, DatesAre
<1> HIDE DEF us, R, dates, pin
<1>8. DOMAIN L \subseteq DOMAIN channels /\ \A c \in DOMAIN L : L[c] \in Listed
  BY <1>3, <1>4, <1>5
<1>9. ASSUME NEW c \in DOMAIN R
      PROVE  \E d \in DOMAIN L : d[1] = c[1] /\ Live(d)
  <2>1. CASE c \in DOMAIN L
    BY <1>1, <1>3, <2>1
  <2>2. CASE c \notin DOMAIN L
    <3>1. PICK d \in DOMAIN L : Below(d, c)
      BY <1>3, <1>9, <2>2, BackfillAdds DEF IsMapping
    <3>2. QED
      BY <1>1, <1>3, <3>1 DEF Below
  <2>3. QED
    BY <2>1, <2>2
<1>10. DOMAIN R \cap DOMAIN channels \subseteq DOMAIN L
  <2> SUFFICES ASSUME NEW c \in DOMAIN R, c \in DOMAIN channels PROVE c \in DOMAIN L
    OBVIOUS
  <2>1. PICK d \in DOMAIN L : d[1] = c[1] /\ Live(d)
    BY <1>9
  <2>2. PICK i \in DOMAIN us : d \in us[i].channels
    BY <1>3, <2>1
  <2>3. d \in DOMAIN channels /\ BaseOf[SourceAt(channels, d)] = rebuild.base
    BY <1>4, <2>2
  <2>4. BaseOf[SourceAt(channels, c)] = rebuild.base
    BY <1>1, <2>1, <2>3 DEF Clean
  <2>5. Live(c)
    BY <2>1 DEF Live, PastEndOfLife
  <2>6. \E j \in DOMAIN us : c \in us[j].channels
    BY <1>4, <2>4, <2>5
  <2>7. QED
    BY <1>3, <2>6
<1> DEFINE rev(c) == RevisionOf(m, c)
<1>11. /\ ValidRequest(m, R)
       /\ \A c \in DOMAIN R : \A d \in Followed(m, c) : d \in DOMAIN R /\ d[1] = c[1]
       /\ \A c \in DOMAIN channels :
             \/ rev(c) = RevisionOf(channels, c)
             \/ \E d \in Followed(channels, c) \cap DOMAIN L : rev(c) = L[d]
       /\ \A c \in DOMAIN L : rev(c) = L[c]
  BY <1>2, <1>3, <1>8, <1>10, LaidOver
<1>12. Overlay(eol, dates) = eol
  <2>1. ASSUME NEW t \in DOMAIN dates PROVE t \in DOMAIN eol /\ dates[t] = eol[t]
    <3>1. PICK i \in DOMAIN us : t \in DOMAIN us[i].eol /\ dates[t] = us[i].eol[t]
      BY <1>7 DEF DatedBy
    <3>2. PICK c \in us[i].channels : t = c[1]
      BY <1>1, <3>1 DEF UploadsOK, UploadOK
    <3>3. QED
      BY <1>4, <3>1, <3>2
  <2>2. eol = [t \in DOMAIN eol |-> eol[t]]
    BY <1>1 DEF BoardTypeOK
  <2>3. DOMAIN eol \cup DOMAIN dates = DOMAIN eol
    BY <2>1
  <2>4. QED
    BY <2>1, <2>2, <2>3 DEF Overlay
<1>13. Removed(m, eol, now, R) = {}
  <2> SUFFICES ASSUME NEW c \in DOMAIN R, NEW d \in {c} \cup Followed(m, c),
                      PastEndOfLife(eol, now, d)
               PROVE  FALSE
    BY DEF Removed
  <2>1. d[1] = c[1]
    BY <1>11
  <2>2. PICK e \in DOMAIN L : e[1] = c[1] /\ Live(e)
    BY <1>9
  <2>3. QED
    BY <2>1, <2>2 DEF Live, PastEndOfLife
<1>14. Accepted(Merged.release, DatesOf(Merged))
  BY <1>11, <1>12, <1>13 DEF Accepted, AliasingFails, R, dates
<1> HIDE DEF m
<1>15. \A c \in DOMAIN channels :
           \/ rev(c) = RevisionOf(channels, c)
           \/ \E d \in Followed(channels, c) : \E i \in DOMAIN us :
                 d \in us[i].channels /\ rev(c) = pin(i)
  BY <1>3, <1>11
<1>16. \A i \in DOMAIN us : \A c \in us[i].channels :
           \E j \in DOMAIN us : rev(c) = pin(j)
  BY <1>3, <1>11
<1>17. QED
  BY <1>6, <1>14, <1>15, <1>16 DEF m, R, us, pin

\* A rebuild that nobody has overtaken changes no source: each channel keeps
\* its own, and those of the base get new revisions.
THEOREM RebuildsAreTransparent == RebuildSpec => RebuildIsTransparent
<1> DEFINE Transparent ==
      IsRebuilt /\ ~ overtaken /\ InSync /\ NothingElse /\ Clean
      /\ (\A i \in DOMAIN rebuild.uploads :
             \A c \in rebuild.uploads[i].channels : Live(c))
      => \A c \in DOMAIN channels :
            /\ SourceAt(channels, c) = built'[NumberOf(RevisionOf(channels', c))]
            /\ Live(c) /\ BaseOf[SourceAt(channels, c)] = rebuild.base
                  => RevisionOf(channels', c) \notin Existing
<1>1. RebuildInv /\ [RebuildNext]_imageVars => [Transparent]_imageVars
  <2> SUFFICES ASSUME RebuildInv, RebuildNext, IsRebuilt, ~ overtaken,
                      InSync, NothingElse, Clean,
                      \A i \in DOMAIN rebuild.uploads :
                          \A c \in rebuild.uploads[i].channels : Live(c),
                      NEW c \in DOMAIN channels
               PROVE  /\ SourceAt(channels, c) =
                            built'[NumberOf(RevisionOf(channels', c))]
                      /\ Live(c) /\ BaseOf[SourceAt(channels, c)] = rebuild.base
                            => RevisionOf(channels', c) \notin Existing
    OBVIOUS
  <2> DEFINE us == rebuild.uploads
             n == Len(built)
             x == RevisionOf(channels', c)
  <2>1. Rebuild
    BY Zenon DEF IsRebuilt, RebuildNext, RebuildInv, ScanOK, ReadRecord, ReadTags,
        RebuildFails, Upload, UserRelease, rebuildVars
  <2>2. Calm
    BY <2>1 DEF Calm, Rebuild
  <2>3. channels' = Overlay(channels, Merged.release)
    BY <2>1, <2>2, CalmRelease DEF Rebuild, Release
  <2>4. /\ \/ x = RevisionOf(channels, c)
           \/ \E d \in Followed(channels, c) : \E i \in DOMAIN us :
                 d \in us[i].channels /\ x = Order[n + i]
        /\ \A i \in DOMAIN us : c \in us[i].channels =>
              \E j \in DOMAIN us : x = Order[n + j]
    BY <2>2, <2>3, CalmRelease
  <2>5. /\ BoardTypeOK /\ EveryChannelResolves /\ BuiltOK /\ UploadsOK(us)
        /\ Room /\ n \in Nat
        /\ built' = built \o [i \in DOMAIN us |-> us[i].source]
    BY <2>1 DEF RebuildInv, Rebuild, BuiltOK
  <2>6. /\ DOMAIN us = 1..Len(us) /\ Len(us) \in Nat
        /\ n + Len(us) <= Len(Order)
        /\ \A i \in 1..n : built'[i] = built[i]
        /\ \A i \in DOMAIN us : built'[n + i] = us[i].source
    BY <2>5, RebuiltAre
  <2>7. \A i \in DOMAIN us : n + i \in 1..Len(Order) /\ n + i \notin 1..n
    BY <2>5, <2>6, NumberIs
  <2>8. \A i \in DOMAIN us : NumberOf(Order[n + i]) = n + i
    BY <2>7, NumberIs
  <2> HIDE DEF us, n, x
  <2>9. \A d \in DOMAIN channels :
            RevisionOf(channels, d) \in Existing /\ Resolves(channels, d)
    BY <2>5, ReleasedAre DEF BuiltOK, EveryChannelResolves
  <2>10. SourceAt(channels, c) = built'[NumberOf(x)]
    <3>1. CASE x = RevisionOf(channels, c)
      <4>1. NumberOf(x) \in 1..n
        BY <2>5, <2>9, <3>1, ExistingHaveSources DEF n
      <4>2. QED
        BY <2>6, <3>1, <4>1 DEF SourceAt, SourceOf
    <3>2. ASSUME NEW d \in Followed(channels, c), NEW i \in DOMAIN us,
                 d \in us[i].channels, x = Order[n + i]
          PROVE  SourceAt(channels, c) = built'[NumberOf(x)]
      <4>1. d \in DOMAIN channels /\ SourceAt(channels, d) = us[i].source
        BY <2>2, <3>2, UploadsAreRecorded DEF us
      <4>2. RevisionOf(channels, d) = RevisionOf(channels, c)
        BY <2>9, <4>1, RevisionShared
      <4>3. built'[NumberOf(x)] = us[i].source
        BY <2>6, <2>8, <3>2
      <4>4. QED
        BY <4>1, <4>2, <4>3 DEF SourceAt
    <3>3. QED
      BY <2>4, <3>1, <3>2
  <2>11. ASSUME Live(c), BaseOf[SourceAt(channels, c)] = rebuild.base
         PROVE  x \notin Existing
    <3>1. PICK i \in DOMAIN us : c \in us[i].channels
      BY <2>2, <2>11, UploadsAreRecorded DEF us
    <3>2. PICK j \in DOMAIN us : x = Order[n + j]
      BY <2>4, <3>1
    <3>3. NumberOf(x) \notin 1..n
      BY <2>7, <2>8, <3>2
    <3>4. QED
      BY <2>5, <3>3, ExistingHaveSources DEF n
  <2>12. QED
    BY <2>10, <2>11 DEF x
<1>2. QED
  BY <1>1, RebuildInvariant, PTL DEF RebuildSpec, RebuildIsTransparent
=============================================================================

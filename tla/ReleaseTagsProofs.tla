------------------------- MODULE ReleaseTagsProofs --------------------------
(* What the operators of ReleaseTags preserve and bound, for any tracks and *)
(* revisions: the lemmas of the proofs about releases.                      *)
EXTENDS ReleaseTags, WellFoundedInduction, TLAPS

\* Some numbers have a least one.
LEMMA LeastNumber ==
    ASSUME NEW S, S \subseteq Nat, S # {}
    PROVE  \E x \in S : \A y \in S : x <= y
<1> DEFINE less == {ss \in Nat \X Nat : ss[1] < ss[2]}
<1>1. IsWellFoundedOn(less, Nat)
  BY NatLessThanWellFounded DEF OpToRel
<1>2. \A x, y \in Nat : y < x => <<y, x>> \in less
  OBVIOUS
<1> HIDE DEF less
<1>3. PICK x \in S : \A y \in S : ~ (<<y, x>> \in less)
  BY <1>1, WFMin
<1>4. \A y \in S : ~ (y < x)
  BY <1>2, <1>3
<1>5. QED
  BY <1>4

-----------------------------------------------------------------------------
(* Following targets.                                                      *)

\* The dictionary of two mappings is a mapping.
LEMMA OverlayMapping ==
    ASSUME NEW m, NEW p, IsMapping(m), IsMapping(p)
    PROVE  IsMapping(Overlay(m, p))
<1>1. DOMAIN Overlay(m, p) = DOMAIN m \cup DOMAIN p
  BY DEF Overlay
<1>2. Overlay(m, p) \in [DOMAIN m \cup DOMAIN p -> Targets]
  BY DEF Overlay, IsMapping
<1>3. QED
  BY <1>1, <1>2 DEF IsMapping

\* The loop of release.py does not leave the channels it looks up.
LEMMA FollowedClosed ==
    ASSUME NEW m, NEW t
    PROVE  /\ {t} \cap DOMAIN m \subseteq Followed(m, t)
           /\ FollowClosed(m, Followed(m, t))
BY DEF Followed, FollowClosed

\* It looks up no more than it must.
LEMMA FollowedLeast ==
    ASSUME NEW m, NEW t, NEW S \in SUBSET DOMAIN m,
           {t} \cap DOMAIN m \subseteq S, FollowClosed(m, S)
    PROVE  Followed(m, t) \subseteq S
BY DEF Followed

\* Where it gets to from a channel on its way it gets to from the start.
LEMMA EndsOnTheWay ==
    ASSUME NEW m, NEW t, NEW d \in Followed(m, t)
    PROVE  Ends(m, m[d]) \subseteq Ends(m, t)
<1>1. Followed(m, t) \subseteq DOMAIN m
  BY DEF Followed
<1>2. {m[d]} \cap DOMAIN m \subseteq Followed(m, t)
  BY FollowedClosed DEF FollowClosed
<1>3. Followed(m, m[d]) \subseteq Followed(m, t)
  BY <1>1, <1>2, FollowedClosed, FollowedLeast
<1>4. QED
  BY <1>3 DEF Ends

\* A channel stands for what its target stands for.
LEMMA EndsOneOn ==
    ASSUME NEW m, NEW c \in DOMAIN m
    PROVE  Ends(m, c) = Ends(m, m[c])
<1> DEFINE F == Followed(m, c)
           G == Followed(m, m[c])
<1>1. /\ c \in F /\ FollowClosed(m, F) /\ F \subseteq DOMAIN m
      /\ {m[c]} \cap DOMAIN m \subseteq G
      /\ FollowClosed(m, G) /\ G \subseteq DOMAIN m
  BY FollowedClosed DEF Followed
<1>2. F \subseteq G \cup {c}
  <2>1. FollowClosed(m, G \cup {c}) /\ G \cup {c} \subseteq DOMAIN m
    BY <1>1 DEF FollowClosed
  <2>2. QED
    BY <2>1, FollowedLeast
<1>3. G \subseteq F
  <2>1. {m[c]} \cap DOMAIN m \subseteq F
    BY <1>1 DEF FollowClosed
  <2>2. QED
    BY <1>1, <2>1, FollowedLeast
<1>4. F = G \cup {c}
  BY <1>1, <1>2, <1>3
<1> HIDE DEF F, G
<1>5. QED
  BY <1>4 DEF F, G, Ends

\* A revision stands for itself.
LEMMA EndsAtRevision ==
    ASSUME NEW m, NEW v, v \notin DOMAIN m
    PROVE  Ends(m, v) = {v}
<1>1. FollowClosed(m, {}) /\ {v} \cap DOMAIN m \subseteq {}
  BY DEF FollowClosed
<1>2. Followed(m, v) = {}
  BY <1>1, FollowedLeast
<1>3. QED
  BY <1>2 DEF Ends

\* Following goes the same way in two mappings that agree along it.
LEMMA SameWay ==
    ASSUME NEW m, NEW n, NEW c \in DOMAIN n, DOMAIN m \subseteq DOMAIN n,
           \A d \in Followed(n, c) : d \in DOMAIN m /\ n[d] = m[d]
    PROVE  Followed(n, c) = Followed(m, c) /\ Ends(n, c) = Ends(m, c)
<1> DEFINE F == Followed(n, c)
           G == Followed(m, c)
<1>1. /\ c \in F /\ FollowClosed(n, F) /\ F \subseteq DOMAIN m
      /\ c \in G /\ FollowClosed(m, G) /\ G \subseteq DOMAIN m
  <2>1. c \in F /\ F \subseteq DOMAIN m
    BY FollowedClosed
  <2>2. QED
    BY <2>1, FollowedClosed DEF Followed
<1>2. G \subseteq F
  <2>1. FollowClosed(m, F)
    BY <1>1 DEF FollowClosed
  <2>2. QED
    BY <1>1, <2>1, FollowedLeast
<1>3. F \subseteq G
  <2>1. FollowClosed(n, G)
    BY <1>1, <1>2 DEF FollowClosed
  <2>2. QED
    BY <1>1, <2>1, FollowedLeast
<1>4. F = G
  BY <1>2, <1>3
<1>5. \A d \in F : n[d] \in DOMAIN n => n[d] \in DOMAIN m
  BY <1>1 DEF FollowClosed
<1>6. Ends(n, c) = Ends(m, c)
  BY <1>1, <1>4, <1>5 DEF Ends
<1>7. QED
  BY <1>4, <1>6

\* Applying a valid request keeps the promise of every channel, of those the
\* request does not name as well: following one of them now meets a channel
\* of the request, which has been validated, or goes the way it went before.
LEMMA RequestKeepsResolving ==
    ASSUME NEW m, NEW p, IsMapping(m), IsMapping(p),
           \A c \in DOMAIN m : Resolves(m, c),
           ValidRequest(Overlay(m, p), p)
    PROVE  \A c \in DOMAIN Overlay(m, p) : Resolves(Overlay(m, p), c)
<1> DEFINE n == Overlay(m, p)
<1>1. /\ DOMAIN n = DOMAIN m \cup DOMAIN p
      /\ \A c \in DOMAIN p : n[c] = p[c]
      /\ \A c \in DOMAIN m \ DOMAIN p : n[c] = m[c]
  BY DEF Overlay
<1>2. DOMAIN n \cap Listed = {}
  BY <1>1, TagAssumption DEF IsMapping
<1>3. \A c \in DOMAIN p : Resolves(n, p[c])
  BY DEF ValidRequest
<1> HIDE DEF n
<1>4. ASSUME NEW c \in DOMAIN n PROVE Resolves(n, c)
  <2> DEFINE F == Followed(n, c)
  <2>1. c \in F /\ FollowClosed(n, F) /\ F \subseteq DOMAIN n
    BY FollowedClosed DEF Followed
  <2>2. CASE \E d \in F : d \in DOMAIN p
    <3>1. PICK d \in F : d \in DOMAIN p
      BY <2>2
    <3>2. Ends(n, n[d]) \subseteq Ends(n, c)
      BY <3>1, EndsOnTheWay
    <3>3. QED
      BY <1>1, <1>3, <3>1, <3>2 DEF Resolves
  <2>3. CASE \A d \in F : d \notin DOMAIN p
    <3>1. F \subseteq DOMAIN m /\ \A d \in F : n[d] = m[d]
      BY <1>1, <2>1, <2>3
    <3>2. FollowClosed(m, F)
      BY <1>1, <2>1, <3>1 DEF FollowClosed
    <3>3. Followed(m, c) \subseteq F
      <4> HIDE DEF F
      <4>1. QED
        BY <2>1, <3>1, <3>2, FollowedLeast
    <3>4. PICK v \in Listed : v \in Ends(m, c)
      BY <2>1, <3>1 DEF Resolves
    <3>5. PICK d \in Followed(m, c) : v = m[d]
      BY <2>1, <3>1, <3>4 DEF Ends
    <3>6. v = n[d] /\ d \in Followed(n, c) /\ v \notin DOMAIN n
      BY <1>2, <3>1, <3>3, <3>5
    <3>7. QED
      BY <3>6 DEF Ends, Resolves
  <2>4. QED
    BY <2>2, <2>3
<1>5. QED
  BY <1>4 DEF n

-----------------------------------------------------------------------------
(* The tags of a release.                                                  *)

\* The tag of a channel is not that of another one, and not the alias of a
\* stable one: no risk has the name of a track.
LEMMA OwnTags ==
    ASSUME NEW c \in Channels, NEW d \in Channels
    PROVE  /\ TagOf(c) = TagOf(d) => c = d
           /\ StableAlias(c) = StableAlias(d) /\ c[2] = d[2] => c = d
           /\ TagOf(c) # StableAlias(d)
<1>1. /\ c = <<c[1], c[2]>> /\ c[1] \in Tracks /\ c[2] \in KnownRisks
      /\ d = <<d[1], d[2]>> /\ d[1] \in Tracks /\ d[2] \in KnownRisks
  BY DEF Channels
<1>2. ASSUME NEW x, NEW y, NEW z PROVE <<x>> # <<y, z>>
  OBVIOUS
<1>3. ASSUME TagOf(c) = TagOf(d) PROVE c = d
  <2>1. CASE c[1] = Latest /\ d[1] = Latest
    BY <1>1, <1>3, <2>1 DEF TagOf
  <2>2. CASE c[1] # Latest /\ d[1] # Latest
    BY <1>3, <2>2 DEF TagOf
  <2>3. CASE c[1] = Latest /\ d[1] # Latest
    <3>1. <<c[2]>> = <<d[1], d[2]>>
      BY <1>1, <1>3, <2>3 DEF TagOf
    <3>2. QED
      BY <1>2, <3>1
  <2>4. CASE c[1] # Latest /\ d[1] = Latest
    <3>1. <<d[2]>> = <<c[1], c[2]>>
      BY <1>1, <1>3, <2>4 DEF TagOf
    <3>2. QED
      BY <1>2, <3>1
  <2>5. QED
    BY <2>1, <2>2, <2>3, <2>4
<1>4. StableAlias(c) = StableAlias(d) /\ c[2] = d[2] => c = d
  <2>1. <<c[1]>> = <<d[1]>> => c[1] = d[1]
    OBVIOUS
  <2>2. QED
    BY <1>1, <2>1 DEF StableAlias
<1>5. ASSUME TagOf(c) = StableAlias(d) PROVE FALSE
  <2>1. CASE c[1] = Latest
    <3>1. <<c[2]>> = <<d[1]>>
      BY <1>5, <2>1 DEF TagOf, StableAlias
    <3>2. c[2] = d[1]
      BY <3>1
    <3>3. QED
      BY <1>1, <3>2, TagAssumption
  <2>2. CASE c[1] # Latest
    <3>1. <<c[1], c[2]>> = <<d[1]>>
      BY <1>1, <1>5, <2>2 DEF TagOf, StableAlias
    <3>2. QED
      BY <1>2, <3>1
  <2>3. QED
    BY <2>1, <2>2
<1>6. QED
  BY <1>3, <1>4, <1>5

\* A release moves no tag to two revisions: the tag of a channel is not that
\* of another one, and no risk has the name of a track.
LEMMA TagsAreDistinct ==
    ASSUME NEW m, NEW e, NEW day, NEW p, IsMapping(p), ValidRequest(m, p)
    PROVE  LET moved == TagsToRelease(m, e, day, p)
           IN  /\ moved \subseteq [tag : OciTags, rev : Listed]
               /\ \A x, y \in moved : x.tag = y.tag => x = y
<1> DEFINE pin(c) == RevisionOf(m, p[c])
           own(c) == [tag |-> TagOf(c), rev |-> pin(c)]
           alias(c) == [tag |-> StableAlias(c), rev |-> pin(c)]
           stable == {c \in DOMAIN p : c[2] = "stable"}
           moved == TagsToRelease(m, e, day, p)
<1>1. DOMAIN p \subseteq Tracks \X KnownRisks
  BY DEF IsMapping, Channels
<1>2. \A c \in DOMAIN p : pin(c) \in Listed
  BY DEF ValidRequest, Resolves, RevisionOf
<1>3. \A c \in DOMAIN p : TagOf(c) \in OciTags /\ StableAlias(c) \in OciTags
  BY <1>1 DEF TagOf, StableAlias, OciTags, Channels
<1>4. \A x \in moved : \/ \E c \in DOMAIN p : x = own(c)
                       \/ \E c \in stable : x = alias(c)
  BY DEF TagsToRelease
<1>5. \A c \in DOMAIN p : /\ own(c).tag = TagOf(c) /\ own(c).rev = pin(c)
                          /\ alias(c).tag = StableAlias(c)
                          /\ alias(c).rev = pin(c)
  OBVIOUS
<1>6. \A c, d \in DOMAIN p : TagOf(c) = TagOf(d) => c = d
  BY OwnTags DEF IsMapping
<1>7. \A c, d \in stable : StableAlias(c) = StableAlias(d) => c = d
  BY OwnTags DEF IsMapping
<1>8. \A c, d \in DOMAIN p : TagOf(c) # StableAlias(d)
  BY OwnTags DEF IsMapping
<1> HIDE DEF pin, moved
<1>9. \A x \in moved : x \in [tag : OciTags, rev : Listed]
  BY <1>2, <1>3, <1>4
<1>10. ASSUME NEW x \in moved, NEW y \in moved, x.tag = y.tag PROVE x = y
  <2> HIDE DEF own, alias
  <2>1. CASE \E c \in DOMAIN p : x = own(c)
    BY <1>4, <1>5, <1>6, <1>8, <1>10, <2>1
  <2>2. CASE \E c \in stable : x = alias(c)
    BY <1>4, <1>5, <1>7, <1>8, <1>10, <2>2
  <2>3. QED
    BY <1>4, <2>1, <2>2
<1>11. QED
  BY <1>9, <1>10 DEF moved
=============================================================================

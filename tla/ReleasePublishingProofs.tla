----------------------- MODULE ReleasePublishingProofs -----------------------
(* Theorems about ReleasePublishing for any tracks, revisions, runs and     *)
(* requests: types, what is recorded, and that whole releases one after the *)
(* other implement ReleaseBoard.                                            *)
EXTENDS ReleasePublishing, ReleaseTagsProofs, SequenceTheorems

-----------------------------------------------------------------------------
(* The inductive invariant.                                                *)

\* Functions from some keys of K to V, and the files made of them.
Partial(K, V) == UNION {[S -> V] : S \in SUBSET K}
Files == [channels : Partial(Channels, Targets), eol : Partial(Tracks, Nat)]

\* What a run releases is a function of tags.
OneRevisionPerTag(entries) == \A x, y \in entries : x.tag = y.tag => x = y

\* Types, those of the record as sets; nothing is published before the tags
\* are known.
Types ==
    /\ commits \in Seq(Files) /\ Len(commits) > 0
    /\ registry \in [Registries -> SUBSET Entries]
    /\ \A reg \in Registries : OneRevisionPerTag(registry[reg])
    /\ request \in [Runs -> Requests]
    /\ pc \in [Runs -> Steps]
    /\ clone \in [Runs -> 1..Len(commits)]
    /\ file \in [Runs -> Files]
    /\ plan \in [Runs -> SUBSET Entries]
    /\ \A r \in Runs : OneRevisionPerTag(plan[r])
    /\ published \in [Runs -> SUBSET (Registries \X Entries)]
    /\ \A r \in Runs : pc[r] \in {"fetch", "pull", "resolve"} => published[r] = {}
    /\ pushes \in [Runs -> 1..MaxPushes]
    /\ serial \in BOOLEAN /\ merged \in BOOLEAN
    /\ stale \subseteq Runs /\ recorded \subseteq Runs
    /\ settled \subseteq Entries

AllResolve(m) == \A c \in DOMAIN m : Resolves(m, c)

\* As long as git has merged nothing, a run's copy resolves like the commits
\* do: before the update it is one of them, and the update is of an accepted
\* request.
Resolving ==
    ~ merged =>
        /\ \A i \in DOMAIN commits : AllResolve(commits[i].channels)
        /\ \A r \in Runs : AllResolve(file[r].channels)
        /\ \A r \in Runs : pc[r] \in {"publish", "update"} => Accepts(r)

SameBut(q, f, g) ==
    \A c \in Channels \ DOMAIN q.channels : At(f.channels, c) = At(g.channels, c)

\* A copy that is not stale differs from the commit it builds upon in the
\* channels of the request only.
Differing ==
    \A r \in Runs :
        /\ pc[r] = "pull" => file[r] = commits[clone[r]]
        /\ pc[r] \in {"resolve", "publish", "update", "commit", "rebase", "push"}
              /\ r \notin stale
              => SameBut(request[r], file[r], commits[clone[r]])

\* The record that a release makes of the last commit.
Outcome(r) ==
    [channels |-> Overlay(Last(commits).channels, request[r].channels),
     eol |-> Overlay(Last(commits).eol, request[r].eol)]

\* The tags the run has moved in a registry.
Moved(r, reg) == {e \in plan[r] : <<reg, e>> \in published[r]}

Planned(r) ==
    /\ ValidRequest(Outcome(r).channels, request[r].channels)
    /\ ~ AliasingFails(Outcome(r).channels, Outcome(r).eol, Now,
                       request[r].channels)
    /\ plan[r] = TagsToRelease(Outcome(r).channels, Outcome(r).eol, Now,
                               request[r].channels)

\* What one run has made of the registries and the record since the last
\* whole release, when there is no other.
Alone(r) ==
    /\ \A q \in Runs : Active(q) => q = r
    /\ clone[r] = Len(commits)
    /\ \A reg \in Registries : registry[reg] = Retag(settled, Moved(r, reg))
    /\ pc[r] \in {"pull", "resolve", "publish", "update"} => file[r] = Last(commits)
    /\ pc[r] \in {"commit", "rebase", "push"} => file[r] = Outcome(r)
    /\ pc[r] \notin {"pull", "resolve"} => Planned(r)
    /\ pc[r] \in {"update", "commit", "rebase", "push"}
          => published[r] = Registries \X plan[r]

\* As long as releases come one after the other and whole, the registries
\* are what the last one has left but for the tags of the run under way.
Serial ==
    serial =>
        /\ (\A r \in Runs : ~ Active(r))
              => \A reg \in Registries : registry[reg] = settled
        /\ \A r \in Runs : Active(r) => Alone(r)

IInv == Types /\ Resolving /\ Differing /\ Serial

-----------------------------------------------------------------------------
(* Files, merges and tags.                                                 *)

LEMMA PartialFunctions ==
    ASSUME NEW K, NEW V, NEW m
    PROVE  m \in Partial(K, V) <=> DOMAIN m \subseteq K /\ m \in [DOMAIN m -> V]
BY DEF Partial

LEMMA FilesAreFiles ==
    ASSUME NEW f \in Files
    PROVE  /\ IsFile(f) /\ IsMapping(f.channels)
           /\ f.channels \in Partial(Channels, Targets)
           /\ f.eol \in Partial(Tracks, Nat)
           /\ f = [channels |-> f.channels, eol |-> f.eol]
<1>1. /\ DOMAIN f = {"channels", "eol"}
      /\ f.channels \in Partial(Channels, Targets)
      /\ f.eol \in Partial(Tracks, Nat)
      /\ f = [channels |-> f.channels, eol |-> f.eol]
  BY DEF Files
<1>2. QED
  BY <1>1, PartialFunctions DEF IsFile, IsMapping

\* Laying one dictionary over another gives one of the same kind.
LEMMA OverlayPartial ==
    ASSUME NEW K, NEW V, NEW m \in Partial(K, V), NEW p \in Partial(K, V)
    PROVE  /\ Overlay(m, p) \in Partial(K, V)
           /\ DOMAIN Overlay(m, p) = DOMAIN m \cup DOMAIN p
<1>1. /\ DOMAIN m \subseteq K /\ m \in [DOMAIN m -> V]
      /\ DOMAIN p \subseteq K /\ p \in [DOMAIN p -> V]
  BY PartialFunctions
<1>2. Overlay(m, p) \in [DOMAIN m \cup DOMAIN p -> V]
  BY <1>1 DEF Overlay
<1>3. QED
  BY <1>1, <1>2 DEF Partial

\* What the request of a run makes of a file is a file.
LEMMA RequestedFiles ==
    ASSUME NEW q \in Requests, NEW f \in Files
    PROVE  /\ IsMapping(q.channels)
           /\ [channels |-> Overlay(f.channels, q.channels),
               eol |-> Overlay(f.eol, q.eol)] \in Files
<1>1. /\ IsMapping(q.channels)
      /\ q.channels \in Partial(Channels, Targets)
  BY PublishingAssumption, PartialFunctions DEF IsMapping
<1>2. q.eol \in Partial(Tracks, Nat)
  <2>1. TracksOf(q.channels) \subseteq Tracks
    BY <1>1 DEF TracksOf, IsMapping, Channels
  <2>2. QED
    BY <2>1, PublishingAssumption DEF Partial
<1>3. f.channels \in Partial(Channels, Targets) /\ f.eol \in Partial(Tracks, Nat)
  BY FilesAreFiles
<1>4. QED
  BY <1>1, <1>2, <1>3, OverlayPartial DEF Files

\* git's merge of dictionaries takes each key from whoever has changed it.
LEMMA MergedKeys ==
    ASSUME NEW K, NEW V, NEW b \in Partial(K, V), NEW t \in Partial(K, V),
           NEW m \in Partial(K, V)
    PROVE  /\ MergeKeys(b, t, m) \in Partial(K, V)
           /\ \A k : At(MergeKeys(b, t, m), k) =
                        IF At(m, k) = At(b, k) THEN At(t, k) ELSE At(m, k)
<1> DEFINE val(k) == IF At(m, k) = At(b, k) THEN At(t, k) ELSE At(m, k)
           D == {j \in Keys(b, t, m) : val(j) # {}}
           n == MergeKeys(b, t, m)
<1>1. /\ DOMAIN b \subseteq K /\ b \in [DOMAIN b -> V]
      /\ DOMAIN t \subseteq K /\ t \in [DOMAIN t -> V]
      /\ DOMAIN m \subseteq K /\ m \in [DOMAIN m -> V]
  BY PartialFunctions
<1>2. n = [k \in D |-> CHOOSE v \in val(k) : TRUE]
  BY DEF MergeKeys
<1>3. D \subseteq K
  BY <1>1 DEF Keys
<1>4. \A k : k \notin D => val(k) = {}
  BY DEF Keys, At
<1>5. \A k \in D : \E v \in V : val(k) = {v}
  BY <1>1 DEF At
<1> HIDE DEF val, D, n
<1>6. \A k \in D : n[k] \in V /\ val(k) = {n[k]}
  BY <1>2, <1>5
<1>7. n \in Partial(K, V) /\ DOMAIN n = D
  BY <1>2, <1>3, <1>6 DEF Partial
<1>8. \A k : At(n, k) = val(k)
  BY <1>4, <1>6, <1>7 DEF At
<1>9. QED
  BY <1>7, <1>8 DEF n, val

\* Two dictionaries that hold the same under every key are the same.
LEMMA SameKeys ==
    ASSUME NEW K, NEW V, NEW m \in Partial(K, V), NEW n \in Partial(K, V),
           \A k : At(m, k) = At(n, k)
    PROVE  m = n
<1>1. m \in [DOMAIN m -> V] /\ n \in [DOMAIN n -> V]
  BY PartialFunctions
<1>2. DOMAIN m = DOMAIN n
  BY DEF At
<1>3. \A k \in DOMAIN m : m[k] = n[k]
  BY <1>2 DEF At
<1>4. QED
  BY <1>1, <1>2, <1>3

\* A merge of files is a file; where nobody else has changed anything, it is
\* one's own.
LEMMA MergedFiles ==
    ASSUME NEW b \in Files, NEW t \in Files, NEW m \in Files
    PROVE  /\ MergeFiles(b, t, m) \in Files
           /\ b = t => MergeFiles(b, t, m) = m
           /\ \A k : At(m.channels, k) = At(b.channels, k) =>
                     At(MergeFiles(b, t, m).channels, k) = At(t.channels, k)
<1> DEFINE C == Partial(Channels, Targets)
           E == Partial(Tracks, Nat)
<1>1. /\ b.channels \in C /\ t.channels \in C /\ m.channels \in C
      /\ b.eol \in E /\ t.eol \in E /\ m.eol \in E
      /\ m = [channels |-> m.channels, eol |-> m.eol]
  BY FilesAreFiles
<1>2. /\ MergeKeys(b.channels, t.channels, m.channels) \in C
      /\ MergeKeys(b.eol, t.eol, m.eol) \in E
      /\ \A k : At(m.channels, k) = At(b.channels, k) =>
               At(MergeKeys(b.channels, t.channels, m.channels), k)
                   = At(t.channels, k)
  BY <1>1, MergedKeys
<1>3. ASSUME b = t
      PROVE  /\ MergeKeys(b.channels, t.channels, m.channels) = m.channels
             /\ MergeKeys(b.eol, t.eol, m.eol) = m.eol
  <2>1. /\ \A k : At(MergeKeys(b.channels, t.channels, m.channels), k)
                    = At(m.channels, k)
        /\ \A k : At(MergeKeys(b.eol, t.eol, m.eol), k) = At(m.eol, k)
    BY <1>1, <1>3, MergedKeys
  <2>2. QED
    BY <1>1, <1>2, <2>1, SameKeys
<1>4. QED
  BY <1>1, <1>2, <1>3 DEF MergeFiles, Files

\* A commit comes after those that are there.
LEMMA Committed ==
    ASSUME NEW s \in Seq(Files), NEW f \in Files
    PROVE  /\ Append(s, f) \in Seq(Files)
           /\ DOMAIN Append(s, f) = DOMAIN s \cup {Len(s) + 1}
           /\ Len(Append(s, f)) = Len(s) + 1 /\ Len(s) \in Nat
           /\ \A i \in DOMAIN s : Append(s, f)[i] = s[i]
           /\ \A i \in 1..Len(s) : Append(s, f)[i] = s[i]
           /\ Last(Append(s, f)) = f
BY DEF Last

\* Tags moved one by one are the tags moved at once.
LEMMA RetagOneMore ==
    ASSUME NEW old, NEW some, NEW e, OneRevisionPerTag(some \cup {e}),
           e \notin some
    PROVE  Retag(Retag(old, some), {e}) = Retag(old, some \cup {e})
<1>1. \A f \in some : f.tag # e.tag
  BY DEF OneRevisionPerTag
<1>2. QED
  BY <1>1 DEF Retag

LEMMA RetagKeepsTags ==
    ASSUME NEW old \in SUBSET Entries, NEW e \in Entries, OneRevisionPerTag(old)
    PROVE  Retag(old, {e}) \in SUBSET Entries /\ OneRevisionPerTag(Retag(old, {e}))
BY DEF Retag, OneRevisionPerTag

-----------------------------------------------------------------------------
(* Types.                                                                  *)

LEMMA TypesInit == Init => Types
<1> SUFFICES ASSUME Init PROVE Types
  OBVIOUS
<1>1. NoReleases \in Files
  <2>1. [c \in {} |-> c] \in [{} -> Targets] /\ [t \in {} |-> 0] \in [{} -> Nat]
    OBVIOUS
  <2>2. /\ [c \in {} |-> c] \in Partial(Channels, Targets)
        /\ [t \in {} |-> 0] \in Partial(Tracks, Nat)
    BY <2>1, Zenon DEF Partial
  <2>3. QED
    BY <2>2 DEF NoReleases, Files
<1>2. commits \in Seq(Files) /\ Len(commits) = 1
  BY <1>1 DEF Init
<1>3. /\ clone \in [Runs -> 1..Len(commits)]
      /\ pushes \in [Runs -> 1..MaxPushes]
  BY <1>2, PublishingAssumption DEF Init
<1>4. /\ file \in [Runs -> Files] /\ request \in [Runs -> Requests]
      /\ pc \in [Runs -> Steps]
      /\ plan \in [Runs -> SUBSET Entries]
      /\ published \in [Runs -> SUBSET (Registries \X Entries)]
      /\ registry \in [Registries -> SUBSET Entries]
  BY <1>1 DEF Init, Steps
<1>5. /\ \A reg \in Registries : OneRevisionPerTag(registry[reg])
      /\ \A r \in Runs : OneRevisionPerTag(plan[r])
      /\ \A r \in Runs : published[r] = {}
  BY DEF Init, OneRevisionPerTag
<1>6. /\ serial \in BOOLEAN /\ merged \in BOOLEAN
      /\ stale \subseteq Runs /\ recorded \subseteq Runs
      /\ settled \subseteq Entries
  BY DEF Init
<1>7. QED
  BY <1>2, <1>3, <1>4, <1>5, <1>6 DEF Types

\* What Types says of the commits and the copies of them.
LEMMA TypedFiles ==
    ASSUME Types, NEW r \in Runs
    PROVE  /\ Last(commits) \in Files
           /\ Len(commits) \in Nat /\ Len(commits) \in 1..Len(commits)
           /\ clone[r] \in DOMAIN commits /\ commits[clone[r]] \in Files
           /\ file[r] \in Files /\ request[r] \in Requests
           /\ IsMapping(request[r].channels)
           /\ Requested(r) \in Files
<1>1. /\ Last(commits) \in Files /\ Len(commits) \in 1..Len(commits)
      /\ Len(commits) \in Nat
      /\ clone[r] \in DOMAIN commits /\ commits[clone[r]] \in Files
  BY DEF Types, Last
<1>2. file[r] \in Files /\ request[r] \in Requests
  BY DEF Types
<1>3. QED
  BY <1>1, <1>2, RequestedFiles DEF Requested

\* What a release is to move.
LEMMA PlannedTags ==
    ASSUME Types, NEW r \in Runs, Accepts(r)
    PROVE  LET p == TagsToRelease(Requested(r).channels, Requested(r).eol, Now,
                                  request[r].channels)
           IN  p \in SUBSET Entries /\ OneRevisionPerTag(p)
BY TypedFiles, TagsAreDistinct DEF Accepts, Entries, OneRevisionPerTag

\* Abandoning a run disturbs no type.
LEMMA AbandonTypes ==
    ASSUME Types, NEW r \in Runs, Abandon(r)
    PROVE  /\ pc' \in [Runs -> Steps] /\ pc'[r] = "failed"
           /\ \A q \in Runs : pc'[q] \in {"fetch", "pull", "resolve"} => pc'[q] = pc[q]
           /\ serial' \in BOOLEAN /\ UNCHANGED <<stale, merged, recorded, settled>>
BY DEF Types, Abandon, Goto, Steps, Ended

LEMMA TypesStep ==
    ASSUME Types, [Next]_vars
    PROVE  Types'
<1>1. ASSUME NEW r \in Runs, Fetch(r) PROVE Types'
  BY <1>1, TypedFiles DEF Fetch, Goto, Types, Steps
<1>2. ASSUME NEW r \in Runs, Pull(r) PROVE Types'
  BY <1>2, TypedFiles DEF Pull, Goto, Types, Steps
<1>3. ASSUME NEW r \in Runs, Resolve(r) PROVE Types'
  <2>1. CASE Accepts(r)
    <3>1. /\ plan' \in [Runs -> SUBSET Entries]
          /\ \A q \in Runs : OneRevisionPerTag(plan'[q])
      BY <1>3, <2>1, PlannedTags DEF Resolve, Types
    <3>2. QED
      BY <1>3, <2>1, <3>1 DEF Resolve, Goto, Types, Steps, history
  <2>2. CASE ~ Accepts(r)
    BY <1>3, <2>2, AbandonTypes DEF Resolve, Types
  <2>3. QED
    BY <2>1, <2>2
<1>4. ASSUME NEW r \in Runs, PublishTag(r) PROVE Types'
  <2>1. PICK reg \in Registries, e \in plan[r] :
            /\ registry' = [registry EXCEPT ![reg] = Retag(@, {e})]
            /\ published' = [published EXCEPT ![r] = @ \cup {<<reg, e>>}]
    BY <1>4 DEF PublishTag
  <2>2. e \in Entries
    BY DEF Types
  <2>3. /\ registry' \in [Registries -> SUBSET Entries]
        /\ \A g \in Registries : OneRevisionPerTag(registry'[g])
    BY <2>1, <2>2, RetagKeepsTags DEF Types
  <2>4. /\ published' \in [Runs -> SUBSET (Registries \X Entries)]
        /\ \A q \in Runs : pc[q] \in {"fetch", "pull", "resolve"} => published'[q] = {}
    BY <1>4, <2>1, <2>2 DEF Types, PublishTag
  <2>5. QED
    BY <1>4, <2>3, <2>4 DEF PublishTag, Types, history
<1>5. ASSUME NEW r \in Runs, PublishDone(r) PROVE Types'
  BY <1>5 DEF PublishDone, Goto, Types, Steps, history
<1>6. ASSUME NEW r \in Runs, Update(r) PROVE Types'
  BY <1>6, TypedFiles DEF Update, Goto, Types, Steps, history
<1>7. ASSUME NEW r \in Runs, Commit(r) PROVE Types'
  <2>1. CASE Abandon(r)
    BY <1>7, <2>1, AbandonTypes DEF Commit, Types
  <2>2. CASE Goto(r, "rebase") /\ UNCHANGED history
    BY <1>7, <2>2 DEF Commit, Goto, Types, Steps, history
  <2>3. QED
    BY <1>7, <2>1, <2>2 DEF Commit
<1>8. ASSUME NEW r \in Runs, Rebase(r) PROVE Types'
  <2>1. CASE Abandon(r) /\ UNCHANGED <<file, clone>>
    BY <1>8, <2>1, AbandonTypes DEF Rebase, Types
  <2>2. CASE /\ file' = [file EXCEPT ![r] =
                           MergeFiles(commits[clone[r]], Last(commits), @)]
             /\ clone' = [clone EXCEPT ![r] = Len(commits)]
             /\ Goto(r, "push")
             /\ merged' = (merged \/ commits[clone[r]] # Last(commits))
             /\ UNCHANGED <<serial, stale, recorded, settled>>
    <3>1. file' \in [Runs -> Files]
      BY <2>2, TypedFiles, MergedFiles DEF Types
    <3>2. QED
      BY <1>8, <2>2, <3>1, TypedFiles DEF Rebase, Goto, Types, Steps
  <2>3. QED
    BY <1>8, <2>1, <2>2 DEF Rebase
<1>9. ASSUME NEW r \in Runs, Push(r) PROVE Types'
  <2>1. /\ commits' \in Seq(Files) /\ Len(commits') > 0
        /\ Len(commits') >= Len(commits) /\ Len(commits') \in Nat
    <3>1. commits \in Seq(Files) /\ Len(commits) > 0 /\ Len(commits) \in Nat
      BY DEF Types
    <3>2. CASE commits' = commits
      BY <3>1, <3>2
    <3>3. CASE commits' = Append(commits, file[r])
      BY <3>1, <3>3, TypedFiles, Committed
    <3>4. QED
      BY <1>9, <3>2, <3>3 DEF Push
  <2>2. clone' \in [Runs -> 1..Len(commits')]
    BY <1>9, <2>1, TypedFiles DEF Push, Types
  <2>3. settled' \subseteq Entries
    BY <1>9 DEF Push, Types, Registries
  <2>4. QED
    BY <1>9, <2>1, <2>2, <2>3 DEF Push, Goto, Types, Steps, Ended
<1>10. ASSUME NEW r \in Runs, PushFails(r) PROVE Types'
  <2>1. pushes' \in [Runs -> 1..MaxPushes]
    BY <1>10, PublishingAssumption DEF PushFails, Types
  <2>2. QED
    BY <1>10, <2>1 DEF PushFails, Goto, Types, Steps, Ended
<1>11. ASSUME NEW r \in Runs, StepFails(r) PROVE Types'
  BY <1>11, AbandonTypes DEF StepFails, Types
<1>12. CASE UNCHANGED vars
  BY <1>12 DEF vars, jobVars, history, Types
<1>13. QED
  BY <1>1, <1>2, <1>3, <1>4, <1>5, <1>6, <1>7, <1>8, <1>9, <1>10, <1>11, <1>12
     DEF Next, Advance

-----------------------------------------------------------------------------
(* What the record holds.                                                  *)

\* The copies of other runs and what has been committed are left alone: each
\* step changes one copy at the most, and a push adds a commit at the most.
LEMMA StepShapes ==
    ASSUME Types, NEW r \in Runs, Advance(r) \/ StepFails(r)
    PROVE  /\ UNCHANGED request
           /\ \A q \in Runs \ {r} :
                 /\ pc'[q] = pc[q] /\ file'[q] = file[q] /\ clone'[q] = clone[q]
                 /\ plan'[q] = plan[q] /\ published'[q] = published[q]
           /\ \A q \in Runs : commits'[clone[q]] = commits[clone[q]]
           /\ \/ commits' = commits
              \/ Push(r) /\ commits' = Append(commits, file[r])
           /\ stale \subseteq stale'
           /\ merged => merged'
           /\ serial' => serial
<1> USE DEF Goto, Types
<1>1. CASE Fetch(r) BY <1>1 DEF Fetch
<1>2. CASE Pull(r) BY <1>2 DEF Pull
<1>3. CASE Resolve(r) BY <1>3 DEF Resolve, Abandon, history
<1>4. CASE PublishTag(r) BY <1>4 DEF PublishTag, history
<1>5. CASE PublishDone(r) BY <1>5 DEF PublishDone, history
<1>6. CASE Update(r) BY <1>6 DEF Update, history
<1>7. CASE Commit(r) BY <1>7 DEF Commit, Abandon, history
<1>8. CASE Rebase(r) BY <1>8 DEF Rebase, Abandon
<1>9. CASE Push(r)
  <2>1. CASE commits' = commits
    BY <1>9, <2>1 DEF Push
  <2>2. CASE commits' = Append(commits, file[r])
    <3>1. \A q \in Runs : commits'[clone[q]] = commits[clone[q]]
      BY <2>2, TypedFiles, Committed
    <3>2. QED
      BY <1>9, <2>2, <3>1 DEF Push
  <2>3. QED
    BY <1>9, <2>1, <2>2 DEF Push
<1>10. CASE PushFails(r) BY <1>10 DEF PushFails
<1>11. CASE StepFails(r) BY <1>11 DEF StepFails, Abandon
<1>12. QED
  BY <1>1, <1>2, <1>3, <1>4, <1>5, <1>6, <1>7, <1>8, <1>9, <1>10, <1>11
     DEF Advance

\* How a run gets its copy: from the record, by the update, or by a merge.
LEMMA CopyShapes ==
    ASSUME Types, NEW r \in Runs, Advance(r) \/ StepFails(r)
    PROVE  \/ Fetch(r) \/ Pull(r) \/ Update(r)
           \/ /\ Rebase(r) /\ pc'[r] = "push"
              /\ clone'[r] = Len(commits)
              /\ file'[r] = MergeFiles(commits[clone[r]], Last(commits), file[r])
              /\ merged' = (merged \/ commits[clone[r]] # Last(commits))
           \/ /\ file'[r] = file[r] /\ clone'[r] = clone[r]
              /\ \/ pc'[r] = pc[r] \/ pc'[r] \in Ended
                 \/ pc[r] = "resolve" /\ pc'[r] = "publish" /\ Accepts(r)
                 \/ pc[r] = "publish" /\ pc'[r] = "update"
                 \/ pc[r] = "commit" /\ pc'[r] = "rebase"
                 \/ pc[r] = "push" /\ pc'[r] = "rebase"
<1> USE DEF Goto, Types, Ended
<1>1. CASE Resolve(r) BY <1>1 DEF Resolve, Abandon
<1>2. CASE PublishTag(r) BY <1>2 DEF PublishTag
<1>3. CASE PublishDone(r) BY <1>3 DEF PublishDone
<1>4. CASE Commit(r) BY <1>4 DEF Commit, Abandon
<1>5. CASE Rebase(r) BY <1>5 DEF Rebase, Abandon
<1>6. CASE Push(r) BY <1>6 DEF Push
<1>7. CASE PushFails(r) BY <1>7 DEF PushFails
<1>8. CASE StepFails(r) BY <1>8 DEF StepFails, Abandon
<1>9. QED
  BY <1>1, <1>2, <1>3, <1>4, <1>5, <1>6, <1>7, <1>8 DEF Advance

\* Acceptance is a matter of the run's copy and its request.
LEMMA AcceptsStays ==
    ASSUME NEW r \in Runs, file'[r] = file[r], request'[r] = request[r]
    PROVE  Accepts(r)' <=> Accepts(r)
BY DEF Accepts, Requested

LEMMA ResolvingStep ==
    ASSUME Types, Resolving, NEW r \in Runs, Advance(r) \/ StepFails(r)
    PROVE  Resolving'
<1> SUFFICES ASSUME ~ merged'
             PROVE  /\ \A i \in DOMAIN commits' : AllResolve(commits'[i].channels)
                    /\ \A q \in Runs : AllResolve(file'[q].channels)
                    /\ \A q \in Runs :
                          pc'[q] \in {"publish", "update"} => Accepts(q)'
  BY DEF Resolving, AllResolve
<1>1. /\ \A i \in DOMAIN commits : AllResolve(commits[i].channels)
      /\ \A q \in Runs : AllResolve(file[q].channels)
      /\ \A q \in Runs : pc[q] \in {"publish", "update"} => Accepts(q)
  BY StepShapes DEF Resolving
<1>2. \A i \in DOMAIN commits' : AllResolve(commits'[i].channels)
  <2>1. CASE commits' = commits
    BY <1>1, <2>1
  <2>2. CASE commits' = Append(commits, file[r])
    <3>1. commits \in Seq(Files) /\ file[r] \in Files
      BY TypedFiles DEF Types
    <3>2. commits'[Len(commits) + 1] = file[r]
      BY <2>2, <3>1
    <3>3. QED
      BY <1>1, <2>2, <3>1, <3>2, Committed
  <2>3. QED
    BY <2>1, <2>2, StepShapes
<1>3. /\ AllResolve(file'[r].channels)
      /\ pc'[r] \in {"publish", "update"} => Accepts(r)'
  <2>1. CASE Fetch(r)
    <3>1. file'[r] = Last(commits) /\ pc'[r] = "pull"
      BY <2>1 DEF Fetch, Goto, Types
    <3>2. Last(commits) = commits[Len(commits)] /\ Len(commits) \in DOMAIN commits
      BY DEF Types, Last
    <3>3. QED
      BY <1>1, <3>1, <3>2
  <2>2. CASE Pull(r)
    BY <1>1, <2>2 DEF Pull, Goto, Types
  <2>3. CASE Update(r)
    <3>1. file'[r] = Requested(r) /\ pc'[r] = "commit" /\ Accepts(r)
      BY <1>1, <2>3 DEF Update, Goto, Types
    <3>2. /\ IsMapping(file[r].channels) /\ IsMapping(request[r].channels)
          /\ \A c \in DOMAIN file[r].channels : Resolves(file[r].channels, c)
      BY <1>1, TypedFiles, FilesAreFiles DEF AllResolve
    <3>3. /\ Requested(r).channels = Overlay(file[r].channels, request[r].channels)
          /\ ValidRequest(Overlay(file[r].channels, request[r].channels),
                          request[r].channels)
      BY <3>1 DEF Accepts, Requested
    <3>4. AllResolve(Requested(r).channels)
      BY <3>2, <3>3, RequestKeepsResolving DEF AllResolve
    <3>5. QED
      BY <3>1, <3>4
  <2>4. CASE /\ Rebase(r) /\ pc'[r] = "push"
             /\ file'[r] = MergeFiles(commits[clone[r]], Last(commits), file[r])
             /\ merged' = (merged \/ commits[clone[r]] # Last(commits))
    <3>1. file'[r] = file[r]
      BY <2>4, TypedFiles, MergedFiles
    <3>2. QED
      BY <1>1, <2>4, <3>1
  <2>5. CASE /\ file'[r] = file[r]
             /\ \/ pc'[r] = pc[r] \/ pc'[r] \in Ended
                \/ pc[r] = "resolve" /\ pc'[r] = "publish" /\ Accepts(r)
                \/ pc[r] = "publish" /\ pc'[r] = "update"
                \/ pc[r] = "commit" /\ pc'[r] = "rebase"
                \/ pc[r] = "push" /\ pc'[r] = "rebase"
    BY <1>1, <2>5, AcceptsStays, StepShapes DEF Ended
  <2>6. QED
    BY <2>1, <2>2, <2>3, <2>4, <2>5, CopyShapes
<1>4. QED
  BY <1>1, <1>2, <1>3, AcceptsStays, StepShapes

\* A dictionary laid over another one touches no key but its own.
LEMMA OverlaySame ==
    ASSUME NEW m, NEW p, NEW c, c \notin DOMAIN p
    PROVE  At(Overlay(m, p), c) = At(m, c)
BY DEF At, Overlay

LEMMA DifferingStep ==
    ASSUME Types, Differing, NEW r \in Runs, Advance(r) \/ StepFails(r)
    PROVE  Differing'
<1> DEFINE Late == {"resolve", "publish", "update", "commit", "rebase", "push"}
<1>1. ASSUME NEW q \in Runs \ {r}
      PROVE  /\ pc'[q] = "pull" => file'[q] = commits'[clone'[q]]
             /\ pc'[q] \in Late /\ q \notin stale'
                   => SameBut(request'[q], file'[q], commits'[clone'[q]])
  <2>1. /\ pc'[q] = pc[q] /\ file'[q] = file[q] /\ clone'[q] = clone[q]
        /\ request' = request /\ stale \subseteq stale'
        /\ commits'[clone[q]] = commits[clone[q]]
    BY StepShapes
  <2>2. QED
    BY <2>1 DEF Differing
<1>2. /\ pc'[r] = "pull" => file'[r] = commits'[clone'[r]]
      /\ pc'[r] \in Late /\ r \notin stale'
            => SameBut(request'[r], file'[r], commits'[clone'[r]])
  <2>1. CASE Fetch(r)
    BY <2>1 DEF Fetch, Goto, Types, Last
  <2>2. CASE Pull(r)
    <3>1. /\ file'[r] = file[r] /\ clone'[r] = Len(commits) /\ commits' = commits
          /\ pc[r] = "pull" /\ pc'[r] = "resolve"
          /\ r \notin stale' => clone[r] = Len(commits)
      BY <2>2 DEF Pull, Goto, Types
    <3>2. QED
      BY <3>1 DEF Differing, SameBut
  <2>3. CASE Update(r)
    <3>1. /\ file'[r] = Requested(r) /\ clone' = clone /\ commits' = commits
          /\ pc[r] = "update" /\ pc'[r] = "commit"
          /\ stale' = stale /\ request' = request
      BY <2>3 DEF Update, Goto, Types, history
    <3>2. \A c \in Channels \ DOMAIN request[r].channels :
              At(Requested(r).channels, c) = At(file[r].channels, c)
      BY OverlaySame DEF Requested
    <3>3. QED
      BY <3>1, <3>2 DEF Differing, SameBut
  <2>4. CASE /\ Rebase(r) /\ pc'[r] = "push"
             /\ clone'[r] = Len(commits)
             /\ file'[r] = MergeFiles(commits[clone[r]], Last(commits), file[r])
    <3>1. commits' = commits /\ stale' = stale /\ pc[r] = "rebase" /\ request' = request
      BY <2>4 DEF Rebase, Abandon
    <3>2. \A k : At(file[r].channels, k) = At(commits[clone[r]].channels, k) =>
                 At(file'[r].channels, k) = At(Last(commits).channels, k)
      <4> DEFINE n == MergeFiles(commits[clone[r]], Last(commits), file[r])
      <4>1. \A k : At(file[r].channels, k) = At(commits[clone[r]].channels, k) =>
                 At(n.channels, k) = At(Last(commits).channels, k)
        BY TypedFiles, MergedFiles
      <4>2. file'[r] = n
        BY <2>4
      <4> HIDE DEF n
      <4>3. QED
        BY <4>1, <4>2
    <3>3. commits'[clone'[r]] = Last(commits)
      BY <2>4, <3>1 DEF Last
    <3>4. QED
      BY <2>4, <3>1, <3>2, <3>3 DEF Differing, SameBut
  <2>5. CASE /\ file'[r] = file[r] /\ clone'[r] = clone[r]
             /\ \/ pc'[r] = pc[r] \/ pc'[r] \in Ended
                \/ pc[r] = "resolve" /\ pc'[r] = "publish" /\ Accepts(r)
                \/ pc[r] = "publish" /\ pc'[r] = "update"
                \/ pc[r] = "commit" /\ pc'[r] = "rebase"
                \/ pc[r] = "push" /\ pc'[r] = "rebase"
    BY <2>5, StepShapes DEF Differing, Ended
  <2>6. QED
    BY <2>1, <2>2, <2>3, <2>4, <2>5, CopyShapes
<1>3. QED
  BY <1>1, <1>2 DEF Differing

-----------------------------------------------------------------------------
(* One release after the other.                                            *)

\* A run that is not under way disturbs the one that is only by starting.
LEMMA SerialOthers ==
    ASSUME Types, Serial, NEW r \in Runs, Advance(r) \/ StepFails(r),
           ~ Active(r), serial'
    PROVE  Serial'
<1>1. serial /\ (\A q \in Runs \ {r} : pc'[q] = pc[q]) /\ request' = request
  BY StepShapes
<1>2. CASE Fetch(r)
  <2>1. /\ \A q \in Runs : ~ Active(q)
        /\ commits' = commits /\ registry' = registry /\ settled' = settled
        /\ file'[r] = Last(commits) /\ clone'[r] = Len(commits)
        /\ pc'[r] = "pull" /\ published'[r] = {} /\ plan' = plan
    BY <1>2 DEF Fetch, Goto, Types
  <2>2. \A reg \in Registries : registry[reg] = settled
    BY <1>1, <2>1 DEF Serial
  <2>3. \A q \in Runs : Active(q)' => q = r
    BY <1>1, <2>1 DEF Active
  <2>4. \A reg \in Registries : Moved(r, reg)' = {}
    BY <2>1 DEF Moved
  <2>5. Retag(settled, {}) = settled
    BY DEF Retag
  <2>6. Alone(r)'
    BY <2>1, <2>2, <2>3, <2>4, <2>5 DEF Alone
  <2>7. Active(r)'
    BY <2>1 DEF Active, Ended
  <2>8. QED
    BY <2>3, <2>6, <2>7 DEF Serial
<1>3. CASE StepFails(r) /\ pc[r] = "fetch"
  <2>1. /\ commits' = commits /\ registry' = registry /\ settled' = settled
        /\ file' = file /\ clone' = clone /\ plan' = plan /\ published' = published
        /\ pc'[r] = "failed"
    BY <1>3 DEF StepFails, Abandon, Goto, Types
  <2>2. \A q \in Runs : Active(q)' <=> Active(q)
    BY <1>1, <1>3, <2>1 DEF Active, Ended
  <2>3. ASSUME NEW q \in Runs, Active(q) PROVE Alone(q)'
    <3>1. Alone(q) /\ pc'[q] = pc[q]
      BY <1>1, <1>3, <2>3 DEF Serial, Active
    <3>2. QED
      BY <1>1, <2>1, <2>2, <3>1 DEF Alone, Planned, Outcome, Moved
  <2>4. QED
    BY <1>1, <2>1, <2>2, <2>3 DEF Serial
<1>4. QED
  <2>1. pc[r] \in {"fetch"} \cup Ended
    BY DEF Active
  <2>2. Fetch(r) \/ (StepFails(r) /\ pc[r] = "fetch")
    BY <2>1 DEF Advance, StepFails, Pull, Resolve, PublishTag, PublishDone,
                Update, Commit, Rebase, Push, PushFails, Ended
  <2>3. QED
    BY <1>2, <1>3, <2>2

\* The one run that is under way keeps to itself, or ends and leaves the
\* registries as the last release has left them.
LEMMA SerialAlone ==
    ASSUME Types, NEW r \in Runs, Advance(r) \/ StepFails(r),
           Active(r), Alone(r), serial'
    PROVE  IF Active(r)' THEN Alone(r)'
           ELSE \A reg \in Registries : registry'[reg] = settled'
<1>1. /\ \A q \in Runs \ {r} : pc'[q] = pc[q]
      /\ request' = request /\ clone[r] = Len(commits)
  BY StepShapes DEF Alone
<1>2. \A q \in Runs : Active(q)' => q = r
  BY <1>1 DEF Alone, Active
<1>3. Retag(settled, {}) = settled
  BY DEF Retag
<1>4. ASSUME Abandon(r), registry' = registry
      PROVE  ~ Active(r)' /\ \A reg \in Registries : registry'[reg] = settled'
  <2>1. published[r] = {} /\ settled' = settled /\ pc'[r] = "failed"
    BY <1>4 DEF Abandon, Goto, Types
  <2>2. \A reg \in Registries : Moved(r, reg) = {}
    BY <2>1 DEF Moved
  <2>3. QED
    BY <1>3, <1>4, <2>1, <2>2 DEF Alone, Active, Ended
<1>5. ASSUME commits' = commits, registry' = registry, settled' = settled,
             plan'[r] = plan[r], published'[r] = published[r]
      PROVE  /\ \A reg \in Registries :
                    registry'[reg] = Retag(settled', Moved(r, reg)')
             /\ Outcome(r)' = Outcome(r)
             /\ Planned(r)' <=> Planned(r)
  BY <1>1, <1>5 DEF Alone, Planned, Outcome, Moved
<1>6. CASE Pull(r)
  <2>1. /\ commits' = commits /\ registry' = registry /\ settled' = settled
        /\ plan' = plan /\ published' = published /\ file' = file
        /\ clone'[r] = Len(commits) /\ pc[r] = "pull" /\ pc'[r] = "resolve"
    BY <1>6 DEF Pull, Goto, Types
  <2>2. Alone(r)'
    <3>1. /\ \A reg \in Registries :
                 registry'[reg] = Retag(settled', Moved(r, reg)')
          /\ Outcome(r)' = Outcome(r)
          /\ Planned(r)' <=> Planned(r)
      BY <1>5, <2>1
    <3>2. QED
      BY <1>2, <2>1, <3>1 DEF Alone
  <2>3. QED
    BY <2>1, <2>2 DEF Active, Ended
<1>7. CASE Resolve(r)
  <2>1. CASE Accepts(r)
    <3>1. /\ commits' = commits /\ registry' = registry /\ settled' = settled
          /\ published' = published /\ file' = file /\ clone' = clone
          /\ pc[r] = "resolve" /\ pc'[r] = "publish"
          /\ plan'[r] = TagsToRelease(Requested(r).channels, Requested(r).eol,
                                      Now, request[r].channels)
      BY <1>7, <2>1 DEF Resolve, Goto, Types, history
    <3>2. file[r] = Last(commits) /\ published[r] = {}
      BY <3>1 DEF Alone, Types
    <3>3. Requested(r) = Outcome(r) /\ Outcome(r)' = Outcome(r)
      BY <1>1, <3>1, <3>2 DEF Requested, Outcome
    <3>4. Planned(r)'
      BY <1>1, <2>1, <3>1, <3>3 DEF Planned, Accepts
    <3>5. \A reg \in Registries : Moved(r, reg) = {} /\ Moved(r, reg)' = {}
      BY <3>1, <3>2 DEF Moved
    <3>6. Alone(r)'
      BY <1>1, <1>2, <3>1, <3>2, <3>4, <3>5 DEF Alone
    <3>7. QED
      BY <3>1, <3>6 DEF Active, Ended
  <2>2. CASE ~ Accepts(r)
    BY <1>4, <1>7, <2>2 DEF Resolve
  <2>3. QED
    BY <2>1, <2>2
<1>8. CASE PublishTag(r)
  <2>1. PICK reg \in Registries, e \in plan[r] :
            /\ Turn(r, reg, e)
            /\ registry' = [registry EXCEPT ![reg] = Retag(@, {e})]
            /\ published' = [published EXCEPT ![r] = @ \cup {<<reg, e>>}]
    BY <1>8 DEF PublishTag
  <2>2. /\ commits' = commits /\ settled' = settled /\ plan' = plan
        /\ file' = file /\ clone' = clone
        /\ pc[r] = "publish" /\ pc'[r] = "publish"
    BY <1>8 DEF PublishTag, history
  <2>3. /\ Moved(r, reg)' = Moved(r, reg) \cup {e} /\ e \notin Moved(r, reg)
        /\ \A g \in Registries \ {reg} : Moved(r, g)' = Moved(r, g)
    BY <2>1, <2>2 DEF Moved, Types, Turn
  <2>4. OneRevisionPerTag(Moved(r, reg) \cup {e})
    BY <2>1 DEF Moved, Types, OneRevisionPerTag
  <2>5. registry'[reg] = Retag(settled, Moved(r, reg)')
    <3>1. registry'[reg] = Retag(Retag(settled, Moved(r, reg)), {e})
      BY <2>1 DEF Alone, Types
    <3>2. QED
      BY <2>3, <2>4, <3>1, RetagOneMore
  <2>6. \A g \in Registries \ {reg} : registry'[g] = Retag(settled, Moved(r, g)')
    BY <2>1, <2>3 DEF Alone, Types
  <2>7. Planned(r)'
    BY <1>1, <2>2 DEF Alone, Planned, Outcome
  <2>8. Alone(r)'
    BY <1>1, <1>2, <2>2, <2>5, <2>6, <2>7 DEF Alone
  <2>9. QED
    BY <2>2, <2>8 DEF Active, Ended
<1>9. CASE PublishDone(r)
  <2>1. /\ commits' = commits /\ registry' = registry /\ settled' = settled
        /\ plan' = plan /\ published' = published /\ file' = file /\ clone' = clone
        /\ pc[r] = "publish" /\ pc'[r] = "update"
        /\ published[r] = Registries \X plan[r]
    BY <1>9 DEF PublishDone, Goto, Types, history
  <2>2. Alone(r)'
    <3>1. /\ \A reg \in Registries :
                 registry'[reg] = Retag(settled', Moved(r, reg)')
          /\ Outcome(r)' = Outcome(r)
          /\ Planned(r)' <=> Planned(r)
      BY <1>5, <2>1
    <3>2. QED
      BY <1>2, <2>1, <3>1 DEF Alone
  <2>3. QED
    BY <2>1, <2>2 DEF Active, Ended
<1>10. CASE Update(r)
  <2>1. /\ commits' = commits /\ registry' = registry /\ settled' = settled
        /\ plan' = plan /\ published' = published /\ clone' = clone
        /\ pc[r] = "update" /\ pc'[r] = "commit" /\ file'[r] = Requested(r)
    BY <1>10 DEF Update, Goto, Types, history
  <2>2. Requested(r) = Outcome(r)
    BY <2>1 DEF Alone, Requested, Outcome
  <2>3. Alone(r)'
    <3>1. /\ \A reg \in Registries :
                 registry'[reg] = Retag(settled', Moved(r, reg)')
          /\ Outcome(r)' = Outcome(r)
          /\ Planned(r)' <=> Planned(r)
      BY <1>5, <2>1, <2>2
    <3>2. QED
      BY <1>2, <2>1, <2>2, <3>1 DEF Alone
  <2>4. QED
    BY <2>1, <2>3 DEF Active, Ended
<1>11. CASE Commit(r)
  <2>1. CASE Abandon(r)
    BY <1>4, <1>11, <2>1 DEF Commit
  <2>2. CASE Goto(r, "rebase") /\ UNCHANGED history
    <3>1. /\ commits' = commits /\ registry' = registry /\ settled' = settled
          /\ plan' = plan /\ published' = published /\ clone' = clone
          /\ file' = file /\ pc[r] = "commit" /\ pc'[r] = "rebase"
      BY <1>11, <2>2 DEF Commit, Goto, Types, history
    <3>2. Alone(r)'
      <4>1. /\ \A reg \in Registries :
                   registry'[reg] = Retag(settled', Moved(r, reg)')
            /\ Outcome(r)' = Outcome(r)
            /\ Planned(r)' <=> Planned(r)
        BY <1>5, <3>1
      <4>2. QED
        BY <1>2, <3>1, <4>1 DEF Alone
    <3>3. QED
      BY <3>1, <3>2 DEF Active, Ended
  <2>3. QED
    BY <1>11, <2>1, <2>2 DEF Commit
<1>12. CASE Rebase(r)
  <2>1. commits[clone[r]] = Last(commits)
    BY <1>1 DEF Last
  <2>2. /\ commits' = commits /\ registry' = registry /\ settled' = settled
        /\ plan' = plan /\ published' = published
        /\ clone'[r] = Len(commits) /\ pc[r] = "rebase" /\ pc'[r] = "push"
        /\ file'[r] = MergeFiles(commits[clone[r]], Last(commits), file[r])
    BY <1>12, <2>1 DEF Rebase, Goto, Types
  <2>3. file'[r] = file[r]
    BY <2>1, <2>2, TypedFiles, MergedFiles
  <2>4. Alone(r)'
    <3>1. /\ \A reg \in Registries :
                 registry'[reg] = Retag(settled', Moved(r, reg)')
          /\ Outcome(r)' = Outcome(r)
          /\ Planned(r)' <=> Planned(r)
      BY <1>5, <2>2, <2>3
    <3>2. QED
      BY <1>2, <2>2, <2>3, <3>1 DEF Alone
  <2>5. QED
    BY <2>2, <2>4 DEF Active, Ended
<1>13. CASE Push(r)
  <2>1. /\ registry' = registry /\ settled' = registry["dockerhub"]
        /\ pc[r] = "push" /\ pc'[r] = "done"
    BY <1>13 DEF Push, Goto, Types
  <2>2. \A reg \in Registries : Moved(r, reg) = plan[r]
    BY <2>1 DEF Alone, Moved
  <2>3. QED
    BY <2>1, <2>2 DEF Alone, Active, Ended, Registries
<1>14. CASE PushFails(r)
  <2>1. /\ commits' = commits /\ registry' = registry /\ settled' = settled
        /\ plan' = plan /\ published' = published /\ clone' = clone
        /\ file' = file /\ pc[r] = "push" /\ pc'[r] = "rebase"
    BY <1>14 DEF PushFails, Goto, Types
  <2>2. Alone(r)'
    <3>1. /\ \A reg \in Registries :
                 registry'[reg] = Retag(settled', Moved(r, reg)')
          /\ Outcome(r)' = Outcome(r)
          /\ Planned(r)' <=> Planned(r)
      BY <1>5, <2>1
    <3>2. QED
      BY <1>2, <2>1, <3>1 DEF Alone
  <2>3. QED
    BY <2>1, <2>2 DEF Active, Ended
<1>15. CASE StepFails(r)
  BY <1>4, <1>15 DEF StepFails
<1>16. QED
  <2>1. ~ Fetch(r)
    BY DEF Fetch, Active
  <2>2. QED
    BY <1>6, <1>7, <1>8, <1>9, <1>10, <1>11, <1>12, <1>13, <1>14, <1>15, <2>1
       DEF Advance

LEMMA SerialStep ==
    ASSUME Types, Serial, NEW r \in Runs, Advance(r) \/ StepFails(r)
    PROVE  Serial'
<1> SUFFICES ASSUME serial' PROVE Serial'
  BY DEF Serial
<1>1. CASE ~ Active(r)
  BY <1>1, SerialOthers
<1>2. CASE Active(r)
  <2>1. Alone(r) /\ (\A q \in Runs \ {r} : pc'[q] = pc[q])
    BY <1>2, StepShapes DEF Serial
  <2>2. \A q \in Runs : Active(q)' => q = r
    BY <2>1 DEF Alone, Active
  <2>3. QED
    BY <1>2, <2>1, <2>2, SerialAlone DEF Serial
<1>3. QED
  BY <1>1, <1>2

-----------------------------------------------------------------------------
(* The theorems.                                                           *)

\* The inductive invariant of concurrent runs: types, accepted copies, what
\* a copy differs in from its commit, and what a run alone leaves behind.
THEOREM Invariant == Spec => []IInv
<1>1. Init => IInv
  <2> SUFFICES ASSUME Init PROVE IInv
    OBVIOUS
  <2>1. Types
    BY TypesInit
  <2>2. Resolving
    <3>1. /\ Len(commits) = 1 /\ commits[1] = NoReleases
          /\ DOMAIN commits = {1} /\ DOMAIN NoReleases.channels = {}
      BY DEF Init, NoReleases
    <3>2. QED
      BY <3>1 DEF Init, Resolving, AllResolve
  <2>3. Differing
    BY DEF Init, Differing
  <2>4. Serial
    <3>1. \A r \in Runs : ~ Active(r)
      BY DEF Init, Active
    <3>2. QED
      BY <3>1 DEF Init, Serial
  <2>5. QED
    BY <2>1, <2>2, <2>3, <2>4 DEF IInv
<1>2. IInv /\ [Next]_vars => IInv'
  <2> SUFFICES ASSUME IInv, [Next]_vars PROVE IInv'
    OBVIOUS
  <2>1. Types'
    BY TypesStep DEF IInv
  <2>2. CASE Next
    <3>1. PICK r \in Runs : Advance(r) \/ StepFails(r)
      BY <2>2 DEF Next
    <3>2. QED
      BY <2>1, <3>1, ResolvingStep, DifferingStep, SerialStep DEF IInv
  <2>3. CASE UNCHANGED vars
    <3>1. Resolving'
      BY <2>3 DEF IInv, vars, jobVars, history, Resolving, AllResolve, Accepts,
                  Requested
    <3>2. Differing'
      BY <2>3 DEF IInv, vars, jobVars, history, Differing, SameBut
    <3>3. Serial'
      BY <2>3 DEF IInv, vars, jobVars, history, Serial, Active, Alone, Planned,
                  Outcome, Moved
    <3>4. QED
      BY <2>1, <3>1, <3>2, <3>3 DEF IInv
  <2>4. QED
    BY <2>2, <2>3
<1>3. QED
  BY <1>1, <1>2, PTL DEF Spec

\* Record, registries and runs are well typed, and no registry has a tag
\* twice, whoever publishes at the same time.
THEOREM PublishingTypeCorrect == Spec => []PublishingTypeOK
<1>1. IInv => PublishingTypeOK
  <2> SUFFICES ASSUME Types PROVE PublishingTypeOK
    BY DEF IInv
  <2>1. /\ \A i \in DOMAIN commits : IsFile(commits[i])
        /\ \A r \in Runs : IsFile(file[r])
    BY FilesAreFiles DEF Types
  <2>2. \A reg \in Registries : \A e, f \in registry[reg] : e.tag = f.tag => e = f
    BY DEF Types, OneRevisionPerTag
  <2>3. QED
    BY <2>1, <2>2 DEF Types, PublishingTypeOK
<1>2. QED
  BY <1>1, Invariant, PTL

\* Every channel that was ever recorded stands for a revision that exists,
\* whatever failed and overwrote what, unless git has merged two releases.
THEOREM RecordResolves == Spec => []RecordedChannelsResolve
<1>1. IInv => RecordedChannelsResolve
  BY DEF IInv, Resolving, AllResolve, RecordedChannelsResolve
<1>2. QED
  BY <1>1, Invariant, PTL

\* Whole releases one after the other leave Docker Hub and ECR the same.
THEOREM RegistriesAgreeBetween == Spec => []RegistriesAgree
<1>1. IInv => RegistriesAgree
  BY DEF IInv, Serial, RegistriesAgree, Registries
<1>2. QED
  BY <1>1, Invariant, PTL

\* A push changes the channels of its run's request only, unless the run had
\* its copy from before the commit it builds upon.
THEOREM OthersChannelsStay == Spec => OnlyRequestedChannelsChange
<1> DEFINE Keeps ==
      \A r \in Runs \ stale :
          Push(r) => \A c \in Channels \ DOMAIN request[r].channels :
              At(Last(commits)'.channels, c) = At(Last(commits).channels, c)
<1>1. IInv => [Keeps]_vars
  <2> SUFFICES ASSUME IInv, NEW r \in Runs \ stale, Push(r),
                      NEW c \in Channels \ DOMAIN request[r].channels
               PROVE  At(Last(commits)'.channels, c) = At(Last(commits).channels, c)
    OBVIOUS
  <2>1. Types /\ Differing /\ pc[r] = "push" /\ clone[r] = Len(commits)
    BY DEF IInv, Push
  <2>2. At(file[r].channels, c) = At(Last(commits).channels, c)
    BY <2>1 DEF Differing, SameBut, Last
  <2>3. CASE commits' = commits
    BY <2>3 DEF Last
  <2>4. CASE commits' = Append(commits, file[r])
    <3>1. Last(commits)' = file[r]
      <4>1. commits \in Seq(Files) /\ file[r] \in Files
        BY <2>1, TypedFiles DEF Types
      <4>2. Last(commits') = file[r]
        BY <2>4, <4>1, Committed
      <4>3. QED
        BY <4>2 DEF Last
    <3>2. QED
      BY <2>2, <3>1
  <2>5. QED
    BY <2>3, <2>4 DEF Push
<1>2. QED
  BY <1>1, Invariant, PTL DEF Spec, OnlyRequestedChannelsChange

-----------------------------------------------------------------------------
(* Releases that come one after the other are those of ReleaseBoard.       *)

\* What the board computes is what a run computes.
LEMMA BoardComputesTheSame ==
    ASSUME NEW m, NEW e, NEW day, NEW p, NEW old, NEW moved
    PROVE  /\ Board!Overlay(m, p) = Overlay(m, p)
           /\ Board!TracksOf(p) = TracksOf(p)
           /\ Board!ValidRequest(m, p) <=> ValidRequest(m, p)
           /\ Board!AliasingFails(m, e, day, p) <=> AliasingFails(m, e, day, p)
           /\ Board!TagsToRelease(m, e, day, p) = TagsToRelease(m, e, day, p)
           /\ Board!Retag(old, moved) = Retag(old, moved)
<1>1. \A t : Board!Followed(m, t) = Followed(m, t)
  BY DEF Board!Followed, Followed, Board!FollowClosed, FollowClosed
<1>2. \A t : Board!Ends(m, t) = Ends(m, t)
  BY <1>1 DEF Board!Ends, Ends
<1>3. \A t : Board!Resolves(m, t) <=> Resolves(m, t)
  BY <1>2 DEF Board!Resolves, Resolves
<1>4. \A t : Board!RevisionOf(m, t) = RevisionOf(m, t)
  BY <1>2 DEF Board!RevisionOf, RevisionOf
<1>5. \A c : Board!PastEndOfLife(e, day, c) <=> PastEndOfLife(e, day, c)
  BY DEF Board!PastEndOfLife, PastEndOfLife
<1>6. Board!Removed(m, e, day, p) = Removed(m, e, day, p)
  BY <1>1, <1>5 DEF Board!Removed, Removed
<1>7. \A c : Board!TagOf(c) = TagOf(c) /\ Board!StableAlias(c) = StableAlias(c)
  BY DEF Board!TagOf, TagOf, Board!StableAlias, StableAlias
<1>8. Board!TagsToRelease(m, e, day, p) = TagsToRelease(m, e, day, p)
  BY <1>4, <1>6, <1>7 DEF Board!TagsToRelease, TagsToRelease
<1>9. /\ Board!ValidRequest(m, p) <=> ValidRequest(m, p)
      /\ Board!AliasingFails(m, e, day, p) <=> AliasingFails(m, e, day, p)
  BY <1>3, <1>6 DEF Board!ValidRequest, ValidRequest, Board!AliasingFails,
                    AliasingFails
<1>10. /\ Board!Overlay(m, p) = Overlay(m, p)
       /\ Board!TracksOf(p) = TracksOf(p)
       /\ Board!Retag(old, moved) = Retag(old, moved)
  BY DEF Board!Overlay, Overlay, Board!TracksOf, TracksOf, Board!Retag, Retag
<1>11. QED
  BY <1>8, <1>9, <1>10

\* The push of a run that was alone is a release of the board: the record is
\* overlaid with a valid request, and the tags both registries have got by
\* then are the ones that the board moves.
LEMMA PushIsRelease ==
    ASSUME IInv, NEW r \in Runs, Push(r), serial'
    PROVE  Board!BoardNext
<1> DEFINE q == request[r]
           m == Overlay(Last(commits).channels, q.channels)
           d == Overlay(Last(commits).eol, q.eol)
<1>1. /\ Types /\ serial /\ Active(r) /\ Alone(r) /\ pc[r] = "push"
  BY DEF IInv, Push, Serial, Active, Ended
<1>2. /\ file[r] = [channels |-> m, eol |-> d]
      /\ ValidRequest(m, q.channels) /\ ~ AliasingFails(m, d, Now, q.channels)
      /\ plan[r] = TagsToRelease(m, d, Now, q.channels)
  BY <1>1 DEF Alone, Planned, Outcome
<1>3. Last(commits)' = file[r]
  <2>1. commits \in Seq(Files) /\ file[r] \in Files
    BY <1>1, TypedFiles DEF Types
  <2>2. CASE file[r] = Last(commits)
    BY <2>2 DEF Push, Last
  <2>3. CASE file[r] # Last(commits)
    <3>1. commits' = Append(commits, file[r])
      BY <2>3 DEF Push
    <3>2. Last(commits') = file[r]
      BY <2>1, <3>1, Committed
    <3>3. QED
      BY <3>2 DEF Last
  <2>4. QED
    BY <2>2, <2>3
<1>4. settled' = Retag(settled, plan[r])
  <2>1. Moved(r, "dockerhub") = plan[r]
    BY <1>1 DEF Alone, Moved, Registries
  <2>2. QED
    BY <1>1, <2>1 DEF Push, Alone, Registries
<1>5. /\ q \in Requests
      /\ q.eol \in [TracksOf(q.channels) ->
                       UNION {{x.eol[t] : t \in DOMAIN x.eol} : x \in Requests}]
  BY <1>1, PublishingAssumption DEF Types
<1> HIDE DEF q, m, d
<1>6. Board!Release(q.channels, q.eol)
  <2>1. /\ Last(commits)'.channels = m /\ Last(commits)'.eol = d
        /\ settled' = Retag(settled, TagsToRelease(m, d, Now, q.channels))
    BY <1>2, <1>3, <1>4
  <2>2. /\ Board!Overlay(Last(commits).channels, q.channels) = m
        /\ Board!Overlay(Last(commits).eol, q.eol) = d
    BY BoardComputesTheSame DEF m, d
  <2>3. QED
    BY <1>2, <2>1, <2>2, BoardComputesTheSame
      DEF Board!Release, Board!Accepted
<1>7. q.eol \in [Board!TracksOf(q.channels) ->
                    UNION {{x.eol[t] : t \in DOMAIN x.eol} : x \in Requests}]
  BY <1>5, BoardComputesTheSame
<1>8. QED
  BY <1>5, <1>6, <1>7 DEF Board!BoardNext

\* Releases one after the other, each whole, implement ReleaseBoard: a step
\* is a release of the board or leaves its record and its tags alone.
THEOREM ImplementsBoard == Spec => SerialReleases
<1>1. Init => Board!BoardInit
  <2> SUFFICES ASSUME Init PROVE Board!BoardInit
    OBVIOUS
  <2>1. /\ Last(commits) = NoReleases /\ settled = {}
        /\ Now \in 0..Now
    BY PublishingAssumption DEF Init, Last
  <2>2. QED
    BY <2>1 DEF Board!BoardInit, NoReleases
<1>2. IInv /\ [Next]_vars => [serial' => Board!BoardNext]_(Board!boardVars)
  <2> SUFFICES ASSUME IInv, [Next]_vars, serial'
               PROVE  Board!BoardNext \/ UNCHANGED (Board!boardVars)
    OBVIOUS
  <2>1. CASE \E r \in Runs : Push(r)
    BY <2>1, PushIsRelease
  <2>2. CASE commits' = commits /\ settled' = settled
    BY <2>2 DEF Board!boardVars, Last
  <2>3. ASSUME NEW r \in Runs, Advance(r) \/ StepFails(r), ~ Push(r)
        PROVE  commits' = commits /\ settled' = settled
    BY <2>3 DEF Advance, StepFails, Fetch, Pull, Resolve, PublishTag,
                PublishDone, Update, Commit, Rebase, PushFails, Abandon, history
  <2>4. CASE UNCHANGED vars
    BY <2>2, <2>4 DEF vars, history
  <2>5. QED
    BY <2>1, <2>2, <2>3, <2>4 DEF Next
<1>3. QED
  BY <1>1, <1>2, Invariant, PTL DEF Spec, SerialReleases
=============================================================================

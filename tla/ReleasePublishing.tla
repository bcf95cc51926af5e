-------------------------- MODULE ReleasePublishing --------------------------
(***************************************************************************)
(* Concurrent runs of Release.yaml for ONE image.  Each takes a copy of    *)
(* the image's _releases.json, publishes the tags of its request to Docker *)
(* Hub and ECR one by one, and only then records the release in a commit   *)
(* on the _releases branch.  No lock and no concurrency group orders them. *)
(***************************************************************************)
EXTENDS ReleaseTags, Sequences

CONSTANTS
    Runs,       \* runs of the do-releases job
    Requests,   \* [channels, eol]: release sections of image.yaml
    Now,        \* the day of all of them
    MaxPushes   \* attempts to push the commit (10 in commit-releases-json)

ASSUME PublishingAssumption ==
    /\ \A q \in Requests : IsMapping(q.channels)
    /\ \A q \in Requests : q.eol \in [TracksOf(q.channels) -> Nat]
    /\ Now \in Nat
    /\ MaxPushes \in Nat \ {0}

VARIABLES
    commits,    \* what _releases.json was in each commit of the branch
    registry,   \* per registry, its [tag, rev] pairs
    request,    \* per run, the request it serves
    pc,         \* per run, the step it is in
    clone,      \* per run, the commit its clone of the branch is at
    file,       \* per run, its copy of _releases.json
    plan,       \* per run, the [tag, rev] pairs it releases
    published,  \* per run, the <<registry, [tag, rev]>> it has done
    pushes      \* per run, the attempts to push that it has left

\* History: have releases come one after the other and whole, which runs
\* took their copy before the commit they built upon, have concurrent
\* changes been merged, which runs have their release on the branch; and the
\* tags at the end of the last release.
VARIABLES serial, stale, merged, recorded, settled

jobVars == <<request, pc, clone, file, plan, published, pushes>>
history == <<serial, stale, merged, recorded, settled>>
vars == <<commits, registry, jobVars, history>>

Registries == {"dockerhub", "ecr"}
Ended == {"done", "failed"}
Steps == {"fetch", "pull", "resolve", "publish", "update", "commit",
          "rebase", "push"} \cup Ended

Entries == [tag : OciTags, rev : Listed]
IsFile(f) ==
    /\ DOMAIN f = {"channels", "eol"}
    /\ IsMapping(f.channels)
    /\ DOMAIN f.eol \subseteq Tracks /\ f.eol \in [DOMAIN f.eol -> Nat]

Last(s) == s[Len(s)]
NoReleases == [channels |-> [c \in {} |-> c], eol |-> [t \in {} |-> 0]]

PublishingTypeOK ==
    /\ Len(commits) > 0 /\ \A i \in DOMAIN commits : IsFile(commits[i])
    /\ registry \in [Registries -> SUBSET Entries]
    /\ \A reg \in Registries : \A e, f \in registry[reg] : e.tag = f.tag => e = f
    /\ request \in [Runs -> Requests]
    /\ pc \in [Runs -> Steps]
    /\ clone \in [Runs -> 1..Len(commits)]
    /\ \A r \in Runs : IsFile(file[r])
    /\ plan \in [Runs -> SUBSET Entries]
    /\ published \in [Runs -> SUBSET (Registries \X Entries)]
    /\ pushes \in [Runs -> 1..MaxPushes]
    /\ serial \in BOOLEAN /\ merged \in BOOLEAN
    /\ stale \subseteq Runs /\ recorded \subseteq Runs
    /\ settled \subseteq Entries

Init ==
    /\ commits = <<NoReleases>>
    /\ registry = [reg \in Registries |-> {}]
    /\ request \in [Runs -> Requests]
    /\ pc = [r \in Runs |-> "fetch"]
    /\ clone = [r \in Runs |-> 1]
    /\ file = [r \in Runs |-> NoReleases]
    /\ plan = [r \in Runs |-> {}]
    /\ published = [r \in Runs |-> {}]
    /\ pushes = [r \in Runs |-> MaxPushes]
    /\ serial = TRUE /\ merged = FALSE
    /\ stale = {} /\ recorded = {} /\ settled = {}

-----------------------------------------------------------------------------
Goto(r, step) == pc' = [pc EXCEPT ![r] = step]
Active(r) == pc[r] \notin {"fetch"} \cup Ended

\* A step fails or the run is cancelled or lost: nothing is undone.
Abandon(r) ==
    /\ Goto(r, "failed")
    /\ serial' = (serial /\ published[r] = {})
    /\ UNCHANGED <<stale, merged, recorded, settled>>

\* The branch is cloned and the image's file copied into the checkout.
Fetch(r) ==
    /\ pc[r] = "fetch"
    /\ clone' = [clone EXCEPT ![r] = Len(commits)]
    /\ file' = [file EXCEPT ![r] = Last(commits)]
    /\ Goto(r, "pull")
    /\ serial' = (serial /\ \A q \in Runs : ~ Active(q))
    /\ UNCHANGED <<commits, registry, request, plan, published, pushes,
                   stale, merged, recorded, settled>>

\* `git pull` in the clone; the copy stays what it was.
Pull(r) ==
    /\ pc[r] = "pull"
    /\ clone' = [clone EXCEPT ![r] = Len(commits)]
    /\ stale' = IF clone[r] = Len(commits) THEN stale ELSE stale \cup {r}
    /\ Goto(r, "resolve")
    /\ UNCHANGED <<commits, registry, request, file, plan, published, pushes,
                   serial, merged, recorded, settled>>

Requested(r) == [channels |-> Overlay(file[r].channels, request[r].channels),
                 eol |-> Overlay(file[r].eol, request[r].eol)]

\* release.py accepts the request.
Accepts(r) ==
    LET f == Requested(r)
    IN  /\ ValidRequest(f.channels, request[r].channels)
        /\ ~ AliasingFails(f.channels, f.eol, Now, request[r].channels)

Resolve(r) ==
    /\ pc[r] = "resolve"
    /\ IF Accepts(r)
       THEN /\ plan' = [plan EXCEPT ![r] =
                          TagsToRelease(Requested(r).channels, Requested(r).eol,
                                        Now, request[r].channels)]
            /\ Goto(r, "publish")
            /\ UNCHANGED history
       ELSE Abandon(r) /\ UNCHANGED plan
    /\ UNCHANGED <<commits, registry, request, clone, file, published, pushes>>

\* The tags of one revision go to Docker Hub, then to ECR, then it is the
\* turn of the next revision.
OfRevision(r, v) == Registries \X {e \in plan[r] : e.rev = v}
Turn(r, reg, e) ==
    /\ e \in plan[r] /\ <<reg, e>> \notin published[r]
    /\ reg = "ecr" =>
          \A f \in plan[r] : f.rev = e.rev => <<"dockerhub", f>> \in published[r]
    /\ \A v \in Listed \ {e.rev} :
          \/ OfRevision(r, v) \cap published[r] = {}
          \/ OfRevision(r, v) \subseteq published[r]

PublishTag(r) ==
    /\ pc[r] = "publish"
    /\ \E reg \in Registries, e \in plan[r] :
          /\ Turn(r, reg, e)
          /\ registry' = [registry EXCEPT ![reg] = Retag(@, {e})]
          /\ published' = [published EXCEPT ![r] = @ \cup {<<reg, e>>}]
    /\ UNCHANGED <<commits, request, pc, clone, file, plan, pushes, history>>

\* Mutant: the next revision or the end is not made to wait for ECR.
PublishDoneOnHub(r) ==
    /\ pc[r] = "publish"
    /\ {"dockerhub"} \X plan[r] \subseteq published[r]
    /\ Goto(r, "update")
    /\ UNCHANGED <<commits, registry, request, clone, file, plan, published,
                   pushes, history>>

PublishDone(r) ==
    /\ pc[r] = "publish"
    /\ published[r] = Registries \X plan[r]
    /\ Goto(r, "update")
    /\ UNCHANGED <<commits, registry, request, clone, file, plan, published,
                   pushes, history>>

\* Mutant: what is recorded is the request, not what was merged with it.
UpdateAlone(r) ==
    /\ pc[r] = "update"
    /\ file' = [file EXCEPT ![r] = request[r]]
    /\ Goto(r, "commit")
    /\ UNCHANGED <<commits, registry, request, clone, plan, published, pushes,
                   history>>

\* Mutant: the end-of-life dates of the request are not recorded.
UpdateUndated(r) ==
    /\ pc[r] = "update"
    /\ file' = [file EXCEPT ![r].channels = Requested(r).channels]
    /\ Goto(r, "commit")
    /\ UNCHANGED <<commits, registry, request, clone, plan, published, pushes,
                   history>>

\* release.py --update-releases-json, then the file is copied over the one in
\* the clone.
Update(r) ==
    /\ pc[r] = "update"
    /\ file' = [file EXCEPT ![r] = Requested(r)]
    /\ Goto(r, "commit")
    /\ UNCHANGED <<commits, registry, request, clone, plan, published, pushes,
                   history>>

\* `git commit` fails when there is nothing to commit.
Commit(r) ==
    /\ pc[r] = "commit"
    /\ IF file[r] = commits[clone[r]]
       THEN Abandon(r)
       ELSE Goto(r, "rebase") /\ UNCHANGED history
    /\ UNCHANGED <<commits, registry, request, clone, file, plan, published,
                   pushes>>

-----------------------------------------------------------------------------
(* git's three-way merge of the file, key by key.                          *)

At(m, k) == IF k \in DOMAIN m THEN {m[k]} ELSE {}
Keys(base, theirs, mine) == DOMAIN base \cup DOMAIN theirs \cup DOMAIN mine

Clash(base, theirs, mine) ==
    \E k \in Keys(base, theirs, mine) :
        /\ At(mine, k) # At(base, k)
        /\ At(theirs, k) # At(base, k)
        /\ At(mine, k) # At(theirs, k)

MergeKeys(base, theirs, mine) ==
    LET val(k) == IF At(mine, k) = At(base, k) THEN At(theirs, k) ELSE At(mine, k)
    IN  [k \in {j \in Keys(base, theirs, mine) : val(j) # {}} |->
            CHOOSE v \in val(k) : TRUE]

Clashes(b, t, m) ==
    Clash(b.channels, t.channels, m.channels) \/ Clash(b.eol, t.eol, m.eol)
MergeFiles(b, t, m) ==
    [channels |-> MergeKeys(b.channels, t.channels, m.channels),
     eol |-> MergeKeys(b.eol, t.eol, m.eol)]

\* Mutant: on a conflict, or without one, this run's file is taken whole.
RebaseOurs(r) ==
    /\ pc[r] = "rebase"
    /\ clone' = [clone EXCEPT ![r] = Len(commits)]
    /\ Goto(r, "push")
    /\ UNCHANGED <<commits, registry, request, file, plan, published, pushes,
                   history>>

\* `git pull --rebase` when the branch has moved on: changes of the same
\* entry conflict, others do unless their lines are far enough apart.
Rebase(r) ==
    LET base == commits[clone[r]]
        theirs == Last(commits)
    IN  /\ pc[r] = "rebase"
        /\ \/ /\ base = theirs \/ ~ Clashes(base, theirs, file[r])
              /\ file' = [file EXCEPT ![r] = MergeFiles(base, theirs, @)]
              /\ clone' = [clone EXCEPT ![r] = Len(commits)]
              /\ Goto(r, "push")
              /\ merged' = (merged \/ base # theirs)
              /\ UNCHANGED <<serial, stale, recorded, settled>>
           \/ /\ base # theirs
              /\ Abandon(r)
              /\ UNCHANGED <<file, clone>>
        /\ UNCHANGED <<commits, registry, request, plan, published, pushes>>

\* A push the branch accepts.  A rebase that has left nothing of the commit
\* has nothing to push.
Push(r) ==
    /\ pc[r] = "push"
    /\ clone[r] = Len(commits)
    /\ commits' = IF file[r] = Last(commits) THEN commits
                  ELSE Append(commits, file[r])
    /\ Goto(r, "done")
    /\ recorded' = recorded \cup {r}
    /\ settled' = registry["dockerhub"]
    /\ UNCHANGED <<registry, request, clone, file, plan, published, pushes,
                   serial, stale, merged>>

\* A push that is rejected, the branch having moved on, or that fails.  When
\* the attempts are used up the step ends, and ends well.
PushFails(r) ==
    /\ pc[r] = "push"
    /\ IF pushes[r] = 1
       THEN /\ Goto(r, "done")
            /\ serial' = FALSE
            /\ UNCHANGED pushes
       ELSE /\ pushes' = [pushes EXCEPT ![r] = @ - 1]
            /\ Goto(r, "rebase")
            /\ UNCHANGED serial
    /\ UNCHANGED <<commits, registry, request, clone, file, plan, published,
                   stale, merged, recorded, settled>>

StepFails(r) ==
    /\ pc[r] \notin Ended
    /\ Abandon(r)
    /\ UNCHANGED <<commits, registry, request, clone, file, plan, published,
                   pushes>>

Advance(r) ==
    \/ Fetch(r) \/ Pull(r) \/ Resolve(r) \/ PublishTag(r) \/ PublishDone(r)
    \/ Update(r) \/ Commit(r) \/ Rebase(r) \/ Push(r) \/ PushFails(r)

Next == \E r \in Runs : Advance(r) \/ StepFails(r)

Spec == Init /\ [][Next]_vars
-----------------------------------------------------------------------------
\* Every channel in every commit stands for a revision that exists, whatever
\* failed half-way, was retried or overwrote what, as long as git has not
\* merged two releases: a merge is not validated.
RecordedChannelsResolve ==
    ~ merged => \A i \in DOMAIN commits : \A c \in DOMAIN commits[i].channels :
                    Resolves(commits[i].channels, c)

\* A run changes only the channels of its request in the record, unless its
\* copy was stale.
OnlyRequestedChannelsChange ==
    [][\A r \in Runs \ stale :
          Push(r) => \A c \in Channels \ DOMAIN request[r].channels :
              At(Last(commits)'.channels, c) = At(Last(commits).channels, c)]_vars

\* When releases come one after the other and whole, both registries have
\* the same tags between them.
RegistriesAgree ==
    serial /\ (\A r \in Runs : ~ Active(r))
        => registry["dockerhub"] = registry["ecr"]

\* Releases that come one after the other, each whole, are the releases of
\* ReleaseBoard: the tags in the registries are those the record accounts for.
Board == INSTANCE ReleaseBoard
            WITH channels <- Last(commits).channels,
                 eol <- Last(commits).eol,
                 registry <- settled,
                 now <- Now,
                 LastDay <- Now,
                 Requests <- {q.channels : q \in Requests},
                 Dates <- UNION {{q.eol[t] : t \in DOMAIN q.eol} : q \in Requests}

SerialReleases ==
    Board!BoardInit /\ [][serial' => Board!BoardNext]_(Board!boardVars)

=============================================================================

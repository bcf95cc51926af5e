------------------------- MODULE RevisionAllocation -------------------------
(***************************************************************************)
(* How concurrent runs of the Image workflow give revision numbers to the  *)
(* builds of ONE image and upload them: the prepare-upload job (lockfile   *)
(* in the Swift container, next revision, revision data, preempted slots,  *)
(* unlock) and the upload matrix job (GHCR push, Swift artefacts).         *)
(*                                                                         *)
(* Nothing but the Swift container orders the runs.  A lockfile is an      *)
(* object somebody uploaded; it has no owner in the code.  `lock` records  *)
(* the run whose upload put it there so that properties can speak of it;   *)
(* actions only ask whether it exists.                                     *)
(***************************************************************************)
EXTENDS Naturals, Sequences

CONSTANTS
    Runs,       \* runs of Image.yaml for the image that reach prepare-upload
    NoRun,      \* "no lockfile in the container"
    Tracks,     \* tracks inferred from the rockcraft.yaml of the builds
    Uploads,    \* per run, the tracks of its "upload" builds, in file order
    Existing,   \* <<track, revision>> slots uploaded before these runs
    MaxPolls    \* TIMEOUT / SLEEP_TIME of swift_lockfile_lock.sh (60 there)

Slots == Tracks \X (Nat \ {0})

ASSUME ConstantsAssumption ==
    /\ NoRun \notin Runs
    /\ Uploads \in [Runs -> Seq(Tracks)]
    /\ Existing \subseteq Slots
    /\ MaxPolls \in Nat \ {0}

VARIABLES
    lock,       \* Swift: the run whose lockfile.lock is there, or NoRun
    objects,    \* Swift: [slot, kind] objects <track>/<revision>/<kind>
    ghcr,       \* GHCR: [slot, run] canonical tag and the run that wrote it
    pc,         \* per run, the workflow step it is in
    outcome,    \* per run, steps.swift-lock.outcome
    ok,         \* per run, FALSE once a step of prepare-upload has failed
    polls,      \* per run, what is left of TIMEOUT, in sleeps
    next,       \* per run, output "revision" of get-next-revision; 1, the
                \* default of --next-revision, until that step has run
    data,       \* per run, the slots of its revision-data files
    did         \* per run, the slots it preempted, pushed, stored, finished

\* History: what has gone wrong with the protocol so far.
VARIABLE disturbed

swiftVars == <<lock, objects>>
jobVars == <<outcome, ok, polls, next, data>>
vars == <<lock, objects, ghcr, pc, outcome, ok, polls, next, data, did,
          disturbed>>

Kinds == {"dummy", "artefacts"}
Objects == [slot : Slots, kind : Kinds]
Outcomes == {"skipped", "success", "failure", "cancelled"}
Ended == {"done", "failed", "crashed"}
Steps == {"setup", "wait", "lock", "revision", "matrix", "preempt",
          "unlock", "delete", "upload"} \cup Ended
Work == {"preempted", "pushed", "stored", "finished"}
Disturbances == {"raced", "stolen", "blind"}

Taken == {o.slot : o \in objects}
Numbers(S) == {s[2] : s \in S}

\* The claim of a run to the numbers it has written into the container.
Claimed(r) == did[r]["preempted"]

\* A run that has put its lockfile there and has not yet removed it is in
\* the section Image.yaml marks as critical.
Critical(r) ==
    /\ outcome[r] = "success"
    /\ pc[r] \in {"revision", "matrix", "preempt", "unlock", "delete"}

TypeOK ==
    /\ lock \in Runs \cup {NoRun}
    /\ objects \subseteq Objects
    /\ ghcr \subseteq [slot : Slots, run : Runs]
    /\ pc \in [Runs -> Steps]
    /\ outcome \in [Runs -> Outcomes]
    /\ ok \in [Runs -> BOOLEAN]
    /\ polls \in [Runs -> Nat \ {0}]
    /\ next \in [Runs -> Nat \ {0}]
    /\ data \in [Runs -> SUBSET Slots]
    /\ did \in [Runs -> [Work -> SUBSET Slots]]
    /\ disturbed \subseteq Disturbances

Init ==
    /\ lock = NoRun
    /\ objects = [slot : Existing, kind : {"artefacts"}]
    /\ ghcr = {}
    /\ pc = [r \in Runs |-> "setup"]
    /\ outcome = [r \in Runs |-> "skipped"]
    /\ ok = [r \in Runs |-> TRUE]
    /\ polls = [r \in Runs |-> MaxPolls]
    /\ next = [r \in Runs |-> 1]
    /\ data = [r \in Runs |-> {}]
    /\ did = [r \in Runs |-> [w \in Work |-> {}]]
    /\ disturbed = {}

-----------------------------------------------------------------------------
(* The steps of prepare-upload.                                            *)

Goto(r, step) == pc' = [pc EXCEPT ![r] = step]

\* Mutant: the unlock step without `always()`.
AbortForGood(r, lockOutcome) ==
    /\ outcome' = [outcome EXCEPT ![r] = lockOutcome]
    /\ ok' = [ok EXCEPT ![r] = FALSE]
    /\ Goto(r, "failed")
    /\ UNCHANGED <<polls, next, data>>

\* A failed or cancelled step skips the rest, but the unlock step has
\* `always()`: it runs unless the outcome of swift-lock is "failure".
Abort(r, lockOutcome) ==
    /\ outcome' = [outcome EXCEPT ![r] = lockOutcome]
    /\ ok' = [ok EXCEPT ![r] = FALSE]
    /\ Goto(r, IF lockOutcome = "failure" THEN "failed" ELSE "unlock")
    /\ UNCHANGED <<polls, next, data>>

\* Checkout, custom trigger, python and requirements.
Setup(r) ==
    /\ pc[r] = "setup"
    /\ Goto(r, "wait")
    /\ UNCHANGED <<lock, objects, ghcr, jobVars, did, disturbed>>

\* `swift list | grep lockfile.lock` finds none: leave the loop.  It can do
\* so at any time: a listing that fails looks the same as one without a
\* lockfile, the status of the pipe being grep's.
PollFree(r) ==
    /\ pc[r] = "wait"
    /\ Goto(r, "lock")
    /\ UNCHANGED <<lock, objects, ghcr, jobVars, did, disturbed>>

\* Mutant: one sleep more than TIMEOUT has.
PollLockedOnceMore(r) ==
    /\ pc[r] = "wait"
    /\ lock # NoRun
    /\ IF polls[r] = 0
       THEN Abort(r, "failure")
       ELSE /\ polls' = [polls EXCEPT ![r] = @ - 1]
            /\ UNCHANGED <<pc, outcome, ok, next, data>>
    /\ UNCHANGED <<lock, objects, ghcr, did, disturbed>>

\* Mutant: TIMEOUT is set anew instead of ending the wait.
PollLockedAnew(r) ==
    /\ pc[r] = "wait"
    /\ lock # NoRun
    /\ polls' = [polls EXCEPT ![r] = IF @ = 1 THEN MaxPolls ELSE @ - 1]
    /\ UNCHANGED <<lock, objects, ghcr, pc, outcome, ok, next, data, did,
                   disturbed>>

\* The lockfile is there: sleep, and give up once TIMEOUT has run out.
PollLocked(r) ==
    /\ pc[r] = "wait"
    /\ lock # NoRun
    /\ IF polls[r] = 1
       THEN Abort(r, "failure")
       ELSE /\ polls' = [polls EXCEPT ![r] = @ - 1]
            /\ UNCHANGED <<pc, outcome, ok, next, data>>
    /\ UNCHANGED <<lock, objects, ghcr, did, disturbed>>

\* The lockfile of r arrives in the container, over another one or not.
PutLockfile(r) ==
    /\ lock' = r
    /\ disturbed' = disturbed \cup
                    (IF lock \in {NoRun, r} THEN {} ELSE {"raced"})

\* Mutant: a `swift upload` that fails goes unnoticed.
UploadLockUnchecked(r) ==
    /\ pc[r] = "lock"
    /\ PutLockfile(r) \/ UNCHANGED <<lock, disturbed>>
    /\ outcome' = [outcome EXCEPT ![r] = "success"]
    /\ Goto(r, "revision")
    /\ UNCHANGED <<objects, ghcr, ok, polls, next, data, did>>

UploadLock(r) ==
    /\ pc[r] = "lock"
    /\ PutLockfile(r)
    /\ outcome' = [outcome EXCEPT ![r] = "success"]
    /\ Goto(r, "revision")
    /\ UNCHANGED <<objects, ghcr, ok, polls, next, data, did>>

\* `swift upload` fails or the run is cancelled in it: the object may have
\* been stored all the same.
LockInterrupted(r, lockOutcome) ==
    /\ pc[r] = "lock"
    /\ PutLockfile(r) \/ UNCHANGED <<lock, disturbed>>
    /\ Abort(r, lockOutcome)
    /\ UNCHANGED <<objects, ghcr, did>>

\* Mutant: preempted slots do not count as revisions.
IsHighestStored(n) ==
    LET stored == {o.slot : o \in {x \in objects : x.kind = "artefacts"}}
    IN  /\ n \in Numbers(stored) \cup {0}
        /\ \A m \in Numbers(stored) : m <= n

\* n is the revision that sorts last in the listing, 0 if there is none.
IsHighest(n) ==
    /\ n \in Numbers(Taken) \cup {0}
    /\ \A m \in Numbers(Taken) : m <= n

\* One more than the highest revision.  A failed listing yields no output,
\* and "" + 1 is 1 to the shell.
GetNextRevision(r) ==
    /\ pc[r] = "revision"
    /\ \/ /\ \E n \in Numbers(Taken) \cup {0} :
                IsHighest(n) /\ next' = [next EXCEPT ![r] = n + 1]
          /\ UNCHANGED disturbed
       \/ /\ Taken # {}
          /\ next' = [next EXCEPT ![r] = 1]
          /\ disturbed' = disturbed \cup {"blind"}
    /\ Goto(r, "matrix")
    /\ UNCHANGED <<swiftVars, ghcr, outcome, ok, polls, data, did>>

\* Mutant: the lockfile is given back before the slots are preempted.
PrepareMatrixUnlocked(r) ==
    /\ pc[r] = "matrix"
    /\ lock' = NoRun
    /\ \E kept \in SUBSET DOMAIN Uploads[r] :
          data' = [data EXCEPT ![r] =
                      {<<Uploads[r][i], next[r] + i - 1>> : i \in kept}]
    /\ Goto(r, "preempt")
    /\ UNCHANGED <<objects, ghcr, outcome, ok, polls, next, did, disturbed>>

\* Build i gets number next + i - 1; builds whose tracks have all reached
\* their end of life (the ones not kept) are dropped after the numbering.
PrepareMatrix(r) ==
    /\ pc[r] = "matrix"
    /\ \E kept \in SUBSET DOMAIN Uploads[r] :
          data' = [data EXCEPT ![r] =
                      {<<Uploads[r][i], next[r] + i - 1>> : i \in kept}]
    /\ Goto(r, "preempt")
    /\ UNCHANGED <<swiftVars, ghcr, outcome, ok, polls, next, did, disturbed>>

\* `swift upload` writes the dummy objects one by one.
PreemptSlot(r) ==
    /\ pc[r] = "preempt"
    /\ \E s \in data[r] \ did[r]["preempted"] :
          /\ objects' = objects \cup {[slot |-> s, kind |-> "dummy"]}
          /\ did' = [did EXCEPT ![r]["preempted"] = @ \cup {s}]
    /\ UNCHANGED <<lock, ghcr, pc, jobVars, disturbed>>

\* Mutant: the step ends with the first object of the upload.
PreemptDoneEarly(r) ==
    /\ pc[r] = "preempt"
    /\ did[r]["preempted"] # {}
    /\ Goto(r, "unlock")
    /\ UNCHANGED <<swiftVars, ghcr, jobVars, did, disturbed>>

PreemptDone(r) ==
    /\ pc[r] = "preempt"
    /\ data[r] # {} /\ data[r] \subseteq did[r]["preempted"]
    /\ Goto(r, "unlock")
    /\ UNCHANGED <<swiftVars, ghcr, jobVars, did, disturbed>>

\* A step fails: a clone, a Swift request, no directory to upload because
\* every build was dropped, a broken runner environment.
StepFails(r) ==
    \/ /\ pc[r] \in {"setup", "revision", "matrix", "preempt"}
       /\ Abort(r, outcome[r])
       /\ UNCHANGED <<swiftVars, ghcr, did, disturbed>>
    \/ LockInterrupted(r, "failure")

\* Somebody cancels the workflow run while it prepares the upload.
Cancel(r) ==
    \/ /\ pc[r] \in {"setup", "revision", "matrix", "preempt"}
       /\ Abort(r, outcome[r])
       /\ UNCHANGED <<swiftVars, ghcr, did, disturbed>>
    \/ /\ pc[r] = "wait"
       /\ Abort(r, "cancelled")
       /\ UNCHANGED <<swiftVars, ghcr, did, disturbed>>
    \/ LockInterrupted(r, "cancelled")

\* Mutant: the job succeeds when its last step does.
AfterUnlockAlways(r) == Goto(r, "upload")

\* Where the job goes from the unlock step, which never fails.
AfterUnlock(r) == Goto(r, IF ok[r] THEN "upload" ELSE "failed")

\* The listing of the unlock script: delete only what it shows.
UnlockList(r) ==
    /\ pc[r] = "unlock"
    /\ IF lock # NoRun THEN Goto(r, "delete") ELSE AfterUnlock(r)
    /\ UNCHANGED <<swiftVars, ghcr, jobVars, did, disturbed>>

\* The delete does not look at who uploaded the lockfile.
DeleteLock(r) ==
    /\ pc[r] = "delete"
    /\ lock' = NoRun
    /\ disturbed' = disturbed \cup
                    (IF lock \in {NoRun, r} THEN {} ELSE {"stolen"})
    /\ AfterUnlock(r)
    /\ UNCHANGED <<objects, ghcr, jobVars, did>>

\* Listing or delete fails: an error is logged and the step succeeds.
UnlockFails(r) ==
    /\ pc[r] \in {"unlock", "delete"}
    /\ AfterUnlock(r)
    /\ UNCHANGED <<swiftVars, ghcr, jobVars, did, disturbed>>

-----------------------------------------------------------------------------
(* The steps of the upload job of one build; builds run in parallel.       *)

Done(r, work, s) == did' = [did EXCEPT ![r][work] = @ \cup {s}]

\* The image is pushed to its canonical tag <track>_<revision>.
PushImage(r) ==
    /\ pc[r] = "upload"
    /\ \E s \in data[r] \ did[r]["pushed"] :
          /\ ghcr' = {t \in ghcr : t.slot # s} \cup {[slot |-> s, run |-> r]}
          /\ Done(r, "pushed", s)
    /\ UNCHANGED <<swiftVars, pc, jobVars, disturbed>>

StoreArtefacts(r) ==
    /\ pc[r] = "upload"
    /\ \E s \in did[r]["pushed"] \ did[r]["stored"] :
          /\ objects' = objects \cup {[slot |-> s, kind |-> "artefacts"]}
          /\ Done(r, "stored", s)
    /\ UNCHANGED <<lock, ghcr, pc, jobVars, disturbed>>

\* Mutant: the dummy makes room for the artefacts before they are there.
RemoveDummyFirst(r) ==
    /\ pc[r] = "upload"
    /\ \E s \in did[r]["pushed"] \ did[r]["finished"] :
          /\ [slot |-> s, kind |-> "dummy"] \in objects
          /\ objects' = objects \ {[slot |-> s, kind |-> "dummy"]}
          /\ Done(r, "finished", s)
    /\ UNCHANGED <<lock, ghcr, pc, jobVars, disturbed>>

\* The dummy is deleted after the artefacts are there, never before.
RemoveDummy(r) ==
    /\ pc[r] = "upload"
    /\ \E s \in did[r]["stored"] \ did[r]["finished"] :
          /\ [slot |-> s, kind |-> "dummy"] \in objects
          /\ objects' = objects \ {[slot |-> s, kind |-> "dummy"]}
          /\ Done(r, "finished", s)
    /\ UNCHANGED <<lock, ghcr, pc, jobVars, disturbed>>

UploadDone(r) ==
    /\ pc[r] = "upload"
    /\ data[r] \subseteq did[r]["finished"]
    /\ Goto(r, "done")
    /\ UNCHANGED <<swiftVars, ghcr, jobVars, did, disturbed>>

\* One build fails (fail-fast cancels the others) or the run is cancelled.
UploadFails(r) ==
    /\ pc[r] = "upload"
    /\ Goto(r, "failed")
    /\ UNCHANGED <<swiftVars, ghcr, jobVars, did, disturbed>>

-----------------------------------------------------------------------------
\* The runner is lost: no further step runs, `always()` or not.
Crash(r) ==
    /\ pc[r] \notin Ended
    /\ Goto(r, "crashed")
    /\ UNCHANGED <<swiftVars, ghcr, jobVars, did, disturbed>>

\* What a run does by itself when its runner keeps going.
Advance(r) ==
    \/ Setup(r) \/ PollFree(r) \/ PollLocked(r) \/ UploadLock(r)
    \/ GetNextRevision(r) \/ PrepareMatrix(r)
    \/ PreemptSlot(r) \/ PreemptDone(r) \/ StepFails(r)
    \/ UnlockList(r) \/ DeleteLock(r) \/ UnlockFails(r)
    \/ PushImage(r) \/ StoreArtefacts(r) \/ RemoveDummy(r)
    \/ UploadDone(r) \/ UploadFails(r)

Next == \E r \in Runs : Advance(r) \/ Cancel(r) \/ Crash(r)

Spec == Init /\ [][Next]_vars

\* A runner that has not been lost runs the next step of its job.
Fairness == \A r \in Runs : WF_vars(Advance(r))

FairSpec == Spec /\ Fairness
-----------------------------------------------------------------------------
(* Safety.  The lockfile is test-then-set without a compare-and-swap, so   *)
(* what it protects is claimed for the runs in which it was not disturbed: *)
(* no lockfile uploaded over another run's, none removed by another run,   *)
(* no revision computed from a failed listing.  The code lets each of      *)
(* these happen: without the condition TLC finds them.                     *)

Undisturbed == disturbed = {}

\* At most one run is in the critical section of prepare-upload
\* (Image.yaml:262-292), whatever was cancelled, failed, crashed or leaked.
MutualExclusion ==
    Undisturbed => \A r, q \in Runs : Critical(r) /\ Critical(q) => r = q

\* Two runs never write the same revision number into the container, and
\* none writes one that was there before (release_info.py:78-84 rejects
\* every later release of an image in which that happened).
UniqueRevisions ==
    Undisturbed =>
        \A r \in Runs :
            /\ Numbers(Claimed(r)) \cap Numbers(Existing) = {}
            /\ \A q \in Runs \ {r} :
                  Numbers(Claimed(r)) \cap Numbers(Claimed(q)) = {}

\* A slot that is taken stays taken, disturbed or not: the dummy goes only
\* when the artefacts are there, so that the number of a half-finished
\* upload is not given to the next run.
SlotsNeverFreed == [][Taken \subseteq Taken']_vars

\* A canonical tag in GHCR is never moved to the image of another run.
CanonicalTagsImmutable ==
    [][disturbed' = {} => ghcr \subseteq ghcr']_vars

\* An image in the registry is in the list of canonical tags that releases
\* are validated against (get_canonical_tags_from_swift.sh:10-13).
PushedIsListed == {t.slot : t \in ghcr} \subseteq Taken

\* Image.yaml:296-298: a run that failed to lock must not remove the
\* lockfile.  Removing another run's is left to runs that did lock.
OnlyLockersUnlock ==
    [][\A r \in Runs :
          DeleteLock(r) /\ lock \notin {NoRun, r} => outcome[r] = "success"]_vars

(* Liveness.                                                               *)

\* Every run comes to an end, also when a lockfile was leaked: the wait for
\* it is bounded.
EveryRunEnds == \A r \in Runs : <>(pc[r] \in Ended)

\* A run that has entered the critical section gets to the unlock step
\* whether it fails or is cancelled there, unless its runner is lost
\* (Image.yaml:292-294).
UnlockIsReached ==
    \A r \in Runs : pc[r] = "revision" ~> pc[r] \in {"unlock", "crashed"}

-----------------------------------------------------------------------------
(* The ledger of RevisionLedger that this protocol keeps.                  *)

claimedNumbers ==
    UNION {{[rev |-> n, run |-> r] : n \in Numbers(Claimed(r))} : r \in Runs}
publishedNumbers ==
    UNION {{[rev |-> n, run |-> r] : n \in Numbers(did[r]["pushed"])} :
              r \in Runs}

Ledger == INSTANCE RevisionLedger
            WITH claims <- claimedNumbers,
                 published <- publishedNumbers,
                 sound <- Undisturbed

LedgerSpec == Ledger!LedgerSpec
=============================================================================

# A formal model of OCI Factory

OCI Factory builds, tests, numbers, uploads and releases container images
("rocks"). Its program is spread over GitHub workflows, shell scripts, Python
modules and a Go client that many runs execute at the same time against shared
stores without transactions: a Swift container, container registries, a git
branch, a Kafka topic and GitHub issues. This directory holds TLA+
specifications of that program, the TLC runs that check them on small instances
and TLAPS proofs about them.

`PROJECT.json` maps every definition to the lines it models and lists runs,
hazards, findings and theorems.

## 1. Inventory

| Component | State | Operations | Shared with |
|---|---|---|---|
| **Revision allocation and upload**: `Image.yaml` jobs `prepare-upload`, `upload`; `swift_lockfile_*.sh`, `define_image_revision.sh`, `preempt_swift_slots.sh`, `upload_to_swift.sh` | Swift container (`lockfile.lock`, `<track>/<revision>/...`), GHCR canonical tags; per run its step, lock outcome, next revision, revision data | lock (poll, time out, upload), next revision, matrix, preempt slots, unlock, push, store artefacts, remove dummy | all runs for the image; releases list the container |
| **Release computation**: `release.py`, `release_info.py` | none between runs; reads `_releases.json`, the request, the listing | validate, follow, drop ended tracks, add aliases | every release |
| **Release publishing and record**: `Release.yaml` job `do-releases`, `commit-releases-json`, `fetch-releases-json`, `tag_and_publish.sh` | tags in Docker Hub and ECR, commits of `_releases.json` on branch `_releases`; per run its copy and its clone | fetch, pull, resolve, publish, update, commit, rebase, push | other releases; documentation, scans and rebuilds read the record |
| **Image pipeline**: `Image.yaml` jobs `prepare-build`, `prepare-releases`, `release`; `prepare_single_image_build_matrix.py`, `merge_release_info.py`, `triggers.py` | `image.yaml` of each run, its revision files | filter ended tracks, number builds, merge each revision file, back-fill risks, release; a newer run cancels the merge of an older one | upload before it, release after it |
| **Rock builds**: `Build-Rock.yaml`, `generate_build_matrix.py`, `assemble.sh` | jobs and artifacts of a run | choose runners or Launchpad, build per architecture, retry, assemble | all builds of a run share its artifacts |
| **Rebuild events**: `activity_consume_events.py`, `consume_events_workflow.py`, `find_images_to_update.py` | Kafka offset, Temporal attempts, what a scan has read | poll, commit the offset, notify, scan, retry, continue as new; find images, dispatch | reads record and registry; starts runs of `Image.yaml` |
| **Vulnerability scans and continuous testing**: `Continuous-Testing.yaml`, `Vulnerability-Scan.yaml`, `get_released_revisions.py` | GitHub issues | choose images, scan, list, close duplicates, report, close | reads the record |
| **Documentation**: `Documentation.yaml`, `generate_oci_doc_yaml.py`, `publish_docs.sh` | documentation in Docker Hub and ECR; per run the dates, pages and rows it has | dates, list tags, build rows, publish | follows a release, reads the registry |
| **CLI client**: `tools/cli-client/internals` | per client its run's reference and id | dispatch, search, poll, retry on 503 | GitHub's runs of `Image.yaml` |
| **Actor validation, encryption, PR checks, announcements; rock tests; infrastructure** | none | one verdict each | - |

What is hard in it:

* *Concurrency without a lock.* The lockfile is list-then-upload, no
  compare-and-swap, and has no owner. `Release.yaml`, `Documentation.yaml` and
  the issue job have neither lock nor concurrency group.
* *Partial failure.* Steps fail, runs are cancelled, runners vanish between any
  two steps, and nothing undoes what was done. `always()` steps run after a
  failure but not after a loss of the runner.
* *Failures that look like answers.* Scripts run without `pipefail`: a failed
  listing is an empty one. Two 503 in a row are success to the client.
* *Stale copies.* `_releases.json` is copied, then the clone is pulled, then the
  copy is committed; a rebuild or a documentation run reads record and registry
  at different times.
* *Merges nobody validates*, in git and between revision files.
* *Retries of what was done*: attempts of an activity the server has given up
  go on side by side with the next one.

What makes the components correct: revision numbers are given once; taken
numbers are never given back; a canonical tag keeps its image; what is recorded
stands for a revision; both registries agree; a release changes what it names
and nothing else; an upload's channels serve its revision; a rebuild changes
nothing but revisions; an event is acted on once; issues and tables say what is
true; a rock that succeeds is whole; whatever fails, runs end.

## 2. Modules

| Module | Models | Builds on |
|---|---|---|
| `RevisionAllocation` | `prepare-upload` and `upload` of concurrent runs for one image | |
| `RevisionLedger` | what the numbering promises: an abstract specification | |
| `RevisionListing` | releases that list the container while uploads go on | `RevisionAllocation` |
| `ReleaseTags` | what `release.py` computes, as operators | |
| `ReleaseBoard` | sequences of whole releases of one image | `ReleaseTags` |
| `ReleasePublishing` | concurrent, fallible runs of `do-releases` for one image | `ReleaseTags`, refines `ReleaseBoard` |
| `ReleaseRequests` | triggers, revision files, backfill, as operators | `ReleaseTags` |
| `ReleasePreparation` | concurrent runs of `Image.yaml` from trigger to release | `ReleaseBoard`, `ReleaseRequests` |
| `ImageRebuilds` | `find_images_to_update.py` and what its rebuild becomes | `ReleaseBoard`, `ReleaseRequests` |
| `RebuildEvents` | the Temporal workflow and its activity over the topic | |
| `VulnerabilityScans` | daily scans and their issues | `ReleaseTags` |
| `DocumentationData` | concurrent runs of the documentation among releases | `ReleaseBoard`, `ReleaseRequests` |
| `BuildRock` | the builds of one run | |
| `CliUploads` | clients of `oci-factory upload` | |
| `ReleaseTagsProofs` | lemmas about following and overlays, for the proofs about releases | `ReleaseTags` |
| `ReleaseBoardProofs` | theorems about whole releases and what surrounds them | `ReleaseBoard`, `ReleasePreparation`, `ImageRebuilds`, `DocumentationData` |
| `RevisionAllocationProofs`, `ReleasePublishingProofs`, `BuildRockProofs`, `RebuildEventsProofs`, `VulnerabilityScansProofs`, `CliUploadsProofs` | theorems | the module of the name; the first also `RevisionListing` |
| `MC...` | instances for TLC | |

Operators whose comment starts with "Mutant:" are plausible bugs of the
definition that follows them. No action uses them; they show that the
properties can fail.

### RevisionAllocation, RevisionLedger, RevisionListing

One run per element of `Runs`. `pc[r]` is the workflow step the run is in and
each action is one step or one request of a step: a listing, an upload of one
object, a delete. `outcome[r]` is `steps.swift-lock.outcome`, which decides
whether the unlock step runs; `ok[r]` decides whether the job succeeds.

| Action | Code |
|---|---|
| `PollFree`, `PollLocked`, `UploadLock` | the loop of `swift_lockfile_lock.sh` and its upload; `polls` counts sleeps, 60 in the code |
| `GetNextRevision` | `define_image_revision.sh`: highest listed revision + 1, or 1 after a failed listing |
| `PrepareMatrix` | `prepare_single_image_build_matrix.py`: consecutive numbers; builds past their end of life dropped after the numbering |
| `PreemptSlot`, `PreemptDone` | `preempt_swift_slots.sh`, one object at a time |
| `UnlockList`, `DeleteLock`, `UnlockFails` | `swift_lockfile_unlock.sh`, which never fails |
| `PushImage`, `StoreArtefacts`, `RemoveDummy` | the upload matrix job, its builds in parallel |
| `StepFails`, `Cancel`, `UploadFails`, `Crash` | a failing step, a cancelled run, a failed matrix job, a lost runner |

`lock` names the run whose upload put the lockfile there. The code cannot know
it; actions only test `lock # NoRun`, and the name serves the properties.
`disturbed` is history: `raced` (a lockfile uploaded over another run's),
`stolen` (one deleted by another run), `blind` (a revision computed from a
failed listing). The code lets all three happen; what the lockfile is meant to
protect is stated of the behaviours in which none has. `SlotsNeverFreed`,
`PushedIsListed` and liveness are stated of all behaviours.

`RevisionListing` adds a release that lists the container at any moment
(`ListTags`) and reads the tracks off the list (`GetRevisionToTrack`), which
raises on a lockfile.

Abstracted: setup steps are one action; the artefacts of a revision are one
object; SBOMs, reports, git tags and the cache between jobs are left out (their
failures are `UploadFails` and `StepFails`). One image is enough because
prefixes, lockfiles and numbers are per image.

### ReleaseTags, ReleaseBoard, ReleasePublishing

A channel is a `<<track, risk>>` pair; a mapping takes channels to a revision or
to another channel. `Followed(m, t)` is the set of channels the follow loop
visits, defined as the least set closed under one step (a recursive operator
would bar proofs); `Ends` is where it stops. `ValidRequest` is the validation,
`Removed` is `remove_eol_tags`, `TagsToRelease` the aliases and the final
grouping, `AliasingFails` the `KeyError` that a `latest_<risk>` on an ended
track raises. `Release` is a whole run of `release.py` in both of its modes,
`Accepted` says when it raises nothing, `Tick` lets the end-of-life dates come. A malformed tag and an unknown risk,
which the schema or the loop ignores, are not representable.

In `ReleasePublishing`, `commits` is the history of the image's
`_releases.json` on the branch. A run copies it (`Fetch`), pulls its clone
(`Pull`), decides (`Resolve`), publishes each tag to Docker Hub then ECR,
revision by revision (`PublishTag`), records (`Update`, `Commit`), and repeats
`Rebase` and `Push`. Git is external: its three-way merge works per key, and may
conflict whenever the branch has moved, since lines of one key may be near those
of another. The day is fixed, as the two calls of `release.py` are minutes
apart. The order of revisions within a release (sorted in the code) is left
open. History variables: `serial` (releases one after the other and whole so
far), `stale` (runs whose copy is older than the commit they build on),
`merged`, `recorded`, and `settled`, the tags when the record was last pushed.

### ReleaseRequests, ReleasePreparation

`ReleaseRequests` holds what a trigger is (`ImageSchema`), how builds become
revision files (`RevisionFiles`, which drops builds whose tracks have all ended),
and `MergeRevision`: pin the channels of a file, then `Backfill`: each missing
channel that is riskier than one that is there follows the next safer risk.

`ReleasePreparation` runs `Image.yaml` from there: `Start` hands out numbers,
`Prepare` enters `prepare-releases` and cancels the run of the image that is in
it, `MergeNext` takes the next file *in the order of names* (`ByName`: 10 before
9), `Save` keeps the result for the release job, `ReleaseRun` is one whole
`Release` or a refusal, `Dispatch` a `Release.yaml` run by hand, `Fail` any step.
`Raises` collects the statements of `release.py` that raise.

### ImageRebuilds, RebuildEvents

`ReadRecord` and `ReadTags` are the two reads of `find_images_to_update.py`, with
releases possible in between. `UberTrigger` is the trigger it makes: for each
released revision on the base (`Matching`), the channels its tags stand for
(`ReleaseToOf`), grouped by source triplet, later revisions overwriting whole
tracks of earlier ones (`GroupChannels`), the groups in the order of their first
revision (`Sorted` is what a sort by a key returns). `Rebuild` takes that trigger through
numbering, merge and release; `Upload` and `UserRelease` are everybody else.
`ScanRaises` is the `KeyError` on a track that is new since the record was read.

`RebuildEvents` has the server (`Timeout`, `Retry`, `ContinueAsNew`) and, per
worker, the activity statement by statement: `Poll`, `Close` (which commits),
`Notify`, `Scan`, `ScanEnds`, `Update`. A worker's attempt that the server gave
up goes on. `PollFails`, `CloseUncommitted`, `Crash` and the failing halves of
the other actions are faults. `LongLogs` are events whose scan writes more to
its stderr than a pipe holds: nobody reads it before the scan ends.

### VulnerabilityScans

Per released revision one job: `Scan` (find the image by the *end* of its tag,
then Trivy's verdict, an input), `List` the open issues of that title,
`CloseDuplicate` one by one, `Report` or `CloseFixed`. `Disclose`, `ReleaseElse` and
`CloseByHand` are the world. `closable` is history: the issues there was a reason to
close, since a maintainer has closed them or a scan of their image found nothing
while they were open. `OldestStaysOpen` is about images without any; what becomes of
an open issue then is `FixedIssuesAreClosed`. Editing an issue changes nothing that is
modelled, so whether vulnerabilities differ from the reported ones is not.

### DocumentationData

A run reads the dates (`GetAllTracks`), the tags page by page
(`DescribeImageTags`), makes one row per revision, looking up the architectures
by the channel tag it has chosen (`BuildRelease`), and publishes to Docker Hub
and ECR. Releases (whole, of `ReleaseBoard`) come in between. A digest is the
revision it was built as; the paging of ECR is external.

### BuildRock

Job by job: `Configure` chooses runners or, when an architecture has none,
Launchpad; `RunnerBuilds`/`RunnerFails` with fail-fast, `LpciBuilds`/`LpciFails`
with four attempts, `Assemble` under its `always()` condition (`Due`) from whatever
artifacts match `<archive>-*`; `CancelOthers` is the fail-fast of the caller.

### CliUploads

`Dispatch`, `Busy` and `Panic` are the loop of `SendRequest`; GitHub may or may
not have created the run it answers 503 for. `ListRuns` reads one page of recent
runs, `LookInto` asks for the jobs of one of them, `TryAgain` counts tries,
`Report` ends the polling. Runs show their reference once they have started;
one cancelled before that stays `queued` here. Conclusions are not told apart.

## 3. Runs

| Run | Instance | Shows |
|---|---|---|
| `allocation_safety` | 2 runs, one with two builds; 1 revision before them; 2 polls | types, mutual exclusion, unique numbers, pushed images listed, slots never freed, canonical tags kept, ledger implemented; every run ends; the unlock step is reached |
| `allocation_unlock` | 2 runs, one build each | **violated**: runs that never locked delete locks |
| `listing_safety` | 2 uploads on two tracks, a repeated release | only a lockfile, or an empty container, stops a release; tracks read are those pushed to |
| `publishing_safety` | 3 runs, 7 requests, 2 push attempts, symmetry | recorded channels resolve; requests change only their channels; registries agree; serial releases refine `ReleaseBoard` |
| `preparation_safety` | 2 runs, 54 triggers, revisions 9, 10, 11 after 1, one that does not exist, 2 tracks, 2 dates, 2 days | merging file by file is merging at once; pins are served; some run survives; merges of downward followers stay valid; of the board they release to: unambiguous tags; every recorded channel resolves; tags drift from the record only by following and end of life; ended channels' tags stay |
| `rebuild_safety` | 3 sources on 2 bases, 5 revisions, 4 requests, 2 days | triggers are valid; undisturbed rebuilds change nothing but revisions |
| `events_safety` | 3 events, 2 workers, 3 attempts, 3 faults, 1 scan that fills its pipe | types; no second scan; losses need faults; the topic is drained unless all workers are stuck |
| `scans_safety` | revisions 5 and 15, 3 records, vulnerabilities disclosed until there are 3 issues, 2 faults | an oldest issue stays open unless somebody closed one or a scan found nothing; a vulnerability has an open issue in the end; duplicates go |
| `scans_fixed` | the same | **violated**: the issue of an image that is no longer vulnerable stays open |
| `docs_safety` | 2 runs, 2 releases, 2 pages, 1 failure, 3 tracks | rows are true; undisturbed runs publish the exact table |
| `build_safety` | 3 builds, 3 architectures, one without a runner | what succeeds is whole; every build ends |
| `cli_safety` | 2 clients, page of 1, 2 tries, 1 other run, 2 faults | clients report their own runs, start one, and end |

Why the bounds are enough. Two runs are the least that race for a lock; two
builds against one make their ranges of numbers overlap partly; one existing
revision makes "highest + 1" differ from 1; two polls give one sleep and one
time-out. Release sections that point up, down and across, laid over what a run
before has released and backfilled, make chains, circles and undefined targets,
on two tracks with and without the `latest` special case; one revision that is
not listed makes a target invalid; a date before and one after the day exercise
end of life. Two runs are the least that cancel each other and the least by
which a record is changed. Three releases of `publishing_safety` let one be recorded between the fetch and the pull of another, with a
third before or after; two push attempts let a push fail, be repeated and be
given up. Revisions 9 to 11 are where the order of names and of numbers differ;
triggers have up to two uploads, on the same or other channels, above and below
each other. Two sources on one base group in one trigger and the third must not
be touched; five revisions allow one whole rebuild after an upload. Three events
with two workers let one hang while the others are drained and the second
worker be given up; three faults lose one at each place. Revisions 5 and 15 are
the smallest pair of which one ends in the other. Vulnerabilities become known
until there are three issues, enough for two duplicates of an oldest one and for a
report after one was closed; reporting itself has no bound. Two faults close an
issue by hand and fail a step, or close two. Two pages let a tag move from an unread to a read one,
and back. Three builds have a prefix, a spelling and Launchpad between them. A
page of one run is one that any other run pushes a client's off; two faults
repeat a request twice. The symmetry of `publishing_safety` permutes runs, which
start alike and no property names. Deadlock is not checked: runs end, queues
empty and so do behaviours.

Fairness. It is weak fairness throughout, of steps that somebody owes: a hosted
runner takes up the next step of its job and a hanging request fails at the job's
time limit (`RevisionAllocation`, `BuildRock`); the Temporal server gives up an
attempt after half an hour and its workers go on with what they can do, which a
full pipe is not (`RebuildEvents`); the daily schedule starts scans and their
jobs get done (`VulnerabilityScans`); a client's loop goes on and a started run
ends (`CliUploads`; that GitHub ever starts a run is not assumed). Cancellations, crashes, losses,
releases by others are never owed. No fairness is needed for the lockfile: the
wait for it is bounded, which is what `EveryRunEnds` depends on.

### Where the code does less than its texts say

Two divergences have runs of their own, the others are conditions of properties
that pass. Each condition is there because TLC found the counterexample without
it; a maintainer who fixes one can drop it.

1. `Image.yaml:299` keeps only *failed* lock steps from unlocking. A run that
   failed in its setup or was cancelled while it waited deletes the lockfile of
   the run that holds it, against lines 296-298 (`allocation_unlock`).
2. `define_image_revision.sh` cannot tell a failed listing from an empty one
   (`Undisturbed`).
3. The listing counts slots of uploads that failed, so a release can name a
   revision without an image (`PushedIsListed` holds in one direction only), and
   the lockfile, on which `release_info.py:77` raises, as it does when nothing is
   listed (`RaisesForLockfileOnly`).
4. Tags of channels that follow a released one do not move, although
   `README.md:222` says "follow whatever revision is in that channel"; and
   `release.py:274` aliases over the mapping from before the end-of-life filter,
   so `<track>` is published although `<track>_stable` is not
   (`TagsDriftByFollowingOnly`, `EndedChannelsKeepTheirTags`).
5. Two releases that are valid alone can be merged by git into a circle
   (`RecordedChannelsResolve`); a copy older than the pulled clone undoes
   another release without a conflict (`OnlyRequestedChannelsChange`); after ten
   failed pushes the commit action succeeds, with tags published and nothing
   recorded (`SerialReleases`).
6. A run whose `prepare-releases` is cancelled has uploaded revisions that nobody
   releases (`SomeRunSurvives`); backfilling makes a circle of a release section
   that points upward (`DownwardMergeStaysValid`); a trigger without uploads
   raises `KeyError` at `release.py:195` (`Raises`) and its release is never
   backfilled.
7. A rebuild takes followers for pins, loses the channels of the older of two
   revisions of one source, and its backfill moves riskier channels that are on
   another base (`Clean` excludes the last two); a track that is new since the
   record was read ends the scan with `KeyError` (`ScanRaises`).
8. `proc.wait()` at `activity_consume_events.py:87` waits for a child that waits
   for its stderr to be read (`Stuck`); an event is committed before it is acted
   on (`LossesNeedFaults`).
9. Revision 15 is scanned for revision 5 (`Testable`); the issue of a fixed image
   stays open, although the truth table at `Vulnerability-Scan.yaml:317` closes it:
   line 271 puts out a title only when there are vulnerabilities, so that line 285
   looks for issues without one (`scans_fixed`). With the open issues of the image
   listed in any case, `FixedIssuesAreClosed` holds on the same instance, and so
   do the three properties of `scans_safety`.
10. A documentation row may have architectures of another digest than it lists
    (`TableIsTrue` bounds by what has been true), a revision only on `latest` has
    no row, a less stable channel may be chosen where the name of its track
    contains a more stable risk (`Shows`), and the older of two runs may publish
    last (`UndisturbedRunIsComplete`).
11. A `build-for` given as a string is dropped, and an archive name that is a
    prefix of another's attracts its rocks (`SuccessfulRockIsWhole`).
12. Two clients for one image in one second share a reference
    (`ReportsItsOwnRun`); a repeated dispatch can start a second run
    (`OneRunUnlessBusy`). It mostly fails instead: the body of a request is read
    once and `client.go:26-31` sends the same request again.

## 4. Proofs

Every theorem holds for all values of the constants that satisfy the `ASSUME`s of
the modules, whichever number of runs, tracks, revisions, events or faults that
is. TLC checked each inductive invariant on an instance before it was proved.

| Theorem | Property | In |
|---|---|---|
| `TypeCorrect`, `CriticalSection`, `RevisionsAreUnique`, `PushedImagesAreListed` | `TypeOK`, `MutualExclusion`, `UniqueRevisions`, `PushedIsListed` | `RevisionAllocationProofs` |
| `SlotsAreKept`, `CanonicalTagsStay`, `KeepsLedger` | `SlotsNeverFreed`, `CanonicalTagsImmutable`, `LedgerSpec` | |
| `LockfileRaises`, `TracksArePushed` | `RaisesForLockfileOnly`, `TracksAreThePushed` | |
| `BoardTypeCorrect`, `ChannelsResolve`, `EndedTagsStay`, `OnlyFollowingDrifts` | `BoardTypeOK`, `EveryChannelResolves`, `EndedChannelsKeepTheirTags`, `TagsDriftByFollowingOnly` | `ReleaseBoardProofs` |
| `MergesAtOnce`, `OneSurvives`, `MergeStaysValid`, `PinsServed` | `MergedAtOnce`, `SomeRunSurvives`, `DownwardMergeStaysValid`, `PinsAreServed` | |
| `RebuildTriggersValid`, `RebuildsAreTransparent` | `RebuildTriggersAreValid`, `RebuildIsTransparent` | |
| `TablesAreTrue`, `UndisturbedRunsAreComplete` | `TableIsTrue`, `UndisturbedRunIsComplete` | |
| `PublishingTypeCorrect`, `RecordResolves`, `RegistriesAgreeBetween` | `PublishingTypeOK`, `RecordedChannelsResolve`, `RegistriesAgree` | `ReleasePublishingProofs` |
| `OthersChannelsStay`, `ImplementsBoard` | `OnlyRequestedChannelsChange`, `SerialReleases` | |
| `SuccessIsWhole` | `SuccessfulRockIsWhole` | `BuildRockProofs` |
| `EventsTypeCorrect`, `EventsAreScannedOnce`, `LossesAreFaults` | `EventsTypeOK`, `NoScanTwice`, `LossesNeedFaults` | `RebuildEventsProofs` |
| `OldestStays` | `OldestStaysOpen` | `VulnerabilityScansProofs` |
| `ReportsAreOwn`, `RequestsStartOneRun` | `ReportsItsOwnRun`, `OneRunUnlessBusy` | `CliUploadsProofs` |

**Allocation.** The safety properties are not inductive: mutual exclusion of
`Critical` says nothing of a run about to enter. The invariant adds who holds the
lock (an undisturbed run in the critical section *is* the lock), what a run's data
and progress relate to (finished within stored within pushed within preempted
within data), that claims are in the container, and that while a run is between
its listing and its last preempted slot no higher number than its `next` appears.
Each conjunct is shown to be kept by each action; the theorems follow.
`KeepsLedger` shows every step to be a step of the ledger or a stutter.

A release that lists the container meanwhile adds that each slot in its list is
one that existed or that a run has claimed: with unique revisions a
number then has one track, which is the one its image is pushed to. The slots
that existed must have one track per number themselves (`ListingAssumption`). The
attempt to prove `RaisesForLockfileOnly` in its first form failed on the
instances without a slot: an image nothing was ever uploaded of has an empty
list, which is read as one tag without a revision and raises too. The property says
so now.

**Following** (`ReleaseTagsProofs`). `Followed` is a least set closed under one
step: `FollowedClosed` and `FollowedLeast` are the induction that stands for.
From them, `Ends` follows the steps of a channel (`EndsOneOn`, `EndsAtRevision`)
and depends on the channels on the way only (`SameWay`). `RequestKeepsResolving`
is the step of all that follows: let a channel resolve in a mapping.
Following it in the mapping overlaid with a request either stays on channels the
request does not name, and ends where it ended, or meets the first one it does
name, which the release has validated.

**Releases one after the other** (`ReleaseBoard`). `ChannelsResolve` is
`RequestKeepsResolving` per release. `OnlyFollowingDrifts` is about steps: a
release gives each channel it names that has not ended the tag it resolves to
(`OwnTags`), and channels other than the named ones and their aliases keep theirs
(`TagsAreDistinct`: no alias is the tag of another channel).

**From a trigger to its release** (`ReleasePreparation`). The invariant `Merging(r)`
is the claim of `MergedAtOnce` for the files merged so far. Its step is
algebra of mappings: backfilling twice is backfilling once (`BackfillOnce`), since a
channel that was added follows the same neighbour with or without the next pins
below it, and laying one more file over the last pins is the last pins of one file
more (`OneFileMore`, `LastPinIs`). `PinsServed` then reads the backfilled mapping:
a riskier channel with no named channel in between was added by the backfill, or
is it, and follows the pin step by step (`PinIsFollowed`, by the ranks of the
risks). In `MergeStaysValid` every channel follows a safer one, so following ends
by rank (`DownwardResolves`). Both need what the schema of a trigger guarantees;
`ImageSchema` says all of it: the forbidden extra fields, and that `release`
is a mapping.

**Automatic rebuilds** (`ImageRebuilds`). The invariant `RebuildInv` says that
released revisions exist and have a source, that a trigger holds one upload per
source with dates for its tracks, and, while nobody has released anything since
the scan began, what the scan found (`Found`): each channel of an upload is one
that a tag of a released revision of that source stands for, and each tag of a
revision on the base is in an upload, unless its track has ended or its source is
released twice. The builds of a trigger are sorted. That each group is in them
once is `SortedLists`: the ranks of distinct places are an injection into as many
numbers, hence a bijection (`TriggerIs`). `MergedIs` is the loop over the files of
a rebuild, by the least number of files for which its claim would fail.

`RebuildsAreTransparent` joins this with the conditions of the property. If record
and registry agree, what was found is recorded (`UploadsAreRecorded`), so that the
trigger pins recorded channels only, each to a build of the source it has. With
each track on one base, a recorded channel above a pinned one is pinned too, and
backfilling adds channels that nobody had. The release is therefore accepted (pins
are new revisions, what is added follows downward, and no track has ended), and
every recorded channel ends where it ended, or at the pin of a channel that it
follows (`LaidOver`, `EndsUnique`), which had the same source. The live channels
of the base are pinned themselves and get what did not exist.

**Documentation** (`DocumentationData`). The invariant `DocInv` relates what a run
has read to what the registry held since it began: a row is of tags and of
architectures it had then, a tag is on one page, hence read once, and stands on
one row. A run that nobody has disturbed has read the registry itself, up to the
page it is at, so that after the last page (`LastPageIsLast`) its rows are the
table. `MostStable` is the search of `find_channel_tag` through the risks.

**Concurrent releases** (`ReleasePublishing`). `RecordResolves` needs that every
mapping a run holds resolves: the one it copied, the one it computed from the copy
and the one it committed on its clone; each came from a commit. A rebase that
merges sets `merged`, any other leaves mappings as they were.
`OthersChannelsStay` relates a copy that is not stale to the clone it is committed
on. `ImplementsBoard` is a refinement for releases that come one after the other
(`serial`): while one is active no other is, so its outcome is the overlay of the
last commit with its request, the registries are `settled` with the tags published
so far, and when it pushes they are what a `Release` of the board makes of
`settled`. Everything before is a stutter, since record and `settled` only change
in that step.

**Builds** (`BuildRock`). A rock among the artifacts is of a declared architecture of its
build (`DeclaredOnly`), and a job that succeeded has left one
(`Left`); a configured build runs jobs for all it asks for (`Configured`), so once
none of them failed or was cancelled, the rocks of all are there. The archive holds
one rock per file name, and the name has the architecture in it: downloading drops
builds of equal names, and never an architecture (`DownloadKeepsArchs`).

**Rebuild events.** The topic has one reader, so of all workers at most one holds an
event it has not committed yet; that event is `committed + 1`, and it is committed
when the consumer closes, before it is acted on. Hence, as long as no commit was
lost, an event that a worker acts on was scanned by nobody else. An event is lost
only when the worker that acted on it stops, and a fault stops one worker.

**Scans.** What a job is about to close as a duplicate has an older issue with its
title (`Duplicates`). Issues are only appended and keep their titles, so that stays
true of what was listed long ago; the oldest issue of a title is then never among
them. What a job is about to close as fixed was open when a scan of the image found
nothing, which made it closable: the invariant does not depend on the title being
missing then.

**Clients.** The invariant adds that a run bears the reference of the client that
started it and keeps it, that pages and watched numbers are those of runs that
exist, that a client which has found its run watches one with its own reference,
and that before the first fault a client starts its run with its first request.

Only model-checked is liveness (`EveryRunEnds`, `UnlockIsReached`,
`TopicIsDrained`, `VulnerabilityIsReported`, `DuplicatesGo`, `EveryBuildEnds`,
`EveryClientEnds`): fairness and ENABLED are out of the prover's reach. Every
safety invariant and every action property that a passing run checks is stated by
a theorem.

## 5. Not modelled

Left out for good, because they keep no state that outlives a step or only call
services: formatting of documents and messages and their schema, external
scanners and test tools and what they look for, the content of images,
encryption of artefacts, actor checks, PR checks, announcements, CI of the
factory, the charms that deploy the workflow engine, the parsing of the client's
arguments and of git metadata. GitHub releases (one call per new git tag at the
end of `Release.yaml`) and the comparison of old and new vulnerabilities in
`Vulnerability-Scan.yaml` are small and left out of components that are otherwise
modelled.

The modules for releases of other components (`ReleasePreparation`,
`ImageRebuilds`, `DocumentationData`) take a release as one step, as
`ReleaseBoard` does; the interleavings inside it are those of
`ReleasePublishing`.

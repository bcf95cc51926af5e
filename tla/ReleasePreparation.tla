------------------------- MODULE ReleasePreparation -------------------------
(***************************************************************************)
(* From the triggers of an image to its releases: runs of Image.yaml whose *)
(* uploads have been given revisions, the job prepare-releases that merges *)
(* the revision files into the trigger and that a newer run of the same    *)
(* image cancels, and the release each run makes of the result.  Release   *)
(* itself is ReleaseBoard's, whole and one at a time; ReleasePublishing    *)
(* looks into it.                                                          *)
(***************************************************************************)
EXTENDS ReleaseBoard, ReleaseRequests

CONSTANTS
    Runs,       \* runs of Image.yaml, or of Release.yaml when dispatched
    Triggers,   \* image.yaml files somebody may push
    Numbers,    \* revision numbers in the order they are handed out
    ByName      \* the same revisions in the order of file names: 10 before 9

ASSUME PreparationAssumption ==
    /\ \A trigger \in Triggers : ImageSchema(trigger)
    /\ Numbers \in Seq(Listed)
    /\ ByName \in Seq(Listed)
    /\ \A i \in DOMAIN Numbers : \E j \in DOMAIN ByName : ByName[j] = Numbers[i]

VARIABLES
    stage,      \* per run, where it is
    asked,      \* per run, the trigger it was started with
    trigger,    \* per run, its copy of image.yaml
    files,      \* per run, the revision files still to be merged
    given       \* how many of Numbers have been handed out

\* History: the revision files each run had when it started to merge.
VARIABLE merged

runVars == <<stage, asked, trigger, files, given, merged>>
preparationVars == <<boardVars, runVars>>

Over == {"released", "refused", "failed", "cancelled", "nothing"}
NoTrigger == [release |-> EmptyMapping, eol |-> EmptyMapping, uploads |-> <<>>]

PreparationInit ==
    /\ BoardInit
    /\ stage = [r \in Runs |-> "idle"]
    /\ asked = [r \in Runs |-> NoTrigger]
    /\ trigger = [r \in Runs |-> NoTrigger]
    /\ files = [r \in Runs |-> {}]
    /\ merged = [r \in Runs |-> {}]
    /\ given = 0

Goto(r, s) == stage' = [stage EXCEPT ![r] = s]

\* prepare-build and prepare-upload: an image.yaml is pushed and its builds
\* get their numbers.  Without any build the matrix of the next job is
\* empty: the run fails there and what needs it is skipped.
Start(r) ==
    /\ stage[r] = "idle"
    /\ \E t \in Triggers :
          LET n == Len(t.uploads)
              numbers == SubSeq(Numbers, given + 1, given + n)
              fs == RevisionFiles(t.uploads, numbers, now)
          IN  /\ given + n <= Len(Numbers)
              /\ given' = given + n
              /\ asked' = [asked EXCEPT ![r] = t]
              /\ trigger' = [trigger EXCEPT ![r] = t]
              /\ files' = [files EXCEPT ![r] = fs]
              /\ merged' = [merged EXCEPT ![r] = fs]
              /\ Goto(r, CASE fs = {} -> "failed"
                           [] ReleaseTo(t, fs) -> "uploaded"
                           [] OTHER -> "nothing")
    /\ UNCHANGED boardVars

\* Mutant: the runs that wait for their release are cancelled as well.
PrepareAlone(r) ==
    /\ stage[r] = "uploaded"
    /\ stage' = [q \in Runs |-> IF q # r /\ stage[q] = "merging" THEN "cancelled"
                                ELSE IF stage[q] = "uploaded" THEN "cancelled"
                                ELSE stage[q]]
    /\ UNCHANGED <<boardVars, asked, trigger, files, given, merged>>

\* prepare-releases starts.  Its concurrency group is the image's path, and
\* a job of the group that is in progress is cancelled.
Prepare(r) ==
    /\ stage[r] = "uploaded"
    /\ stage' = [q \in Runs |-> IF q = r THEN "merging"
                                ELSE IF stage[q] = "merging" THEN "cancelled"
                                ELSE stage[q]]
    /\ UNCHANGED <<boardVars, asked, trigger, files, given, merged>>

Position(v) == CHOOSE i \in DOMAIN ByName : ByName[i] = v
FirstByName(fs) ==
    CHOOSE f \in fs : \A g \in fs : Position(f.rev) <= Position(g.rev)

\* Mutant: what image.yaml had is merged again over the pins.
MergeNextUnder(r) ==
    /\ stage[r] = "merging"
    /\ files[r] # {}
    /\ LET f == FirstByName(files[r])
       IN  /\ files' = [files EXCEPT ![r] = @ \ {f}]
           /\ trigger' = [trigger EXCEPT ![r] =
                 IF f.channels = {} THEN @
                 ELSE [@ EXCEPT !.release = Backfill(Overlay(Pins(f), @)),
                                !.eol = Overlay(@, f.eol)]]
    /\ UNCHANGED <<boardVars, stage, asked, given, merged>>

\* One turn of the loop over the revision files, which skips those that are
\* not marked for release.
MergeNext(r) ==
    /\ stage[r] = "merging"
    /\ files[r] # {}
    /\ LET f == FirstByName(files[r])
       IN  /\ files' = [files EXCEPT ![r] = @ \ {f}]
           /\ trigger' = [trigger EXCEPT ![r] =
                 IF f.channels = {} THEN @ ELSE MergeRevision(@, f)]
    /\ UNCHANGED <<boardVars, stage, asked, given, merged>>

\* The trigger is put in the cache: the release no longer depends on the job.
Save(r) ==
    /\ stage[r] = "merging"
    /\ files[r] = {}
    /\ Goto(r, "saved")
    /\ UNCHANGED <<boardVars, asked, trigger, files, given, merged>>

\* Release.yaml is dispatched by hand: it takes the image.yaml of the
\* repository as it is.
Dispatch(r) ==
    /\ stage[r] = "idle"
    /\ \E t \in Triggers :
          /\ DOMAIN t.release # {}
          /\ asked' = [asked EXCEPT ![r] = t]
          /\ trigger' = [trigger EXCEPT ![r] = t]
    /\ Goto(r, "saved")
    /\ UNCHANGED <<boardVars, files, given, merged>>

\* release.py looks up image_trigger["upload"] whether it is there or not,
\* and raises when a request is not valid at this moment.
Raises(t) == t.uploads = <<>> \/ ~ Accepted(t.release, DatesOf(t))

ReleaseRun(r) ==
    /\ stage[r] = "saved"
    /\ \/ /\ ~ Raises(trigger[r])
          /\ Release(trigger[r].release, DatesOf(trigger[r]))
          /\ Goto(r, "released")
       \/ /\ Raises(trigger[r])
          /\ Goto(r, "refused")
          /\ UNCHANGED boardVars
    /\ UNCHANGED <<asked, trigger, files, given, merged>>

\* A job before the release fails: an upload, a clone, the cache.
Fail(r) ==
    /\ stage[r] \in {"uploaded", "merging", "saved"}
    /\ Goto(r, "failed")
    /\ UNCHANGED <<boardVars, asked, trigger, files, given, merged>>

Advance(r) ==
    Start(r) \/ Prepare(r) \/ MergeNext(r) \/ Save(r) \/ Dispatch(r)
    \/ ReleaseRun(r)

PreparationNext ==
    \/ \E r \in Runs : Advance(r) \/ Fail(r)
    \/ Tick /\ UNCHANGED runVars

PreparationSpec == PreparationInit /\ [][PreparationNext]_preparationVars
-----------------------------------------------------------------------------
\* The revision file whose pin of c is the last to be merged.
LastPin(fs, c) ==
    CHOOSE f \in {g \in fs : c \in g.channels} :
        \A g \in fs : c \in g.channels => Position(g.rev) <= Position(f.rev)

Pinned(fs) == UNION {f.channels : f \in fs}

\* Merging file by file, with a backfill after each, comes to the same as
\* laying all pins over the trigger and filling the gaps once: a channel
\* that an early backfill has added never shadows a later pin, and nothing
\* an earlier file has pinned is lost (Image.yaml:602-618).
MergedAtOnce ==
    \A r \in Runs :
        stage[r] = "merging" /\ files[r] = {} /\ Pinned(merged[r]) # {} =>
            trigger[r].release =
                Backfill(Overlay(asked[r].release,
                           [c \in Pinned(merged[r]) |->
                                LastPin(merged[r], c).rev]))

\* README.md:208-211: the revision of an upload is what its channels serve
\* once the run has released, and so do the riskier channels of the track
\* that neither the trigger nor another upload names.
PinsAreServed ==
    [][\A r \in Runs :
          stage[r] = "saved" /\ stage'[r] = "released" =>
              \A c \in Pinned(merged[r]) : \A d \in Channels :
                  /\ d = c \/ Below(c, d)
                  /\ d \notin (DOMAIN asked[r].release \cup Pinned(merged[r])) \ {c}
                  /\ \A e \in DOMAIN asked[r].release \cup Pinned(merged[r]) :
                        ~ (Below(c, e) /\ Below(e, d))
                  => RevisionOf(channels', channels'[d]) = LastPin(merged[r], c).rev
      ]_preparationVars

\* Runs of an image cancel each other, but there is always one that is not
\* cancelled: the last one to start its job (Image.yaml:562-564).
SomeRunSurvives ==
    \A r \in Runs : stage[r] = "cancelled" =>
        \E q \in Runs : stage[q] \notin {"idle", "uploaded", "cancelled"}

\* Every channel that follows another one follows a safer one of its track.
FollowsDownward(m) == \A c \in DOMAIN m : m[c] \in Channels => Below(m[c], c)

\* A release section that is valid stays so when the uploads of the same
\* file are merged into it and backfilled, however old the record it meets,
\* unless channels follow riskier ones or other tracks: backfilling looks at
\* the trigger alone, and can turn such a section into a circle
\* (merge_release_info.py:30-44, release.py:218-265).
DownwardMergeStaysValid ==
    \A r \in Runs :
        LET before == Overlay(channels, asked[r].release)
        IN  stage[r] = "saved" /\ FollowsDownward(before)
            /\ (\A c \in DOMAIN before : Resolves(before, c))
                => ValidRequest(Overlay(channels, trigger[r].release),
                                trigger[r].release)
=============================================================================

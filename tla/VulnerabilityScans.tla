------------------------- MODULE VulnerabilityScans -------------------------
(***************************************************************************)
(* Continuous testing of the released revisions of one image.  Each day    *)
(* get_released_revisions.py finds an image in GHCR for every revision     *)
(* that the record releases; Vulnerability-Scan.yaml scans them side by    *)
(* side, and its job `issue` opens, edits and closes GitHub issues, of     *)
(* which there is to be one per vulnerable image.                          *)
(***************************************************************************)
EXTENDS ReleaseTags, Sequences, FiniteSetsExt

CONSTANTS
    EndsWith,   \* <<v, w>>: the digits of revision w end in those of v
    Images,     \* canonical tags [track, rev] in the order GHCR lists them
    Records,    \* what _releases.json may hold
    Eol, Now,   \* the end-of-life dates in it, and the day
    MaxIssues,  \* issues after which no more vulnerabilities become known
    MaxFaults   \* bound of failed steps and of issues closed by hand

ASSUME ScansAssumption ==
    /\ \A v \in Revisions : <<v, v>> \in EndsWith
    /\ Images \in Seq([track : Tracks, rev : Revisions])
    /\ \A m \in Records : IsMapping(m)
    /\ MaxIssues \in Nat /\ MaxFaults \in Nat

VARIABLES
    channels,   \* the mapping in _releases.json
    vulnerable, \* revisions whose image has a known vulnerability
    issues,     \* the issues in the order of their numbers: [title, open]
    step,       \* per revision, where its job is
    job,        \* per revision, what its job knows
    faults

\* History: numbers of the issues there was a reason to close: a maintainer
\* has closed them, or a scan of their image found nothing while they were open.
VARIABLE closable

vars == <<channels, vulnerable, issues, step, job, faults, closable>>
world == <<channels, vulnerable, faults>>

NoTag == 0
NoJob == [image |-> 0, found |-> FALSE, keep |-> 0, close |-> {}]

-----------------------------------------------------------------------------
(* The matrix.                                                             *)

\* Revisions some channel is pinned to, on a track that has not ended.
Scanned(m) ==
    {m[c] : c \in {d \in DOMAIN m : ~ PastEndOfLife(Eol, Now, d)}}
        \cap Revisions

\* get_image_name_in_registry: the first tag that ends with the revision.
ImageOf(v) ==
    LET hits == {i \in DOMAIN Images : <<v, Images[i].rev>> \in EndsWith}
    IN  IF hits = {} THEN NoTag ELSE Min(hits)

\* get_revision_to_released_tags, and when it raises.
ReleasedTags(m, v) == {c \in DOMAIN m : v \in Ends(m, c)}
TagsRaise(m) == \E c \in DOMAIN m : Ends(m, c) \cap Revisions = {}

-----------------------------------------------------------------------------
(* The job `issue` of the scan of a revision.                              *)

Open(title) == {n \in DOMAIN issues : issues[n].title = title /\ issues[n].open}

Init ==
    /\ channels \in Records
    /\ vulnerable = {} /\ issues = <<>>
    /\ step = [v \in Revisions |-> "idle"]
    /\ job = [v \in Revisions |-> NoJob]
    /\ faults = 0 /\ closable = {}

Goto(v, s) == step' = [step EXCEPT ![v] = s]

\* The day's run looks the revision up and scans the image it has found.
Scan(v) ==
    /\ step[v] = "idle"
    /\ v \in Scanned(channels) /\ ImageOf(v) # NoTag
    /\ job' = [job EXCEPT ![v] =
                  [NoJob EXCEPT !.image = ImageOf(v),
                                !.found = Images[ImageOf(v)].rev \in vulnerable]]
    /\ Goto(v, "markdown")
    /\ UNCHANGED <<world, closable, issues>>

\* "Create markdown content" looks for the tracks that the image is
\* released to; jq fails on a revision that is released to none.
Markdown(v) ==
    /\ step[v] = "markdown"
    /\ Goto(v, IF job[v].found /\ \/ TagsRaise(channels)
                                  \/ ReleasedTags(channels,
                                         Images[job[v].image].rev) = {}
               THEN "idle" ELSE "list")
    /\ UNCHANGED <<world, closable, issues, job>>

Fixed(v) == IF job[v].found THEN {} ELSE Open(job[v].image)

\* Mutant: the issues are not sorted, the newest is listed first.
ListUnsorted(v) ==
    /\ step[v] = "list"
    /\ LET listed == IF job[v].found THEN Open(job[v].image) ELSE {}
           keep == IF listed = {} THEN 0 ELSE Max(listed)
       IN  job' = [job EXCEPT ![v].keep = keep, ![v].close = listed \ {keep}]
    /\ closable' = closable \cup Fixed(v)
    /\ Goto(v, "close")
    /\ UNCHANGED <<world, issues>>

\* Mutant: closed issues are listed too (--state all).
ListClosedToo(v) ==
    /\ step[v] = "list"
    /\ LET listed == IF job[v].found
                     THEN {n \in DOMAIN issues : issues[n].title = job[v].image}
                     ELSE {}
           keep == IF listed = {} THEN 0 ELSE Min(listed)
       IN  job' = [job EXCEPT ![v].keep = keep, ![v].close = listed \ {keep}]
    /\ closable' = closable \cup Fixed(v)
    /\ Goto(v, "close")
    /\ UNCHANGED <<world, issues>>

\* "issue-exists": the open issues with the title, the first of which is
\* kept.  The title is set only when a vulnerability was found: without
\* one the list is that of the issues without a title.
List(v) ==
    /\ step[v] = "list"
    /\ LET listed == IF job[v].found THEN Open(job[v].image) ELSE {}
           keep == IF listed = {} THEN 0 ELSE Min(listed)
       IN  job' = [job EXCEPT ![v].keep = keep, ![v].close = listed \ {keep}]
    /\ closable' = closable \cup Fixed(v)
    /\ Goto(v, "close")
    /\ UNCHANGED <<world, issues>>

Closed(n) == issues' = [issues EXCEPT ![n].open = FALSE]

\* Mutant: duplicates are left to be closed by hand.
CloseNoDuplicate(v) ==
    /\ step[v] = "close"
    /\ job[v].close # {}
    /\ job' = [job EXCEPT ![v].close = {}]
    /\ UNCHANGED <<world, closable, issues, step>>

\* "Close duplicate issues", one by one.
CloseDuplicate(v) ==
    /\ step[v] = "close"
    /\ job[v].close # {}
    /\ Closed(Min(job[v].close))
    /\ job' = [job EXCEPT ![v].close = @ \ {Min(@)}]
    /\ UNCHANGED <<world, closable, step>>

\* "Notify via GitHub issue": create when none was listed; an edit changes
\* nothing that is modelled, and does not open a closed issue again.
Report(v) ==
    /\ step[v] = "close" /\ job[v].close = {} /\ job[v].found
    /\ IF job[v].keep = 0
       THEN issues' = Append(issues, [title |-> job[v].image, open |-> TRUE])
       ELSE UNCHANGED issues
    /\ Goto(v, "idle")
    /\ UNCHANGED <<world, closable, job>>

\* "Close issue", when one was listed and nothing found.
CloseFixed(v) ==
    /\ step[v] = "close" /\ job[v].close = {} /\ ~ job[v].found
    /\ IF job[v].keep # 0 THEN Closed(job[v].keep) ELSE UNCHANGED issues
    /\ Goto(v, "idle")
    /\ UNCHANGED <<world, closable, job>>

Fault == faults < MaxFaults /\ faults' = faults + 1

StepFails(v) ==
    /\ step[v] # "idle"
    /\ Fault
    /\ Goto(v, "idle")
    /\ UNCHANGED <<channels, vulnerable, closable, issues, job>>

Advance(v) ==
    Scan(v) \/ Markdown(v) \/ List(v) \/ CloseDuplicate(v) \/ Report(v)
    \/ CloseFixed(v)

-----------------------------------------------------------------------------
(* The world around it.                                                    *)

\* A vulnerability of an image becomes known, or proves to be none.
Disclose(v) ==
    /\ \/ v \in vulnerable /\ vulnerable' = vulnerable \ {v}
       \/ /\ v \notin vulnerable /\ Len(issues) < MaxIssues
          /\ vulnerable' = vulnerable \cup {v}
    /\ UNCHANGED <<channels, faults, closable, issues, step, job>>

ReleaseElse ==
    /\ channels' \in Records
    /\ UNCHANGED <<vulnerable, faults, closable, issues, step, job>>

CloseByHand ==
    /\ Fault
    /\ \E n \in DOMAIN issues :
          /\ issues[n].open
          /\ Closed(n)
          /\ closable' = closable \cup {n}
    /\ UNCHANGED <<channels, vulnerable, step, job>>

Next ==
    \/ \E v \in Revisions : Advance(v) \/ StepFails(v) \/ Disclose(v)
    \/ ReleaseElse \/ CloseByHand

Spec == Init /\ [][Next]_vars

\* The scan is run every day and its jobs get done.
FairSpec == Spec /\ \A v \in Revisions : WF_vars(Advance(v))
-----------------------------------------------------------------------------
\* Concurrent scans of the same image may open several issues and close the
\* duplicates of what each has listed, but never the oldest one: the first is
\* there for the next scan, unless there was a reason to close an issue of
\* the image.  A maintainer's is one; a scan that finds nothing is another,
\* after which the truth table lets it close what is open
\* (Vulnerability-Scan.yaml:283-306, 311-320).
OldestStaysOpen ==
    \A n \in DOMAIN issues :
        (\A k \in 1..(n - 1) : issues[k].title # issues[n].title)
        /\ (\A k \in closable : issues[k].title # issues[n].title)
            => issues[n].open

\* The revision is scanned as itself, and its tracks can be told.
Testable(v) ==
    /\ v \in Scanned(channels) /\ ~ TagsRaise(channels)
    /\ ImageOf(v) # NoTag /\ Images[ImageOf(v)].rev = v

\* A vulnerability that stays has an open issue in the end: it is reported,
\* whatever steps fail, and reported anew when an issue was closed before,
\* by hand or as a duplicate of one that is closed meanwhile
\* (Vulnerability-Scan.yaml:283-345).
VulnerabilityIsReported ==
    \A v \in Revisions :
        <>[](Testable(v) /\ v \in vulnerable) => <>[](Open(ImageOf(v)) # {})

\* Duplicates go: in the end there is one open issue per title at most.
DuplicatesGo ==
    \A v \in Revisions :
        <>[](Testable(v) /\ v \in vulnerable) =>
            <>[](Cardinality(Open(ImageOf(v))) <= 1)

\* The truth table's "close": once the vulnerabilities of an image are gone
\* and it is still scanned, its issues are closed in the end
\* (Vulnerability-Scan.yaml:317, 350-357).
FixedIssuesAreClosed ==
    \A v \in Revisions :
        <>[](Testable(v) /\ v \notin vulnerable) => <>[](Open(ImageOf(v)) = {})

=============================================================================

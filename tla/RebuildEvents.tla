---------------------------- MODULE RebuildEvents ----------------------------
(***************************************************************************)
(* The temporal workflow that turns events of a Kafka topic into scans for *)
(* images to rebuild.  One run of ConsumeEventsWorkflow follows another,   *)
(* each waiting for one activity; the activity polls the topic for one     *)
(* event, commits it by closing its consumer, posts a message, runs        *)
(* find_images_to_update.py and updates the message.                       *)
(*                                                                         *)
(* The activity blocks the event loop of its worker, so a worker runs one  *)
(* at a time; the server gives up an attempt after start_to_close_timeout  *)
(* and schedules another, which the worker of the old one knows nothing    *)
(* of.  The topic is an offset: event e is the e-th one published.         *)
(***************************************************************************)
EXTENDS Naturals, FiniteSets

CONSTANTS
    Workers,        \* units of the temporal worker (two in charm.tf)
    NoWorker,       \* the current attempt is not started
    Events,         \* number of events that are published
    LongLogs,       \* events whose scan logs more than a pipe holds
    MaxAttempts,    \* maximum_attempts of the retry policy (100 there)
    MaxFaults       \* bound of faults

ASSUME EventsAssumption ==
    /\ NoWorker \notin Workers
    /\ Events \in Nat /\ LongLogs \subseteq 1..Events
    /\ MaxAttempts \in Nat \ {0} /\ MaxFaults \in Nat

VARIABLES
    published,  \* events in the topic
    committed,  \* offset of the consumer group
    step,       \* per worker, where its activity is
    event,      \* per worker, the event its activity has read, or 0
    holder,     \* the worker the server has given the current attempt
    attempt,    \* the number of that attempt in the workflow run
    faults

\* History: scans started per event; commits that were lost.
VARIABLES scans, uncommitted

vars == <<published, committed, step, event, holder, attempt, faults, scans,
          uncommitted>>

Steps == {"idle", "poll", "close", "notify", "scan", "wait", "update"}

EventsTypeOK ==
    /\ published \in 0..Events /\ committed \in 0..published
    /\ step \in [Workers -> Steps] /\ event \in [Workers -> 0..published]
    /\ holder \in Workers \cup {NoWorker}
    /\ attempt \in 1..MaxAttempts
    /\ faults \in 0..MaxFaults

Init ==
    /\ published = 0 /\ committed = 0
    /\ step = [w \in Workers |-> "idle"]
    /\ event = [w \in Workers |-> 0]
    /\ holder = NoWorker /\ attempt = 1
    /\ faults = 0
    /\ scans = [e \in 1..Events |-> 0]
    /\ uncommitted = FALSE

-----------------------------------------------------------------------------
(* The server.                                                             *)

\* Mutant: one attempt more than the policy allows.
RetryOnceMore ==
    /\ holder' = NoWorker
    /\ attempt' = IF attempt > MaxAttempts THEN 1 ELSE attempt + 1

\* The next attempt of the activity is queued: a retry, or after the last
\* one (ActivityError) the first of the run that continues as new.
Retry ==
    /\ holder' = NoWorker
    /\ attempt' = IF attempt = MaxAttempts THEN 1 ELSE attempt + 1

\* The workflow run ends with its activity and continues as new.
ContinueAsNew == holder' = NoWorker /\ attempt' = 1

Publish ==
    /\ published < Events
    /\ published' = published + 1
    /\ UNCHANGED <<committed, step, event, holder, attempt, faults, scans,
                   uncommitted>>

\* Mutant: the server relies on the worker to report.
TimeoutUnlessLost ==
    /\ holder # NoWorker /\ step[holder] # "idle"
    /\ Retry
    /\ UNCHANGED <<published, committed, step, event, faults, scans,
                   uncommitted>>

\* Half an hour has passed since the attempt was started.
Timeout ==
    /\ holder # NoWorker
    /\ Retry
    /\ UNCHANGED <<published, committed, step, event, faults, scans,
                   uncommitted>>

-----------------------------------------------------------------------------
(* The activity of worker w.                                               *)

At(w, s) == step[w] = s
Goto(w, s) == step' = [step EXCEPT ![w] = s]

\* The activity ends, well or not; the server hears of it only when this
\* is the attempt it waits for.
Finish(w, reaction) ==
    /\ Goto(w, "idle")
    /\ event' = [event EXCEPT ![w] = 0]
    /\ IF holder = w THEN reaction ELSE UNCHANGED <<holder, attempt>>

Fault == faults < MaxFaults /\ faults' = faults + 1

StartActivity(w) ==
    /\ At(w, "idle") /\ holder = NoWorker
    /\ holder' = w
    /\ Goto(w, "poll")
    /\ UNCHANGED <<published, committed, event, attempt, faults, scans,
                   uncommitted>>

\* Mutant: the consumers do not share a group.
PollUngrouped(w) ==
    /\ At(w, "poll")
    /\ committed < published
    /\ event' = [event EXCEPT ![w] = committed + 1]
    /\ Goto(w, "close")
    /\ UNCHANGED <<published, committed, holder, attempt, faults, scans,
                   uncommitted>>

\* The first event that is not committed, to one consumer of the group at a
\* time; without one the loop goes on for ever.
Poll(w) ==
    /\ At(w, "poll")
    /\ committed < published
    /\ \A v \in Workers : ~ At(v, "close")
    /\ event' = [event EXCEPT ![w] = committed + 1]
    /\ Goto(w, "close")
    /\ UNCHANGED <<published, committed, holder, attempt, faults, scans,
                   uncommitted>>

\* Mutant: what has been published is committed, not what was read.
CloseAtEnd(w) ==
    /\ At(w, "close")
    /\ committed' = published
    /\ \/ /\ Goto(w, "notify")
          /\ UNCHANGED <<event, holder, attempt, faults>>
       \/ Finish(w, Retry) /\ Fault
    /\ UNCHANGED <<published, scans, uncommitted>>

\* `finally`: the consumer is closed, which commits the event whether it
\* could be deserialized or not.
Close(w) ==
    /\ At(w, "close")
    /\ committed' = event[w]
    /\ \/ /\ Goto(w, "notify")
          /\ UNCHANGED <<event, holder, attempt, faults>>
       \/ Finish(w, Retry) /\ Fault
    /\ UNCHANGED <<published, scans, uncommitted>>

\* The commit is lost: the event will be read again.
CloseUncommitted(w) ==
    /\ At(w, "close")
    /\ Fault
    /\ uncommitted' = TRUE
    /\ Goto(w, "notify")
    /\ UNCHANGED <<published, committed, event, holder, attempt, scans>>

\* send_message; requests raises on a refused or late answer.
Notify(w) ==
    /\ At(w, "notify")
    /\ \/ /\ Goto(w, "scan")
          /\ UNCHANGED <<event, holder, attempt, faults>>
       \/ Finish(w, Retry) /\ Fault
    /\ UNCHANGED <<published, committed, scans, uncommitted>>

Scan(w) ==
    /\ At(w, "scan")
    /\ Goto(w, "wait")
    /\ scans' = [scans EXCEPT ![event[w]] = @ + 1]
    /\ UNCHANGED <<published, committed, event, holder, attempt, faults,
                   uncommitted>>

\* proc.wait() returns when the script has ended.  Nobody reads its stderr
\* before: a script that logs more than the pipe holds never ends.
ScanEnds(w) ==
    /\ At(w, "wait")
    /\ event[w] \notin LongLogs
    /\ Goto(w, "update")
    /\ UNCHANGED <<published, committed, event, holder, attempt, faults, scans,
                   uncommitted>>

\* update_status_and_message, and the result goes to the server.
Update(w) ==
    /\ At(w, "update")
    /\ \/ Finish(w, ContinueAsNew) /\ UNCHANGED faults
       \/ Finish(w, Retry) /\ Fault
    /\ UNCHANGED <<published, committed, scans, uncommitted>>

\* An error of the topic, of the registry or of the configuration.
PollFails(w) ==
    /\ At(w, "poll")
    /\ Fault
    /\ Finish(w, Retry)
    /\ UNCHANGED <<published, committed, scans, uncommitted>>

\* The worker's unit restarts.  The server finds out by the timeout.
Crash(w) ==
    /\ ~ At(w, "idle")
    /\ Fault
    /\ Goto(w, "idle")
    /\ event' = [event EXCEPT ![w] = 0]
    /\ UNCHANGED <<published, committed, holder, attempt, scans, uncommitted>>

Advance(w) ==
    StartActivity(w) \/ Poll(w) \/ Close(w) \/ Notify(w) \/ Scan(w)
    \/ ScanEnds(w) \/ Update(w)

Next ==
    \/ Publish \/ Timeout
    \/ \E w \in Workers :
          Advance(w) \/ CloseUncommitted(w) \/ PollFails(w) \/ Crash(w)

Spec == Init /\ [][Next]_vars

\* A worker goes on with what it can do, a scan that can end does, and the
\* server does not wait for ever.
Fairness == WF_vars(Timeout) /\ \A w \in Workers : WF_vars(Advance(w))

FairSpec == Spec /\ Fairness
-----------------------------------------------------------------------------
\* An event is not acted on twice, whatever attempt times out, fails or is
\* restarted, but when a commit was lost: no two scans rebuild the same
\* images because of the retries (consume_events_workflow.py:36-46).
NoScanTwice ==
    ~ uncommitted => \A e \in 1..Events : scans[e] <= 1

AtWork(e) == \E w \in Workers : event[w] = e

\* An event that is committed, was never scanned for and is at work nowhere
\* was lost to a fault of its own: the interplay of attempts skips none.
LossesNeedFaults ==
    Cardinality({e \in 1..committed : scans[e] = 0 /\ ~ AtWork(e)}) <= faults

\* The worker is at a scan that fills its pipe and never ends.
Stuck(w) == At(w, "wait") /\ event[w] \in LongLogs

\* Every event is dealt with, by a scan or a fault, however often attempts
\* time out and workers crash, unless it hangs itself: the topic stands
\* still only when every worker is stuck (activity_consume_events.py:86-98).
TopicIsDrained ==
    \A e \in (1..Events) \ LongLogs :
        published >= e ~>
            (committed >= e /\ ~ AtWork(e)) \/ \A w \in Workers : Stuck(w)
=============================================================================

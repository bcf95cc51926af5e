------------------------------ MODULE CliUploads ------------------------------
(***************************************************************************)
(* The CLI client `oci-factory upload`: several maintainers dispatch runs  *)
(* of Image.yaml, each looks its run up in the list of recent runs by the  *)
(* name of a step, the external reference that went with the request, and  *)
(* then polls the run until it is completed.  GitHub answers 503 when it   *)
(* is busy, whether it has done what was asked for or not.                 *)
(***************************************************************************)
EXTENDS Naturals, Sequences, FiniteSets

CONSTANTS
    Clients,
    RefOf,      \* the reference of each: image name and second of the start
    NoRef,      \* that of runs started otherwise, by no client
    PageSize,   \* runs in an answer of the API (30, its default)
    MaxTries,   \* listings before the client gives up (60)
    MaxOthers,  \* bound of the runs that others start
    MaxFaults   \* bound of answers that are not the expected ones

ASSUME CliAssumption ==
    /\ NoRef \notin {RefOf[c] : c \in Clients} /\ NoRef \notin Clients
    /\ PageSize \in Nat /\ MaxTries \in Nat \ {0}
    /\ MaxOthers \in Nat /\ MaxFaults \in Nat

VARIABLES
    runs,       \* runs in the order of their creation: [ref, by, state]
    pc,         \* per client, what it does
    count,      \* per client, the turns of the loop it is in
    page,       \* per client, the listed runs it has yet to look into
    watched,    \* per client, the run it polls, or 0
    faults

vars == <<runs, pc, count, page, watched, faults>>

NumRetries == 2
Over == {"reported", "gave up", "panicked"}

Init ==
    /\ runs = <<>>
    /\ pc = [c \in Clients |-> "dispatch"]
    /\ count = [c \in Clients |-> 0]
    /\ page = [c \in Clients |-> <<>>]
    /\ watched = [c \in Clients |-> 0]
    /\ faults = 0

Goto(c, s) == pc' = [pc EXCEPT ![c] = s]
Fault == faults < MaxFaults /\ faults' = faults + 1

\* The loop goes on with one more turn, or is left.
Turn(c) == count' = [count EXCEPT ![c] = @ + 1] /\ UNCHANGED pc
Leave(c, s) == count' = [count EXCEPT ![c] = 0] /\ Goto(c, s)

-----------------------------------------------------------------------------
(* SendRequest of the dispatch.                                            *)

Created(c) ==
    runs' = Append(runs, [ref |-> RefOf[c], by |-> c, state |-> "queued"])

\* Mutant: the loop does not end with the expected answer.
DispatchRepeatedly(c) ==
    /\ pc[c] = "dispatch"
    /\ Created(c)
    /\ IF count[c] + 1 = NumRetries THEN Leave(c, "list") ELSE Turn(c)
    /\ UNCHANGED <<page, watched, faults>>

\* 204.
Dispatch(c) ==
    /\ pc[c] = "dispatch"
    /\ Created(c)
    /\ Leave(c, "list")
    /\ UNCHANGED <<page, watched, faults>>

\* 503: the request is sent again.  After the last attempt the loop ends as
\* it does after an answer of the expected kind.  The second request has a
\* body only if the first was answered before its own was read: it may do
\* all a first one does, or it is refused by the transport, which is Panic.
Busy(c) ==
    /\ pc[c] = "dispatch"
    /\ Fault
    /\ Created(c) \/ UNCHANGED runs
    /\ IF count[c] + 1 = NumRetries THEN Leave(c, "list") ELSE Turn(c)
    /\ UNCHANGED <<page, watched>>

\* Any other answer or an error of the connection ends the client, whatever
\* it is at; also a 503 whose body is not JSON.
Panic(c) ==
    /\ pc[c] \notin Over
    /\ Fault
    /\ Leave(c, "panicked")
    /\ page' = [page EXCEPT ![c] = <<>>]
    /\ UNCHANGED <<runs, watched>>

-----------------------------------------------------------------------------
(* getWorkflowRunID.                                                       *)

\* The most recent runs, the newest first.
FirstPage ==
    LET n == Len(runs)
    IN  [k \in 1..(IF n < PageSize THEN n ELSE PageSize) |-> n + 1 - k]

\* Two 503 with a JSON body make a list without runs.
ListRuns(c) ==
    /\ pc[c] = "list"
    /\ \/ page' = [page EXCEPT ![c] = FirstPage] /\ UNCHANGED faults
       \/ page' = [page EXCEPT ![c] = <<>>] /\ Fault
    /\ Goto(c, "look")
    /\ UNCHANGED <<runs, count, watched>>

\* A job lists its steps once it is in progress.
ShowsRef(n, ref) == runs[n].state # "queued" /\ runs[n].ref = ref

Watch(c, n) ==
    /\ watched' = [watched EXCEPT ![c] = n]
    /\ page' = [page EXCEPT ![c] = <<>>]
    /\ Leave(c, "poll")

\* Mutant: the newest run is taken for the client's own.
LookIntoAny(c) ==
    /\ pc[c] = "look" /\ page[c] # <<>>
    /\ Watch(c, Head(page[c]))
    /\ UNCHANGED <<runs, faults>>

\* The jobs of one run after the other; without an answer it has none.
LookInto(c) ==
    /\ pc[c] = "look" /\ page[c] # <<>>
    /\ \/ /\ ShowsRef(Head(page[c]), RefOf[c])
          /\ Watch(c, Head(page[c]))
          /\ UNCHANGED faults
       \/ /\ \/ ~ ShowsRef(Head(page[c]), RefOf[c]) /\ UNCHANGED faults
             \/ Fault
          /\ page' = [page EXCEPT ![c] = Tail(@)]
          /\ UNCHANGED <<pc, count, watched>>
    /\ UNCHANGED runs

\* Mutant: the tries are not counted against their maximum.
TryForever(c) ==
    /\ pc[c] = "look" /\ page[c] = <<>>
    /\ Goto(c, "list")
    /\ UNCHANGED <<runs, count, page, watched, faults>>

TryAgain(c) ==
    /\ pc[c] = "look" /\ page[c] = <<>>
    /\ IF count[c] + 1 = MaxTries
       THEN Leave(c, "gave up")
       ELSE Goto(c, "list") /\ count' = [count EXCEPT ![c] = @ + 1]
    /\ UNCHANGED <<runs, page, watched, faults>>

\* WorkflowPolling: the conclusion of the run when it is completed.
Report(c) ==
    /\ pc[c] = "poll" /\ runs[watched[c]].state = "completed"
    /\ Goto(c, "reported")
    /\ UNCHANGED <<runs, count, page, watched, faults>>

Advance(c) ==
    \/ Dispatch(c) \/ Busy(c) \/ ListRuns(c) \/ LookInto(c) \/ TryAgain(c)
    \/ Report(c)

-----------------------------------------------------------------------------
(* GitHub.                                                                 *)

clientVars == <<pc, count, page, watched, faults>>

\* One that is cancelled before a runner takes it has no steps to show: to
\* a client it stays queued.
Starts(n) ==
    /\ runs[n].state = "queued"
    /\ runs' = [runs EXCEPT ![n].state = "in_progress"]
    /\ UNCHANGED clientVars

Ends(n) ==
    /\ runs[n].state = "in_progress"
    /\ runs' = [runs EXCEPT ![n].state = "completed"]
    /\ UNCHANGED clientVars

\* A push, a rebuild, another image: it takes up a place on the page, and
\* whether it still goes on makes no difference.
OtherRun ==
    /\ Cardinality({n \in DOMAIN runs : runs[n].by = NoRef}) < MaxOthers
    /\ runs' = Append(runs, [ref |-> NoRef, by |-> NoRef, state |-> "completed"])
    /\ UNCHANGED clientVars

Next ==
    \/ \E c \in Clients : Advance(c) \/ Panic(c)
    \/ \E n \in DOMAIN runs : Starts(n) \/ Ends(n)
    \/ OtherRun

Spec == Init /\ [][Next]_vars

MaxRuns == NumRetries * Cardinality(Clients) + MaxOthers

\* Clients go on, and runs that have started come to an end.
FairSpec ==
    /\ Spec
    /\ \A c \in Clients : WF_vars(Advance(c) \/ Panic(c))
    /\ \A n \in 1..MaxRuns : WF_vars(n \in DOMAIN runs /\ Ends(n))
-----------------------------------------------------------------------------
StartedBy(c) == {n \in DOMAIN runs : runs[n].by = c}
Alone(c) == \A d \in Clients \ {c} : RefOf[d] # RefOf[c]

\* What a client reports is the conclusion of a run that it has started
\* itself, whatever runs others start, whatever requests are repeated and
\* whatever happens between the list and the look into its runs, unless two
\* clients use the same reference: it tells images and seconds apart, and
\* nothing else (wf_dispatcher.go:52, wf_poller.go:89-111).
ReportsItsOwnRun ==
    \A c \in Clients : pc[c] = "reported" /\ Alone(c) =>
        watched[c] \in StartedBy(c)

\* A client starts a second run, which nobody watches, only after an answer
\* that was not the expected one; and without such an answer no client has
\* failed to start its run when it lists them (client.go:26-59).
OneRunUnlessBusy ==
    faults = 0 =>
        \A c \in Clients : pc[c] # "dispatch" => Cardinality(StartedBy(c)) = 1

\* Every client comes to an end: its run is off the page, was never started
\* or is found too late, and it gives up; or it is found, and ends
\* (wf_poller.go:79-120, 181-196).
EveryClientEnds == \A c \in Clients : <>(pc[c] \in Over)
=============================================================================

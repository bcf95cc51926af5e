------------------------ MODULE RebuildEventsProofs ------------------------
(* Theorems about RebuildEvents for any number of workers, events, attempts *)
(* and faults.                                                              *)
EXTENDS RebuildEvents, FiniteSetTheorems, TLAPS

-----------------------------------------------------------------------------
(* The inductive invariant.                                                *)

\* Whoever has read an event is past its poll; one consumer at a time has an
\* event that is not committed, the first of them; a scan that goes on or
\* has ended was started.
Reading ==
    \A w \in Workers :
        /\ step[w] \in {"idle", "poll"} <=> event[w] = 0
        /\ step[w] = "close" => event[w] = committed + 1
        /\ step[w] \in {"wait", "update"} => scans[event[w]] > 0
        /\ \A v \in Workers : step[w] = "close" /\ step[v] = "close" => v = w

\* As long as commits arrive, events are committed when they are acted on,
\* each is at one worker, and it is scanned for once.
Once ==
    /\ \A w \in Workers :
          /\ step[w] # "close" => event[w] <= committed
          /\ step[w] \in {"close", "notify", "scan"} => scans[event[w]] = 0
          /\ \A v \in Workers : event[v] = event[w] /\ event[w] # 0 => v = w
    /\ \A e \in 1..Events : e > committed => scans[e] = 0
    /\ \A e \in 1..Events : scans[e] <= 1

IInv ==
    /\ EventsTypeOK
    /\ scans \in [1..Events -> Nat]
    /\ uncommitted \in BOOLEAN
    /\ Reading
    /\ ~ uncommitted => Once

-----------------------------------------------------------------------------
\* Every step keeps the types, those of the history included.
LEMMA TypeStep ==
    ASSUME EventsTypeOK, scans \in [1..Events -> Nat], uncommitted \in BOOLEAN,
           [Next]_vars
    PROVE  /\ EventsTypeOK'
           /\ scans' \in [1..Events -> Nat]
           /\ uncommitted' \in BOOLEAN
<1> USE EventsAssumption
    DEF EventsTypeOK, Steps, At, Goto, Fault, Finish, Retry, ContinueAsNew
<1>1. CASE Publish
  BY <1>1 DEF Publish
<1>2. CASE Timeout
  BY <1>2 DEF Timeout
<1>3. ASSUME NEW w \in Workers, StartActivity(w) \/ Poll(w) \/ Close(w)
      PROVE  /\ EventsTypeOK'
             /\ scans' \in [1..Events -> Nat]
             /\ uncommitted' \in BOOLEAN
  <2>1. CASE StartActivity(w)
    BY <2>1 DEF StartActivity
  <2>2. CASE Poll(w)
    BY <2>2 DEF Poll
  <2>3. CASE Close(w)
    <3>1. committed' \in 0..published /\ published' = published
      BY <2>3 DEF Close
    <3>2. CASE Goto(w, "notify") /\ UNCHANGED <<event, holder, attempt, faults>>
      BY <2>3, <3>1, <3>2 DEF Close
    <3>3. CASE Finish(w, Retry) /\ Fault
      BY <2>3, <3>1, <3>3 DEF Close
    <3>4. QED
      BY <2>3, <3>2, <3>3 DEF Close
  <2>4. QED
    BY <1>3, <2>1, <2>2, <2>3
<1>4. ASSUME NEW w \in Workers, Notify(w) \/ Scan(w) \/ ScanEnds(w) \/ Update(w)
      PROVE  /\ EventsTypeOK'
             /\ scans' \in [1..Events -> Nat]
             /\ uncommitted' \in BOOLEAN
  <2>1. CASE Notify(w)
    <3>1. UNCHANGED <<published, committed, scans, uncommitted>>
      BY <2>1 DEF Notify
    <3>2. CASE Goto(w, "scan") /\ UNCHANGED <<event, holder, attempt, faults>>
      BY <3>1, <3>2
    <3>3. CASE Finish(w, Retry) /\ Fault
      BY <3>1, <3>3
    <3>4. QED
      BY <2>1, <3>2, <3>3 DEF Notify
  <2>2. CASE Scan(w)
    <3>1. scans' \in [1..Events -> Nat]
      <4>1. scans' = [scans EXCEPT ![event[w]] = scans[event[w]] + 1]
        BY <2>2 DEF Scan
      <4>2. CASE event[w] \in 1..Events
        BY <4>1, <4>2
      <4>3. CASE event[w] \notin 1..Events
        BY <4>1, <4>3
      <4>4. QED
        BY <4>2, <4>3
    <3>2. QED
      BY <2>2, <3>1 DEF Scan
  <2>3. CASE ScanEnds(w)
    BY <2>3 DEF ScanEnds
  <2>4. CASE Update(w)
    <3>1. UNCHANGED <<published, committed, scans, uncommitted>>
      BY <2>4 DEF Update
    <3>2. CASE Finish(w, ContinueAsNew) /\ UNCHANGED faults
      BY <3>1, <3>2
    <3>3. CASE Finish(w, Retry) /\ Fault
      BY <3>1, <3>3
    <3>4. QED
      BY <2>4, <3>2, <3>3 DEF Update
  <2>5. QED
    BY <1>4, <2>1, <2>2, <2>3, <2>4
<1>5. ASSUME NEW w \in Workers, CloseUncommitted(w) \/ PollFails(w) \/ Crash(w)
      PROVE  /\ EventsTypeOK'
             /\ scans' \in [1..Events -> Nat]
             /\ uncommitted' \in BOOLEAN
  <2>1. CASE CloseUncommitted(w)
    BY <2>1 DEF CloseUncommitted
  <2>2. CASE PollFails(w)
    BY <2>2 DEF PollFails
  <2>3. CASE Crash(w)
    BY <2>3 DEF Crash
  <2>4. QED
    BY <1>5, <2>1, <2>2, <2>3
<1>6. CASE UNCHANGED vars
  BY <1>6 DEF vars
<1>7. QED
  BY <1>1, <1>2, <1>3, <1>4, <1>5, <1>6 DEF Next, Advance

\* The steps of a worker, by what they do to events and scans.
Leaves(w) == step' = [step EXCEPT ![w] = "idle"] /\ event' = [event EXCEPT ![w] = 0]
Stays == UNCHANGED <<step, event, committed, scans, uncommitted, faults>>

\* Every step but a worker's own leaves alone what the invariant is about; a
\* worker drops what it has read, at the cost of a fault or after its scan,
\* or goes on to its next step.
LEMMA StepShapes ==
    ASSUME EventsTypeOK, [Next]_vars
    PROVE  \/ Stays
           \/ \E w \in Workers :
                 \/ StartActivity(w) \/ Poll(w) \/ Scan(w) \/ ScanEnds(w)
                 \/ CloseUncommitted(w)
                 \/ Close(w) /\ Goto(w, "notify") /\ UNCHANGED <<event, faults>>
                 \/ Notify(w) /\ Goto(w, "scan") /\ UNCHANGED <<event, faults>>
                 \/ /\ Leaves(w) /\ faults' = faults + 1
                    /\ UNCHANGED <<scans, uncommitted>>
                    /\ IF step[w] = "close"
                       THEN committed' \in {committed, event[w]}
                       ELSE UNCHANGED committed
                 \/ /\ step[w] = "update" /\ Leaves(w)
                    /\ UNCHANGED <<scans, uncommitted, committed, faults>>
<1> USE DEF Stays, Leaves, At, Goto, Fault, Finish
<1>1. CASE Publish \/ Timeout
  BY <1>1 DEF Publish, Timeout
<1>2. CASE UNCHANGED vars
  BY <1>2 DEF vars
<1>3. ASSUME NEW w \in Workers, Close(w)
      PROVE  \/ Close(w) /\ Goto(w, "notify") /\ UNCHANGED <<event, faults>>
             \/ /\ Leaves(w) /\ faults' = faults + 1
                /\ UNCHANGED <<scans, uncommitted>>
                /\ step[w] = "close" /\ committed' = event[w]
  BY <1>3 DEF Close
<1>4. ASSUME NEW w \in Workers, Notify(w)
      PROVE  \/ Notify(w) /\ Goto(w, "scan") /\ UNCHANGED <<event, faults>>
             \/ /\ Leaves(w) /\ faults' = faults + 1
                /\ UNCHANGED <<scans, uncommitted, committed>>
                /\ step[w] = "notify"
  BY <1>4 DEF Notify
<1>5. ASSUME NEW w \in Workers, Update(w)
      PROVE  /\ step[w] = "update" /\ Leaves(w)
             /\ UNCHANGED <<scans, uncommitted, committed>>
             /\ faults' = faults \/ faults' = faults + 1
  BY <1>5 DEF Update
<1>6. ASSUME NEW w \in Workers, PollFails(w)
      PROVE  /\ Leaves(w) /\ faults' = faults + 1 /\ step[w] = "poll"
             /\ UNCHANGED <<scans, uncommitted, committed>>
  BY <1>6 DEF PollFails
<1>7. ASSUME NEW w \in Workers, Crash(w)
      PROVE  /\ Leaves(w) /\ faults' = faults + 1
             /\ UNCHANGED <<scans, uncommitted, committed>>
  BY <1>7 DEF Crash
<1>8. QED
  <2> USE DEF Next, Advance
  <2> HIDE DEF Stays, Leaves, At, Goto, Fault, Finish
  <2>1. CASE Publish \/ Timeout \/ UNCHANGED vars
    BY <2>1, <1>1, <1>2
  <2>2. ASSUME NEW w \in Workers,
           \/ StartActivity(w) \/ Poll(w) \/ Close(w) \/ Notify(w) \/ Scan(w)
           \/ ScanEnds(w) \/ Update(w) \/ CloseUncommitted(w) \/ PollFails(w)
           \/ Crash(w)
        PROVE  \/ StartActivity(w) \/ Poll(w) \/ Scan(w) \/ ScanEnds(w)
               \/ CloseUncommitted(w)
               \/ Close(w) /\ Goto(w, "notify") /\ UNCHANGED <<event, faults>>
               \/ Notify(w) /\ Goto(w, "scan") /\ UNCHANGED <<event, faults>>
               \/ /\ Leaves(w) /\ faults' = faults + 1
                  /\ UNCHANGED <<scans, uncommitted>>
                  /\ IF step[w] = "close"
                     THEN committed' \in {committed, event[w]}
                     ELSE UNCHANGED committed
               \/ /\ step[w] = "update" /\ Leaves(w)
                  /\ UNCHANGED <<scans, uncommitted, committed, faults>>
    BY <2>2, <1>3, <1>4, <1>5, <1>6, <1>7
  <2>3. QED
    BY <2>1, <2>2

\* The part of the invariant that holds whatever is lost.
LEMMA ReadingStep ==
    ASSUME EventsTypeOK, scans \in [1..Events -> Nat], Reading, [Next]_vars
    PROVE  Reading'
<1> USE EventsAssumption DEF EventsTypeOK, Steps, Reading, At, Goto
<1>1. CASE Stays
  BY <1>1 DEF Stays
<1>2. ASSUME NEW w \in Workers, StartActivity(w)
      PROVE  Reading'
  BY <1>2 DEF StartActivity
<1>3. ASSUME NEW w \in Workers, Poll(w)
      PROVE  Reading'
  BY <1>3 DEF Poll
<1>4. ASSUME NEW w \in Workers, Scan(w)
      PROVE  Reading'
  <2>1. event[w] \in 1..Events
    <3>1. event[w] # 0 /\ event[w] \in 0..published
      BY <1>4 DEF Scan
    <3>2. QED
      BY <3>1
  <2>2. QED
    BY <1>4, <2>1 DEF Scan
<1>5. ASSUME NEW w \in Workers, ScanEnds(w)
      PROVE  Reading'
  BY <1>5 DEF ScanEnds
<1>6. ASSUME NEW w \in Workers, CloseUncommitted(w)
      PROVE  Reading'
  BY <1>6 DEF CloseUncommitted
<1>7. ASSUME NEW w \in Workers,
             Close(w), Goto(w, "notify"), UNCHANGED <<event, faults>>
      PROVE  Reading'
  BY <1>7 DEF Close
<1>8. ASSUME NEW w \in Workers,
             Notify(w), Goto(w, "scan"), UNCHANGED <<event, faults>>
      PROVE  Reading'
  BY <1>8 DEF Notify
<1>9. ASSUME NEW w \in Workers, Leaves(w), UNCHANGED scans,
             IF step[w] = "close"
             THEN committed' \in {committed, event[w]}
             ELSE UNCHANGED committed
      PROVE  Reading'
  BY <1>9 DEF Leaves
<1>10. QED
  BY StepShapes, <1>1, <1>2, <1>3, <1>4, <1>5, <1>6, <1>7, <1>8, <1>9

\* The part that needs the commits.
LEMMA OnceStep ==
    ASSUME EventsTypeOK, scans \in [1..Events -> Nat], uncommitted \in BOOLEAN,
           Reading, ~ uncommitted => Once, [Next]_vars, ~ uncommitted'
    PROVE  Once'
<1> USE EventsAssumption DEF EventsTypeOK, Steps, Reading, Once, At, Goto
<1>1. CASE Stays
  BY <1>1 DEF Stays
<1>2. ASSUME NEW w \in Workers, StartActivity(w)
      PROVE  Once'
  BY <1>2 DEF StartActivity
<1>3. ASSUME NEW w \in Workers, Poll(w)
      PROVE  Once'
  BY <1>3 DEF Poll
<1>4. ASSUME NEW w \in Workers, Scan(w)
      PROVE  Once'
  <2>1. event[w] \in 1..Events /\ Once
    <3>1. event[w] # 0 /\ event[w] \in 0..published /\ ~ uncommitted
      BY <1>4 DEF Scan
    <3>2. QED
      BY <3>1
  <2>2. QED
    BY <1>4, <2>1 DEF Scan
<1>5. ASSUME NEW w \in Workers, ScanEnds(w)
      PROVE  Once'
  BY <1>5 DEF ScanEnds
<1>6. ASSUME NEW w \in Workers, CloseUncommitted(w)
      PROVE  Once'
  BY <1>6 DEF CloseUncommitted
<1>7. ASSUME NEW w \in Workers,
             Close(w), Goto(w, "notify"), UNCHANGED <<event, faults>>
      PROVE  Once'
  BY <1>7 DEF Close
<1>8. ASSUME NEW w \in Workers,
             Notify(w), Goto(w, "scan"), UNCHANGED <<event, faults>>
      PROVE  Once'
  BY <1>8 DEF Notify
<1>9. ASSUME NEW w \in Workers, Leaves(w), UNCHANGED <<scans, uncommitted>>,
             IF step[w] = "close"
             THEN committed' \in {committed, event[w]}
             ELSE UNCHANGED committed
      PROVE  Once'
  BY <1>9 DEF Leaves
<1>10. QED
  BY StepShapes, <1>1, <1>2, <1>3, <1>4, <1>5, <1>6, <1>7, <1>8, <1>9

\* The inductive invariant of the workflow.
THEOREM Invariant == Spec => []IInv
<1>1. Init => IInv
  <2>1. Init => EventsTypeOK
    BY EventsAssumption DEF Init, EventsTypeOK, Steps
  <2>2. Init => Reading /\ Once
    BY EventsAssumption DEF Init, Reading, Once
  <2>3. Init => scans \in [1..Events -> Nat]
    BY DEF Init
  <2>4. Init => uncommitted \in BOOLEAN
    BY Zenon DEF Init
  <2>5. QED
    BY <2>1, <2>2, <2>3, <2>4 DEF IInv
<1>2. IInv /\ [Next]_vars => IInv'
  BY TypeStep, ReadingStep, OnceStep DEF IInv
<1>3. QED
  BY <1>1, <1>2, PTL DEF Spec

\* The topic, its offset and the workers of the workflow are well typed in every
\* reachable state.
THEOREM EventsTypeCorrect == Spec => []EventsTypeOK
<1>1. IInv => EventsTypeOK
  BY DEF IInv
<1>2. QED
  BY <1>1, Invariant, PTL

\* The consumer commits an event before the activity acts on it: no two scans for
\* one event, unless a commit was lost.
THEOREM EventsAreScannedOnce == Spec => []NoScanTwice
<1>1. IInv => NoScanTwice
  BY DEF IInv, Once, NoScanTwice
<1>2. QED
  BY <1>1, Invariant, PTL

-----------------------------------------------------------------------------
\* The events that are committed and that nobody will act on.
Lost == {e \in 1..committed : scans[e] = 0 /\ ~ AtWork(e)}

\* A step that is no fault loses no event, and a fault loses at most the one
\* its worker was at.
LEMMA LostStep ==
    ASSUME EventsTypeOK, scans \in [1..Events -> Nat], Reading, [Next]_vars
    PROVE  \/ faults' = faults /\ Lost' \subseteq Lost
           \/ /\ faults' = faults + 1
              /\ \E w \in Workers : Lost' \subseteq Lost \cup {event[w]}
<1> USE DEF EventsTypeOK, Reading, Lost, AtWork, At, Goto
<1>1. CASE Stays
  BY <1>1 DEF Stays
<1>2. ASSUME NEW w \in Workers, StartActivity(w)
      PROVE  faults' = faults /\ Lost' \subseteq Lost
  BY <1>2 DEF StartActivity
<1>3. ASSUME NEW w \in Workers, Poll(w)
      PROVE  faults' = faults /\ Lost' \subseteq Lost
  BY <1>3 DEF Poll
<1>4. ASSUME NEW w \in Workers, Scan(w)
      PROVE  faults' = faults /\ Lost' \subseteq Lost
  <2>1. \A e \in 1..committed : scans'[e] = 0 => scans[e] = 0
    BY <1>4, EventsAssumption DEF Scan
  <2>2. QED
    BY <1>4, <2>1 DEF Scan
<1>5. ASSUME NEW w \in Workers, ScanEnds(w)
      PROVE  faults' = faults /\ Lost' \subseteq Lost
  BY <1>5 DEF ScanEnds
<1>6. ASSUME NEW w \in Workers, CloseUncommitted(w)
      PROVE  faults' = faults + 1 /\ Lost' \subseteq Lost
  BY <1>6 DEF CloseUncommitted, Fault
<1>7. ASSUME NEW w \in Workers,
             Close(w), Goto(w, "notify"), UNCHANGED <<event, faults>>
      PROVE  faults' = faults /\ Lost' \subseteq Lost
  BY <1>7 DEF Close
<1>8. ASSUME NEW w \in Workers,
             Notify(w), Goto(w, "scan"), UNCHANGED <<event, faults>>
      PROVE  faults' = faults /\ Lost' \subseteq Lost
  BY <1>8 DEF Notify
<1>9. ASSUME NEW w \in Workers, Leaves(w), UNCHANGED scans,
             IF step[w] = "close"
             THEN committed' \in {committed, event[w]}
             ELSE UNCHANGED committed
      PROVE  Lost' \subseteq Lost \cup {event[w]}
  BY <1>9 DEF Leaves
<1>10. ASSUME NEW w \in Workers, step[w] = "update", Leaves(w),
              UNCHANGED <<scans, committed>>
       PROVE  Lost' \subseteq Lost
  BY <1>10 DEF Leaves
<1>11. QED
  <2> HIDE DEF EventsTypeOK, Reading, Lost, AtWork, At, Goto
  <2>1. CASE Stays
    BY <2>1, <1>1
  <2>2. ASSUME NEW w \in Workers,
               \/ StartActivity(w) \/ Poll(w) \/ Scan(w) \/ ScanEnds(w)
               \/ CloseUncommitted(w)
        PROVE  \/ faults' = faults /\ Lost' \subseteq Lost
               \/ faults' = faults + 1 /\ Lost' \subseteq Lost \cup {event[w]}
    BY <2>2, <1>2, <1>3, <1>4, <1>5, <1>6
  <2>3. QED
    BY <2>1, <2>2, <1>7, <1>8, <1>9, <1>10, StepShapes

\* As many events are lost as there have been faults, at the most.
THEOREM LossesAreFaults == Spec => []LossesNeedFaults
<1>1. IInv => IsFiniteSet(Lost) /\ Cardinality(Lost) \in Nat
  <2> SUFFICES ASSUME IInv PROVE IsFiniteSet(Lost) /\ Cardinality(Lost) \in Nat
    OBVIOUS
  <2>1. IsFiniteSet(1..committed)
    <3>1. committed \in Nat
      BY EventsAssumption DEF IInv, EventsTypeOK
    <3>2. QED
      BY <3>1, FS_Interval
  <2>2. Lost \in SUBSET (1..committed)
    BY DEF Lost
  <2>3. IsFiniteSet(Lost)
    BY <2>1, <2>2, FS_Subset
  <2>4. QED
    BY <2>3, FS_CardinalityType
<1>2. Init => LossesNeedFaults
  <2> SUFFICES ASSUME Init PROVE LossesNeedFaults
    OBVIOUS
  <2>1. {e \in 1..committed : scans[e] = 0 /\ ~ AtWork(e)} = {}
    BY DEF Init
  <2>2. QED
    BY <2>1, FS_EmptySet DEF Init, LossesNeedFaults
<1>3. IInv /\ IInv' /\ LossesNeedFaults /\ [Next]_vars => LossesNeedFaults'
  <2> SUFFICES ASSUME IInv, IInv', LossesNeedFaults, [Next]_vars
               PROVE  LossesNeedFaults'
    OBVIOUS
  <2>1. /\ IsFiniteSet(Lost) /\ Cardinality(Lost) \in Nat
        /\ Cardinality(Lost') \in Nat
    <3>1. IInv' => (IsFiniteSet(Lost) /\ Cardinality(Lost) \in Nat)'
      BY <1>1, PTL
    <3>2. QED
      BY <1>1, <3>1
  <2>2. Cardinality(Lost) <= faults /\ faults \in Nat
    BY EventsAssumption DEF LossesNeedFaults, Lost, IInv, EventsTypeOK
  <2>3. CASE faults' = faults /\ Lost' \subseteq Lost
    <3>1. Cardinality(Lost') <= Cardinality(Lost)
      BY <2>1, <2>3, FS_Subset
    <3>2. QED
      BY <2>1, <2>2, <2>3, <3>1 DEF LossesNeedFaults, Lost
  <2>4. ASSUME NEW w \in Workers,
               faults' = faults + 1, Lost' \subseteq Lost \cup {event[w]}
        PROVE  LossesNeedFaults'
    <3>1. /\ IsFiniteSet(Lost \cup {event[w]})
          /\ Cardinality(Lost \cup {event[w]}) <= Cardinality(Lost) + 1
          /\ Cardinality(Lost \cup {event[w]}) \in Nat
      BY <2>1, FS_AddElement
    <3>2. Cardinality(Lost') <= Cardinality(Lost \cup {event[w]})
      BY <2>4, <3>1, FS_Subset
    <3>3. Cardinality(Lost') <= faults'
      BY <2>1, <2>2, <2>4, <3>1, <3>2
    <3>4. QED
      BY <3>3 DEF LossesNeedFaults, Lost
  <2>5. QED
    BY <2>3, <2>4, LostStep DEF IInv
<1>4. QED
  BY <1>2, <1>3, Invariant, PTL DEF Spec
=============================================================================

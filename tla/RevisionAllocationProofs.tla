---------------------- MODULE RevisionAllocationProofs ----------------------
(* Theorems about RevisionAllocation, and about RevisionListing, which adds *)
(* releases to it, for any number of runs, builds and earlier revisions.    *)
EXTENDS RevisionListing, TLAPS

USE ConstantsAssumption

-----------------------------------------------------------------------------
(* The inductive invariant.                                                *)

\* Where a run stands with its lockfile and its revision data.
Bookkeeping(r) ==
    /\ pc[r] = "setup" => outcome[r] = "skipped"
    /\ pc[r] \in {"revision", "matrix", "preempt"} => outcome[r] = "success"
    /\ pc[r] \in {"setup", "wait", "lock", "revision", "matrix"} =>
          Claimed(r) = {}
    /\ pc[r] \in {"unlock", "delete"} /\ ok[r] => data[r] \subseteq Claimed(r)
    /\ pc[r] = "upload" => data[r] \subseteq Claimed(r)
    /\ Claimed(r) \subseteq data[r]
    /\ \A s, t \in data[r] : s[2] = t[2] => s = t

\* What a run has done is there, and in the order of its steps.
Traces(r) ==
    /\ Claimed(r) \subseteq Taken
    /\ did[r]["pushed"] \subseteq Claimed(r)
    /\ did[r]["stored"] \subseteq did[r]["pushed"]
    /\ \A s \in did[r]["stored"] : [slot |-> s, kind |-> "artefacts"] \in objects

\* An image in the registry was pushed by the run it is tagged for.
Registry == \A t \in ghcr : t.slot \in did[t.run]["pushed"]

\* The numbers a run is about to claim lie above all others in the
\* container, from the moment it has computed them.
Fresh(r) ==
    /\ pc[r] = "matrix" => \A t \in Taken : t[2] < next[r]
    /\ pc[r] = "preempt" =>
          /\ \A s \in data[r] : next[r] <= s[2]
          /\ \A t \in Taken : t \in Claimed(r) \/ t[2] < next[r]

\* What holds only while the lockfile has been respected.
Protected ==
    /\ \A r \in Runs : Critical(r) => lock = r
    /\ \A r \in Runs : Fresh(r)
    /\ UniqueRevisions

IInv ==
    /\ TypeOK
    /\ Existing \subseteq Taken
    /\ \A r \in Runs : Bookkeeping(r) /\ Traces(r)
    /\ Registry
    /\ Undisturbed => Protected

-----------------------------------------------------------------------------
\* Every step keeps the types.
LEMMA TypeStep == TypeOK /\ [Next]_vars => TypeOK'
<1> SUFFICES ASSUME TypeOK, [Next]_vars
             PROVE  TypeOK'
  OBVIOUS
<1> USE DEF TypeOK, Goto, Outcomes, Steps, Ended, jobVars, swiftVars
<1>1. CASE UNCHANGED vars
  BY <1>1 DEF vars
<1>2. ASSUME NEW r \in Runs, Setup(r) PROVE TypeOK'
  BY <1>2 DEF Setup
<1>3. ASSUME NEW r \in Runs, PollFree(r) PROVE TypeOK'
  BY <1>3 DEF PollFree
<1>4. ASSUME NEW r \in Runs, PollLocked(r) PROVE TypeOK'
  <2>1. CASE polls[r] = 1
    BY <1>4, <2>1 DEF PollLocked, Abort
  <2>2. CASE polls[r] # 1
    <3>1. polls[r] - 1 \in Nat \ {0}
      BY <2>2
    <3>2. QED
      BY <1>4, <2>2, <3>1 DEF PollLocked
  <2>3. QED
    BY <2>1, <2>2
<1>5. ASSUME NEW r \in Runs, UploadLock(r) PROVE TypeOK'
  BY <1>5 DEF UploadLock, PutLockfile, Disturbances
<1>6. ASSUME NEW r \in Runs, GetNextRevision(r) PROVE TypeOK'
  <2>1. Numbers(Taken) \subseteq Nat
    BY DEF Numbers, Taken, Objects, Slots
  <2>2. PICK n \in Nat \ {0} : next' = [next EXCEPT ![r] = n]
    <3>1. \A n \in Numbers(Taken) \cup {0} : n + 1 \in Nat \ {0}
      BY <2>1
    <3>2. 1 \in Nat \ {0}
      OBVIOUS
    <3>3. QED
      BY <1>6, <3>1, <3>2 DEF GetNextRevision
  <2>3. QED
    BY <1>6, <2>2 DEF GetNextRevision, Disturbances
<1>7. ASSUME NEW r \in Runs, PrepareMatrix(r) PROVE TypeOK'
  <2>1. ASSUME NEW i \in DOMAIN Uploads[r]
        PROVE  <<Uploads[r][i], next[r] + i - 1>> \in Slots
    <3>1. Uploads[r] \in Seq(Tracks)
      OBVIOUS
    <3>2. i \in 1..Len(Uploads[r]) /\ Uploads[r][i] \in Tracks
      BY <2>1, <3>1
    <3>3. QED
      BY <3>2 DEF Slots
  <2>2. data' \in [Runs -> SUBSET Slots]
    BY <1>7, <2>1 DEF PrepareMatrix
  <2>3. QED
    BY <1>7, <2>2 DEF PrepareMatrix
<1>8. ASSUME NEW r \in Runs, PreemptSlot(r) PROVE TypeOK'
  BY <1>8 DEF PreemptSlot, Objects, Kinds, Work
<1>9. ASSUME NEW r \in Runs, PreemptDone(r) PROVE TypeOK'
  BY <1>9 DEF PreemptDone
<1>10. ASSUME NEW r \in Runs, StepFails(r) PROVE TypeOK'
  BY <1>10 DEF StepFails, LockInterrupted, PutLockfile, Abort, Disturbances
<1>11. ASSUME NEW r \in Runs, Cancel(r) PROVE TypeOK'
  BY <1>11 DEF Cancel, LockInterrupted, PutLockfile, Abort, Disturbances
<1>12. ASSUME NEW r \in Runs, UnlockList(r) PROVE TypeOK'
  BY <1>12 DEF UnlockList, AfterUnlock
<1>13. ASSUME NEW r \in Runs, DeleteLock(r) PROVE TypeOK'
  BY <1>13 DEF DeleteLock, AfterUnlock, Disturbances
<1>14. ASSUME NEW r \in Runs, UnlockFails(r) PROVE TypeOK'
  BY <1>14 DEF UnlockFails, AfterUnlock
<1>15. ASSUME NEW r \in Runs, PushImage(r) PROVE TypeOK'
  BY <1>15 DEF PushImage, Done, Work
<1>16. ASSUME NEW r \in Runs, StoreArtefacts(r) PROVE TypeOK'
  BY <1>16 DEF StoreArtefacts, Done, Objects, Kinds, Work
<1>17. ASSUME NEW r \in Runs, RemoveDummy(r) PROVE TypeOK'
  BY <1>17 DEF RemoveDummy, Done, Work
<1>18. ASSUME NEW r \in Runs, UploadDone(r) PROVE TypeOK'
  BY <1>18 DEF UploadDone
<1>19. ASSUME NEW r \in Runs, UploadFails(r) PROVE TypeOK'
  BY <1>19 DEF UploadFails
<1>20. ASSUME NEW r \in Runs, Crash(r) PROVE TypeOK'
  BY <1>20 DEF Crash
<1>21. QED
  BY <1>1, <1>2, <1>3, <1>4, <1>5, <1>6, <1>7, <1>8, <1>9, <1>10, <1>11,
     <1>12, <1>13, <1>14, <1>15, <1>16, <1>17, <1>18, <1>19, <1>20
     DEF Next, Advance

\* Type correctness of every state of the protocol.
THEOREM TypeCorrect == Spec => []TypeOK
<1>1. Init => TypeOK
  BY DEF Init, TypeOK, Objects, Kinds, Outcomes, Steps, Ended, Work, Slots,
         Disturbances
<1>2. QED
  BY <1>1, TypeStep, PTL DEF Spec

-----------------------------------------------------------------------------
\* The invariant holds before any run has started.
LEMMA InitInvariant == Init => IInv
<1> SUFFICES ASSUME Init PROVE IInv
  OBVIOUS
<1>1. TypeOK
  BY DEF Init, TypeOK, Objects, Kinds, Outcomes, Steps, Ended, Work, Slots,
         Disturbances
<1>2. Existing \subseteq Taken
  <2>1. ASSUME NEW s \in Existing PROVE s \in Taken
    <3>1. [slot |-> s, kind |-> "artefacts"] \in objects
      BY DEF Init
    <3>2. QED
      BY <3>1 DEF Taken
  <2>2. QED
    BY <2>1
<1>3. ASSUME NEW r \in Runs PROVE Bookkeeping(r) /\ Traces(r)
  BY DEF Init, Bookkeeping, Traces, Claimed, Work
<1>4. Registry
  BY DEF Init, Registry
<1>5. Protected
  BY DEF Init, Protected, Critical, Fresh, UniqueRevisions, Claimed, Numbers,
         Work
<1>6. QED
  BY <1>1, <1>2, <1>3, <1>4, <1>5 DEF IInv

\* A step that moves one run along its job and touches neither the slots
\* nor what any run has done keeps the invariant, if the run's own
\* bookkeeping is right and the lockfile is still its holder's.
LEMMA QuietStep ==
    ASSUME IInv, TypeOK', NEW r \in Runs,
           UNCHANGED <<objects, ghcr, next, data, did>>,
           \A q \in Runs \ {r} : /\ pc'[q] = pc[q]
                                 /\ outcome'[q] = outcome[q]
                                 /\ ok'[q] = ok[q],
           Bookkeeping(r)',
           Undisturbed' => /\ Undisturbed
                           /\ Fresh(r)'
                           /\ \A q \in Runs : Critical(q)' => lock' = q
    PROVE  IInv'
<1>1. Taken' = Taken
  BY DEF Taken
<1>2. (Existing \subseteq Taken)'
  BY <1>1 DEF IInv
<1>3. ASSUME NEW q \in Runs PROVE (Bookkeeping(q) /\ Traces(q))'
  <2>1. Traces(q)'
    BY <1>1 DEF IInv, Traces, Claimed
  <2>2. CASE q = r
    BY <2>1, <2>2
  <2>3. CASE q # r
    BY <2>1, <2>3 DEF IInv, Bookkeeping, Claimed
  <2>4. QED
    BY <2>2, <2>3
<1>4. Registry'
  BY DEF IInv, Registry
<1>5. ASSUME Undisturbed' PROVE Protected'
  <2>1. ASSUME NEW q \in Runs PROVE Fresh(q)'
    BY <1>1, <1>5 DEF IInv, Protected, Fresh, Claimed
  <2>2. UniqueRevisions'
    BY <1>5 DEF IInv, Protected, UniqueRevisions, Claimed
  <2>3. QED
    BY <1>5, <2>1, <2>2 DEF Protected
<1>6. QED
  BY <1>2, <1>3, <1>4, <1>5 DEF IInv

\* Writing an object into the container takes its slot.
LEMMA TakenGrows ==
    ASSUME NEW s, NEW k, objects' = objects \cup {[slot |-> s, kind |-> k]}
    PROVE  Taken' = Taken \cup {s}
<1> DEFINE o == [slot |-> s, kind |-> k]
<1>1. o.slot = s
  OBVIOUS
<1>2. objects' = objects \cup {o}
  OBVIOUS
<1> HIDE DEF o
<1>3. QED
  BY <1>1, <1>2 DEF Taken

\* A step that only moves a run along, out of the critical section or within
\* it but past the writing of slots, keeps the invariant.
LEMMA MoveStep ==
    ASSUME IInv, TypeOK', NEW r \in Runs, NEW place,
           Goto(r, place),
           UNCHANGED <<swiftVars, ghcr, jobVars, did, disturbed>>,
           Bookkeeping(r)',
           place \notin {"matrix", "preempt"},
           Critical(r)' => Critical(r)
    PROVE  IInv'
<1>1. \A q \in Runs \ {r} : pc'[q] = pc[q]
  BY DEF Goto, IInv, TypeOK
<1>2. ASSUME Undisturbed'
      PROVE  /\ Undisturbed
             /\ Fresh(r)'
             /\ \A q \in Runs : Critical(q)' => lock' = q
  <2>1. Undisturbed
    BY <1>2 DEF Undisturbed
  <2>2. Fresh(r)'
    BY DEF Goto, IInv, TypeOK, Fresh
  <2>3. \A q \in Runs : Critical(q)' => Critical(q)
    BY <1>1 DEF Critical, jobVars
  <2>4. QED
    BY <2>1, <2>2, <2>3 DEF IInv, Protected, swiftVars
<1>3. QED
  BY <1>1, <1>2, QuietStep DEF swiftVars, jobVars

\* Every step keeps the invariant.
LEMMA InvariantStep == IInv /\ [Next]_vars => IInv'
<1> SUFFICES ASSUME IInv, [Next]_vars PROVE IInv'
  OBVIOUS
<1> TypeOK /\ TypeOK'
  BY TypeStep DEF IInv
<1>1. CASE UNCHANGED vars
  BY <1>1 DEF vars, IInv, TypeOK, Taken, Bookkeeping, Traces, Claimed, Registry,
              Undisturbed, Protected, Critical, Fresh, UniqueRevisions
<1>2. ASSUME NEW r \in Runs, Setup(r) PROVE IInv'
  <2>1. Bookkeeping(r)' /\ (Critical(r)' => Critical(r))
    BY <1>2
       DEF Setup, Goto, jobVars, Ended, IInv, TypeOK, Bookkeeping, Critical,
           Claimed
  <2>2. QED
    BY <1>2, <2>1, MoveStep DEF Setup, swiftVars, jobVars
<1>3. ASSUME NEW r \in Runs, PollFree(r) PROVE IInv'
  <2>1. Bookkeeping(r)' /\ (Critical(r)' => Critical(r))
    BY <1>3
       DEF PollFree, Goto, jobVars, Ended, IInv, TypeOK, Bookkeeping, Critical,
           Claimed
  <2>2. QED
    BY <1>3, <2>1, MoveStep DEF PollFree, swiftVars, jobVars
<1>4. ASSUME NEW r \in Runs, PollLocked(r) PROVE IInv'
  <2>1. Bookkeeping(r)'
    BY <1>4
       DEF PollLocked, Abort, IInv, TypeOK, Bookkeeping, Claimed, Goto,
           jobVars, swiftVars
  <2>2. ASSUME Undisturbed'
        PROVE  /\ Undisturbed
               /\ Fresh(r)'
               /\ \A q \in Runs : Critical(q)' => lock' = q
    <3>1. Undisturbed
      BY <1>4, <2>2 DEF PollLocked, Undisturbed, swiftVars
    <3>2. Fresh(r)'
      BY <1>4, <3>1
         DEF PollLocked, Abort, IInv, TypeOK, Protected, Fresh, Claimed, Goto,
             jobVars, swiftVars, Taken
    <3>3. \A q \in Runs : Critical(q)' => lock' = q
      BY <1>4, <2>2, <3>1
         DEF PollLocked, Abort, IInv, TypeOK, Bookkeeping, Protected, Critical,
             Undisturbed, Goto, jobVars, swiftVars
    <3>4. QED
      BY <3>1, <3>2, <3>3
  <2>3. QED
    BY <1>4, <2>1, <2>2, QuietStep
       DEF PollLocked, Abort, TypeOK, Goto, jobVars, swiftVars
<1>5. ASSUME NEW r \in Runs, UploadLock(r) PROVE IInv'
  <2>1. Bookkeeping(r)'
    BY <1>5
       DEF UploadLock, IInv, TypeOK, Bookkeeping, Claimed, Goto, jobVars,
           swiftVars
  <2>2. ASSUME Undisturbed'
        PROVE  /\ Undisturbed
               /\ Fresh(r)'
               /\ \A q \in Runs : Critical(q)' => lock' = q
    <3>1. Undisturbed
      BY <1>5, <2>2 DEF UploadLock, PutLockfile, Undisturbed, swiftVars
    <3>2. Fresh(r)'
      BY <1>5, <3>1
         DEF UploadLock, IInv, TypeOK, Protected, Fresh, Claimed, Goto,
             jobVars, swiftVars, Taken
    <3>3. \A q \in Runs : Critical(q)' => lock' = q
      <4>1. lock \in {NoRun, r} /\ lock' = r
        BY <1>5, <2>2 DEF UploadLock, PutLockfile, Undisturbed
      <4>2. ASSUME NEW q \in Runs, q # r PROVE ~Critical(q)
        BY <3>1, <4>1, <4>2 DEF IInv, Protected
      <4>3. ASSUME NEW q \in Runs, q # r PROVE ~Critical(q)'
        BY <1>5, <4>2, <4>3 DEF UploadLock, Goto, TypeOK, Critical
      <4>4. QED
        BY <4>1, <4>3
    <3>4. QED
      BY <3>1, <3>2, <3>3
  <2>3. QED
    BY <1>5, <2>1, <2>2, QuietStep
       DEF UploadLock, TypeOK, Goto, jobVars, swiftVars
<1>6. ASSUME NEW r \in Runs, PreemptDone(r) PROVE IInv'
  <2>1. Bookkeeping(r)' /\ (Critical(r)' => Critical(r))
    BY <1>6
       DEF PreemptDone, Goto, jobVars, Ended, IInv, TypeOK, Bookkeeping,
           Critical, Claimed
  <2>2. QED
    BY <1>6, <2>1, MoveStep DEF PreemptDone, swiftVars, jobVars
<1>7. ASSUME NEW r \in Runs, StepFails(r) PROVE IInv'
  <2>1. Bookkeeping(r)'
    BY <1>7
       DEF StepFails, Abort, LockInterrupted, IInv, TypeOK, Bookkeeping,
           Claimed, Goto, jobVars, swiftVars
  <2>2. ASSUME Undisturbed'
        PROVE  /\ Undisturbed
               /\ Fresh(r)'
               /\ \A q \in Runs : Critical(q)' => lock' = q
    <3>1. Undisturbed
      BY <1>7, <2>2
         DEF StepFails, LockInterrupted, PutLockfile, Undisturbed, swiftVars
    <3>2. Fresh(r)'
      BY <1>7, <3>1
         DEF StepFails, Abort, LockInterrupted, IInv, TypeOK, Protected, Fresh,
             Claimed, Goto, jobVars, swiftVars, Taken
    <3>3. \A q \in Runs : Critical(q)' => lock' = q
      BY <1>7, <2>2, <3>1
         DEF StepFails, Abort, LockInterrupted, PutLockfile, IInv, TypeOK,
             Bookkeeping, Protected, Critical, Undisturbed, Goto, jobVars,
             swiftVars
    <3>4. QED
      BY <3>1, <3>2, <3>3
  <2>3. QED
    BY <1>7, <2>1, <2>2, QuietStep
       DEF StepFails, Abort, LockInterrupted, TypeOK, Goto, jobVars, swiftVars
<1>8. ASSUME NEW r \in Runs, Cancel(r) PROVE IInv'
  <2>1. Bookkeeping(r)'
    BY <1>8
       DEF Cancel, Abort, LockInterrupted, IInv, TypeOK, Bookkeeping, Claimed,
           Goto, jobVars, swiftVars
  <2>2. ASSUME Undisturbed'
        PROVE  /\ Undisturbed
               /\ Fresh(r)'
               /\ \A q \in Runs : Critical(q)' => lock' = q
    <3>1. Undisturbed
      BY <1>8, <2>2
         DEF Cancel, LockInterrupted, PutLockfile, Undisturbed, swiftVars
    <3>2. Fresh(r)'
      BY <1>8, <3>1
         DEF Cancel, Abort, LockInterrupted, IInv, TypeOK, Protected, Fresh,
             Claimed, Goto, jobVars, swiftVars, Taken
    <3>3. \A q \in Runs : Critical(q)' => lock' = q
      BY <1>8, <2>2, <3>1
         DEF Cancel, Abort, LockInterrupted, PutLockfile, IInv, TypeOK,
             Bookkeeping, Protected, Critical, Undisturbed, Goto, jobVars,
             swiftVars
    <3>4. QED
      BY <3>1, <3>2, <3>3
  <2>3. QED
    BY <1>8, <2>1, <2>2, QuietStep
       DEF Cancel, Abort, LockInterrupted, TypeOK, Goto, jobVars, swiftVars
<1>9. ASSUME NEW r \in Runs, UnlockList(r) PROVE IInv'
  <2>1. Bookkeeping(r)'
    BY <1>9
       DEF UnlockList, AfterUnlock, IInv, TypeOK, Bookkeeping, Claimed, Goto,
           jobVars, swiftVars
  <2>2. ASSUME Undisturbed'
        PROVE  /\ Undisturbed
               /\ Fresh(r)'
               /\ \A q \in Runs : Critical(q)' => lock' = q
    <3>1. Undisturbed
      BY <1>9, <2>2 DEF UnlockList, Undisturbed, swiftVars
    <3>2. Fresh(r)'
      BY <1>9, <3>1
         DEF UnlockList, AfterUnlock, IInv, TypeOK, Protected, Fresh, Claimed,
             Goto, jobVars, swiftVars, Taken
    <3>3. \A q \in Runs : Critical(q)' => lock' = q
      BY <1>9, <2>2, <3>1
         DEF UnlockList, AfterUnlock, IInv, TypeOK, Bookkeeping, Protected,
             Critical, Undisturbed, Goto, jobVars, swiftVars
    <3>4. QED
      BY <3>1, <3>2, <3>3
  <2>3. QED
    BY <1>9, <2>1, <2>2, QuietStep
       DEF UnlockList, AfterUnlock, TypeOK, Goto, jobVars, swiftVars
<1>10. ASSUME NEW r \in Runs, DeleteLock(r) PROVE IInv'
  <2>1. Bookkeeping(r)'
    BY <1>10
       DEF DeleteLock, AfterUnlock, IInv, TypeOK, Bookkeeping, Claimed, Goto,
           jobVars, swiftVars
  <2>2. ASSUME Undisturbed'
        PROVE  /\ Undisturbed
               /\ Fresh(r)'
               /\ \A q \in Runs : Critical(q)' => lock' = q
    <3>1. Undisturbed
      BY <1>10, <2>2 DEF DeleteLock, Undisturbed, swiftVars
    <3>2. Fresh(r)'
      BY <1>10, <3>1
         DEF DeleteLock, AfterUnlock, IInv, TypeOK, Protected, Fresh, Claimed,
             Goto, jobVars, swiftVars, Taken
    <3>3. \A q \in Runs : Critical(q)' => lock' = q
      BY <1>10, <2>2, <3>1
         DEF DeleteLock, AfterUnlock, IInv, TypeOK, Bookkeeping, Protected,
             Critical, Undisturbed, Goto, jobVars, swiftVars
    <3>4. QED
      BY <3>1, <3>2, <3>3
  <2>3. QED
    BY <1>10, <2>1, <2>2, QuietStep
       DEF DeleteLock, AfterUnlock, TypeOK, Goto, jobVars, swiftVars
<1>11. ASSUME NEW r \in Runs, UnlockFails(r) PROVE IInv'
  <2>1. Bookkeeping(r)'
    BY <1>11
       DEF UnlockFails, AfterUnlock, IInv, TypeOK, Bookkeeping, Claimed, Goto,
           jobVars, swiftVars
  <2>2. ASSUME Undisturbed'
        PROVE  /\ Undisturbed
               /\ Fresh(r)'
               /\ \A q \in Runs : Critical(q)' => lock' = q
    <3>1. Undisturbed
      BY <1>11, <2>2 DEF UnlockFails, Undisturbed, swiftVars
    <3>2. Fresh(r)'
      BY <1>11, <3>1
         DEF UnlockFails, AfterUnlock, IInv, TypeOK, Protected, Fresh, Claimed,
             Goto, jobVars, swiftVars, Taken
    <3>3. \A q \in Runs : Critical(q)' => lock' = q
      BY <1>11, <2>2, <3>1
         DEF UnlockFails, AfterUnlock, IInv, TypeOK, Bookkeeping, Protected,
             Critical, Undisturbed, Goto, jobVars, swiftVars
    <3>4. QED
      BY <3>1, <3>2, <3>3
  <2>3. QED
    BY <1>11, <2>1, <2>2, QuietStep
       DEF UnlockFails, AfterUnlock, TypeOK, Goto, jobVars, swiftVars
<1>12. ASSUME NEW r \in Runs, UploadDone(r) PROVE IInv'
  <2>1. Bookkeeping(r)' /\ (Critical(r)' => Critical(r))
    BY <1>12
       DEF UploadDone, Goto, jobVars, Ended, IInv, TypeOK, Bookkeeping,
           Critical, Claimed
  <2>2. QED
    BY <1>12, <2>1, MoveStep DEF UploadDone, swiftVars, jobVars
<1>13. ASSUME NEW r \in Runs, UploadFails(r) PROVE IInv'
  <2>1. Bookkeeping(r)' /\ (Critical(r)' => Critical(r))
    BY <1>13
       DEF UploadFails, Goto, jobVars, Ended, IInv, TypeOK, Bookkeeping,
           Critical, Claimed
  <2>2. QED
    BY <1>13, <2>1, MoveStep DEF UploadFails, swiftVars, jobVars
<1>14. ASSUME NEW r \in Runs, Crash(r) PROVE IInv'
  <2>1. Bookkeeping(r)' /\ (Critical(r)' => Critical(r))
    BY <1>14
       DEF Crash, Goto, jobVars, Ended, IInv, TypeOK, Bookkeeping, Critical,
           Claimed
  <2>2. QED
    BY <1>14, <2>1, MoveStep DEF Crash, swiftVars, jobVars
<1>15. ASSUME NEW r \in Runs, GetNextRevision(r) PROVE IInv'
  <2>1. Taken' = Taken
    BY <1>15 DEF GetNextRevision, swiftVars, Taken
  <2>2. ASSUME NEW q \in Runs PROVE Bookkeeping(q)' /\ Traces(q)'
    <3>1. Bookkeeping(q)'
      BY <1>15 DEF GetNextRevision, Goto, IInv, TypeOK, Bookkeeping, Claimed
    <3>2. Traces(q)'
      BY <1>15, <2>1 DEF GetNextRevision, swiftVars, IInv, Traces, Claimed
    <3>3. QED
      BY <3>1, <3>2
  <2>3. Registry'
    BY <1>15 DEF GetNextRevision, IInv, Registry
  <2>4. ASSUME Undisturbed' PROVE Protected'
    <3>1. /\ Undisturbed
          /\ \E n \in Nat : IsHighest(n) /\ next' = [next EXCEPT ![r] = n + 1]
      <4>1. Numbers(Taken) \subseteq Nat
        BY DEF TypeOK, Numbers, Taken, Objects, Slots
      <4>2. QED
        BY <1>15, <2>4, <4>1 DEF GetNextRevision, Undisturbed
    <3>2. Fresh(r)'
      <4>1. \A t \in Taken : t[2] \in Nat /\ t[2] \in Numbers(Taken)
        BY DEF TypeOK, Numbers, Taken, Objects, Slots
      <4>2. \A t \in Taken : t[2] < next'[r]
        BY <3>1, <4>1 DEF IsHighest, TypeOK
      <4>3. QED
        BY <1>15, <2>1, <4>2 DEF GetNextRevision, Goto, TypeOK, Fresh
    <3>3. ASSUME NEW q \in Runs, q # r PROVE Fresh(q)'
      BY <1>15, <2>1, <3>1, <3>3
         DEF GetNextRevision, Goto, IInv, TypeOK, Protected, Fresh, Claimed
    <3>4. ASSUME NEW q \in Runs, Critical(q)' PROVE lock' = q
      BY <1>15, <3>1, <3>4 DEF GetNextRevision, Goto, swiftVars, IInv, TypeOK,
                               Bookkeeping, Protected, Critical
    <3>5. UniqueRevisions'
      BY <1>15, <3>1 DEF GetNextRevision, IInv, Protected, UniqueRevisions,
                         Claimed
    <3>6. QED
      BY <3>2, <3>3, <3>4, <3>5 DEF Protected
  <2>5. QED
    BY <2>1, <2>2, <2>3, <2>4 DEF IInv
<1>16. ASSUME NEW r \in Runs, PrepareMatrix(r) PROVE IInv'
  <2>1. Taken' = Taken
    BY <1>16 DEF PrepareMatrix, swiftVars, Taken
  <2>2. /\ \A s \in data'[r] : s[2] \in Nat /\ next[r] <= s[2]
        /\ \A s, t \in data'[r] : s[2] = t[2] => s = t
    <3>1. Uploads[r] \in Seq(Tracks) /\ next[r] \in Nat
      BY DEF TypeOK
    <3>2. PICK kept \in SUBSET DOMAIN Uploads[r] :
             data'[r] = {<<Uploads[r][i], next[r] + i - 1>> : i \in kept}
      BY <1>16 DEF PrepareMatrix, TypeOK
    <3>3. \A i \in kept : i \in Nat \ {0}
      BY <3>1
    <3>4. ASSUME NEW s \in data'[r]
          PROVE  \E i \in kept : s = <<Uploads[r][i], next[r] + i - 1>>
      BY <3>2
    <3>5. ASSUME NEW s \in data'[r] PROVE s[2] \in Nat /\ next[r] <= s[2]
      BY <3>1, <3>3, <3>4
    <3>6. ASSUME NEW s \in data'[r], NEW t \in data'[r], s[2] = t[2]
          PROVE  s = t
      <4>1. PICK i \in kept : s = <<Uploads[r][i], next[r] + i - 1>>
        BY <3>4
      <4>2. PICK j \in kept : t = <<Uploads[r][j], next[r] + j - 1>>
        BY <3>4
      <4>3. i = j
        BY <3>1, <3>3, <3>6, <4>1, <4>2
      <4>4. QED
        BY <4>1, <4>2, <4>3
    <3>7. QED
      BY <3>5, <3>6
  <2>3. ASSUME NEW q \in Runs PROVE Bookkeeping(q)' /\ Traces(q)'
    <3>1. Bookkeeping(q)'
      BY <1>16, <2>2 DEF PrepareMatrix, Goto, IInv, TypeOK, Bookkeeping, Claimed
    <3>2. Traces(q)'
      BY <1>16, <2>1 DEF PrepareMatrix, swiftVars, IInv, Traces, Claimed
    <3>3. QED
      BY <3>1, <3>2
  <2>4. Registry'
    BY <1>16 DEF PrepareMatrix, IInv, Registry
  <2>5. ASSUME Undisturbed' PROVE Protected'
    <3>1. Undisturbed
      BY <1>16, <2>5 DEF PrepareMatrix, Undisturbed
    <3>2. ASSUME NEW q \in Runs PROVE Fresh(q)'
      BY <1>16, <2>1, <2>2, <3>1
         DEF PrepareMatrix, Goto, IInv, TypeOK, Protected, Fresh, Claimed
    <3>3. ASSUME NEW q \in Runs, Critical(q)' PROVE lock' = q
      BY <1>16, <3>1, <3>3 DEF PrepareMatrix, Goto, swiftVars, IInv, TypeOK,
                               Protected, Critical
    <3>4. UniqueRevisions'
      BY <1>16, <3>1 DEF PrepareMatrix, IInv, Protected, UniqueRevisions,
                         Claimed
    <3>5. QED
      BY <3>2, <3>3, <3>4 DEF Protected
  <2>6. QED
    BY <2>1, <2>3, <2>4, <2>5 DEF IInv
<1>17. ASSUME NEW r \in Runs, PreemptSlot(r) PROVE IInv'
  <2>1. PICK s \in data[r] \ Claimed(r) :
           /\ objects' = objects \cup {[slot |-> s, kind |-> "dummy"]}
           /\ did' = [did EXCEPT ![r]["preempted"] = @ \cup {s}]
    BY <1>17 DEF PreemptSlot, Claimed
  <2>2. Taken' = Taken \cup {s}
    BY <2>1, TakenGrows
  <2>3. /\ Claimed(r)' = Claimed(r) \cup {s}
        /\ \A q \in Runs \ {r} : did'[q] = did[q]
        /\ \A q \in Runs, w \in Work \ {"preempted"} : did'[q][w] = did[q][w]
    BY <2>1 DEF TypeOK, Claimed, Work
  <2>4. ASSUME NEW q \in Runs PROVE Bookkeeping(q)' /\ Traces(q)'
    <3>1. Bookkeeping(q)'
      BY <1>17, <2>1, <2>3
         DEF PreemptSlot, jobVars, IInv, TypeOK, Bookkeeping, Claimed
    <3>2. Traces(q)'
      BY <2>1, <2>2, <2>3 DEF IInv, Traces, Claimed, Work
    <3>3. QED
      BY <3>1, <3>2
  <2>5. Registry'
    BY <1>17, <2>3 DEF PreemptSlot, IInv, TypeOK, Registry, Work
  <2>6. ASSUME Undisturbed' PROVE Protected'
    <3>1. Undisturbed /\ Protected
      BY <1>17, <2>6 DEF PreemptSlot, Undisturbed, IInv
    <3>2. ASSUME NEW q \in Runs, pc[q] \in {"matrix", "preempt"} PROVE q = r
      BY <1>17, <3>1, <3>2
         DEF PreemptSlot, IInv, Bookkeeping, Protected, Critical
    <3>3. ASSUME NEW q \in Runs PROVE Fresh(q)'
      BY <1>17, <2>2, <2>3, <3>1, <3>2
         DEF PreemptSlot, jobVars, Protected, Fresh
    <3>4. ASSUME NEW q \in Runs, Critical(q)' PROVE lock' = q
      BY <1>17, <3>1, <3>4 DEF PreemptSlot, jobVars, Protected, Critical
    <3>5. \A t \in Taken \ Claimed(r) : t[2] # s[2]
      <4>1. \A t \in Taken \cup {s} : t[2] \in Nat
        BY DEF TypeOK, Taken, Objects, Slots
      <4>2. QED
        BY <1>17, <3>1, <4>1 DEF PreemptSlot, Protected, Fresh, TypeOK
    <3>6. UniqueRevisions'
      <4>1. UniqueRevisions /\ Existing \subseteq Taken
        BY <3>1 DEF Protected, IInv
      <4>2. \A t \in Existing : t[2] # s[2]
        BY <3>1, <3>5, <4>1 DEF UniqueRevisions, Numbers
      <4>3. ASSUME NEW q \in Runs \ {r}, NEW t \in Claimed(q) PROVE t[2] # s[2]
        <5>1. t \in Taken /\ q \in Runs
          BY <4>3 DEF IInv, Traces
        <5>2. t[2] \in Numbers(Claimed(q))
          BY <4>3 DEF Numbers
        <5>3. t \notin Claimed(r)
          <6>1. t \in Claimed(r) => t[2] \in Numbers(Claimed(r))
            BY DEF Numbers
          <6>2. Numbers(Claimed(r)) \cap Numbers(Claimed(q)) = {}
            BY <3>1, <4>1, <4>3 DEF UniqueRevisions
          <6>3. QED
            BY <5>2, <6>1, <6>2
        <5>4. QED
          BY <3>5, <5>1, <5>3
      <4>4. Numbers(Claimed(r)') = Numbers(Claimed(r)) \cup {s[2]}
        BY <2>3 DEF Numbers
      <4>5. \A q \in Runs \ {r} : Claimed(q)' = Claimed(q)
        BY <2>3 DEF Claimed
      <4>6. s[2] \notin Numbers(Existing)
        BY <4>2 DEF Numbers
      <4>7. \A q \in Runs \ {r} : s[2] \notin Numbers(Claimed(q))
        BY <4>3 DEF Numbers
      <4>8. ASSUME NEW p \in Runs
            PROVE  /\ Numbers(Claimed(p)') \cap Numbers(Existing) = {}
                   /\ \A q \in Runs \ {p} :
                        Numbers(Claimed(p)') \cap Numbers(Claimed(q)') = {}
        BY <3>1, <4>1, <4>4, <4>5, <4>6, <4>7 DEF UniqueRevisions
      <4>9. QED
        BY <4>8 DEF UniqueRevisions, Numbers
    <3>7. QED
      BY <3>3, <3>4, <3>6 DEF Protected
  <2>7. QED
    BY <2>2, <2>4, <2>5, <2>6 DEF IInv
<1>18. ASSUME NEW r \in Runs, PushImage(r) PROVE IInv'
  <2>1. PICK s \in data[r] \ did[r]["pushed"] :
           /\ ghcr' = {t \in ghcr : t.slot # s} \cup {[slot |-> s, run |-> r]}
           /\ did' = [did EXCEPT ![r]["pushed"] = @ \cup {s}]
    BY <1>18 DEF PushImage, Done
  <2>2. /\ s \in Claimed(r)
        /\ pc[r] = "upload" /\ data[r] \subseteq Claimed(r)
    BY <1>18 DEF PushImage, IInv, Bookkeeping, Traces
  <2>3. Taken' = Taken
    BY <1>18 DEF PushImage, swiftVars, Taken
  <2>4. /\ did'[r]["pushed"] = did[r]["pushed"] \cup {s}
        /\ \A q \in Runs \ {r} : did'[q] = did[q]
        /\ \A q \in Runs, v \in Work \ {"pushed"} : did'[q][v] = did[q][v]
    BY <2>1 DEF TypeOK, Work
  <2>5. \A q \in Runs : Claimed(q)' = Claimed(q)
    BY <2>4 DEF Claimed, Work
  <2>6. ASSUME NEW q \in Runs PROVE Bookkeeping(q)' /\ Traces(q)'
    <3>1. Bookkeeping(q)'
      BY <1>18, <2>5 DEF PushImage, jobVars, IInv, Bookkeeping
    <3>2. Traces(q)'
      BY <1>18, <2>1, <2>2, <2>3, <2>4, <2>5
         DEF PushImage, swiftVars, IInv, Traces, Work
    <3>3. QED
      BY <3>1, <3>2
  <2>7. Registry'
    BY <1>18, <2>1, <2>4 DEF PushImage, IInv, TypeOK, Registry, Work
  <2>8. ASSUME Undisturbed' PROVE Protected'
    <3>1. Undisturbed /\ Protected
      BY <1>18, <2>8 DEF PushImage, Undisturbed, IInv
    <3>2. ASSUME NEW q \in Runs PROVE Fresh(q)'
      BY <1>18, <2>3, <2>5, <3>1 DEF PushImage, jobVars, Protected, Fresh
    <3>3. ASSUME NEW q \in Runs, Critical(q)' PROVE lock' = q
      BY <1>18, <3>1, <3>3 DEF PushImage, jobVars, swiftVars, Protected, Critical
    <3>4. UniqueRevisions'
      BY <2>5, <3>1 DEF Protected, UniqueRevisions
    <3>5. QED
      BY <3>2, <3>3, <3>4 DEF Protected
  <2>9. QED
    BY <2>3, <2>6, <2>7, <2>8 DEF IInv
<1>19. ASSUME NEW r \in Runs, StoreArtefacts(r) PROVE IInv'
  <2>1. PICK s \in did[r]["pushed"] \ did[r]["stored"] :
           /\ objects' = objects \cup {[slot |-> s, kind |-> "artefacts"]}
           /\ did' = [did EXCEPT ![r]["stored"] = @ \cup {s}]
    BY <1>19 DEF StoreArtefacts, Done
  <2>2. /\ s \in Claimed(r)
        /\ pc[r] = "upload" /\ data[r] \subseteq Claimed(r)
    BY <1>19 DEF StoreArtefacts, IInv, Bookkeeping, Traces
  <2>3. Taken' = Taken
    <3>1. Taken' = Taken \cup {s}
      BY <2>1, TakenGrows
    <3>2. s \in Taken
      BY <2>2 DEF IInv, Traces
    <3>3. QED
      BY <3>1, <3>2
  <2>4. /\ did'[r]["stored"] = did[r]["stored"] \cup {s}
        /\ \A q \in Runs \ {r} : did'[q] = did[q]
        /\ \A q \in Runs, v \in Work \ {"stored"} : did'[q][v] = did[q][v]
    BY <2>1 DEF TypeOK, Work
  <2>5. \A q \in Runs : Claimed(q)' = Claimed(q)
    BY <2>4 DEF Claimed, Work
  <2>6. ASSUME NEW q \in Runs PROVE Bookkeeping(q)' /\ Traces(q)'
    <3>1. Bookkeeping(q)'
      BY <1>19, <2>5 DEF StoreArtefacts, jobVars, IInv, Bookkeeping
    <3>2. Traces(q)'
      BY <2>1, <2>2, <2>3, <2>4, <2>5 DEF IInv, Traces, Work
    <3>3. QED
      BY <3>1, <3>2
  <2>7. Registry'
    BY <1>19, <2>1, <2>4 DEF StoreArtefacts, IInv, TypeOK, Registry, Work
  <2>8. ASSUME Undisturbed' PROVE Protected'
    <3>1. Undisturbed /\ Protected
      BY <1>19, <2>8 DEF StoreArtefacts, Undisturbed, IInv
    <3>2. ASSUME NEW q \in Runs PROVE Fresh(q)'
      BY <1>19, <2>3, <2>5, <3>1 DEF StoreArtefacts, jobVars, Protected, Fresh
    <3>3. ASSUME NEW q \in Runs, Critical(q)' PROVE lock' = q
      BY <1>19, <3>1, <3>3 DEF StoreArtefacts, jobVars, swiftVars, Protected, Critical
    <3>4. UniqueRevisions'
      BY <2>5, <3>1 DEF Protected, UniqueRevisions
    <3>5. QED
      BY <3>2, <3>3, <3>4 DEF Protected
  <2>9. QED
    BY <2>3, <2>6, <2>7, <2>8 DEF IInv
<1>20. ASSUME NEW r \in Runs, RemoveDummy(r) PROVE IInv'
  <2>1. PICK s \in did[r]["stored"] \ did[r]["finished"] :
           /\ objects' = objects \ {[slot |-> s, kind |-> "dummy"]}
           /\ did' = [did EXCEPT ![r]["finished"] = @ \cup {s}]
    BY <1>20 DEF RemoveDummy, Done
  <2>2. /\ s \in Claimed(r)
        /\ pc[r] = "upload" /\ data[r] \subseteq Claimed(r)
    BY <1>20 DEF RemoveDummy, IInv, Bookkeeping, Traces
  <2>3. Taken' = Taken
    <3>1. [slot |-> s, kind |-> "artefacts"] \in objects'
      BY <2>1 DEF IInv, Traces
    <3>2. s \in Taken'
      BY <3>1 DEF Taken
    <3>3. QED
      BY <2>1, <3>2 DEF Taken
  <2>4. /\ did'[r]["finished"] = did[r]["finished"] \cup {s}
        /\ \A q \in Runs \ {r} : did'[q] = did[q]
        /\ \A q \in Runs, v \in Work \ {"finished"} : did'[q][v] = did[q][v]
    BY <2>1 DEF TypeOK, Work
  <2>5. \A q \in Runs : Claimed(q)' = Claimed(q)
    BY <2>4 DEF Claimed, Work
  <2>6. ASSUME NEW q \in Runs PROVE Bookkeeping(q)' /\ Traces(q)'
    <3>1. Bookkeeping(q)'
      BY <1>20, <2>5 DEF RemoveDummy, jobVars, IInv, Bookkeeping
    <3>2. Traces(q)'
      BY <2>1, <2>2, <2>3, <2>4, <2>5 DEF IInv, Traces, Work
    <3>3. QED
      BY <3>1, <3>2
  <2>7. Registry'
    BY <1>20, <2>1, <2>4 DEF RemoveDummy, IInv, TypeOK, Registry, Work
  <2>8. ASSUME Undisturbed' PROVE Protected'
    <3>1. Undisturbed /\ Protected
      BY <1>20, <2>8 DEF RemoveDummy, Undisturbed, IInv
    <3>2. ASSUME NEW q \in Runs PROVE Fresh(q)'
      BY <1>20, <2>3, <2>5, <3>1 DEF RemoveDummy, jobVars, Protected, Fresh
    <3>3. ASSUME NEW q \in Runs, Critical(q)' PROVE lock' = q
      BY <1>20, <3>1, <3>3 DEF RemoveDummy, jobVars, swiftVars, Protected, Critical
    <3>4. UniqueRevisions'
      BY <2>5, <3>1 DEF Protected, UniqueRevisions
    <3>5. QED
      BY <3>2, <3>3, <3>4 DEF Protected
  <2>9. QED
    BY <2>3, <2>6, <2>7, <2>8 DEF IInv
<1>21. QED
  BY <1>1, <1>2, <1>3, <1>4, <1>5, <1>6, <1>7, <1>8, <1>9, <1>10, <1>11, <1>12,
     <1>13, <1>14, <1>15, <1>16, <1>17, <1>18, <1>19, <1>20 DEF Next, Advance

-----------------------------------------------------------------------------
\* The invariant of every reachable state.
THEOREM Invariant == Spec => []IInv
<1>1. QED
  BY InitInvariant, InvariantStep, PTL DEF Spec

\* While the lockfile is respected, two runs are never in the critical
\* section of prepare-upload together.
THEOREM CriticalSection == Spec => []MutualExclusion
<1>1. IInv => MutualExclusion
  BY DEF IInv, Protected, MutualExclusion
<1>2. QED
  BY <1>1, Invariant, PTL

\* While the lockfile is respected, no revision number is claimed twice.
THEOREM RevisionsAreUnique == Spec => []UniqueRevisions
<1>1. IInv => UniqueRevisions
  BY DEF IInv, Protected, UniqueRevisions
<1>2. QED
  BY <1>1, Invariant, PTL

\* Every image in the registry is in the list of canonical tags.
THEOREM PushedImagesAreListed == Spec => []PushedIsListed
<1>1. IInv => PushedIsListed
  <2> SUFFICES ASSUME IInv, NEW t \in ghcr PROVE t.slot \in Taken
    BY DEF PushedIsListed
  <2>1. t.run \in Runs /\ t.slot \in did[t.run]["pushed"]
    BY DEF IInv, TypeOK, Registry
  <2>2. QED
    BY <2>1 DEF IInv, Traces
<1>2. QED
  BY <1>1, Invariant, PTL

-----------------------------------------------------------------------------
\* Only these steps touch the objects below <track>/<revision>/, the images
\* or what the runs have done.
Writes(r) ==
    PreemptSlot(r) \/ PushImage(r) \/ StoreArtefacts(r) \/ RemoveDummy(r)

\* Every other step leaves the slots, the images and the work alone.
LEMMA OtherSteps ==
    [Next]_vars => \/ \E r \in Runs : Writes(r)
                   \/ UNCHANGED <<objects, ghcr, did>>
<1> SUFFICES ASSUME [Next]_vars, ~ \E r \in Runs : Writes(r)
             PROVE  UNCHANGED <<objects, ghcr, did>>
  OBVIOUS
<1>1. CASE UNCHANGED vars
  BY <1>1 DEF vars
<1>2. CASE Next
  BY <1>2 DEF Next, Advance, Writes, swiftVars, jobVars,
     Setup, PollFree, PollLocked, UploadLock, GetNextRevision, PrepareMatrix,
     PreemptDone, StepFails, Cancel, LockInterrupted, UnlockList, DeleteLock,
     UnlockFails, UploadDone, UploadFails, Crash
<1>3. QED
  BY <1>1, <1>2

\* No step frees a slot: RemoveDummy finds the artefacts there.
LEMMA SlotsStep == IInv /\ [Next]_vars => Taken \subseteq Taken'
<1> SUFFICES ASSUME IInv, [Next]_vars PROVE Taken \subseteq Taken'
  OBVIOUS
<1>1. ASSUME NEW r \in Runs, PreemptSlot(r) \/ StoreArtefacts(r) \/ PushImage(r)
      PROVE  Taken \subseteq Taken'
  <2>1. objects \subseteq objects'
    BY <1>1 DEF PreemptSlot, StoreArtefacts, PushImage, swiftVars
  <2>2. QED
    BY <2>1 DEF Taken
<1>2. ASSUME NEW r \in Runs, RemoveDummy(r) PROVE Taken \subseteq Taken'
  <2>1. PICK s \in did[r]["stored"] :
           objects' = objects \ {[slot |-> s, kind |-> "dummy"]}
    BY <1>2 DEF RemoveDummy
  <2>2. [slot |-> s, kind |-> "artefacts"] \in objects'
    BY <2>1 DEF IInv, Traces
  <2>3. s \in Taken'
    BY <2>2 DEF Taken
  <2>4. QED
    BY <2>1, <2>3 DEF Taken
<1>3. CASE UNCHANGED <<objects, ghcr, did>>
  BY <1>3 DEF Taken
<1>4. QED
  BY <1>1, <1>2, <1>3, OtherSteps DEF Writes

\* A slot that is taken is never free again, whatever fails.
THEOREM SlotsAreKept == Spec => SlotsNeverFreed
<1>1. IInv /\ [Next]_vars => [Taken \subseteq Taken']_vars
  BY SlotsStep
<1>2. QED
  BY <1>1, Invariant, PTL DEF Spec, SlotsNeverFreed

\* While the lockfile is respected, an upload job never finds its canonical
\* tag in the registry: it is the only run with that number and has not
\* pushed it before.
LEMMA PushIsFirst ==
    ASSUME IInv, Undisturbed, NEW r \in Runs, pc[r] = "upload",
           NEW s \in data[r] \ did[r]["pushed"]
    PROVE  \A t \in ghcr : t.slot # s
<1> SUFFICES ASSUME NEW t \in ghcr, t.slot = s PROVE FALSE
  OBVIOUS
<1>1. t.run \in Runs /\ s \in did[t.run]["pushed"]
  BY DEF IInv, TypeOK, Registry
<1>2. s \in Claimed(r) /\ s \in Claimed(t.run)
  BY <1>1 DEF IInv, Bookkeeping, Traces
<1>3. s[2] \in Numbers(Claimed(r)) /\ s[2] \in Numbers(Claimed(t.run))
  BY <1>2 DEF Numbers
<1>4. t.run = r
  BY <1>1, <1>3 DEF IInv, Protected, UniqueRevisions
<1>5. QED
  BY <1>1, <1>4

\* While the lockfile is respected, a canonical tag stays with the image it
\* was first given to.
THEOREM CanonicalTagsStay == Spec => CanonicalTagsImmutable
<1>1. IInv /\ [Next]_vars => [disturbed' = {} => ghcr \subseteq ghcr']_vars
  <2> SUFFICES ASSUME IInv, [Next]_vars, disturbed' = {}
               PROVE  ghcr \subseteq ghcr'
    OBVIOUS
  <2>1. ASSUME NEW r \in Runs, PushImage(r) PROVE ghcr \subseteq ghcr'
    <3>1. Undisturbed /\ pc[r] = "upload"
      BY <2>1 DEF PushImage, Undisturbed
    <3>2. PICK s \in data[r] \ did[r]["pushed"] :
             ghcr' = {t \in ghcr : t.slot # s} \cup {[slot |-> s, run |-> r]}
      BY <2>1 DEF PushImage
    <3>3. QED
      BY <3>1, <3>2, PushIsFirst
  <2>2. ASSUME NEW r \in Runs,
               PreemptSlot(r) \/ StoreArtefacts(r) \/ RemoveDummy(r)
        PROVE  ghcr \subseteq ghcr'
    BY <2>2 DEF PreemptSlot, StoreArtefacts, RemoveDummy
  <2>3. QED
    BY <2>1, <2>2, OtherSteps DEF Writes
<1>2. QED
  BY <1>1, Invariant, PTL DEF Spec, CanonicalTagsImmutable

-----------------------------------------------------------------------------
(* The protocol keeps a revision ledger.                                   *)

Pair(n, r) == [rev |-> n, run |-> r]

\* A pair of the ledger determines its number and its run.
LEMMA PairInjective == \A n, r, m, q : Pair(n, r) = Pair(m, q) => n = m /\ r = q
<1> SUFFICES ASSUME NEW n, NEW r, NEW m, NEW q, Pair(n, r) = Pair(m, q)
             PROVE  n = m /\ r = q
  OBVIOUS
<1>1. Pair(n, r).rev = n /\ Pair(m, q).rev = m
  BY DEF Pair
<1>2. Pair(n, r).run = r /\ Pair(m, q).run = q
  BY DEF Pair
<1>3. QED
  BY <1>1, <1>2

\* The claims of the ledger are the numbers of the slots each run preempted.
LEMMA ClaimedPairs ==
    \A n, r : Pair(n, r) \in claimedNumbers
                 <=> r \in Runs /\ n \in Numbers(Claimed(r))
<1> SUFFICES ASSUME NEW n, NEW r
             PROVE  Pair(n, r) \in claimedNumbers
                      <=> r \in Runs /\ n \in Numbers(Claimed(r))
  OBVIOUS
<1>1. ASSUME Pair(n, r) \in claimedNumbers
      PROVE  r \in Runs /\ n \in Numbers(Claimed(r))
  <2>1. PICK q \in Runs : \E m \in Numbers(Claimed(q)) : Pair(n, r) = Pair(m, q)
    BY <1>1 DEF claimedNumbers, Pair
  <2>2. QED
    BY <2>1, PairInjective
<1>2. ASSUME r \in Runs, n \in Numbers(Claimed(r))
      PROVE  Pair(n, r) \in claimedNumbers
  BY <1>2 DEF claimedNumbers, Pair
<1>3. QED
  BY <1>1, <1>2

\* The publications of the ledger are the numbers each run pushed.
LEMMA PublishedPairs ==
    \A n, r : Pair(n, r) \in publishedNumbers
                 <=> r \in Runs /\ n \in Numbers(did[r]["pushed"])
<1> SUFFICES ASSUME NEW n, NEW r
             PROVE  Pair(n, r) \in publishedNumbers
                      <=> r \in Runs /\ n \in Numbers(did[r]["pushed"])
  OBVIOUS
<1>1. ASSUME Pair(n, r) \in publishedNumbers
      PROVE  r \in Runs /\ n \in Numbers(did[r]["pushed"])
  <2>1. PICK q \in Runs : \E m \in Numbers(did[q]["pushed"]) : Pair(n, r) = Pair(m, q)
    BY <1>1 DEF publishedNumbers, Pair
  <2>2. QED
    BY <2>1, PairInjective
<1>2. ASSUME r \in Runs, n \in Numbers(did[r]["pushed"])
      PROVE  Pair(n, r) \in publishedNumbers
  <2> DEFINE ofRun(q) == {[rev |-> m, run |-> q] : m \in Numbers(did[q]["pushed"])}
  <2>1. Pair(n, r) \in ofRun(r)
    BY <1>2 DEF Pair
  <2>2. publishedNumbers = UNION {ofRun(q) : q \in Runs}
    BY DEF publishedNumbers
  <2> HIDE DEF ofRun
  <2>3. QED
    BY <1>2, <2>1, <2>2
<1>3. QED
  BY <1>1, <1>2

\* Claims and publications are never withdrawn.
LEMMA LedgerGrows ==
    TypeOK /\ [Next]_vars => /\ claimedNumbers \subseteq claimedNumbers'
                            /\ publishedNumbers \subseteq publishedNumbers'
<1> SUFFICES ASSUME TypeOK, [Next]_vars
             PROVE  \A q \in Runs, w \in Work : did[q][w] \subseteq did'[q][w]
  BY DEF claimedNumbers, publishedNumbers, Numbers, Claimed, Work
<1>1. ASSUME NEW r \in Runs, Writes(r)
      PROVE  \A q \in Runs, w \in Work : did[q][w] \subseteq did'[q][w]
  <2>1. PICK v \in Work, s \in Slots :
           did' = [did EXCEPT ![r][v] = @ \cup {s}]
    <3>1. CASE PreemptSlot(r)
      BY <3>1 DEF PreemptSlot, TypeOK, Work
    <3>2. CASE PushImage(r)
      BY <3>2 DEF PushImage, Done, TypeOK, Work
    <3>3. CASE StoreArtefacts(r)
      <4>1. PICK s \in did[r]["pushed"] :
               did' = [did EXCEPT ![r]["stored"] = @ \cup {s}]
        BY <3>3 DEF StoreArtefacts, Done
      <4>2. s \in Slots /\ "stored" \in Work
        BY DEF TypeOK, Work
      <4>3. QED
        BY <4>1, <4>2
    <3>4. CASE RemoveDummy(r)
      <4>1. PICK s \in did[r]["stored"] :
               did' = [did EXCEPT ![r]["finished"] = @ \cup {s}]
        BY <3>4 DEF RemoveDummy, Done
      <4>2. s \in Slots /\ "finished" \in Work
        BY DEF TypeOK, Work
      <4>3. QED
        BY <4>1, <4>2
    <3>5. QED
      BY <1>1, <3>1, <3>2, <3>3, <3>4 DEF Writes
  <2>2. QED
    BY <2>1 DEF TypeOK
<1>2. QED
  BY <1>1, OtherSteps

\* A slot preempted while the lockfile is respected is a claim of a number
\* above those of all other runs.
LEMMA PreemptSlotClaims ==
    ASSUME IInv, NEW r \in Runs, PreemptSlot(r), Undisturbed'
    PROVE  Ledger!LedgerNext
<1>1. PICK s \in data[r] \ Claimed(r) :
         did' = [did EXCEPT ![r]["preempted"] = @ \cup {s}]
  BY DEF PreemptSlot, Claimed
<1>2. Undisturbed /\ Protected /\ pc[r] = "preempt" /\ TypeOK
  BY DEF PreemptSlot, Undisturbed, IInv
<1>3. s[2] \in Nat /\ Bookkeeping(r)
  BY <1>2 DEF IInv, TypeOK, Slots
<1> DEFINE c == Pair(s[2], r)
<1>4. claimedNumbers' = claimedNumbers \cup {c}
  <2>1. /\ Claimed(r)' = Claimed(r) \cup {s}
        /\ \A q \in Runs \ {r} : Claimed(q)' = Claimed(q)
    BY <1>1, <1>2 DEF TypeOK, Claimed, Work
  <2>2. /\ Numbers(Claimed(r)') = Numbers(Claimed(r)) \cup {s[2]}
        /\ \A q \in Runs \ {r} : Numbers(Claimed(q)') = Numbers(Claimed(q))
    BY <2>1 DEF Numbers
  <2>3. claimedNumbers' =
           UNION {{[rev |-> n, run |-> q] : n \in Numbers(Claimed(q)')} : q \in Runs}
    BY DEF claimedNumbers, Numbers
  <2>4. QED
    BY <2>2, <2>3 DEF claimedNumbers, Pair
<1>5. publishedNumbers' = publishedNumbers
  BY <1>1, <1>2 DEF TypeOK, publishedNumbers, Numbers, Work
<1>6. c \notin claimedNumbers
  <2>1. \A t \in Claimed(r) : t[2] # s[2]
    BY <1>1, <1>3 DEF Bookkeeping
  <2>2. QED
    BY <2>1, ClaimedPairs DEF Numbers
<1>7. ASSUME NEW d \in claimedNumbers, d.run # c.run PROVE d.rev < c.rev
  <2>1. PICK q \in Runs : \E t \in Claimed(q) : d = Pair(t[2], q)
    BY DEF claimedNumbers, Numbers, Pair
  <2> PICK t \in Claimed(q) : d = Pair(t[2], q)
    BY <2>1
  <2>2. q # r
    BY <1>7 DEF Pair
  <2>3. t \in Taken /\ t[2] \in Nat
    BY DEF IInv, TypeOK, Traces, Taken, Objects, Slots
  <2>4. t \notin Claimed(r)
    <3>1. Numbers(Claimed(r)) \cap Numbers(Claimed(q)) = {}
      BY <1>2, <2>2 DEF Protected, UniqueRevisions
    <3>2. t[2] \in Numbers(Claimed(q))
      BY DEF Numbers
    <3>3. t \in Claimed(r) => t[2] \in Numbers(Claimed(r))
      BY DEF Numbers
    <3>4. QED
      BY <3>1, <3>2, <3>3
  <2>5. t[2] < next[r] /\ next[r] <= s[2] /\ next[r] \in Nat
    BY <1>2, <2>3, <2>4 DEF Protected, Fresh, TypeOK
  <2>6. t[2] < s[2]
    BY <1>3, <2>3, <2>5
  <2>7. QED
    BY <2>6 DEF Pair
<1>8. c \in Ledger!Claims
  BY <1>3 DEF Ledger!Claims, Pair
<1>9. Ledger!Claim(c)
  BY <1>2, <1>4, <1>5, <1>6, <1>7 DEF Ledger!Claim
<1> HIDE DEF c
<1>10. QED
  BY <1>4, <1>8, <1>9 DEF Ledger!LedgerNext

\* A push while the lockfile is respected publishes a claimed number for the
\* first time.
LEMMA PushImagePublishes ==
    ASSUME IInv, NEW r \in Runs, PushImage(r), Undisturbed'
    PROVE  Ledger!LedgerNext
<1>1. PICK s \in data[r] \ did[r]["pushed"] :
         did' = [did EXCEPT ![r]["pushed"] = @ \cup {s}]
  BY DEF PushImage, Done
<1>2. Undisturbed /\ pc[r] = "upload" /\ TypeOK
  BY DEF PushImage, Undisturbed, IInv
<1>3. s[2] \in Nat /\ s \in Claimed(r) /\ Bookkeeping(r) /\ Traces(r)
  BY <1>2 DEF IInv, TypeOK, Slots, Bookkeeping
<1> DEFINE c == Pair(s[2], r)
<1>4. claimedNumbers' = claimedNumbers
  BY <1>1, <1>2 DEF TypeOK, claimedNumbers, Numbers, Claimed, Work
<1>5. publishedNumbers' = publishedNumbers \cup {c}
  <2>1. /\ did'[r]["pushed"] = did[r]["pushed"] \cup {s}
        /\ \A q \in Runs \ {r} : did'[q]["pushed"] = did[q]["pushed"]
    BY <1>1, <1>2 DEF TypeOK, Work
  <2>2. /\ Numbers(did'[r]["pushed"]) = Numbers(did[r]["pushed"]) \cup {s[2]}
        /\ \A q \in Runs \ {r} :
              Numbers(did'[q]["pushed"]) = Numbers(did[q]["pushed"])
    BY <2>1 DEF Numbers
  <2>3. \A x : x \in publishedNumbers' <=>
                 \E q \in Runs : \E n \in Numbers(did'[q]["pushed"]) :
                    x = Pair(n, q)
    BY DEF publishedNumbers, Numbers, Pair
  <2>4. \A x : x \in publishedNumbers <=>
                 \E q \in Runs : \E n \in Numbers(did[q]["pushed"]) :
                    x = Pair(n, q)
    BY DEF publishedNumbers, Pair
  <2> HIDE DEF c
  <2>5. c = Pair(s[2], r)
    BY DEF c
  <2>6. ASSUME NEW x \in publishedNumbers'
        PROVE  x \in publishedNumbers \cup {c}
    <3>1. PICK q \in Runs : \E n \in Numbers(did'[q]["pushed"]) : x = Pair(n, q)
      BY <2>3, <2>6
    <3>2. PICK n \in Numbers(did'[q]["pushed"]) : x = Pair(n, q)
      BY <3>1
    <3>3. n \in Numbers(did[q]["pushed"]) \/ (q = r /\ n = s[2])
      BY <2>2, <3>2
    <3>4. QED
      BY <2>4, <2>5, <3>2, <3>3
  <2>7. ASSUME NEW x \in publishedNumbers \cup {c}
        PROVE  x \in publishedNumbers'
    <3>1. CASE x \in publishedNumbers
      <4>1. PICK q \in Runs : \E n \in Numbers(did[q]["pushed"]) : x = Pair(n, q)
        BY <2>4, <3>1
      <4>2. PICK n \in Numbers(did[q]["pushed"]) : x = Pair(n, q)
        BY <4>1
      <4>3. n \in Numbers(did'[q]["pushed"])
        BY <2>2, <4>2
      <4>4. QED
        BY <2>3, <4>2, <4>3
    <3>2. CASE x = c
      BY <2>2, <2>3, <2>5, <3>2
    <3>3. QED
      BY <2>7, <3>1, <3>2
  <2>8. QED
    BY <2>6, <2>7
<1>6. c \in claimedNumbers \ publishedNumbers
  <2>1. \A t \in did[r]["pushed"] : t[2] # s[2]
    BY <1>1, <1>3 DEF Bookkeeping, Traces
  <2>2. s[2] \in Numbers(Claimed(r)) /\ s[2] \notin Numbers(did[r]["pushed"])
    BY <1>3, <2>1 DEF Numbers
  <2>3. QED
    BY <2>2, ClaimedPairs, PublishedPairs
<1>7. c \in Ledger!Claims
  BY <1>3 DEF Ledger!Claims, Pair
<1>8. Undisturbed' = Undisturbed
  BY <1>2
<1>9. Ledger!Publish(c)
  BY <1>2, <1>4, <1>5, <1>6 DEF Ledger!Publish
<1> HIDE DEF c
<1>10. QED
  BY <1>4, <1>6, <1>7, <1>9 DEF Ledger!LedgerNext

\* The workflow implements the ledger: while the lockfile is respected every
\* slot it writes is a claim and every push a publication, and afterwards
\* nothing is withdrawn.
THEOREM KeepsLedger == Spec => LedgerSpec
<1>1. Init => Ledger!LedgerInit
  BY DEF Init, Ledger!LedgerInit, claimedNumbers, publishedNumbers, Numbers,
         Claimed, Undisturbed, Work
<1>2. IInv /\ [Next]_vars => [Ledger!LedgerNext]_(Ledger!ledgerVars)
  <2> SUFFICES ASSUME IInv, [Next]_vars
               PROVE  [Ledger!LedgerNext]_(Ledger!ledgerVars)
    OBVIOUS
  <2>1. CASE ~Undisturbed'
    BY <2>1, LedgerGrows DEF IInv, Ledger!LedgerNext, Ledger!Break
  <2>2. CASE Undisturbed'
    <3>1. ASSUME NEW r \in Runs, PreemptSlot(r) PROVE Ledger!LedgerNext
      BY <2>2, <3>1, PreemptSlotClaims
    <3>2. ASSUME NEW r \in Runs, PushImage(r) PROVE Ledger!LedgerNext
      BY <2>2, <3>2, PushImagePublishes
    <3>3. Undisturbed
      BY <2>2 DEF Undisturbed, Next, Advance, vars, swiftVars,
         Setup, PollFree, PollLocked, UploadLock, GetNextRevision,
         PrepareMatrix, PreemptSlot, PreemptDone, StepFails, Cancel,
         LockInterrupted, PutLockfile, UnlockList, DeleteLock, UnlockFails,
         PushImage, StoreArtefacts, RemoveDummy, UploadDone, UploadFails, Crash
    <3>4. ASSUME NEW r \in Runs, StoreArtefacts(r) \/ RemoveDummy(r)
          PROVE  UNCHANGED Ledger!ledgerVars
      <4>1. \A q \in Runs : /\ Claimed(q)' = Claimed(q)
                            /\ did'[q]["pushed"] = did[q]["pushed"]
        <5>1. CASE StoreArtefacts(r)
          <6>1. PICK s : did' = [did EXCEPT ![r]["stored"] = @ \cup {s}]
            BY <5>1 DEF StoreArtefacts, Done
          <6>2. QED
            BY <6>1 DEF IInv, TypeOK, Claimed, Work
        <5>2. CASE RemoveDummy(r)
          <6>1. PICK s : did' = [did EXCEPT ![r]["finished"] = @ \cup {s}]
            BY <5>2 DEF RemoveDummy, Done
          <6>2. QED
            BY <6>1 DEF IInv, TypeOK, Claimed, Work
        <5>3. QED
          BY <3>4, <5>1, <5>2
      <4>2. QED
        BY <2>2, <3>3, <4>1 DEF Ledger!ledgerVars, claimedNumbers,
                                publishedNumbers, Numbers
    <3>5. CASE UNCHANGED <<objects, ghcr, did>>
      BY <2>2, <3>3, <3>5 DEF Ledger!ledgerVars, claimedNumbers,
                              publishedNumbers, Numbers, Claimed
    <3>6. QED
      BY <3>1, <3>2, <3>4, <3>5, OtherSteps DEF Writes
  <2>3. QED
    BY <2>1, <2>2
<1>3. QED
  BY <1>1, <1>2, Invariant, PTL DEF Spec, LedgerSpec, Ledger!LedgerSpec

-----------------------------------------------------------------------------
(* Releases that list the container meanwhile (RevisionListing).           *)

\* Each slot is there from before or was claimed by a run.
Accounted == \A t \in Taken : t \in Existing \/ \E r \in Runs : t \in Claimed(r)

\* What a release has listed stays there, and what it has read is of it.
Listed ==
    /\ step \in {"idle", "listed", "tagged", "raised", "done"}
    /\ listing \subseteq Taken \cup {LockfileTag}
    /\ tracks \subseteq Taken
    /\ step = "raised" => ~ Reads(listing)

ListingInv == IInv /\ Accounted /\ Listed

\* Slots are accounted for: a dummy is written by the run that claims it,
\* artefacts by one that has claimed it before.
LEMMA AccountedStep == IInv /\ Accounted /\ [Next]_vars => Accounted'
<1> SUFFICES ASSUME IInv, Accounted, [Next]_vars PROVE Accounted'
  OBVIOUS
<1>1. ASSUME NEW r \in Runs, PreemptSlot(r) PROVE Accounted'
  <2>1. PICK s \in data[r] :
            /\ objects' = objects \cup {[slot |-> s, kind |-> "dummy"]}
            /\ did' = [did EXCEPT ![r]["preempted"] = @ \cup {s}]
    BY <1>1 DEF PreemptSlot
  <2>2. \A o \in objects' : o \in objects \/ o.slot = s
    BY <2>1
  <2>3. Taken' \subseteq Taken \cup {s}
    BY <2>2 DEF Taken
  <2>4. s \in Claimed(r)' /\ \A q \in Runs : Claimed(q) \subseteq Claimed(q)'
    BY <2>1 DEF IInv, TypeOK, Claimed, Work
  <2>5. QED
    BY <2>3, <2>4 DEF Accounted
<1>2. ASSUME NEW r \in Runs, StoreArtefacts(r) PROVE Accounted'
  <2>1. PICK s \in did[r]["pushed"] :
            /\ objects' = objects \cup {[slot |-> s, kind |-> "artefacts"]}
            /\ Done(r, "stored", s)
    BY <1>2 DEF StoreArtefacts
  <2>2. \A o \in objects' : o \in objects \/ o.slot = s
    BY <2>1
  <2>3. Taken' \subseteq Taken \cup {s}
    BY <2>2 DEF Taken
  <2>4. s \in Taken
    BY DEF IInv, Traces
  <2>5. \A q \in Runs : Claimed(q)' = Claimed(q)
    BY <2>1 DEF IInv, TypeOK, Claimed, Done, Work
  <2>6. QED
    BY <2>3, <2>4, <2>5 DEF Accounted
<1>3. ASSUME NEW r \in Runs, PushImage(r) \/ RemoveDummy(r) PROVE Accounted'
  <2>1. Taken' \subseteq Taken
    BY <1>3 DEF PushImage, RemoveDummy, swiftVars, Taken
  <2>2. PICK work \in {"pushed", "finished"} : \E s : Done(r, work, s)
    BY <1>3 DEF PushImage, RemoveDummy
  <2>3. \A q \in Runs : Claimed(q)' = Claimed(q)
    <3>1. PICK s : did' = [did EXCEPT ![r][work] = @ \cup {s}]
      BY <2>2 DEF Done
    <3>2. \A q \in Runs : did'[q]["preempted"] = did[q]["preempted"]
      BY <2>2, <3>1 DEF IInv, TypeOK, Work
    <3>3. QED
      BY <3>2 DEF Claimed
  <2>4. QED
    BY <2>1, <2>3 DEF Accounted
<1>4. CASE UNCHANGED <<objects, ghcr, did>>
  BY <1>4 DEF Accounted, Taken, Claimed
<1>5. QED
  BY <1>1, <1>2, <1>3, <1>4, OtherSteps DEF Writes

\* As long as the lockfile is respected each revision is on one track.
LEMMA OneTrackPerRevision ==
    ASSUME IInv, Accounted, Undisturbed, NEW s \in Taken, NEW t \in Taken,
           s[2] = t[2]
    PROVE  s = t
<1>1. \A r \in Runs : \A u \in Claimed(r) : u[2] \in Numbers(Claimed(r))
  BY DEF Numbers
<1>2. \A u \in Existing : u[2] \in Numbers(Existing)
  BY DEF Numbers
<1>3. UniqueRevisions
  BY DEF IInv, Protected
<1>4. CASE s \in Existing /\ t \in Existing
  BY <1>4, ListingAssumption
<1>5. CASE \E r \in Runs : s \in Claimed(r) /\ t \in Existing
  BY <1>1, <1>2, <1>3, <1>5 DEF UniqueRevisions
<1>6. CASE \E r \in Runs : t \in Claimed(r) /\ s \in Existing
  BY <1>1, <1>2, <1>3, <1>6 DEF UniqueRevisions
<1>7. CASE \E r, q \in Runs : s \in Claimed(r) /\ t \in Claimed(q)
  <2>1. PICK r \in Runs, q \in Runs : s \in Claimed(r) /\ t \in Claimed(q)
    BY <1>7
  <2>2. r = q
    BY <1>1, <1>3, <2>1 DEF UniqueRevisions
  <2>3. QED
    BY <2>1, <2>2 DEF IInv, Bookkeeping
<1>8. QED
  BY <1>4, <1>5, <1>6, <1>7 DEF Accounted

\* The invariant of uploads and the releases among them.
THEOREM ListingInvariant == ListingSpec => []ListingInv
<1>1. ListingInit => ListingInv
  <2> SUFFICES ASSUME ListingInit PROVE ListingInv
    OBVIOUS
  <2>1. IInv
    BY InitInvariant DEF ListingInit
  <2>2. Accounted
    BY DEF ListingInit, Init, Accounted, Taken
  <2>3. QED
    BY <2>1, <2>2 DEF ListingInit, ListingInv, Listed
<1>2. ListingInv /\ [ListingNext]_listingVars => ListingInv'
  <2> SUFFICES ASSUME ListingInv, [ListingNext]_listingVars PROVE ListingInv'
    OBVIOUS
  <2>1. [Next]_vars
    BY DEF ListingNext, ListTags, GetRevisionToTrack, ReleaseAgain, ReleaseStep,
           listingVars
  <2>2. IInv' /\ Accounted' /\ Taken \subseteq Taken'
    BY <2>1, InvariantStep, AccountedStep, SlotsStep DEF ListingInv
  <2>3. Listed'
    <3>1. CASE UNCHANGED <<step, listing, tracks>>
      BY <2>2, <3>1 DEF ListingInv, Listed, Reads
    <3>2. CASE ListTags
      <4>1. /\ step' = "listed" /\ tracks' = tracks
            /\ listing' \subseteq Taken \cup {LockfileTag}
        BY <3>2 DEF ListTags
      <4>2. QED
        BY <2>2, <4>1 DEF ListingInv, Listed
    <3>3. CASE GetRevisionToTrack /\ Reads(listing)
      <4>1. /\ listing' = listing /\ tracks' = listing
            /\ step' \in {"tagged", "done"}
        BY <3>3 DEF GetRevisionToTrack
      <4>2. listing \subseteq Taken
        BY <3>3 DEF ListingInv, Listed, Reads
      <4>3. QED
        BY <2>2, <4>1, <4>2 DEF Listed
    <3>4. CASE GetRevisionToTrack /\ ~ Reads(listing)
      <4>1. listing' = listing /\ tracks' = tracks /\ step' = "raised"
        BY <3>4 DEF GetRevisionToTrack
      <4>2. QED
        BY <2>2, <3>4, <4>1 DEF ListingInv, Listed, Reads
    <3>5. CASE ReleaseAgain
      BY <3>5 DEF ReleaseAgain, Listed
    <3>6. QED
      BY <3>1, <3>2, <3>3, <3>4, <3>5 DEF ListingNext, ReleaseStep, listingVars
  <2>4. QED
    BY <2>2, <2>3 DEF ListingInv
<1>3. QED
  BY <1>1, <1>2, PTL DEF ListingSpec

\* While the lockfile is respected, uploads make a release raise by their
\* lockfile only, never by what they have written or left half-done.
THEOREM LockfileRaises == ListingSpec => []RaisesForLockfileOnly
<1>1. ListingInv => RaisesForLockfileOnly
  <2> SUFFICES ASSUME ListingInv, step = "raised", Undisturbed,
                      LockfileTag \notin listing, listing # {}
               PROVE  FALSE
    BY DEF RaisesForLockfileOnly
  <2>1. listing \subseteq Taken /\ ~ Reads(listing)
    BY DEF ListingInv, Listed
  <2>2. \A s, t \in listing : s[2] = t[2] => s = t
    BY <2>1, OneTrackPerRevision DEF ListingInv
  <2>3. QED
    BY <2>1, <2>2 DEF Reads
<1>2. QED
  BY <1>1, ListingInvariant, PTL

\* While the lockfile is respected, the track that a release reads for a
\* revision is the one its image is in the registry under.
THEOREM TracksArePushed == ListingSpec => []TracksAreThePushed
<1>1. ListingInv => TracksAreThePushed
  <2> SUFFICES ASSUME ListingInv, Undisturbed, NEW s \in tracks,
                      NEW t \in ghcr, t.slot[2] = s[2]
               PROVE  t.slot = s
    BY DEF TracksAreThePushed
  <2>1. s \in Taken
    BY DEF ListingInv, Listed
  <2>2. t.slot \in Taken
    <3>1. t.run \in Runs /\ t.slot \in did[t.run]["pushed"]
      BY DEF ListingInv, IInv, TypeOK, Registry
    <3>2. QED
      BY <3>1 DEF ListingInv, IInv, Traces
  <2>3. QED
    BY <2>1, <2>2, OneTrackPerRevision DEF ListingInv
<1>2. QED
  BY <1>1, ListingInvariant, PTL
=============================================================================

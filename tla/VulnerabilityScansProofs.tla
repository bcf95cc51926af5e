----------------------- MODULE VulnerabilityScansProofs -----------------------
(***************************************************************************)
(* Proofs about VulnerabilityScans: whatever jobs of the scans interleave, *)
(* none of them closes the oldest issue of an image.                       *)
(***************************************************************************)
EXTENDS VulnerabilityScans, ReleaseTagsProofs, SequenceTheorems

\* What the issues and the jobs are made of.
Types ==
    /\ issues \in Seq([title : Nat, open : BOOLEAN])
    /\ step \in [Revisions -> {"idle", "markdown", "list", "close"}]
    /\ job \in [Revisions -> [image : Nat, found : BOOLEAN, keep : Nat,
                              close : SUBSET Nat]]
    /\ closable \subseteq DOMAIN issues

\* There is an older issue about the same image.
Younger(n) ==
    /\ n \in DOMAIN issues
    /\ \E k \in 1..(n - 1) : issues[k].title = issues[n].title

\* What a job is going to close: a duplicate of an issue it has listed, and
\* one there is a reason to close when no vulnerability was found.
Duplicates(v) ==
    step[v] = "close" =>
        /\ \A n \in job[v].close : Younger(n)
        /\ ~ job[v].found => job[v].keep \in closable \cup {0}

IInv ==
    /\ Types
    /\ \A v \in Revisions : Duplicates(v)
    /\ OldestStaysOpen


-----------------------------------------------------------------------------
(* Issues.                                                                 *)

LEMMA MinIsLeast ==
    ASSUME NEW S, S \subseteq Nat, S # {}
    PROVE  Min(S) \in S /\ \A y \in S : Min(S) <= y
  BY LeastNumber DEF Min

\* An issue that is closed is still an issue, of the same image.
LEMMA ClosedIsListed ==
    ASSUME Types, NEW n \in DOMAIN issues, Closed(n)
    PROVE  /\ issues' \in Seq([title : Nat, open : BOOLEAN])
           /\ Len(issues') = Len(issues)
           /\ DOMAIN issues' = DOMAIN issues
           /\ \A k \in DOMAIN issues :
                 /\ issues'[k].title = issues[k].title
                 /\ k # n => issues'[k].open = issues[k].open
<1> DEFINE Issue == [title : Nat, open : BOOLEAN]
           closed == [issues[n] EXCEPT !.open = FALSE]
<1>1. issues \in Seq(Issue)
  BY DEF Types
<1> HIDE DEF Issue
<1>2. /\ issues \in [1..Len(issues) -> Issue] /\ Len(issues) \in Nat
      /\ DOMAIN issues = 1..Len(issues)
  BY <1>1, LenProperties
<1>3. closed \in Issue /\ closed.title = issues[n].title
  BY <1>2 DEF Issue
<1>4. issues' = [issues EXCEPT ![n] = closed]
  BY DEF Closed
<1>5. issues' \in Seq(Issue) /\ Len(issues') = Len(issues)
  BY <1>1, <1>2, <1>3, <1>4, ExceptSeq
<1>6. DOMAIN issues' = DOMAIN issues
  BY <1>4
<1>7. \A k \in DOMAIN issues :
         /\ issues'[k].title = issues[k].title
         /\ k # n => issues'[k].open = issues[k].open
  BY <1>3, <1>4
<1>8. QED
  BY <1>5, <1>6, <1>7 DEF Issue

\* So is one that others are created after.
LEMMA AppendedIsLast ==
    ASSUME Types, NEW title \in Nat,
           issues' = Append(issues, [title |-> title, open |-> TRUE])
    PROVE  /\ issues' \in Seq([title : Nat, open : BOOLEAN])
           /\ DOMAIN issues' = DOMAIN issues \cup {Len(issues) + 1}
           /\ \A k \in DOMAIN issues : issues'[k] = issues[k]
           /\ issues'[Len(issues) + 1].open
  BY DEF Types

\* Issues keep their numbers and images: a duplicate stays one.
LEMMA YoungerStays ==
    ASSUME Types, DOMAIN issues \subseteq DOMAIN issues',
           \A k \in DOMAIN issues : issues'[k].title = issues[k].title,
           NEW n, Younger(n)
    PROVE  Younger(n)'
<1>1. PICK k \in 1..(n - 1) : issues[k].title = issues[n].title
  BY DEF Younger
<1>2. n \in 1..Len(issues) /\ k \in DOMAIN issues
  BY <1>1 DEF Younger, Types
<1>3. QED
  BY <1>1, <1>2 DEF Younger

\* A job closes what has an older one: the oldest are as they were.
LEMMA ClosingDuplicates ==
    ASSUME Types, OldestStaysOpen, NEW n, Younger(n), Closed(n),
           UNCHANGED closable
    PROVE  OldestStaysOpen'
<1>1. n \in DOMAIN issues
  BY DEF Younger
<1>2. /\ DOMAIN issues' = DOMAIN issues /\ DOMAIN issues = 1..Len(issues)
      /\ \A k \in DOMAIN issues :
            /\ issues'[k].title = issues[k].title
            /\ k # n => issues'[k].open = issues[k].open
  BY <1>1, ClosedIsListed DEF Types
<1>3. SUFFICES ASSUME NEW k \in DOMAIN issues,
                      \A j \in 1..(k - 1) : issues'[j].title # issues'[k].title,
                      \A j \in closable : issues'[j].title # issues'[k].title
               PROVE  issues'[k].open
  BY <1>2 DEF OldestStaysOpen
<1>4. \A j \in 1..(k - 1) : j \in DOMAIN issues
  BY <1>2
<1>5. \A j \in 1..(k - 1) : issues[j].title # issues[k].title
  BY <1>2, <1>3, <1>4
<1>6. k # n
  BY <1>5 DEF Younger
<1>7. \A j \in closable : issues[j].title # issues[k].title
  BY <1>2, <1>3 DEF Types
<1>8. QED
  BY <1>2, <1>5, <1>6, <1>7 DEF OldestStaysOpen

\* A new issue is open, and no image's oldest unless it is its first.
LEMMA Creating ==
    ASSUME Types, OldestStaysOpen, NEW title \in Nat,
           issues' = Append(issues, [title |-> title, open |-> TRUE]),
           UNCHANGED closable
    PROVE  OldestStaysOpen'
<1>1. /\ DOMAIN issues' = DOMAIN issues \cup {Len(issues) + 1}
      /\ \A k \in DOMAIN issues : issues'[k] = issues[k]
      /\ issues'[Len(issues) + 1].open
      /\ DOMAIN issues = 1..Len(issues)
  BY AppendedIsLast DEF Types
<1>2. SUFFICES ASSUME NEW k \in DOMAIN issues,
                      \A j \in 1..(k - 1) : issues'[j].title # issues'[k].title,
                      \A j \in closable : issues'[j].title # issues'[k].title
               PROVE  issues'[k].open
  BY <1>1 DEF OldestStaysOpen
<1>3. \A j \in 1..(k - 1) : j \in DOMAIN issues
  BY <1>1
<1>4. \A j \in closable : j \in DOMAIN issues
  BY DEF Types
<1>5. QED
  BY <1>1, <1>2, <1>3, <1>4 DEF OldestStaysOpen

\* Nothing is asked of an image that an issue was closed of for a reason.
LEMMA ClosingForAReason ==
    ASSUME Types, OldestStaysOpen, NEW n \in DOMAIN issues, Closed(n),
           closable' = closable \cup {n}
    PROVE  OldestStaysOpen'
<1>1. /\ DOMAIN issues' = DOMAIN issues /\ DOMAIN issues = 1..Len(issues)
      /\ \A k \in DOMAIN issues :
            /\ issues'[k].title = issues[k].title
            /\ k # n => issues'[k].open = issues[k].open
  BY ClosedIsListed DEF Types
<1>2. SUFFICES ASSUME NEW k \in DOMAIN issues,
                      \A j \in 1..(k - 1) : issues'[j].title # issues'[k].title,
                      \A j \in closable' : issues'[j].title # issues'[k].title
               PROVE  issues'[k].open
  BY <1>1 DEF OldestStaysOpen
<1>3. \A j \in 1..(k - 1) : j \in DOMAIN issues
  BY <1>1
<1>4. k # n
  BY <1>2
<1>5. QED
  BY <1>1, <1>2, <1>3, <1>4 DEF OldestStaysOpen, Types


-----------------------------------------------------------------------------
(* The jobs.                                                               *)

\* Where a job is and what it knows are of their types when its own are.
LEMMA JobTypes ==
    ASSUME Types, UNCHANGED issues, closable' \subseteq DOMAIN issues,
           NEW v \in Revisions,
           NEW s \in {"idle", "markdown", "list", "close"}, Goto(v, s),
           NEW j \in [image : Nat, found : BOOLEAN, keep : Nat, close : SUBSET Nat],
           job' = [job EXCEPT ![v] = j]
    PROVE  Types'
  BY DEF Types, Goto

\* The issues of an image that are listed.
LEMMA ListedAreNumbers ==
    ASSUME Types, NEW title
    PROVE  /\ Open(title) \subseteq Nat \ {0}
           /\ \A n \in Open(title) : n \in DOMAIN issues /\ issues[n].title = title
<1>1. DOMAIN issues = 1..Len(issues) /\ Len(issues) \in Nat
  BY LenProperties DEF Types
<1>2. QED
  BY <1>1 DEF Open

\* A job keeps the oldest of the issues it has listed: the others are
\* duplicates.  Without a finding it lists none, though there was a reason to.
LEMMA ListsDuplicates ==
    ASSUME IInv, NEW v \in Revisions, List(v)
    PROVE  IInv'
<1> USE DEF IInv
<1> DEFINE listed == IF job[v].found THEN Open(job[v].image) ELSE {}
           keep == IF listed = {} THEN 0 ELSE Min(listed)
           knows == [job[v] EXCEPT !.keep = keep, !.close = listed \ {keep}]
<1>1. /\ UNCHANGED issues /\ Goto(v, "close")
      /\ closable \subseteq closable' /\ closable' \subseteq DOMAIN issues
  BY ListedAreNumbers DEF List, Fixed, Types
<1>2. job' = [job EXCEPT ![v] = knows]
  BY DEF List
<1>3. listed \subseteq Nat \ {0}
  BY ListedAreNumbers
<1>4. listed # {} => keep \in listed /\ \A n \in listed : keep <= n
  BY <1>3, MinIsLeast
<1>5. job[v] \in [image : Nat, found : BOOLEAN, keep : Nat, close : SUBSET Nat]
  BY DEF Types
<1>6. knows \in [image : Nat, found : BOOLEAN, keep : Nat, close : SUBSET Nat]
  BY <1>3, <1>4, <1>5
<1>7. Types'
  BY <1>1, <1>2, <1>6, JobTypes
<1>8. ASSUME NEW n \in listed \ {keep}
      PROVE  Younger(n)
  <2>1. /\ keep \in Open(job[v].image) /\ n \in Open(job[v].image)
        /\ keep \in Nat \ {0} /\ n \in Nat /\ keep < n
    BY <1>3, <1>4, <1>8
  <2>2. issues[keep].title = issues[n].title /\ n \in DOMAIN issues
    BY <2>1, ListedAreNumbers
  <2>3. keep \in 1..(n - 1)
    BY <2>1
  <2>4. QED
    BY <2>2, <2>3 DEF Younger
<1>9. ASSUME NEW w \in Revisions
      PROVE  Duplicates(w)'
  <2>1. CASE w = v
    <3>1. job'[w] = knows
      BY <1>2, <2>1 DEF Types
    <3>2. knows.close = listed \ {keep} /\ knows.keep = keep
          /\ knows.found = job[v].found
      BY <1>5
    <3> HIDE DEF knows, keep
    <3>3. \A n \in job'[w].close : Younger(n)'
      BY <1>1, <1>8, <3>1, <3>2 DEF Younger
    <3>4. ~ job'[w].found => job'[w].keep \in closable' \cup {0}
      BY <3>1, <3>2 DEF keep
    <3>5. QED
      BY <3>3, <3>4 DEF Duplicates
  <2>2. CASE w # v
    BY <1>1, <1>2, <2>2 DEF Duplicates, Younger, Types, Goto
  <2>3. QED
    BY <2>1, <2>2
<1>10. OldestStaysOpen'
  BY <1>1 DEF OldestStaysOpen
<1>11. QED
  BY <1>7, <1>9, <1>10

\* What the jobs are about to close is still a duplicate after issues have
\* been created or closed.
LEMMA DuplicatesStay ==
    ASSUME IInv, closable \subseteq closable',
           DOMAIN issues \subseteq DOMAIN issues',
           \A k \in DOMAIN issues : issues'[k].title = issues[k].title,
           \A w \in Revisions :
               step'[w] = "close" => /\ step[w] = "close"
                                     /\ job'[w].close \subseteq job[w].close
                                     /\ job'[w].found = job[w].found
                                     /\ job'[w].keep = job[w].keep
    PROVE  \A w \in Revisions : Duplicates(w)'
<1>1. SUFFICES ASSUME NEW w \in Revisions, step'[w] = "close"
               PROVE  /\ \A n \in job'[w].close : Younger(n)'
                      /\ ~ job'[w].found => job'[w].keep \in closable' \cup {0}
  BY DEF Duplicates
<1>2. \A n \in job[w].close : Younger(n)
  BY <1>1 DEF IInv, Duplicates
<1>3. \A n \in job'[w].close : Younger(n)'
  BY <1>1, <1>2, YoungerStays DEF IInv
<1>4. QED
  BY <1>1, <1>3 DEF IInv, Duplicates


LEMMA InitInvariant == Init => IInv
<1>1. SUFFICES ASSUME Init PROVE IInv
  OBVIOUS
<1>2. issues \in Seq([title : Nat, open : BOOLEAN]) /\ DOMAIN issues = {}
  BY <1>1, EmptySeq DEF Init
<1>3. NoJob \in [image : Nat, found : BOOLEAN, keep : Nat, close : SUBSET Nat]
  BY DEF NoJob
<1>4. Types
  BY <1>1, <1>2, <1>3 DEF Types, Init
<1>5. (\A v \in Revisions : Duplicates(v)) /\ OldestStaysOpen
  BY <1>1, <1>2 DEF Init, Duplicates, OldestStaysOpen
<1>6. QED
  BY <1>4, <1>5 DEF IInv

\* Steps that leave the issues alone, after which no more jobs are closing.
LEMMA NothingCloses ==
    ASSUME IInv, Types', UNCHANGED <<issues, closable>>,
           \A w \in Revisions :
               step'[w] = "close" => step[w] = "close" /\ job'[w] = job[w]
    PROVE  IInv'
<1>1. \A w \in Revisions : Duplicates(w)'
  BY DuplicatesStay
<1>2. QED
  BY <1>1 DEF IInv, OldestStaysOpen

LEMMA ScanStep ==
    ASSUME IInv, NEW v \in Revisions, Scan(v)
    PROVE  IInv'
<1> DEFINE found == Images[ImageOf(v)].rev \in vulnerable
           knows == [NoJob EXCEPT !.image = ImageOf(v), !.found = found]
<1>1. /\ UNCHANGED <<issues, closable>> /\ Goto(v, "markdown")
      /\ job' = [job EXCEPT ![v] = knows] /\ ImageOf(v) # NoTag
  BY DEF Scan, world
<1>2. ImageOf(v) \in Nat
  <2> DEFINE hits == {i \in DOMAIN Images : <<v, Images[i].rev>> \in EndsWith}
  <2>1. hits # {} /\ ImageOf(v) = Min(hits)
    BY <1>1 DEF ImageOf
  <2>2. DOMAIN Images \subseteq Nat
    BY ScansAssumption, LenProperties DEF ScansAssumption
  <2>3. QED
    BY <2>1, <2>2, MinIsLeast
<1>3. knows \in [image : Nat, found : BOOLEAN, keep : Nat, close : SUBSET Nat]
  <2>1. found \in BOOLEAN
    OBVIOUS
  <2> HIDE DEF found
  <2>2. QED
    BY <1>2, <2>1 DEF NoJob
<1> HIDE DEF knows
<1>4. Types'
  BY <1>1, <1>3, JobTypes DEF IInv, Types
<1>5. \A w \in Revisions :
          step'[w] = "close" => step[w] = "close" /\ job'[w] = job[w]
  BY <1>1 DEF Goto, IInv, Types
<1>6. QED
  BY <1>1, <1>4, <1>5, NothingCloses

LEMMA MarkdownStep ==
    ASSUME IInv, NEW v \in Revisions, Markdown(v)
    PROVE  IInv'
<1>1. /\ UNCHANGED <<issues, closable, job>>
      /\ Goto(v, "idle") \/ Goto(v, "list")
  BY DEF Markdown, world
<1>2. Types'
  BY <1>1 DEF IInv, Types, Goto
<1>3. \A w \in Revisions :
          step'[w] = "close" => step[w] = "close" /\ job'[w] = job[w]
  BY <1>1 DEF Goto, IInv, Types
<1>4. QED
  BY <1>1, <1>2, <1>3, NothingCloses

LEMMA CloseDuplicateStep ==
    ASSUME IInv, NEW v \in Revisions, CloseDuplicate(v)
    PROVE  IInv'
<1> DEFINE n == Min(job[v].close)
           knows == [job[v] EXCEPT !.close = @ \ {n}]
<1>1. /\ step[v] = "close" /\ Closed(n) /\ UNCHANGED <<closable, step>>
      /\ job' = [job EXCEPT ![v] = knows]
  BY DEF CloseDuplicate, world
<1>2. job[v] \in [image : Nat, found : BOOLEAN, keep : Nat, close : SUBSET Nat]
  BY DEF IInv, Types
<1>3. n \in job[v].close
  BY <1>2, MinIsLeast DEF CloseDuplicate
<1> HIDE DEF n
<1>4. Younger(n) /\ n \in DOMAIN issues
  BY <1>1, <1>3 DEF IInv, Duplicates, Younger
<1>5. /\ issues' \in Seq([title : Nat, open : BOOLEAN])
      /\ DOMAIN issues' = DOMAIN issues
      /\ \A k \in DOMAIN issues : issues'[k].title = issues[k].title
  BY <1>1, <1>4, ClosedIsListed DEF IInv
<1>6. /\ knows \in [image : Nat, found : BOOLEAN, keep : Nat, close : SUBSET Nat]
      /\ knows.close \subseteq job[v].close
      /\ knows.found = job[v].found /\ knows.keep = job[v].keep
  BY <1>2
<1> HIDE DEF knows
<1>7. Types'
  BY <1>1, <1>5, <1>6 DEF IInv, Types
<1>8. \A w \in Revisions : /\ job'[w].close \subseteq job[w].close
                           /\ job'[w].found = job[w].found
                           /\ job'[w].keep = job[w].keep
  BY <1>1, <1>6 DEF IInv, Types
<1>9. \A w \in Revisions : Duplicates(w)'
  BY <1>1, <1>5, <1>8, DuplicatesStay
<1>10. OldestStaysOpen'
  BY <1>1, <1>4, ClosingDuplicates DEF IInv
<1>11. QED
  BY <1>7, <1>9, <1>10 DEF IInv

LEMMA ReportStep ==
    ASSUME IInv, NEW v \in Revisions, Report(v)
    PROVE  IInv'
<1>1. UNCHANGED <<closable, job>> /\ Goto(v, "idle")
  BY DEF Report, world
<1>2. CASE UNCHANGED issues
  <2>1. Types'
    BY <1>1, <1>2 DEF IInv, Types, Goto
  <2>2. \A w \in Revisions : step'[w] = "close" => step[w] = "close"
    BY <1>1 DEF Goto, IInv, Types
  <2>3. QED
    BY <1>1, <1>2, <2>1, <2>2, NothingCloses
<1>3. CASE issues' = Append(issues, [title |-> job[v].image, open |-> TRUE])
  <2>1. job[v].image \in Nat
    BY DEF IInv, Types
  <2>2. /\ issues' \in Seq([title : Nat, open : BOOLEAN])
        /\ DOMAIN issues \subseteq DOMAIN issues'
        /\ \A k \in DOMAIN issues : issues'[k] = issues[k]
    BY <1>3, <2>1, AppendedIsLast DEF IInv
  <2>3. Types'
    BY <1>1, <2>2 DEF IInv, Types, Goto
  <2>4. \A w \in Revisions : step'[w] = "close" => step[w] = "close"
    BY <1>1 DEF Goto, IInv, Types
  <2>5. \A w \in Revisions : Duplicates(w)'
    BY <1>1, <2>2, <2>4, DuplicatesStay
  <2>6. OldestStaysOpen'
    BY <1>1, <1>3, <2>1, Creating DEF IInv
  <2>7. QED
    BY <2>3, <2>5, <2>6 DEF IInv
<1>4. QED
  BY <1>2, <1>3 DEF Report

\* A job that has found nothing closes at most an issue there is a reason to
\* close: the oldest ones asked for are as they were.
LEMMA CloseFixedStep ==
    ASSUME IInv, NEW v \in Revisions, CloseFixed(v)
    PROVE  IInv'
<1>1. /\ UNCHANGED <<closable, job>> /\ Goto(v, "idle")
      /\ step[v] = "close" /\ ~ job[v].found
  BY DEF CloseFixed, world
<1>2. \A w \in Revisions : step'[w] = "close" => step[w] = "close"
  BY <1>1 DEF Goto, IInv, Types
<1>3. CASE UNCHANGED issues
  <2>1. Types'
    BY <1>1, <1>3 DEF IInv, Types, Goto
  <2>2. QED
    BY <1>1, <1>2, <1>3, <2>1, NothingCloses
<1>4. CASE job[v].keep # 0 /\ Closed(job[v].keep)
  <2> DEFINE n == job[v].keep
  <2>1. n \in closable /\ n \in DOMAIN issues
    BY <1>1, <1>4 DEF IInv, Duplicates, Types
  <2>2. /\ issues' \in Seq([title : Nat, open : BOOLEAN])
        /\ DOMAIN issues' = DOMAIN issues
        /\ \A k \in DOMAIN issues : issues'[k].title = issues[k].title
    BY <1>4, <2>1, ClosedIsListed DEF IInv
  <2>3. Types'
    BY <1>1, <2>2 DEF IInv, Types, Goto
  <2>4. \A w \in Revisions : Duplicates(w)'
    BY <1>1, <1>2, <2>2, DuplicatesStay
  <2>5. closable' = closable \cup {n}
    BY <1>1, <2>1
  <2>6. OldestStaysOpen'
    BY <1>4, <2>1, <2>5, ClosingForAReason DEF IInv
  <2>7. QED
    BY <2>3, <2>4, <2>6 DEF IInv
<1>5. QED
  BY <1>3, <1>4 DEF CloseFixed

LEMMA CloseByHandStep ==
    ASSUME IInv, CloseByHand
    PROVE  IInv'
<1>1. PICK n \in DOMAIN issues : Closed(n) /\ closable' = closable \cup {n}
  BY DEF CloseByHand
<1>2. UNCHANGED <<step, job>>
  BY DEF CloseByHand
<1>3. /\ issues' \in Seq([title : Nat, open : BOOLEAN])
      /\ DOMAIN issues' = DOMAIN issues
      /\ \A k \in DOMAIN issues : issues'[k].title = issues[k].title
  BY <1>1, ClosedIsListed DEF IInv
<1>4. Types'
  BY <1>1, <1>2, <1>3 DEF IInv, Types
<1>5. \A w \in Revisions : Duplicates(w)'
  BY <1>1, <1>2, <1>3, DuplicatesStay
<1>6. OldestStaysOpen'
  BY <1>1, ClosingForAReason DEF IInv
<1>7. QED
  BY <1>4, <1>5, <1>6 DEF IInv

LEMMA NextInvariant == IInv /\ [Next]_vars => IInv'
<1>1. SUFFICES ASSUME IInv, [Next]_vars PROVE IInv'
  OBVIOUS
<1>2. ASSUME NEW v \in Revisions, StepFails(v)
      PROVE  IInv'
  <2>1. UNCHANGED <<issues, closable, job>> /\ Goto(v, "idle")
    BY <1>2 DEF StepFails
  <2>2. Types'
    BY <1>1, <2>1 DEF IInv, Types, Goto
  <2>3. \A w \in Revisions : step'[w] = "close" => step[w] = "close"
    BY <1>1, <2>1 DEF Goto, IInv, Types
  <2>4. QED
    BY <1>1, <2>1, <2>2, <2>3, NothingCloses
<1>3. ASSUME \/ \E v \in Revisions : Disclose(v)
             \/ ReleaseElse
             \/ UNCHANGED vars
      PROVE  IInv'
  <2>1. UNCHANGED <<issues, closable, step, job>>
    BY <1>3 DEF Disclose, ReleaseElse, vars
  <2>2. Types'
    BY <1>1, <2>1 DEF IInv, Types
  <2>3. QED
    BY <1>1, <2>1, <2>2, NothingCloses
<1>4. ASSUME NEW v \in Revisions, Advance(v)
      PROVE  IInv'
  BY <1>1, <1>4, ScanStep, MarkdownStep, ListsDuplicates, CloseDuplicateStep,
     ReportStep, CloseFixedStep DEF Advance
<1>5. QED
  BY <1>1, <1>2, <1>3, <1>4, CloseByHandStep DEF Next

\* What a job of a scan is about to close has an older issue about the same
\* image, however the jobs interleave and whatever fails.
THEOREM Invariant == Spec => []IInv
  BY InitInvariant, NextInvariant, PTL DEF Spec

\* The oldest issue of an image stays open unless a maintainer closes one or
\* a scan finds nothing, whatever duplicates concurrent scans open and close.
THEOREM OldestStays == Spec => []OldestStaysOpen
<1>1. IInv => OldestStaysOpen
  BY DEF IInv
<1>2. QED
  BY <1>1, Invariant, PTL
=============================================================================

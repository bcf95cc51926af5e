-------------------------- MODULE CliUploadsProofs --------------------------
(* Theorems about CliUploads for any number of clients, runs, tries and     *)
(* faults, and pages of any size.                                           *)
EXTENDS CliUploads, FiniteSetTheorems, SequenceTheorems, TLAPS

-----------------------------------------------------------------------------
(* The inductive invariant.                                                *)

RunStates == {"queued", "in_progress", "completed"}
Run == [ref : {RefOf[c] : c \in Clients} \cup {NoRef},
        by : Clients \cup {NoRef}, state : RunStates]

Types ==
    /\ runs \in Seq(Run)
    /\ pc \in [Clients -> Over \cup {"dispatch", "list", "look", "poll"}]
    /\ page \in [Clients -> Seq(Nat)]
    /\ watched \in [Clients -> Nat]
    /\ faults \in Nat

\* A run bears the reference of the client that started it, if one did.
References ==
    \A n \in DOMAIN runs :
        \/ runs[n].by \in Clients /\ runs[n].ref = RefOf[runs[n].by]
        \/ runs[n].ref = NoRef

\* What a client looks into and what it watches are runs that there are, and
\* the watched one bears its reference.
Watching ==
    \A c \in Clients :
        /\ \A k \in DOMAIN page[c] : page[c][k] \in DOMAIN runs
        /\ pc[c] \in {"poll", "reported"} =>
              watched[c] \in DOMAIN runs /\ runs[watched[c]].ref = RefOf[c]

\* Before the first fault a client has started one run when it has left the
\* dispatch, and none before.
Starting ==
    faults = 0 =>
        \A c \in Clients :
            IF pc[c] = "dispatch" THEN StartedBy(c) = {}
                                  ELSE \E n \in DOMAIN runs : StartedBy(c) = {n}

IInv == Types /\ References /\ Watching /\ Starting

-----------------------------------------------------------------------------
\* A run that is added comes after those that are there.
LEMMA Appended ==
    ASSUME NEW R, NEW s \in Seq(R), NEW r \in R
    PROVE  /\ Append(s, r) \in Seq(R)
           /\ DOMAIN Append(s, r) = DOMAIN s \cup {Len(s) + 1}
           /\ Len(s) + 1 \notin DOMAIN s
           /\ \A n \in DOMAIN s : Append(s, r)[n] = s[n]
           /\ Append(s, r)[Len(s) + 1] = r
OBVIOUS

\* Runs keep their references and who has started them.
RunsStay ==
    /\ DOMAIN runs \subseteq DOMAIN runs'
    /\ \A n \in DOMAIN runs :
          runs'[n].ref = runs[n].ref /\ runs'[n].by = runs[n].by

\* The run that the request of a client starts.
NewRun(c) == [ref |-> RefOf[c], by |-> c, state |-> "queued"]
OthersRun == [ref |-> NoRef, by |-> NoRef, state |-> "completed"]

\* A run that starts or ends is still the same run.
LEMMA RunStays ==
    ASSUME Types, NEW n \in DOMAIN runs, Starts(n) \/ Ends(n)
    PROVE  DOMAIN runs' = DOMAIN runs /\ runs' \in Seq(Run) /\ RunsStay
<1> USE DEF Types, RunsStay
<1>1. runs[n] \in Run /\ runs \in Seq(Run) /\ n \in 1..Len(runs)
  OBVIOUS
<1>2. PICK st \in RunStates :
         runs' = [runs EXCEPT ![n] = [ref |-> runs[n].ref, by |-> runs[n].by,
                                      state |-> st]]
  <2>1. runs[n] = [ref |-> runs[n].ref, by |-> runs[n].by,
                   state |-> runs[n].state]
    BY <1>1 DEF Run
  <2>2. \A st : [runs[n] EXCEPT !.state = st]
                  = [ref |-> runs[n].ref, by |-> runs[n].by, state |-> st]
    BY <2>1
  <2>3. \/ runs' = [runs EXCEPT ![n] = [runs[n] EXCEPT !.state = "in_progress"]]
        \/ runs' = [runs EXCEPT ![n] = [runs[n] EXCEPT !.state = "completed"]]
    BY Zenon DEF Starts, Ends
  <2>4. QED
    BY <2>2, <2>3 DEF RunStates
<1>3. [ref |-> runs[n].ref, by |-> runs[n].by, state |-> st] \in Run
  BY <1>1, <1>2 DEF Run
<1>4. runs' \in Seq(Run) /\ Len(runs') = Len(runs)
  BY <1>1, <1>2, <1>3, ExceptSeq
<1>5. DOMAIN runs' = DOMAIN runs
  BY <1>1, <1>4
<1>6. RunsStay
  BY <1>1, <1>2
<1>7. QED
  BY <1>4, <1>5, <1>6

\* What a step makes of the runs.
LEMMA RunsStep ==
    ASSUME Types, [Next]_vars
    PROVE  \/ \E c \in Clients : runs' = Append(runs, NewRun(c))
           \/ runs' = Append(runs, OthersRun)
           \/ /\ DOMAIN runs' = DOMAIN runs /\ runs' \in Seq(Run)
              /\ RunsStay
<1> USE DEF Types, RunsStay
<1>1. CASE runs' = runs
  BY <1>1
<1>2. ASSUME NEW c \in Clients, Dispatch(c) \/ Busy(c)
      PROVE  runs' = runs \/ runs' = Append(runs, NewRun(c))
  BY <1>2 DEF Dispatch, Busy, Created, NewRun
<1>3. ASSUME NEW n \in DOMAIN runs, Starts(n) \/ Ends(n)
      PROVE  DOMAIN runs' = DOMAIN runs /\ runs' \in Seq(Run) /\ RunsStay
  BY <1>3, RunStays
<1>4. CASE OtherRun
  BY <1>4 DEF OtherRun, OthersRun
<1>5. ASSUME NEW c \in Clients,
             Panic(c) \/ ListRuns(c) \/ LookInto(c) \/ TryAgain(c) \/ Report(c)
      PROVE  runs' = runs
  BY <1>5 DEF Panic, ListRuns, LookInto, TryAgain, Report
<1>6. CASE UNCHANGED vars
  BY <1>1, <1>6 DEF vars
<1>7. QED
  BY <1>1, <1>2, <1>3, <1>4, <1>5, <1>6 DEF Next, Advance

\* So their references stay right.
LEMMA ReferencesStep ==
    ASSUME Types, References, [Next]_vars
    PROVE  runs' \in Seq(Run) /\ References' /\ RunsStay
<1>1. \A c \in Clients : NewRun(c) \in Run
  BY DEF NewRun, Run, RunStates
<1>2. OthersRun \in Run
  BY DEF OthersRun, Run, RunStates
<1>3. ASSUME NEW c \in Clients, runs' = Append(runs, NewRun(c))
      PROVE  runs' \in Seq(Run) /\ References' /\ RunsStay
  <2>1. runs \in Seq(Run)
    BY DEF Types
  <2>2. QED
    BY <1>1, <1>3, <2>1, Appended DEF References, RunsStay, NewRun
<1>4. ASSUME runs' = Append(runs, OthersRun)
      PROVE  runs' \in Seq(Run) /\ References' /\ RunsStay
  <2>1. runs \in Seq(Run)
    BY DEF Types
  <2>2. QED
    BY <1>2, <1>4, <2>1, Appended DEF References, RunsStay, OthersRun
<1>5. ASSUME DOMAIN runs' = DOMAIN runs, RunsStay
      PROVE  References'
  BY <1>5 DEF References, RunsStay
<1>6. QED
  <2>1. CASE \E c \in Clients : runs' = Append(runs, NewRun(c))
    BY <2>1, <1>3
  <2>2. CASE DOMAIN runs' = DOMAIN runs /\ runs' \in Seq(Run) /\ RunsStay
    BY <2>2, <1>5
  <2>3. QED
    BY <2>1, <1>4, <2>2, RunsStep

\* A client's page is a list of runs that there are.
IsPage(p) == p \in Seq(Nat) /\ \A k \in DOMAIN p : p[k] \in DOMAIN runs

\* The pages a step can make of those before it are such.
LEMMA Pages ==
    ASSUME Types
    PROVE  /\ IsPage(<<>>) /\ IsPage(FirstPage)
           /\ \A p : IsPage(p) /\ p # <<>> => IsPage(Tail(p)) /\ Head(p) \in DOMAIN runs
<1>1. IsPage(<<>>)
  BY DEF IsPage
<1>2. IsPage(FirstPage)
  <2> DEFINE n == Len(runs)
             m == IF n < PageSize THEN n ELSE PageSize
  <2>1. n \in Nat /\ m \in Nat /\ m <= n /\ DOMAIN runs = 1..n
    BY CliAssumption DEF Types
  <2>2. FirstPage = [k \in 1..m |-> n + 1 - k]
    BY DEF FirstPage
  <2> HIDE DEF n, m
  <2>3. \A k \in 1..m : n + 1 - k \in 1..n
    BY <2>1
  <2>4. FirstPage \in Seq(Nat) /\ DOMAIN FirstPage = 1..m
    BY <2>1, <2>2, <2>3
  <2>5. QED
    BY <2>1, <2>2, <2>3, <2>4 DEF IsPage
<1>3. ASSUME NEW p, IsPage(p), p # <<>>
      PROVE  IsPage(Tail(p)) /\ Head(p) \in DOMAIN runs
  <2>1. p \in Seq(Nat) /\ Len(p) \in Nat \ {0}
    BY <1>3 DEF IsPage
  <2>2. /\ Tail(p) \in Seq(Nat) /\ Len(Tail(p)) = Len(p) - 1
        /\ \A k \in 1..Len(Tail(p)) : Tail(p)[k] = p[k + 1]
    BY <1>3, <2>1, HeadTailProperties
  <2>3. Head(p) = p[1] /\ 1 \in DOMAIN p
    BY <2>1
  <2>4. \A k \in DOMAIN Tail(p) : Tail(p)[k] \in DOMAIN runs
    BY <1>3, <2>1, <2>2 DEF IsPage
  <2>5. QED
    BY <1>3, <2>2, <2>3, <2>4 DEF IsPage
<1>4. QED
  BY <1>1, <1>2, <1>3

\* Every step keeps them.
LEMMA PagesStep ==
    ASSUME Types, References, \A d \in Clients : IsPage(page[d]), [Next]_vars
    PROVE  /\ page' \in [Clients -> Seq(Nat)]
           /\ \A d \in Clients : IsPage(page[d])'
<1>1. ASSUME page' = page
      PROVE  /\ page' \in [Clients -> Seq(Nat)]
             /\ \A d \in Clients : IsPage(page'[d])
  BY <1>1 DEF Types
<1>2. ASSUME NEW c \in Clients, NEW p, IsPage(p),
             page' = [page EXCEPT ![c] = p]
      PROVE  /\ page' \in [Clients -> Seq(Nat)]
             /\ \A d \in Clients : IsPage(page'[d])
  BY <1>2 DEF Types, IsPage
<1>3. \/ page' = page
      \/ \E c \in Clients : \E p : IsPage(p) /\ page' = [page EXCEPT ![c] = p]
  <2>1. ASSUME NEW c \in Clients,
               Dispatch(c) \/ Busy(c) \/ TryAgain(c) \/ Report(c)
        PROVE  page' = page
    BY <2>1 DEF Dispatch, Busy, TryAgain, Report
  <2>2. ASSUME NEW c \in Clients, Panic(c)
        PROVE  page' = [page EXCEPT ![c] = <<>>]
    BY <2>2 DEF Panic
  <2>3. ASSUME NEW c \in Clients, ListRuns(c)
        PROVE  \/ page' = [page EXCEPT ![c] = FirstPage]
               \/ page' = [page EXCEPT ![c] = <<>>]
    BY <2>3 DEF ListRuns
  <2>4. ASSUME NEW c \in Clients, LookInto(c)
        PROVE  /\ page[c] # <<>>
               /\ \/ page' = [page EXCEPT ![c] = Tail(page[c])]
                  \/ page' = [page EXCEPT ![c] = <<>>]
    BY <2>4 DEF LookInto, Watch
  <2>5. ASSUME NEW n \in DOMAIN runs, Starts(n) \/ Ends(n)
        PROVE  page' = page
    BY <2>5 DEF Starts, Ends, clientVars
  <2>6. OtherRun \/ UNCHANGED vars => page' = page
    BY DEF OtherRun, clientVars, vars
  <2>7. QED
    BY <2>1, <2>2, <2>3, <2>4, <2>5, <2>6, Pages DEF Next, Advance
<1>4. \A d \in Clients : IsPage(page'[d]) => IsPage(page[d])'
  BY ReferencesStep DEF IsPage, RunsStay
<1>5. QED
  BY <1>1, <1>2, <1>3, <1>4

\* Where clients get, and with what.
LEMMA ClientStep ==
    ASSUME Types, [Next]_vars
    PROVE  /\ faults' \in Nat /\ faults' >= faults
           /\ \/ (pc' = pc /\ watched' = watched)
              \/ \E c \in Clients : \E s \in {"list", "look", "panicked", "gave up"} :
                    pc' = [pc EXCEPT ![c] = s] /\ watched' = watched
              \/ \E c \in Clients :
                    /\ page[c] # <<>> /\ runs[Head(page[c])].ref = RefOf[c]
                    /\ pc' = [pc EXCEPT ![c] = "poll"]
                    /\ watched' = [watched EXCEPT ![c] = Head(page[c])]
              \/ \E c \in Clients :
                    /\ pc[c] = "poll"
                    /\ pc' = [pc EXCEPT ![c] = "reported"] /\ watched' = watched
<1> USE DEF Types, Leave, Turn, Goto, Fault
<1>1. ASSUME NEW c \in Clients, Dispatch(c)
      PROVE  pc' = [pc EXCEPT ![c] = "list"] /\ watched' = watched /\ faults' = faults
  BY <1>1 DEF Dispatch
<1>2. ASSUME NEW c \in Clients, Busy(c)
      PROVE  /\ watched' = watched /\ faults' = faults + 1
             /\ pc' = pc \/ pc' = [pc EXCEPT ![c] = "list"]
  BY <1>2 DEF Busy
<1>3. ASSUME NEW c \in Clients, Panic(c)
      PROVE  /\ watched' = watched /\ faults' = faults + 1
             /\ pc' = [pc EXCEPT ![c] = "panicked"]
  BY <1>3 DEF Panic
<1>4. ASSUME NEW c \in Clients, ListRuns(c)
      PROVE  /\ watched' = watched
             /\ faults' = faults \/ faults' = faults + 1
             /\ pc' = [pc EXCEPT ![c] = "look"]
  BY <1>4 DEF ListRuns
<1>5. ASSUME NEW c \in Clients, LookInto(c)
      PROVE  \/ /\ (pc' = pc /\ watched' = watched)
                /\ faults' = faults \/ faults' = faults + 1
             \/ /\ page[c] # <<>> /\ runs[Head(page[c])].ref = RefOf[c]
                /\ pc' = [pc EXCEPT ![c] = "poll"]
                /\ watched' = [watched EXCEPT ![c] = Head(page[c])]
                /\ faults' = faults
  BY <1>5 DEF LookInto, ShowsRef, Watch
<1>6. ASSUME NEW c \in Clients, TryAgain(c)
      PROVE  /\ watched' = watched /\ faults' = faults
             /\ \E s \in {"gave up", "list"} : pc' = [pc EXCEPT ![c] = s]
  BY <1>6 DEF TryAgain
<1>7. ASSUME NEW c \in Clients, Report(c)
      PROVE  /\ pc[c] = "poll" /\ watched' = watched /\ faults' = faults
             /\ pc' = [pc EXCEPT ![c] = "reported"]
  BY <1>7 DEF Report
<1>8. ASSUME NEW n \in DOMAIN runs, Starts(n) \/ Ends(n)
      PROVE  pc' = pc /\ watched' = watched /\ faults' = faults
  BY <1>8 DEF Starts, Ends, clientVars
<1>9. OtherRun \/ UNCHANGED vars => pc' = pc /\ watched' = watched /\ faults' = faults
  BY DEF OtherRun, clientVars, vars
<1>10. faults \in Nat
  OBVIOUS
<1>11. QED
  <2> HIDE DEF Leave, Turn, Goto, Fault
  <2>1. ASSUME NEW c \in Clients, Advance(c) \/ Panic(c)
        PROVE  /\ faults' \in Nat /\ faults' >= faults
               /\ \/ (pc' = pc /\ watched' = watched)
                  \/ \E s \in {"list", "look", "panicked", "gave up"} :
                        pc' = [pc EXCEPT ![c] = s] /\ watched' = watched
                  \/ /\ page[c] # <<>> /\ runs[Head(page[c])].ref = RefOf[c]
                     /\ pc' = [pc EXCEPT ![c] = "poll"]
                     /\ watched' = [watched EXCEPT ![c] = Head(page[c])]
                  \/ /\ pc[c] = "poll"
                     /\ pc' = [pc EXCEPT ![c] = "reported"] /\ watched' = watched
    <3>1. faults' \in Nat /\ faults' >= faults
      <4>1. faults' = faults \/ faults' = faults + 1
        BY <2>1, <1>1, <1>2, <1>3, <1>4, <1>5, <1>6, <1>7 DEF Advance
      <4>2. QED
        BY <4>1, <1>10
    <3>2. CASE LookInto(c)
      BY <3>1, <3>2, <1>5
    <3>3. CASE Report(c)
      BY <3>1, <3>3, <1>7
    <3>4. CASE TryAgain(c)
      BY <3>1, <3>4, <1>6
    <3>5. CASE Dispatch(c) \/ Busy(c) \/ Panic(c) \/ ListRuns(c)
      BY <3>1, <3>5, <1>1, <1>2, <1>3, <1>4
    <3>6. QED
      BY <2>1, <3>2, <3>3, <3>4, <3>5 DEF Advance
  <2>2. CASE \E n \in DOMAIN runs : Starts(n) \/ Ends(n)
    <3>1. pc' = pc /\ watched' = watched /\ faults' = faults
      BY <2>2, <1>8
    <3>2. faults' \in Nat /\ faults' >= faults
      BY <3>1, <1>10
    <3>3. QED
      BY <3>1, <3>2
  <2>3. CASE OtherRun \/ UNCHANGED vars
    <3>1. pc' = pc /\ watched' = watched /\ faults' = faults
      BY <2>3, <1>9
    <3>2. faults' \in Nat /\ faults' >= faults
      BY <3>1, <1>10
    <3>3. QED
      BY <3>1, <3>2
  <2>4. QED
    BY <2>1, <2>2, <2>3 DEF Next

\* Every step keeps the types, pages and watched runs.
LEMMA WatchingStep ==
    ASSUME Types, References, Watching, [Next]_vars
    PROVE  Types' /\ Watching'
<1> DEFINE Watched == \A c \in Clients : pc[c] \in {"poll", "reported"} =>
              watched[c] \in DOMAIN runs /\ runs[watched[c]].ref = RefOf[c]
           Kept ==
             /\ pc' \in [Clients -> Over \cup {"dispatch", "list", "look", "poll"}]
             /\ watched' \in [Clients -> Nat]
             /\ Watched'
<1>1. \A c \in Clients : IsPage(page[c])
  BY DEF Types, Watching, IsPage
<1>2. /\ page' \in [Clients -> Seq(Nat)]
      /\ \A c \in Clients : IsPage(page[c])'
  BY <1>1, PagesStep
<1>3. /\ runs' \in Seq(Run) /\ DOMAIN runs \subseteq DOMAIN runs'
      /\ \A n \in DOMAIN runs : runs'[n].ref = runs[n].ref
  BY ReferencesStep DEF RunsStay
<1>4. \A c \in Clients : page[c] # <<>> =>
          Head(page[c]) \in DOMAIN runs /\ Head(page[c]) \in Nat
  <2>1. DOMAIN runs \subseteq Nat
    BY DEF Types
  <2>2. QED
    BY <1>1, <2>1, Pages
<1>5. Kept
  <2> USE DEF Types, Over
  <2>1. Watched
    BY DEF Watching
  <2>2. CASE UNCHANGED <<pc, watched>>
    BY <2>1, <2>2, <1>3
  <2>3. ASSUME NEW c \in Clients, NEW s \in {"list", "look", "panicked", "gave up"},
               pc' = [pc EXCEPT ![c] = s] /\ UNCHANGED watched
        PROVE  Kept
    BY <2>1, <2>3, <1>3
  <2>4. ASSUME NEW c \in Clients,
               page[c] # <<>> /\ runs[Head(page[c])].ref = RefOf[c],
               pc' = [pc EXCEPT ![c] = "poll"],
               watched' = [watched EXCEPT ![c] = Head(page[c])]
        PROVE  Kept
    BY <2>1, <2>4, <1>3, <1>4
  <2>5. ASSUME NEW c \in Clients, pc[c] = "poll",
               pc' = [pc EXCEPT ![c] = "reported"] /\ UNCHANGED watched
        PROVE  Kept
    BY <2>1, <2>5, <1>3
  <2>6. QED
    BY <2>2, <2>3, <2>4, <2>5, ClientStep
<1>6. QED
  BY <1>2, <1>3, <1>5, ClientStep DEF Types, Watching, IsPage

-----------------------------------------------------------------------------
\* Until there is a fault, a client starts its run with its first request.
LEMMA StartingStep ==
    ASSUME Types, References, Starting, [Next]_vars
    PROVE  Starting'
<1> SUFFICES ASSUME faults' = 0, NEW d \in Clients
             PROVE  (IF pc[d] = "dispatch"
                     THEN StartedBy(d) = {}
                     ELSE \E n \in DOMAIN runs : StartedBy(d) = {n})'
  BY DEF Starting
<1>1. /\ faults = 0
      /\ IF pc[d] = "dispatch" THEN StartedBy(d) = {}
                               ELSE \E n \in DOMAIN runs : StartedBy(d) = {n}
  <2>1. faults \in Nat /\ faults' >= faults
    BY ClientStep DEF Types
  <2>2. faults = 0
    BY <2>1
  <2>3. QED
    BY <2>2 DEF Starting
<1> DEFINE Same == StartedBy(d)' = StartedBy(d)
<1>2. ASSUME NEW c \in Clients, Dispatch(c)
      PROVE  /\ pc[c] = "dispatch" /\ pc' = [pc EXCEPT ![c] = "list"]
             /\ runs' = Append(runs, NewRun(c))
  BY <1>2 DEF Dispatch, Created, NewRun, Leave, Goto
<1>3. CASE \E c \in Clients : Dispatch(c)
  <2>1. PICK c \in Clients : Dispatch(c)
    BY <1>3
  <2>2. runs \in Seq(Run) /\ NewRun(c) \in Run
    BY DEF Types, NewRun, Run, RunStates
  <2>3. /\ DOMAIN runs' = DOMAIN runs \cup {Len(runs) + 1}
        /\ \A n \in DOMAIN runs : runs'[n] = runs[n]
        /\ runs'[Len(runs) + 1].by = c
    <3>1. /\ DOMAIN runs' = DOMAIN runs \cup {Len(runs) + 1}
          /\ \A n \in DOMAIN runs : runs'[n] = runs[n]
          /\ runs'[Len(runs) + 1] = NewRun(c)
      <4>1. runs' = Append(runs, NewRun(c))
        BY <1>2, <2>1
      <4>2. ASSUME NEW r \in Run, runs' = Append(runs, r)
            PROVE  /\ DOMAIN runs' = DOMAIN runs \cup {Len(runs) + 1}
                   /\ \A n \in DOMAIN runs : runs'[n] = runs[n]
                   /\ runs'[Len(runs) + 1] = r
        BY <2>2, <4>2, Appended
      <4>3. QED
        BY <2>2, <4>1, <4>2
    <3>2. QED
      BY <3>1 DEF NewRun
  <2>4. CASE c = d
    <3>1. StartedBy(d)' = {Len(runs) + 1}
      BY <1>1, <1>2, <2>1, <2>3, <2>4 DEF StartedBy
    <3>2. pc'[d] = "list"
      BY <1>2, <2>1, <2>4 DEF Types
    <3>3. QED
      BY <2>3, <3>1, <3>2
  <2>5. CASE c # d
    <3>1. Same
      BY <2>3, <2>5 DEF StartedBy
    <3>2. pc'[d] = pc[d]
      BY <1>2, <2>1, <2>5 DEF Types
    <3>3. QED
      BY <1>1, <2>3, <3>1, <3>2
  <2>6. QED
    BY <2>4, <2>5
<1>4. ASSUME NEW c \in Clients,
             ListRuns(c) \/ LookInto(c) \/ TryAgain(c) \/ Report(c)
      PROVE  /\ runs' = runs
             /\ pc[c] # "dispatch"
             /\ \/ pc' = pc
                \/ \E s \in {"look", "poll", "list", "gave up", "reported"} :
                      pc' = [pc EXCEPT ![c] = s]
  BY <1>4 DEF ListRuns, LookInto, Watch, TryAgain, Report, Leave, Goto
<1>5. ASSUME NEW c \in Clients, Busy(c) \/ Panic(c)
      PROVE  FALSE
  BY <1>1, <1>5 DEF Busy, Panic, Fault
<1>6. CASE (\E n \in DOMAIN runs : Starts(n) \/ Ends(n)) \/ UNCHANGED vars
  <2>1. pc' = pc
    BY <1>6 DEF Starts, Ends, clientVars, vars
  <2>2. DOMAIN runs' = DOMAIN runs /\ RunsStay
    BY <1>6, RunStays DEF vars, RunsStay
  <2>3. Same
    BY <2>2 DEF StartedBy, RunsStay
  <2>4. QED
    BY <1>1, <2>1, <2>2, <2>3
<1>7. CASE OtherRun
  <2>1. runs' = Append(runs, OthersRun) /\ pc' = pc
    BY <1>7 DEF OtherRun, OthersRun, clientVars
  <2>2. runs \in Seq(Run) /\ OthersRun \in Run
    BY DEF Types, OthersRun, Run, RunStates
  <2>3. /\ DOMAIN runs' = DOMAIN runs \cup {Len(runs) + 1}
        /\ \A n \in DOMAIN runs : runs'[n] = runs[n]
        /\ runs'[Len(runs) + 1].by = NoRef
    BY <2>1, <2>2, Appended DEF OthersRun
  <2>4. QED
    <3>1. Same
      BY <2>3, CliAssumption DEF StartedBy
    <3>2. QED
      BY <1>1, <2>1, <2>3, <3>1
<1>8. QED
  <2>1. CASE \E c \in Clients :
               ListRuns(c) \/ LookInto(c) \/ TryAgain(c) \/ Report(c)
    <3>1. PICK c \in Clients :
             ListRuns(c) \/ LookInto(c) \/ TryAgain(c) \/ Report(c)
      BY <2>1
    <3>2. Same /\ DOMAIN runs' = DOMAIN runs
      BY <1>4, <3>1 DEF StartedBy
    <3>3. pc'[d] = "dispatch" <=> pc[d] = "dispatch"
      BY <1>4, <3>1 DEF Types
    <3>4. QED
      BY <1>1, <3>2, <3>3
  <2>2. QED
    BY <1>3, <1>5, <1>6, <1>7, <2>1 DEF Next, Advance

\* The inductive invariant of clients and runs.
THEOREM Invariant == Spec => []IInv
<1>1. Init => IInv
  <2> SUFFICES ASSUME Init PROVE IInv
    OBVIOUS
  <2>1. Types
    BY DEF Init, Types
  <2>2. References /\ Watching
    BY DEF Init, References, Watching
  <2>3. Starting
    BY DEF Init, Starting, StartedBy
  <2>4. QED
    BY <2>1, <2>2, <2>3 DEF IInv
<1>2. IInv /\ [Next]_vars => IInv'
  BY ReferencesStep, WatchingStep, StartingStep DEF IInv
<1>3. QED
  BY <1>1, <1>2, PTL DEF Spec

-----------------------------------------------------------------------------
\* A client whose reference is its own reports a run that it has started.
THEOREM ReportsAreOwn == Spec => []ReportsItsOwnRun
<1>1. IInv => ReportsItsOwnRun
  <2> SUFFICES ASSUME IInv, NEW c \in Clients, pc[c] = "reported", Alone(c)
               PROVE  watched[c] \in StartedBy(c)
    BY DEF ReportsItsOwnRun
  <2>1. watched[c] \in DOMAIN runs /\ runs[watched[c]].ref = RefOf[c]
    BY DEF IInv, Watching
  <2>2. RefOf[c] # NoRef
    BY CliAssumption
  <2>3. /\ runs[watched[c]].by \in Clients
        /\ RefOf[runs[watched[c]].by] = RefOf[c]
    BY <2>1, <2>2 DEF IInv, References
  <2>4. runs[watched[c]].by = c
    BY <2>3 DEF Alone
  <2>5. QED
    BY <2>1, <2>4 DEF StartedBy
<1>2. QED
  BY <1>1, Invariant, PTL

\* Without a fault a client that is past its request has started one run.
THEOREM RequestsStartOneRun == Spec => []OneRunUnlessBusy
<1>1. IInv => OneRunUnlessBusy
  BY FS_Singleton DEF IInv, Starting, OneRunUnlessBusy
<1>2. QED
  BY <1>1, Invariant, PTL
=============================================================================

--------------------------- MODULE BuildRockProofs ---------------------------
(***************************************************************************)
(* Proofs about BuildRock: a build that succeeds has a rock of each of the *)
(* architectures it declares in its archive, whatever was tried again or   *)
(* cancelled, and however many builds share the artifacts of the run.      *)
(***************************************************************************)
EXTENDS BuildRock, FiniteSetTheorems, TLAPS

Jobs == {"skipped", "running", "success", "failure", "cancelled"}

Types ==
    /\ configure \in [Builds -> Jobs \ {"skipped"}]
    /\ runner \in [Builds -> [Archs -> Jobs]]
    /\ lpci \in [Builds -> Jobs]
    /\ assemble \in [Builds -> {"waiting", "success", "failure", "skipped"}]
    /\ archive \in [Builds -> SUBSET (Builds \X Archs)]

\* The architectures of the rocks in an archive.
Holds(rocks) == {x[2] : x \in rocks}

\* Rocks are of what their rockcraft.yaml declares.
DeclaredOnly ==
    artifacts \subseteq {x \in Builds \X Archs : x[2] \in Declared(x[1])}

\* A build that has been configured runs on the one or on the other, on
\* runners for what it asks for.
Configured(b) ==
    /\ configure[b] = "success" =>
          IF TargetArchs(b) \subseteq ArchMap
          THEN \A a \in TargetArchs(b) : runner[b][a] # "skipped"
          ELSE lpci[b] # "skipped"
    /\ \A a \in Archs : runner[b][a] # "skipped" => a \in TargetArchs(b)

\* Jobs leave their rocks where the others find them.
Left(b) ==
    /\ \A a \in Archs : runner[b][a] = "success" => <<b, a>> \in artifacts
    /\ lpci[b] = "success" => {b} \X Declared(b) \subseteq artifacts

\* An archive is made of what the jobs have left, when no more will come.
Assembled(b) ==
    assemble[b] = "success" =>
        /\ "running" \notin Results(b)
        /\ archive[b] \subseteq {x \in artifacts : <<b, x[1]>> \in Pattern}
        /\ \A a \in Archs : runner[b][a] = "success" => a \in Holds(archive[b])
        /\ lpci[b] = "success" => Declared(b) \subseteq Holds(archive[b])

IInv ==
    /\ Types
    /\ DeclaredOnly
    /\ \A b \in Builds : Configured(b) /\ Left(b) /\ Assembled(b)

-----------------------------------------------------------------------------
(* What a build asks for, and what a download leaves.                      *)

\* A build declares what there is, and asks for no more than it declares.
LEMMA DeclaredArchs ==
    ASSUME NEW b \in Builds
    PROVE  Declared(b) \subseteq Archs /\ TargetArchs(b) \subseteq Declared(b)
BY BuildAssumption DEF Declared, TargetArchs

\* Of all rocks that a pattern matches, the download leaves one with the
\* architecture of each: files overwrite each other by name, and the name
\* has the architecture in it.
LEMMA DownloadKeepsArchs ==
    ASSUME NEW b \in Builds, NEW rocks \in Downloads(b)
    PROVE  /\ rocks \subseteq {x \in artifacts : <<b, x[1]>> \in Pattern}
           /\ \A x \in artifacts :
                 <<b, x[1]>> \in Pattern => x[2] \in Holds(rocks)
<1> DEFINE found == {x \in artifacts : <<b, x[1]>> \in Pattern}
           same(x) == {y \in found : FileOf[y[1]] = FileOf[x[1]] /\ y[2] = x[2]}
<1>1. /\ rocks \subseteq found
      /\ \A x \in found : Cardinality(rocks \cap same(x)) = 1
  BY DEF Downloads
<1>2. ASSUME NEW x \in found PROVE x[2] \in Holds(rocks)
  <2>1. rocks \cap same(x) # {}
    BY <1>1, FS_EmptySet
  <2>2. PICK y \in rocks : y[2] = x[2]
    BY <2>1
  <2>3. QED
    BY <2>2 DEF Holds
<1>3. QED
  BY <1>1, <1>2

-----------------------------------------------------------------------------
(* The invariant.                                                          *)

\* A step that starts or makes nothing: jobs are as they were, or not under
\* way any more and without a rock.
LEMMA JobsEnd ==
    ASSUME IInv, Types',
           UNCHANGED <<assemble, artifacts, archive>>,
           \A b \in Builds :
              /\ configure'[b] = configure[b] \/ configure'[b] # "success"
              /\ configure'[b] = configure[b] \/ configure[b] = "running"
              /\ configure'[b] # "running" \/ configure[b] = "running"
              /\ \A a \in Archs :
                    runner'[b][a] = runner[b][a]
                    \/ /\ runner[b][a] = "running"
                       /\ runner'[b][a] \in {"failure", "cancelled"}
              /\ lpci'[b] = lpci[b]
                 \/ /\ lpci[b] = "running"
                    /\ lpci'[b] \in {"failure", "cancelled"}
    PROVE  IInv'
<1>1. ASSUME NEW b \in Builds PROVE Configured(b)'
  BY DeclaredArchs DEF IInv, Configured, TargetArchs
<1>2. ASSUME NEW b \in Builds PROVE Left(b)'
  BY DEF IInv, Left, Declared
<1>3. ASSUME NEW b \in Builds, assemble[b] = "success" PROVE Assembled(b)'
  <2>1. "running" \notin Results(b)'
    BY <1>3 DEF IInv, Assembled, Results
  <2>2. QED
    BY <1>3, <2>1 DEF IInv, Assembled, Declared, Holds
<1>4. QED
  BY <1>1, <1>2, <1>3 DEF IInv, DeclaredOnly, Declared, Assembled

\* A step of one build that has not been put together yet, and that leaves
\* rocks of its own and keeps what is there.
LEMMA BuildGoesOn ==
    ASSUME IInv, Types', DeclaredOnly', NEW b \in Builds,
           "running" \in Results(b),
           UNCHANGED <<assemble, archive>>,
           artifacts \subseteq artifacts',
           \A c \in Builds \ {b} :
              /\ configure'[c] = configure[c]
              /\ runner'[c] = runner[c]
              /\ lpci'[c] = lpci[c],
           Configured(b)', Left(b)'
    PROVE  IInv'
<1>1. assemble'[b] # "success"
  BY DEF IInv, Assembled
<1>2. ASSUME NEW c \in Builds \ {b}
      PROVE  Configured(c)' /\ Left(c)' /\ Assembled(c)'
  <2>1. Results(c)' = Results(c)
    BY <1>2 DEF Results
  <2>2. Configured(c)' /\ Left(c)'
    BY <1>2 DEF IInv, Configured, Left, Declared, TargetArchs
  <2>3. Assembled(c)'
    BY <1>2, <2>1 DEF IInv, Assembled, Declared, Holds
  <2>4. QED
    BY <2>2, <2>3
<1>3. QED
  BY <1>1, <1>2 DEF IInv, Assembled

\* What is put together is what the jobs have left: none of them will leave
\* more, and the pattern of a build matches its own rocks.
LEMMA AssembleStep ==
    ASSUME IInv, NEW b \in Builds, Assemble(b)
    PROVE  IInv'
<1>1. PICK rocks \in Downloads(b) : archive' = [archive EXCEPT ![b] = rocks]
  BY DEF Assemble
<1>2. /\ assemble' = [assemble EXCEPT ![b] = "success"]
      /\ UNCHANGED <<configure, runner, lpci, attempts, artifacts>>
      /\ "running" \notin Results(b)
  BY DEF Assemble
<1>3. /\ rocks \subseteq {x \in artifacts : <<b, x[1]>> \in Pattern}
      /\ \A x \in artifacts : <<b, x[1]>> \in Pattern => x[2] \in Holds(rocks)
  BY DownloadKeepsArchs
<1>4. Types'
  BY <1>1, <1>2, <1>3 DEF IInv, Types, DeclaredOnly
<1>5. \A a \in Archs : <<b, a>> \in artifacts => a \in Holds(rocks)
  BY <1>3, BuildAssumption
<1>6. Assembled(b)'
  <2>1. archive'[b] = rocks
    BY <1>1 DEF IInv, Types
  <2>2. "running" \notin Results(b)'
    BY <1>2 DEF Results
  <2>3. \A a \in Archs : runner[b][a] = "success" => a \in Holds(rocks)
    BY <1>5 DEF IInv, Left
  <2>4. lpci[b] = "success" => Declared(b) \subseteq Holds(rocks)
    BY <1>5, DeclaredArchs DEF IInv, Left
  <2>5. QED
    BY <1>2, <1>3, <2>1, <2>2, <2>3, <2>4 DEF Assembled, Declared, Holds
<1>7. ASSUME NEW c \in Builds \ {b} PROVE Assembled(c)'
  <2>1. archive'[c] = archive[c] /\ assemble'[c] = assemble[c]
    BY <1>1, <1>2, <1>7 DEF IInv, Types
  <2>2. Results(c)' = Results(c)
    BY <1>2 DEF Results
  <2>3. QED
    BY <1>2, <1>7, <2>1, <2>2 DEF IInv, Assembled, Declared, Holds
<1>8. QED
  BY <1>2, <1>4, <1>6, <1>7
     DEF IInv, DeclaredOnly, Configured, Left, Declared, TargetArchs
\* The types, for each step on its own.
LEMMA TypesStep == IInv /\ [Next]_vars => Types'
<1> SUFFICES ASSUME IInv, [Next]_vars PROVE Types'
  OBVIOUS
<1>1. ASSUME NEW b \in Builds, Configure(b) PROVE Types'
  <2>1. /\ configure' \in [Builds -> Jobs \ {"skipped"}]
        /\ lpci' \in [Builds -> Jobs]
    BY <1>1 DEF Configure, IInv, Types, Jobs
  <2>2. runner' \in [Builds -> [Archs -> Jobs]]
    BY <1>1 DEF Configure, IInv, Types, Jobs
  <2>3. QED
    BY <1>1, <2>1, <2>2 DEF Configure, IInv, Types
<1>2. ASSUME NEW b \in Builds, NEW a \in Archs, RunnerBuilds(b, a) PROVE Types'
  BY <1>2 DEF RunnerBuilds, IInv, Types, Jobs
<1>3. ASSUME NEW b \in Builds, NEW a \in Archs, RunnerFails(b, a) PROVE Types'
  BY <1>3 DEF RunnerFails, Cancelled, IInv, Types, Jobs
<1>4. ASSUME NEW b \in Builds, LpciBuilds(b) \/ LpciFails(b) PROVE Types'
  BY <1>4 DEF LpciBuilds, LpciFails, IInv, Types, Jobs
<1>5. ASSUME NEW b \in Builds, Assemble(b) PROVE Types'
  BY <1>5, AssembleStep DEF IInv
<1>6. ASSUME NEW b \in Builds, AssembleFails(b) PROVE Types'
  BY <1>6 DEF AssembleFails, IInv, Types
<1>7. CASE CancelOthers
  BY <1>7 DEF CancelOthers, Cancelled, IInv, Types, Jobs
<1>8. CASE UNCHANGED vars
  BY <1>8 DEF vars, IInv, Types
<1>9. QED
  BY <1>1, <1>2, <1>3, <1>4, <1>5, <1>6, <1>7, <1>8 DEF Next

\* Every step keeps the invariant.
LEMMA InvariantStep == IInv /\ [Next]_vars => IInv'
<1> SUFFICES ASSUME IInv, [Next]_vars PROVE IInv'
  OBVIOUS
<1>1. Types'
  BY TypesStep
<1>2. ASSUME NEW b \in Builds, Configure(b) PROVE IInv'
  <2>1. configure[b] = "running" /\ UNCHANGED <<assemble, artifacts, archive>>
    BY <1>2 DEF Configure
  <2>2. \A c \in Builds \ {b} : /\ configure'[c] = configure[c]
                                /\ runner'[c] = runner[c]
                                /\ lpci'[c] = lpci[c]
    BY <1>2 DEF Configure, IInv, Types
  <2>3. "running" \in Results(b)
    BY <2>1 DEF Results
  <2>4. DeclaredOnly'
    BY <2>1 DEF IInv, DeclaredOnly, Declared
  <2>5. CASE TargetArchs(b) \subseteq ArchMap
    <3>1. /\ lpci' = lpci
          /\ \A a \in Archs : runner'[b][a] =
                IF a \in TargetArchs(b) THEN "running" ELSE "skipped"
      BY <1>2, <2>5 DEF Configure, IInv, Types
    <3>2. Configured(b)' /\ Left(b)'
      BY <2>1, <2>5, <3>1, DeclaredArchs
         DEF IInv, Configured, Left, Declared, TargetArchs
    <3>3. QED
      BY <1>1, <2>1, <2>2, <2>3, <2>4, <3>2, BuildGoesOn
  <2>6. CASE ~ (TargetArchs(b) \subseteq ArchMap)
    <3>1. /\ runner' = runner
          /\ configure'[b] = IF LpciFallback THEN "success" ELSE "failure"
          /\ lpci'[b] = IF LpciFallback THEN "running" ELSE "skipped"
      BY <1>2, <2>6 DEF Configure, IInv, Types
    <3>2. Configured(b)' /\ Left(b)'
      BY <2>1, <2>6, <3>1 DEF IInv, Configured, Left, Declared, TargetArchs
    <3>3. QED
      BY <1>1, <2>1, <2>2, <2>3, <2>4, <3>2, BuildGoesOn
  <2>7. QED
    BY <2>5, <2>6
<1>3. ASSUME NEW b \in Builds, NEW a \in Archs, RunnerBuilds(b, a) PROVE IInv'
  <2>1. /\ runner[b][a] = "running"
        /\ runner' = [runner EXCEPT ![b][a] = "success"]
        /\ artifacts' = artifacts \cup {<<b, a>>}
        /\ UNCHANGED <<configure, lpci, attempts, assemble, archive>>
    BY <1>3 DEF RunnerBuilds
  <2>2. "running" \in Results(b)
    BY <2>1 DEF Results
  <2>3. a \in Declared(b)
    BY <2>1, DeclaredArchs DEF IInv, Configured
  <2>4. DeclaredOnly'
    BY <2>1, <2>3 DEF IInv, DeclaredOnly, Declared
  <2>5. /\ \A c \in Builds \ {b} : runner'[c] = runner[c]
        /\ \A c \in Archs : runner'[b][c] =
              IF c = a THEN "success" ELSE runner[b][c]
    BY <2>1 DEF IInv, Types
  <2>6. Configured(b)'
    BY <2>1, <2>5, DeclaredArchs DEF IInv, Configured, TargetArchs
  <2>7. Left(b)'
    BY <2>1, <2>5 DEF IInv, Left, Declared
  <2>8. QED
    BY <1>1, <2>1, <2>2, <2>4, <2>5, <2>6, <2>7, BuildGoesOn
<1>4. ASSUME NEW b \in Builds, LpciBuilds(b) PROVE IInv'
  <2>1. /\ lpci[b] = "running"
        /\ lpci' = [lpci EXCEPT ![b] = "success"]
        /\ artifacts' = artifacts \cup ({b} \X Declared(b))
        /\ UNCHANGED <<configure, runner, attempts, assemble, archive>>
    BY <1>4 DEF LpciBuilds
  <2>2. "running" \in Results(b)
    BY <2>1 DEF Results
  <2>3. DeclaredOnly'
    BY <2>1, DeclaredArchs DEF IInv, DeclaredOnly, Declared
  <2>4. lpci'[b] = "success" /\ \A c \in Builds \ {b} : lpci'[c] = lpci[c]
    BY <2>1 DEF IInv, Types
  <2>5. Configured(b)' /\ Left(b)'
    BY <2>1, <2>4 DEF IInv, Configured, Left, Declared, TargetArchs
  <2>6. QED
    BY <1>1, <2>1, <2>2, <2>3, <2>4, <2>5, BuildGoesOn
<1>5. ASSUME NEW b \in Builds, NEW a \in Archs, RunnerFails(b, a) PROVE IInv'
  <2>1. /\ runner[b][a] = "running"
        /\ \A c \in Builds \ {b} : runner'[c] = runner[c]
        /\ \A c \in Archs : runner'[b][c] =
              IF c = a THEN "failure" ELSE Cancelled(runner[b][c])
        /\ UNCHANGED <<configure, lpci, assemble, artifacts, archive>>
    BY <1>5 DEF RunnerFails, IInv, Types
  <2>2. QED
    BY <1>1, <2>1, JobsEnd DEF Cancelled
<1>6. ASSUME NEW b \in Builds, LpciFails(b) PROVE IInv'
  <2>1. /\ lpci[b] = "running"
        /\ \A c \in Builds \ {b} : lpci'[c] = lpci[c]
        /\ lpci'[b] \in {lpci[b], "failure"}
        /\ UNCHANGED <<configure, runner, assemble, artifacts, archive>>
    BY <1>6 DEF LpciFails, IInv, Types
  <2>2. QED
    BY <1>1, <2>1, JobsEnd
<1>7. CASE CancelOthers
  <2>1. /\ \A b \in Builds :
              /\ configure'[b] = Cancelled(configure[b])
              /\ lpci'[b] = Cancelled(lpci[b])
              /\ \A a \in Archs : runner'[b][a] = Cancelled(runner[b][a])
        /\ UNCHANGED <<assemble, artifacts, archive>>
    BY <1>7 DEF CancelOthers
  <2>2. QED
    BY <1>1, <2>1, JobsEnd DEF Cancelled
<1>8. ASSUME NEW b \in Builds, AssembleFails(b) PROVE IInv'
  <2>1. /\ \A c \in Builds : assemble'[c] # "success" \/ assemble'[c] = assemble[c]
        /\ UNCHANGED <<configure, runner, lpci, artifacts, archive>>
    BY <1>8 DEF AssembleFails, IInv, Types
  <2>2. QED
    BY <1>1, <2>1 DEF IInv, DeclaredOnly, Configured, Left, Assembled, Results,
                      Declared, TargetArchs, Holds
<1>9. CASE UNCHANGED vars
  BY <1>1, <1>9 DEF vars, IInv, DeclaredOnly, Configured, Left, Assembled,
                    Results, Declared, TargetArchs, Holds
<1>10. QED
  BY <1>2, <1>3, <1>4, <1>5, <1>6, <1>7, <1>8, <1>9, AssembleStep DEF Next

\* What jobs have left, and what is made of it, at any time.
THEOREM Invariant == Spec => []IInv
<1>1. Init => IInv
  BY DEF Init, IInv, Types, Jobs, DeclaredOnly, Configured, Left, Assembled
<1>2. QED
  BY <1>1, InvariantStep, PTL DEF Spec

-----------------------------------------------------------------------------
(* The archive.                                                            *)

\* A build that succeeds has a rock of each architecture that it declares in
\* its archive, and no rock of another build that its pattern does not match:
\* the jobs of it have ended well, so that each of what it asks for was built
\* on a runner, or all it declares on Launchpad.
THEOREM SuccessIsWhole == Spec => []SuccessfulRockIsWhole
<1>1. IInv => SuccessfulRockIsWhole
  <2> SUFFICES ASSUME IInv, NEW b \in Builds, Succeeded(b)
               PROVE  /\ (\E a \in TargetArchs(b) : a \notin ArchMap)
                         \/ ListsOnly(b) =>
                            Declared(b) \subseteq {x[2] : x \in archive[b]}
                      /\ \A x \in archive[b] :
                            <<b, x[1]>> \in Pattern /\ x[2] \in Declared(x[1])
    BY DEF SuccessfulRockIsWhole
  <2>1. /\ assemble[b] = "success"
        /\ {"running", "failure", "cancelled"} \cap Results(b) = {}
    BY DEF Succeeded, IInv, Assembled
  <2>2. \A x \in archive[b] : <<b, x[1]>> \in Pattern /\ x[2] \in Declared(x[1])
    BY <2>1 DEF IInv, Assembled, DeclaredOnly
  <2>3. configure[b] = "success"
    BY <2>1 DEF Results, IInv, Types, Jobs
  <2>4. CASE TargetArchs(b) \subseteq ArchMap /\ ListsOnly(b)
    <3>1. Declared(b) = TargetArchs(b)
      BY <2>4 DEF Declared, TargetArchs, ListsOnly
    <3>2. ASSUME NEW a \in TargetArchs(b) PROVE runner[b][a] = "success"
      <4>1. a \in Archs /\ runner[b][a] \in Results(b)
        BY DeclaredArchs DEF Results
      <4>2. runner[b][a] # "skipped"
        BY <2>3, <2>4 DEF IInv, Configured
      <4>3. runner[b][a] \in Jobs
        BY <4>1 DEF IInv, Types
      <4>4. QED
        BY <2>1, <4>1, <4>2, <4>3 DEF Jobs
    <3>3. QED
      BY <2>1, <2>2, <3>1, <3>2, DeclaredArchs DEF IInv, Assembled, Holds
  <2>5. CASE ~ (TargetArchs(b) \subseteq ArchMap)
    <3>1. lpci[b] = "success"
      BY <2>1, <2>3, <2>5 DEF IInv, Types, Jobs, Configured, Results
    <3>2. QED
      BY <2>1, <2>2, <3>1 DEF IInv, Assembled, Holds
  <2>6. QED
    BY <2>2, <2>4, <2>5
<1>2. QED
  BY <1>1, Invariant, PTL

=============================================================================

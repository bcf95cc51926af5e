------------------------------ MODULE BuildRock ------------------------------
(***************************************************************************)
(* The job build-rock of Image.yaml: one call of Build-Rock.yaml per build *)
(* of the trigger, all in one workflow run and sharing its artifacts.  A   *)
(* call reads the target architectures off rockcraft.yaml, builds a rock   *)
(* for each on a runner of its own, or all of them on Launchpad when a     *)
(* runner is missing, and puts the rocks it finds among the artifacts      *)
(* together to a multi-arch archive.                                       *)
(***************************************************************************)
EXTENDS Naturals, FiniteSets

CONSTANTS
    Builds, Archs,
    Platforms,  \* per build, the platforms of its rockcraft.yaml:
                \* [name, kind, archs], of kind "none", "list" or "text"
                \* for no build-for, a list and a string
    ArchMap,    \* architectures there are runners for
    LpciFallback,
    Pattern,    \* <<b, d>>: "<archive of b>-*" matches the artifacts of d
    FileOf      \* the file name of a build's rocks, but for the architecture

ASSUME BuildAssumption ==
    /\ ArchMap \subseteq Archs /\ LpciFallback \in BOOLEAN
    /\ \A b \in Builds : <<b, b>> \in Pattern
    /\ \A b \in Builds : \A p \in Platforms[b] :
          /\ p.kind \in {"none", "list", "text"}
          /\ p.archs \subseteq Archs
          /\ p.kind = "none" => p.archs = {p.name}

VARIABLES
    configure,  \* per build, its job configure-build
    runner,     \* per build and architecture, the leg of runner-build
    lpci,       \* per build, the job lpci-build
    attempts,   \* per build, how often Launchpad has been tried
    assemble,   \* per build, the job assemble-rock
    artifacts,  \* rocks among the artifacts of the run, as <<build, arch>>
    archive     \* per build, the rocks in its multi-arch archive

vars == <<configure, runner, lpci, attempts, assemble, artifacts, archive>>

MaxAttempts == 4

\* "skipped" is what a job is until it is known to be needed.
Init ==
    /\ configure = [b \in Builds |-> "running"]
    /\ runner = [b \in Builds |-> [a \in Archs |-> "skipped"]]
    /\ lpci = [b \in Builds |-> "skipped"]
    /\ attempts = [b \in Builds |-> 0]
    /\ assemble = [b \in Builds |-> "waiting"]
    /\ artifacts = {}
    /\ archive = [b \in Builds |-> {}]

-----------------------------------------------------------------------------
\* The architectures rockcraft is asked for.
Declared(b) == UNION {p.archs : p \in Platforms[b]}

\* get_target_archs: what has no build-for is an architecture itself; the
\* branch for a string tests the platform, a dictionary, to be a string.
TargetArchs(b) == UNION {p.archs : p \in {q \in Platforms[b] : q.kind # "text"}}

\* configure_matrices: one architecture without a runner sends all of them
\* to Launchpad, or fails the job.
Configure(b) ==
    /\ configure[b] = "running"
    /\ IF TargetArchs(b) \subseteq ArchMap
       THEN /\ configure' = [configure EXCEPT ![b] = "success"]
            /\ runner' = [runner EXCEPT ![b] =
                  [a \in Archs |-> IF a \in TargetArchs(b) THEN "running" ELSE "skipped"]]
            /\ UNCHANGED lpci
       ELSE /\ configure' = [configure EXCEPT ![b] =
                  IF LpciFallback THEN "success" ELSE "failure"]
            /\ lpci' = [lpci EXCEPT ![b] =
                  IF LpciFallback THEN "running" ELSE "skipped"]
            /\ UNCHANGED runner
    /\ UNCHANGED <<attempts, assemble, artifacts, archive>>

RunnerBuilds(b, a) ==
    /\ runner[b][a] = "running"
    /\ runner' = [runner EXCEPT ![b][a] = "success"]
    /\ artifacts' = artifacts \cup {<<b, a>>}
    /\ UNCHANGED <<configure, lpci, attempts, assemble, archive>>

Cancelled(job) == IF job = "running" THEN "cancelled" ELSE job

\* fail-fast: a leg that fails cancels the others.
RunnerFails(b, a) ==
    /\ runner[b][a] = "running"
    /\ runner' = [runner EXCEPT ![b] =
          [c \in Archs |-> IF c = a THEN "failure" ELSE Cancelled(runner[b][c])]]
    /\ UNCHANGED <<configure, lpci, attempts, assemble, artifacts, archive>>

\* Launchpad builds what rockcraft.yaml declares; one artifact holds all of
\* the rocks.
LpciBuilds(b) ==
    /\ lpci[b] = "running"
    /\ lpci' = [lpci EXCEPT ![b] = "success"]
    /\ artifacts' = artifacts \cup ({b} \X Declared(b))
    /\ UNCHANGED <<configure, runner, attempts, assemble, archive>>

\* Mutant: the attempts start again instead of running out.
LpciFailsForever(b) ==
    /\ lpci[b] = "running"
    /\ attempts' = [attempts EXCEPT ![b] = (@ + 1) % MaxAttempts]
    /\ UNCHANGED <<configure, runner, lpci, assemble, artifacts, archive>>

LpciFails(b) ==
    /\ lpci[b] = "running"
    /\ attempts' = [attempts EXCEPT ![b] = @ + 1]
    /\ lpci' = [lpci EXCEPT ![b] =
          IF attempts[b] + 1 = MaxAttempts THEN "failure" ELSE @]
    /\ UNCHANGED <<configure, runner, assemble, artifacts, archive>>

Results(b) == {configure[b], lpci[b]} \cup {runner[b][a] : a \in Archs}

\* What download-artifact may leave in the directory: every rock that the
\* pattern matches, one of those with the same name.
Downloads(b) ==
    LET found == {x \in artifacts : <<b, x[1]>> \in Pattern}
        same(x) == {y \in found : FileOf[y[1]] = FileOf[x[1]] /\ y[2] = x[2]}
    IN  {S \in SUBSET found : \A x \in found : Cardinality(S \cap same(x)) = 1}

\* Mutant: the rocks are put together as soon as there are any.
AssembleEarly(b) ==
    /\ assemble[b] = "waiting"
    /\ "failure" \notin Results(b) /\ \E a \in Archs : <<b, a>> \in artifacts
    /\ \E rocks \in Downloads(b) : archive' = [archive EXCEPT ![b] = rocks]
    /\ assemble' = [assemble EXCEPT ![b] = "success"]
    /\ UNCHANGED <<configure, runner, lpci, attempts, artifacts>>

\* The condition of assemble-rock: some job it needs has succeeded, be it
\* configure-build, and none has failed.
Due(b) == "success" \in Results(b) /\ "failure" \notin Results(b)

\* assemble-rock runs always, even in a run that is cancelled, when the jobs
\* it needs are done.
Assemble(b) ==
    /\ assemble[b] = "waiting"
    /\ "running" \notin Results(b) /\ Due(b)
    /\ \E rocks \in Downloads(b) : archive' = [archive EXCEPT ![b] = rocks]
    /\ assemble' = [assemble EXCEPT ![b] = "success"]
    /\ UNCHANGED <<configure, runner, lpci, attempts, artifacts>>

AssembleFails(b) ==
    /\ assemble[b] = "waiting"
    /\ "running" \notin Results(b)
    /\ assemble' = [assemble EXCEPT ![b] =
          IF Due(b) THEN "failure" ELSE "skipped"]
    /\ UNCHANGED <<configure, runner, lpci, attempts, artifacts, archive>>

Failed(b) == "failure" \in Results(b) \cup {assemble[b]}
Succeeded(b) ==
    assemble[b] = "success" /\ {"failure", "cancelled"} \cap Results(b) = {}

\* The legs of build-rock are fail-fast too: the jobs under way of the other
\* builds are cancelled when one build has failed.
CancelOthers ==
    /\ \E b \in Builds : Failed(b)
    /\ configure' = [b \in Builds |-> Cancelled(configure[b])]
    /\ runner' = [b \in Builds |-> [a \in Archs |-> Cancelled(runner[b][a])]]
    /\ lpci' = [b \in Builds |-> Cancelled(lpci[b])]
    /\ UNCHANGED <<attempts, assemble, artifacts, archive>>

Next ==
    \/ \E b \in Builds :
          \/ Configure(b) \/ LpciBuilds(b) \/ LpciFails(b)
          \/ Assemble(b) \/ AssembleFails(b)
          \/ \E a \in Archs : RunnerBuilds(b, a) \/ RunnerFails(b, a)
    \/ CancelOthers

Spec == Init /\ [][Next]_vars

\* Runners and Launchpad come to an end, and GitHub starts what is due.
FairSpec ==
    /\ Spec
    /\ \A b \in Builds :
          /\ WF_vars(Configure(b)) /\ WF_vars(LpciBuilds(b) \/ LpciFails(b))
          /\ WF_vars(Assemble(b) \/ AssembleFails(b))
          /\ \A a \in Archs : WF_vars(RunnerBuilds(b, a) \/ RunnerFails(b, a))
-----------------------------------------------------------------------------
\* A platform whose build-for is a string is not built on a runner: only
\* Launchpad, which reads rockcraft.yaml itself, knows of it.
ListsOnly(b) == \A p \in Platforms[b] : p.kind # "text"

\* Whatever fails, is tried again or cancelled, a build that succeeds has a
\* rock of every architecture of its rockcraft.yaml in its archive, and none
\* of another build unless the name of its archive is a prefix of the other's
\* (Build-Rock.yaml:294-338).
SuccessfulRockIsWhole ==
    \A b \in Builds : Succeeded(b) =>
        /\ (\E a \in TargetArchs(b) : a \notin ArchMap) \/ ListsOnly(b) =>
              Declared(b) \subseteq {x[2] : x \in archive[b]}
        /\ \A x \in archive[b] :
              <<b, x[1]>> \in Pattern /\ x[2] \in Declared(x[1])

\* No build is left waiting for jobs that will not run: in the end it has an
\* archive or has failed, or was cancelled (Build-Rock.yaml:296-300).
EveryBuildEnds == \A b \in Builds : <>[](assemble[b] # "waiting")

=============================================================================

----------------------------- MODULE MCBuildRock -----------------------------
(* Instances of BuildRock for TLC.                                         *)
EXTENDS BuildRock, TLC

CONSTANTS old, new, odd, amd64, arm64, riscv64

Plain(a) == [name |-> a, kind |-> "none", archs |-> {a}]

\* Two rocks on runners; and one on Launchpad, since an architecture has no
\* runner, one of its platforms with a string for build-for.
Rocks ==
    old :> {Plain(amd64)}
    @@ new :> {Plain(amd64), [name |-> "arm", kind |-> "list", archs |-> {arm64}]}
    @@ odd :> {Plain(amd64), Plain(riscv64),
               [name |-> "arm", kind |-> "text", archs |-> {arm64}]}

\* Directories rock and rock-new of the same commit, and another repository.
Prefix == {<<b, b>> : b \in Builds} \cup {<<old, new>>}

SameName == [b \in Builds |-> "rock"]
=============================================================================

SPECIFICATION FairSpec
CONSTANTS
    old = old
    new = new
    odd = odd
    amd64 = amd64
    arm64 = arm64
    riscv64 = riscv64
    Builds = {old, new, odd}
    Archs = {amd64, arm64, riscv64}
    Platforms <- Rocks
    ArchMap = {amd64, arm64}
    LpciFallback = TRUE
    Pattern <- Prefix
    FileOf <- SameName
INVARIANT SuccessfulRockIsWhole
PROPERTY EveryBuildEnds
CHECK_DEADLOCK FALSE

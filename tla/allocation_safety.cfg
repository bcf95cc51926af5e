SPECIFICATION FairSpec
CONSTANTS
    r1 = r1
    r2 = r2
    jammy = jammy
    noble = noble
    NoRun = NoRun
    Runs = {r1, r2}
    Tracks = {jammy, noble}
    Uploads <- TwoAndOne
    Existing <- OneExisting
    MaxPolls = 2
INVARIANTS
    TypeOK
    MutualExclusion
    UniqueRevisions
    PushedIsListed
PROPERTIES
    SlotsNeverFreed
    CanonicalTagsImmutable
    LedgerSpec
    EveryRunEnds
    UnlockIsReached
CHECK_DEADLOCK FALSE

SPECIFICATION PreparationSpec
CONSTANTS
    latest = latest
    focal = focal
    v1 = v1
    v2 = v2
    v9 = v9
    v10 = v10
    v11 = v11
    s1 = s1
    s2 = s2
    Tracks = {latest, focal}
    Latest = latest
    Revisions = {v1, v2, v9, v10, v11}
    Listed = {v1, v9, v10, v11}
    Requests = {}
    Dates = {0, 1}
    LastDay = 1
    Runs = {r1, r2}
    Triggers <- SomeTriggers
    Numbers <- InOrder
    ByName <- NameOrder
INVARIANTS
    BoardTypeOK
    EveryChannelResolves
    MergedAtOnce
    SomeRunSurvives
    DownwardMergeStaysValid
PROPERTIES
    TagsDriftByFollowingOnly
    EndedChannelsKeepTheirTags
    PinsAreServed
CHECK_DEADLOCK FALSE

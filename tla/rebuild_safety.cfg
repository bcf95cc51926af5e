SPECIFICATION RebuildSpec
CONSTANTS
    latest = latest
    focal = focal
    v1 = v1
    v2 = v2
    v3 = v3
    v4 = v4
    v5 = v5
    s1 = s1
    s2 = s2
    s3 = s3
    Tracks = {latest, focal}
    Latest = latest
    Revisions = {v1, v2, v3, v4, v5}
    Listed = {v1, v2, v3, v4, v5}
    Requests <- SomeRequests
    Dates = {0, 1}
    LastDay = 1
    Sources = {s1, s2, s3}
    BaseOf <- Bases
    Order <- InOrder
    Built <- OnePerSource
INVARIANTS
    RebuildTriggersAreValid
PROPERTIES
    RebuildIsTransparent
CHECK_DEADLOCK FALSE

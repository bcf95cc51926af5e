SPECIFICATION DocSpec
CONSTANTS
    latest = latest
    jammy = jammy
    focal = focal
    v1 = v1
    v2 = v2
    Tracks = {latest, jammy, focal}
    Latest = latest
    Revisions = {v1, v2}
    Listed = {v1, v2}
    Requests <- SomeRequests
    Dates = {0, 2}
    LastDay = 1
    DocRuns = {r1, r2}
    r1 = r1
    r2 = r2
    Versioned = {jammy, focal}
    Dashed = {focal}
    Contains <- AWord
    Alphabet <- Letters
    Override <- NoDates
    PageOf <- TwoPages
    MaxReleases = 2
    MaxFailures = 1
INVARIANT TableIsTrue
PROPERTY UndisturbedRunIsComplete
CHECK_DEADLOCK FALSE

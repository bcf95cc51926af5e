SPECIFICATION FairSpec
CONSTANTS
    jammy = jammy
    latest = latest
    v5 = v5
    v15 = v15
    Tracks = {jammy, latest}
    Latest = latest
    Revisions = {v5, v15}
    Listed = {v5, v15}
    EndsWith <- Digits
    Images <- Lexical
    Records <- SomeRecords
    Eol <- NoDates
    Now = 0
    MaxIssues = 3
    MaxFaults = 2
INVARIANT OldestStaysOpen
PROPERTIES
    VulnerabilityIsReported
    DuplicatesGo
CHECK_DEADLOCK FALSE

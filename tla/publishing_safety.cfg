SPECIFICATION Spec
CONSTANTS
    latest = latest
    focal = focal
    v1 = v1
    v2 = v2
    v3 = v3
    Tracks = {latest, focal}
    Latest = latest
    Revisions = {v1, v2, v3}
    Listed = {v1, v2}
    Runs = {r1, r2, r3}
    Requests <- SomeRequests
    Now = 1
    MaxPushes = 2
SYMMETRY RunSymmetry
INVARIANTS
    PublishingTypeOK
    RecordedChannelsResolve
    RegistriesAgree
PROPERTIES
    OnlyRequestedChannelsChange
    SerialReleases
CHECK_DEADLOCK FALSE

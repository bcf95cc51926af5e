SPECIFICATION FairSpec
CONSTANTS
    c1 = c1
    c2 = c2
    jammy0 = jammy0
    jammy1 = jammy1
    NoRef = NoRef
    Clients = {c1, c2}
    RefOf <- InTurn
    PageSize = 1
    MaxTries = 2
    MaxOthers = 1
    MaxFaults = 2
INVARIANTS
    ReportsItsOwnRun
    OneRunUnlessBusy
PROPERTY EveryClientEnds
CHECK_DEADLOCK FALSE

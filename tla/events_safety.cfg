SPECIFICATION FairSpec
CONSTANTS
    unit1 = unit1
    unit2 = unit2
    Workers = {unit1, unit2}
    NoWorker = NoWorker
    Events = 3
    LongLogs = {2}
    MaxAttempts = 3
    MaxFaults = 3
INVARIANTS
    EventsTypeOK
    NoScanTwice
    LossesNeedFaults
PROPERTY TopicIsDrained
CHECK_DEADLOCK FALSE

SPECIFICATION Spec
CONSTANTS
    r1 = r1
    r2 = r2
    jammy = jammy
    noble = noble
    NoRun = NoRun
    Runs = {r1, r2}
    Tracks = {jammy, noble}
    Uploads <- OneEach
    Existing <- OneExisting
    MaxPolls = 2
PROPERTIES
    OnlyLockersUnlock
CHECK_DEADLOCK FALSE

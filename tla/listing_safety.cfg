SPECIFICATION ListingSpec
CONSTANTS
    r1 = r1
    r2 = r2
    jammy = jammy
    noble = noble
    NoRun = NoRun
    Runs = {r1, r2}
    Tracks = {jammy, noble}
    Uploads <- EachItsOwn
    Existing <- OneExisting
    MaxPolls = 2
INVARIANTS
    RaisesForLockfileOnly
    TracksAreThePushed
CHECK_DEADLOCK FALSE

SPECIFICATION MSpec
CONSTANTS
    Written <- MCWritten
    Tests <- MCTests
    Others <- MCOthers
    Starts <- MCStarts
    MaxDisturbances = 2
    MaxUploads = 2
INVARIANTS
    WellFormed
    SeedIsSound
    CleanupIsSound
CHECK_DEADLOCK FALSE

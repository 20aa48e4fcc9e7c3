SPECIFICATION FairSpec
CONSTANTS
    r1 = r1
    r2 = r2
    None = None
    Readers <- MCReaders
    Changes <- MCChanges
    MaxChanges = 2
    MaxLosses = 1
INVARIANTS
    IInv
    PlacementsAreFresh
PROPERTIES
    ExactInTheEnd
CHECK_DEADLOCK FALSE

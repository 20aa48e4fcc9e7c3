SPECIFICATION Spec
CONSTANTS
    r1 = r1
    r2 = r2
    r3 = r3
    s0 = s0
    b1 = b1
    b2 = b2
    None = None
    Requests <- MCRequests
    First = s0
    Browsers <- MCBrowsers
    Home = b1
    Asks <- MCAsks
    FailureLimit = 5
    Failed0 = 3
    MaxFaults = 1
    MaxLapses = 1
SYMMETRY RequestSymmetry
INVARIANTS
    WellFormed
    ClosedForGood
    RefreshesExplained
CHECK_DEADLOCK FALSE

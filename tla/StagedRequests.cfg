SPECIFICATION Spec
CONSTANTS
    r1 = r1
    r2 = r2
    r3 = r3
    k0 = k0
    u1 = u1
    u2 = u2
    typed = typed
    t1 = t1
    t2 = t2
    None = None
    Blank = Blank
    Old = k0
    Typed = typed
    Requests <- MCRequests
    Asks <- MCAsks
    Urls <- MCUrls
    Trades <- MCTrades
    MaxFaults = 2
SYMMETRY RequestSymmetry
INVARIANTS
    IInv
    ObjectsFound
    OrphansExplained
    LessonMatchesUrl
CHECK_DEADLOCK FALSE

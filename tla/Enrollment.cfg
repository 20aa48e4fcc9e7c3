SPECIFICATION FairSpec
CONSTANTS
    r1 = r1
    r2 = r2
    r3 = r3
    k1 = k1
    k2 = k2
    k3 = k3
    k4 = k4
    b1 = b1
    b2 = b2
    n1 = n1
    n2 = n2
    n3 = n3
    n4 = n4
    n5 = n5
    None = None
    Requests <- MCRequests
    Known <- MCKnown
    Batches <- MCBatches
    Mobiles <- MCMobiles
    Dates <- MCDates
    Today <- MCToday
    Registered <- MCRegistered
    Capacity <- MCCapacity
    PoolSize = 2
    Asks <- MCAsks
CHECK_DEADLOCK FALSE
INVARIANTS
    IInv
    OverbookingBounded
    EnrolledAreVerified
    NoDuplicates
PROPERTIES
    EveryRequestAnswered

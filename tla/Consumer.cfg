SPECIFICATION FairSpec
CONSTANTS
    e1 = e1
    e2 = e2
    i1 = i1
    i2 = i2
    None = None
    Events <- MCEvents
    Instances <- MCInstances
    MaxLog = 2
    MaxFailures = 1
    MaxCrashes = 1
    MaxRebalances = 2
INVARIANTS
    IInv
    OneHandlerAtATime
    RepeatsAccounted
    LossesAccounted
PROPERTIES
    FinishedStaysFinished
    EventuallyCommitted
CHECK_DEADLOCK FALSE

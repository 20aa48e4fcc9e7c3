SPECIFICATION FairSpec
CONSTANTS
    m1 = m1
    m2 = m2
    w1 = w1
    w2 = w2
    i1 = i1
    i2 = i2
    r1 = r1
    r2 = r2
    a1 = a1
    None = None
    Messages <- MCMessages
    Ids <- MCIds
    Results <- MCResults
    Awards <- MCAwards
    IdOf <- SameIdOf
    ResultOf <- EachResultOf
    AwardOf <- MCAwardOf
    Workers <- MCWorkers
    WriteOnce = FALSE
    MaxReceives = 3
    BatchSize = 2
    MaxFailures = 1
    MaxCrashes = 1
    MaxTimeouts = 1
INVARIANTS
    IInv
    DocumentsAreStored
    HashesExplained
    LossesExplained
PROPERTIES
    EventuallyIssued
CHECK_DEADLOCK FALSE

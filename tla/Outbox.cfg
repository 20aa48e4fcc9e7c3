SPECIFICATION MCSpec
CONSTANTS
    e1 = e1
    e2 = e2
    w1 = w1
    w2 = w2
    NoRow = NoRow
    Events <- MCEvents
    IntegrationEvents <- MCIntegration
    Workers <- MCTwoWorkers
    Limit = 2
    MaxFailures = 2
    MaxCrashes = 1
INVARIANTS
    IInv
    SinglePublisher
    DuplicatesAccounted
PROPERTIES
    PublishedStaysSettled
    ImplementsDelivery
    EventuallyPublished

SPECIFICATION HearingSpec
CONSTANTS
    r1 = r1
    r2 = r2
    None = None
    Readers <- MCReaders
    Changes <- MCTopicChanges
    MaxChanges = 2
    MaxLosses = 1
PROPERTIES
    EventsAreHeard
CHECK_DEADLOCK FALSE

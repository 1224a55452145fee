SPECIFICATION DeliveryFairSpec
CHECK_DEADLOCK FALSE
CONSTANTS
    NumEvents = 3
    MidLimit = 2
    MaxQueued = 2
    SubscriberQueue = 2
    None = None
INVARIANTS
    LogHolds
    EverythingIsHeard
    SummaryHolds
PROPERTIES
    RefusedOnlyWhenFull
    PhaseConcludes

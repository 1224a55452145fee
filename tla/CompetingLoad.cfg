SPECIFICATION LoadSpec
CONSTANTS
    Duration = 5
    Observed = 2
    StartDelay = 3
    Startup = 2
    Quiet = 2
    Slow = 3
    Tail = 3
    Offsets <- MCOffsets
    Precision = 1
    MaxAttempts = 2
    MaxFaults = 2
INVARIANTS AcceptedIsCovered AcceptedIsWhole

SPECIFICATION FairSpec
CONSTANTS
    NumRuns = 2
    Policies <- MCPolicies
    Duration = 2
    LeaseDuration = 3
    Grain = 2
    PrefixAfterCreate = 2
    PrefixExisting = 1
    MaxTime = 4
    MaxMeddling = 1
INVARIANTS EvidenceCovers TornDownIsGone
PROPERTIES TeardownSparesOthers InvocationEnds
CHECK_DEADLOCK FALSE

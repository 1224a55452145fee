SPECIFICATION Spec
CONSTANTS
    UEs <- MCUEs
    PodOf <- MCPodOf
    Core = 0
    Addresses <- MCAddresses
    Pool <- MCPool
    Attempts = 2
    AcceptAge = 2
    EligibleAge = 1
    MaxRuns = 2
    MaxChanges = 2
INVARIANTS
    PublishedAsSealed
    JudgedRight

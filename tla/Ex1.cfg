SPECIFICATION Ex1Spec
CONSTANTS
    Procs = {1, 2}
    Workers = 2
    Plans <- MCPlans
    Codes <- MCCodes
    Checkout <- MCCheckout
    Worlds <- MCWorlds
    NumPowers = 3
    NumCounts = 3
    RegimeOf <- MCRegimeOf
    Fragile <- MCFragile
    MaxInvocations = 2
    MaxCampaigns = 1
    MaxEdits = 1
    MaxMishaps = 1
INVARIANTS EvidenceChain MarksAreEarned
PROPERTIES EvidenceStands

SPECIFICATION FairSpec
CONSTANTS
    Deployments = {d1, d2}
    Sessions = 2
    Replays = 4
    Arms = 2
    Interval = 2
    MaxDesign = 2
    MaxCampaigns = 2
    MaxFaults = 2
    None = None
INVARIANTS
    ReplaysAsPlanned
    RecordsHold
PROPERTIES
    EvidenceIsKept
    DriftEndsCampaign
    InvocationEnds

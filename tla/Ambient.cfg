SPECIFICATION AmbientFairSpec
CHECK_DEADLOCK FALSE
CONSTANTS
    Noise = 1
    ThresholdNum = 2
    ThresholdDen = 1
    CancelNum = 9
    CancelDen = 10
    Sic = TRUE
    NumNodes = 2
    NumStations = 2
    Gain <- MCGain
    Sensitivity = 5
    Shift <- MCShift
    Hearing = {1, 2}
    AlwaysPowered = {2}
    Protocols = {"broadcast", "unicast", "adaptive_aloha"}
    PreRegistration = {TRUE, FALSE}
    Slots = 2
    RegistrationSlots = 1
    MinSlots = 1
    MaxSlots = 2
    TxMs = 2
    RxMs = 3
    SensingMs = 1
    ProcessingMs = 1
    TransmittingMs = 2
    Dt = 1
    Interval = 4
    SensingPhases = {0}
    Startups = {0}
    Horizon = 22
    MaxBrownouts = 1
INVARIANTS
    NobodyIsUnheard
    SampleIsSentOnce
    OpportunitiesAccounted
    ReceptionIsSound
PROPERTIES
    SimulationEnds

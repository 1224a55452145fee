SPECIFICATION Spec
CHECK_DEADLOCK FALSE
CONSTANTS
    Native <- MCNative
    Sensors <- MCSensors
    ArmNames <- MCArms
    Warmup = 1
    Duration = 6
    Rounding = 1
    None = None
    Cohorts = {1, 2}
    Prescribed <- MCUEs
    Deployed <- MCUEs
    Workload = "g1"
    MaxFaults = 1
    Mappings <- MCMappings
    Offsets <- MCOffsets
    Deadline = 2
    AgeLimit = 2
    Drain = 2
    Uncertainty = 1
    MaxDelay = 2
    MaxMishaps = 1
INVARIANTS
    ArmsAreFaithful
    SummaryIsTrue

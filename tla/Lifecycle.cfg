SPECIFICATION FairSpec
CONSTANTS
    r1 = r1
    r2 = r2
    NoRun = NoRun
    Runs <- TwoRuns
    Physical = {r1}
    Booking <- BooksLease
    Options <- NoneOrAll
    Crashing = {"deploy", "teardown", "experiment"}
INVARIANTS
    FencedAlone
    EvidenceHolds
PROPERTIES
    SuccessIsRetained
    ContractImplemented
    FencedTestbedSettles

SPECIFICATION FairSpec
CONSTANTS
    n1 = n1
    n2 = n2
    Nodes <- BothNodes
    Shared <- OneShared
    Events = {e1, e2}
    Ids = {a, b}
    Folders = {f1, f2, f3}
    Foreign = Foreign
    NoEvent = NoEvent
    NoNode = NoNode
    None = None
INVARIANTS
    MutationIsLawful
    ReadyIsEarned
PROPERTY PreparationConcludes

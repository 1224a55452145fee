SPECIFICATION ArchiveFairSpec
CONSTANTS
    Files = {f1, f2}
    Versions = {v1, v2}
    Original = v1
    Temporary = theTemporary
    Leftovers = {l1, l2}
    Kinds <- AnyKind
    Outliving <- Unchanging
    Stamps = {s1, s2, s3, s4}
    Manifest = theManifest
    Marker = theMarker
    None = None
    Torn = Torn
INVARIANTS
    NothingBlocksRetry
    ArchiveIsWhole
PROPERTIES
    EvidenceIsImmutable
    EventuallySealed

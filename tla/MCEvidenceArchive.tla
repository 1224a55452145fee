------------------------- MODULE MCEvidenceArchive -------------------------
(* Instance of EvidenceArchive for TLC.  A run and a campaign snapshot have   *)
(* directories that are complete before they are archived, and an mc command *)
(* for either may outlive its controller; a result directory, archived by    *)
(* hand, may change while it is.                                             *)
EXTENDS EvidenceArchive

Unchanging == {"run", "snapshot"}
AnyKind    == Unchanging \cup {"result"}
OnlyRuns   == {"run"}
=============================================================================

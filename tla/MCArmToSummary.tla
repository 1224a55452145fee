--------------------------- MODULE MCArmToSummary ---------------------------
(***************************************************************************)
(* Two cohorts of three timing arms: one event of the warm-up and three    *)
(* that are measured, with unequal gaps.  The trace was generated for the  *)
(* two UEs of the testbed, one of which is to compete; sensors are on two  *)
(* gateways, or after mapping both on one.                                 *)
(***************************************************************************)
EXTENDS ArmToSummary

MCNative == <<[id |-> 1, sensor |-> "a", born |-> 0, at |-> 0],
              [id |-> 2, sensor |-> "b", born |-> 1, at |-> 1],
              [id |-> 3, sensor |-> "a", born |-> 3, at |-> 3],
              [id |-> 4, sensor |-> "a", born |-> 4, at |-> 4]>>

MCSensors  == {"a", "b"}
MCArms     == <<"native", "gap_permutation_r1", "periodic">>
MCUEs      == {"g1", "g2"}
MCMappings == {[a |-> "g1", b |-> "g2"], [a |-> "g1", b |-> "g1"]}
MCOffsets  == {[g1 |-> 1, g2 |-> -1], [g1 |-> 0, g2 |-> 1]}
=============================================================================

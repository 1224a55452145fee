--------------------------- MODULE MCCompetingLoad ---------------------------
(***************************************************************************)
(* Two attempts, each a replay or a probe, of five ticks; the clocks of    *)
(* publisher and competitor are one tick apart.                            *)
(***************************************************************************)
EXTENDS CompetingLoad

MCOffsets == {1}
=============================================================================

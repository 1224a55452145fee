------------------------- MODULE MCFreshPreparation -------------------------
(* Instance of FreshPreparation for TLC: two nodes, one of which others may   *)
(* use between two runs, under two calendar events, with as many folders as   *)
(* are needed for each event to find a fresh one.                             *)
EXTENDS FreshPreparation

CONSTANTS n1, n2

BothNodes == {n1, n2}
OneShared == {n1}
=============================================================================

---------------------------- MODULE MCAmbientAccess ----------------------------
(* Instance of AmbientAccess for TLC: two nodes and two base stations, one   *)
(* that hears the nodes at different strengths (capture, then cancellation)  *)
(* and one that hears them alike (collision).                               *)
EXTENDS AmbientAccess

MCGain == <<<<40, 10>>, <<20, 20>>>>
MCShift == <<0, 0>>
==============================================================================

--------------------------- MODULE MCMqttDelivery ---------------------------
(* Instance of MqttDelivery for TLC: more events than identifiers, and a     *)
(* queue as long as the identifiers allow, so that each of them is used      *)
(* again and the queue is full.                                              *)
EXTENDS MqttDelivery
=============================================================================

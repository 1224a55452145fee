-------------------------- MODULE MCTestbedIdentity --------------------------
(***************************************************************************)
(* Two UEs, each in a pod of its own and both of one slice, with one       *)
(* address more than the slice has; the user plane is pod 0.               *)
(***************************************************************************)
EXTENDS TestbedIdentity

MCUEs   == 1 .. 2
MCPodOf == [u \in MCUEs |-> u]
MCPool  == [u \in MCUEs |-> {11, 12}]
MCAddresses == {11, 12, 21}
=============================================================================

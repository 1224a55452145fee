-------------------------- MODULE MCCausalCampaign --------------------------
(* Instance of CausalCampaign for TLC: two sessions of two matched blocks.   *)
EXTENDS CausalCampaign
=============================================================================

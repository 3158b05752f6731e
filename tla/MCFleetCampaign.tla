-------------------------- MODULE MCFleetCampaign --------------------------
(* Runs of FleetCampaign for model checking. *)
EXTENDS FleetCampaign
=============================================================================

---------------------------- MODULE MCCampaigns ----------------------------
(* Instances of Campaigns for TLC. *)
EXTENDS Campaigns, TLC

Symmetry == Permutations(Customers) \cup Permutations(Presses)
=============================================================================

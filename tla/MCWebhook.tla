------------------------------ MODULE MCWebhook ------------------------------
(* Instances of Webhook for TLC. *)
EXTENDS Webhook, TLC

Symmetry == Permutations(Deliveries) \cup Permutations(Events)
=============================================================================

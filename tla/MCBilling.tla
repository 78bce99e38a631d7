----------------------------- MODULE MCBilling -----------------------------
(***************************************************************************)
(* The instance of Billing that TLC checks.                                *)
(***************************************************************************)
EXTENDS Billing, TLC

Symmetry == Permutations(Requests)
=============================================================================

--------------------------- MODULE MCProvisioning ---------------------------
(***************************************************************************)
(* The instance of Provisioning that TLC checks.  One of the people a      *)
(* business may be onboarded for has the address of a sample's owner.      *)
(***************************************************************************)
EXTENDS Provisioning, TLC

CONSTANTS b1, b2

SampleList == <<b1, b2>>
Symmetry == Permutations(Requests)
=============================================================================

------------------------------ MODULE MCOrders ------------------------------
(* Instances of Orders for TLC: two products, one ordered twice. *)
EXTENDS Orders, TLC

CONSTANTS p1, p2

QuantityOf == p1 :> 1 @@ p2 :> 2

Symmetry == Permutations(Movers)
=============================================================================

------------------------------- MODULE MCDesk -------------------------------
(***************************************************************************)
(* The instance of Desk that TLC checks.                                   *)
(***************************************************************************)
EXTENDS Desk, TLC

Symmetry ==
  Permutations(Requests) \cup Permutations(Staff) \cup Permutations(Businesses)
    \cup Permutations(Segments) \cup Permutations(Templates)
=============================================================================

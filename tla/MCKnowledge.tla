----------------------------- MODULE MCKnowledge -----------------------------
(***************************************************************************)
(* The instance of Knowledge that TLC checks.                              *)
(***************************************************************************)
EXTENDS Knowledge
=============================================================================

-------------------------- MODULE CampaignPromise --------------------------
(***************************************************************************)
(* What one press of Send promises (docs/campaigns.md), without tasks,     *)
(* batches or counters: the campaign either fails before anybody is        *)
(* enlisted, or enlists some customers once, decides each of them once,    *)
(* and is sent only when all are decided.                                  *)
(***************************************************************************)
CONSTANT Customers

VARIABLES
  phase,  \* "open", "sending", "sent" or "failed"
  fate    \* per customer: "none", "pending", "sent", "failed" or "skipped"

vars == <<phase, fate>>

Init == /\ phase = "open"
        /\ fate = [c \in Customers |-> "none"]

Begin == /\ phase = "open"
         /\ phase' = "sending"
         /\ UNCHANGED fate

\* The audience is a snapshot: fixed at once, and only before any decision.
Enlist == /\ phase = "sending"
          /\ \A c \in Customers : fate[c] = "none"
          /\ \E S \in (SUBSET Customers) \ {{}} :
               fate' = [c \in Customers |-> IF c \in S THEN "pending" ELSE "none"]
          /\ UNCHANGED phase

Decide(c) == /\ phase = "sending"
             /\ fate[c] = "pending"
             /\ \E d \in {"sent", "failed", "skipped"} :
                  fate' = [fate EXCEPT ![c] = d]
             /\ UNCHANGED phase

Complete == /\ phase = "sending"
            /\ \A c \in Customers : fate[c] # "pending"
            /\ \E c \in Customers : fate[c] # "none"
            /\ phase' = "sent"
            /\ UNCHANGED fate

Abandon == /\ phase = "sending"
           /\ \A c \in Customers : fate[c] = "none"
           /\ phase' = "failed"
           /\ UNCHANGED fate

Next == Begin \/ Enlist \/ Complete \/ Abandon
        \/ \E c \in Customers : Decide(c)

Spec == Init /\ [][Next]_vars
=============================================================================

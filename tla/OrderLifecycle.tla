--------------------------- MODULE OrderLifecycle ---------------------------
(***************************************************************************)
(* What Order.ALLOWED_TRANSITIONS and its comment promise: a forward-only  *)
(* order whose last stages are terminal, and that leaves "pending" towards *)
(* fulfilment only by being confirmed by somebody.                         *)
(***************************************************************************)
CONSTANTS Users, Nobody

VARIABLES status, confirmed_by

vars == <<status, confirmed_by>>

Status == {"pending", "confirmed", "processing", "ready", "delivered",
           "cancelled"}

\* Order.ALLOWED_TRANSITIONS.
ALLOWED_TRANSITIONS ==
  [s \in Status |->
     CASE s = "pending"    -> {"confirmed", "cancelled"}
       [] s = "confirmed"  -> {"processing", "cancelled"}
       [] s = "processing" -> {"ready", "cancelled"}
       [] s = "ready"      -> {"delivered", "cancelled"}
       [] OTHER            -> {}]

Init == status = "pending" /\ confirmed_by = Nobody

Confirm(u) == /\ status = "pending"
              /\ status' = "confirmed"
              /\ confirmed_by' = u

Move == /\ \E s \in ALLOWED_TRANSITIONS[status] \ {"confirmed"} : status' = s
        /\ UNCHANGED confirmed_by

Next == Move \/ \E u \in Users : Confirm(u)

Spec == Init /\ [][Next]_vars
=============================================================================

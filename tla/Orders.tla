------------------------------- MODULE Orders -------------------------------
(***************************************************************************)
(* One order: its creation with prices snapshotted from the catalog, the   *)
(* status endpoint (OrderStatusTransitionView) and PATCH (OrderDetailView).*)
(*                                                                         *)
(* A request reads the order, decides on what it read and saves, each a    *)
(* statement of its own: there is no lock and no transaction around them.  *)
(* Only the creation is atomic.                                            *)
(***************************************************************************)
EXTENDS Naturals, FiniteSets, Functions

CONSTANTS
  Products,   \* products on the order
  Prices,     \* prices a product may have
  Quantity,   \* [Products -> quantity ordered]
  Movers,     \* POST .../status/ requests, each by a user of its own
  Editors,    \* PATCH .../orders/{id}/ requests
  Nobody,     \* no user
  Unread,     \* a price that has not been read yet
  MaxServed   \* requests the web server works on at the same time

ASSUME OrdersAssumption ==
  /\ Prices \subseteq Nat /\ Prices # {}
  /\ Quantity \in [Products -> Nat \ {0}]
  /\ Nobody \notin Movers /\ Unread \notin Prices
  /\ IsFiniteSet(Products) /\ IsFiniteSet(Movers) /\ IsFiniteSet(Editors)
  /\ MaxServed \in Nat \ {0}

VARIABLES
  price,         \* Product.price, changed by managers at any time
  cart,          \* the creating request: the price of each product it read
  created,       \* the order exists
  items,         \* OrderItem rows: unit_price and subtotal of each product
  total_amount,  \* Order.total_amount
  status,        \* Order.status
  confirmed_by,  \* Order.confirmed_by
  pc,            \* where each request stands
  loaded,        \* the Order instance each request holds: status, confirmed_by
  target,        \* the status each Mover asks for
  audit,         \* AuditLog rows ORDER_STATUS_CHANGED: set of <<from, to>>
  offered        \* history: prices each product had since the cart was opened

order == <<created, items, total_amount>>
vars == <<price, cart, created, items, total_amount, status, confirmed_by, pc,
          loaded, target, audit, offered>>

Life == INSTANCE OrderLifecycle WITH Users <- Movers

Status   == Life!Status
Terminal == {"delivered", "cancelled"}
Fulfilling == {"confirmed", "processing", "ready", "delivered"}
Requests == Movers \cup Editors
Serving  == {"loaded", "allowed", "saved"}
NoItem   == [unit_price |-> 0, subtotal |-> 0]

InService == {r \in Requests : pc[r] \in Serving}

Init ==
  /\ price \in [Products -> Prices]
  /\ cart = [p \in Products |-> Unread]
  /\ created = FALSE
  /\ items = [p \in Products |-> NoItem]
  /\ total_amount = 0
  /\ status = "pending" /\ confirmed_by = Nobody
  /\ pc = [r \in Requests |-> "idle"]
  /\ loaded = [r \in Requests |-> [status |-> "pending", by |-> Nobody]]
  /\ target = [m \in Movers |-> "pending"]
  /\ audit = {}
  /\ offered = [p \in Products |-> {price[p]}]

(***************************************************************************)
(* OrderListCreateView.create.                                             *)
(***************************************************************************)

\* Validation fetches each item's product, and with it its price, in turn.
ReadProduct(p) ==
  /\ ~created /\ cart[p] = Unread
  /\ cart' = [cart EXCEPT ![p] = price[p]]
  /\ UNCHANGED <<price, order, status, confirmed_by, pc, loaded, target, audit,
                 offered>>

\* Mutant of OrderItem: the subtotal is derived from the live product.
LiveItem(p) ==
  [unit_price |-> cart[p], subtotal |-> price[p] * Quantity[p]]

\* OrderItem.save: the line for the price that was read.
OrderItem(p) ==
  [unit_price |-> cart[p], subtotal |-> cart[p] * Quantity[p]]

\* perform_create: order, items and total in one transaction.
CreateOrder ==
  /\ ~created /\ \A p \in Products : cart[p] # Unread
  /\ created' = TRUE
  /\ items' = [p \in Products |-> OrderItem(p)]
  /\ total_amount' = SumFunction([p \in Products |-> OrderItem(p).subtotal])
  /\ UNCHANGED <<price, cart, status, confirmed_by, pc, loaded, target, audit,
                 offered>>

\* PATCH of a product by a manager.
SetPrice(p, v) ==
  /\ price[p] # v
  /\ price' = [price EXCEPT ![p] = v]
  /\ offered' = IF created THEN offered
                ELSE [offered EXCEPT ![p] = @ \cup {v}]
  /\ UNCHANGED <<cart, order, status, confirmed_by, pc, loaded, target, audit>>

(***************************************************************************)
(* OrderStatusTransitionView.post.                                         *)
(***************************************************************************)

\* Any request starts by loading the order, if the server has a free worker.
Load(r) ==
  /\ created /\ pc[r] = "idle"
  /\ Cardinality(InService) < MaxServed
  /\ pc' = [pc EXCEPT ![r] = "loaded"]
  /\ loaded' = [loaded EXCEPT ![r] = [status |-> status, by |-> confirmed_by]]
  /\ UNCHANGED <<price, cart, order, status, confirmed_by, target, audit,
                 offered>>

\* Mutant of CheckTransition: anything goes until the order is terminal.
CheckOpen(m, s) ==
  /\ pc[m] = "loaded"
  /\ pc' = [pc EXCEPT ![m] =
       IF loaded[m].status \notin Terminal THEN "allowed" ELSE "done"]
  /\ target' = [target EXCEPT ![m] = s]
  /\ UNCHANGED <<price, cart, order, status, confirmed_by, loaded, audit,
                 offered>>

\* can_transition_to looks at the instance, not at the database.
CheckTransition(m, s) ==
  /\ pc[m] = "loaded"
  /\ pc' = [pc EXCEPT ![m] =
       IF s \in Life!ALLOWED_TRANSITIONS[loaded[m].status]
       THEN "allowed" ELSE "done"]
  /\ target' = [target EXCEPT ![m] = s]
  /\ UNCHANGED <<price, cart, order, status, confirmed_by, loaded, audit,
                 offered>>

\* Mutant of SaveStatus: confirmed_by is missing from update_fields.
SaveStatusOnly(m) ==
  /\ pc[m] = "allowed"
  /\ pc' = [pc EXCEPT ![m] = "saved"]
  /\ status' = target[m]
  /\ UNCHANGED <<price, cart, order, confirmed_by, loaded, target, audit,
                 offered>>

\* save(update_fields): confirmed_by is written only on confirmation.
SaveStatus(m) ==
  /\ pc[m] = "allowed"
  /\ pc' = [pc EXCEPT ![m] = "saved"]
  /\ status' = target[m]
  /\ confirmed_by' = IF target[m] = "confirmed" THEN m ELSE confirmed_by
  /\ UNCHANGED <<price, cart, order, loaded, target, audit, offered>>

\* Mutant of LogTransition: the status the order already has is logged as the
\* one it comes from.
LogReversed(m) ==
  /\ pc[m] = "saved"
  /\ pc' = [pc EXCEPT ![m] = "done"]
  /\ audit' = audit \cup {<<target[m], loaded[m].status>>}
  /\ UNCHANGED <<price, cart, order, status, confirmed_by, loaded, target,
                 offered>>

\* AuditLog.log is one more statement; the request may be overtaken before it.
LogTransition(m) ==
  /\ pc[m] = "saved"
  /\ pc' = [pc EXCEPT ![m] = "done"]
  /\ audit' = audit \cup {<<loaded[m].status, target[m]>>}
  /\ UNCHANGED <<price, cart, order, status, confirmed_by, loaded, target,
                 offered>>

(***************************************************************************)
(* OrderDetailView: serializer.save() writes every column it has loaded    *)
(* (and a total_amount nobody changes once the order exists).              *)
(***************************************************************************)

SaveEdit(e) ==
  /\ pc[e] = "loaded"
  /\ pc' = [pc EXCEPT ![e] = "done"]
  /\ status' = loaded[e].status
  /\ confirmed_by' = loaded[e].by
  /\ UNCHANGED <<price, cart, order, loaded, target, audit, offered>>

Next ==
  \/ CreateOrder
  \/ \E p \in Products : ReadProduct(p) \/ \E v \in Prices : SetPrice(p, v)
  \/ \E r \in Requests : Load(r)
  \/ \E m \in Movers : \/ \E s \in Status : CheckTransition(m, s)
                       \/ SaveStatus(m) \/ LogTransition(m)
  \/ \E e \in Editors : SaveEdit(e)

Spec == Init /\ [][Next]_vars

-----------------------------------------------------------------------------
TypeOK ==
  /\ price \in [Products -> Prices]
  /\ cart \in [Products -> Prices \cup {Unread}]
  /\ created \in BOOLEAN
  /\ items \in [Products -> [unit_price : Nat, subtotal : Nat]]
  /\ status \in Status /\ confirmed_by \in Movers \cup {Nobody}
  /\ pc \in [Requests -> {"idle", "loaded", "allowed", "saved", "done"}]
  /\ loaded \in [Requests -> [status : Status, by : Movers \cup {Nobody}]]
  /\ target \in [Movers -> Status]
  /\ audit \subseteq Status \X Status
  /\ offered \in [Products -> SUBSET Prices]

\* A PATCH has written back what it had loaded.
Patched == \E e \in Editors : pc[e] = "done"

\* However status requests overlap, an order on its way to the customer has
\* been confirmed by somebody; only a PATCH can wipe the confirmation out.
FulfilledWasConfirmed ==
  Patched \/ (status \in Fulfilling => confirmed_by # Nobody)

\* Only allowed moves are ever logged, and when no status request is at work
\* the status the order has is one the log accounts for.
AuditExplains ==
  /\ \A a \in audit : a[2] \in Life!ALLOWED_TRANSITIONS[a[1]]
  /\ (\A m \in Movers : pc[m] # "saved") =>
       status = "pending" \/ \E a \in audit : a[2] = status

\* The total is the sum over the items at prices offered while the customer
\* was ordering, and nothing that happens later changes it.
TotalIsSnapshot ==
  created =>
    /\ \A p \in Products : items[p].unit_price \in offered[p]
    /\ total_amount =
         SumFunction([p \in Products |-> items[p].unit_price * Quantity[p]])

\* Served one at a time, requests implement the promised lifecycle: a PATCH
\* that nothing overlaps writes back what is there.
FollowsLifecycle == Life!Spec
=============================================================================

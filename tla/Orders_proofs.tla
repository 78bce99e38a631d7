--------------------------- MODULE Orders_proofs ---------------------------
(***************************************************************************)
(* Proofs about Orders, for any products, prices, quantities and any       *)
(* number of overlapping requests.                                         *)
(***************************************************************************)
EXTENDS Orders, FiniteSetTheorems, TLAPS

(***************************************************************************)
(* Type correctness.                                                       *)
(***************************************************************************)

\* TypeOK holds of the initial states.
LEMMA TypeInit == Init => TypeOK
  <1> SUFFICES ASSUME Init PROVE TypeOK  OBVIOUS
  <1> USE DEF Init
  <1>1. NoItem \in [unit_price : Nat, subtotal : Nat]  BY DEF NoItem
  <1>2. items \in [Products -> [unit_price : Nat, subtotal : Nat]]  BY <1>1
  <1>3. {"pending"} \subseteq Status  BY DEF Status, Life!Status
  <1>4. /\ loaded \in [Requests -> [status : Status, by : Movers \cup {Nobody}]]
        /\ target \in [Movers -> Status]
    BY <1>3
  <1>5. offered \in [Products -> SUBSET Prices]  OBVIOUS
  <1>6. QED  BY <1>2, <1>3, <1>4, <1>5 DEF TypeOK

\* Every step, of the catalog or of a request, keeps the types.
LEMMA TypeNext == TypeOK /\ [Next]_vars => TypeOK'
  <1> SUFFICES ASSUME TypeOK, [Next]_vars PROVE TypeOK'  OBVIOUS
  <1> USE OrdersAssumption
      DEF TypeOK, order, Requests, Status, Life!Status, Life!ALLOWED_TRANSITIONS
  <1>1. CASE CreateOrder
    <2>1. \A p \in Products : OrderItem(p) \in [unit_price : Nat, subtotal : Nat]
      <3> TAKE p \in Products
      <3>1. cart[p] \in Nat /\ Quantity[p] \in Nat  BY <1>1 DEF CreateOrder
      <3>2. cart[p] * Quantity[p] \in Nat  BY ONLY <3>1
      <3>3. QED  BY <3>1, <3>2 DEF OrderItem
    <2>2. items' \in [Products -> [unit_price : Nat, subtotal : Nat]]
      BY <1>1, <2>1 DEF CreateOrder
    <2>3. QED  BY <1>1, <2>2 DEF CreateOrder
  <1>2. ASSUME NEW p \in Products, ReadProduct(p) PROVE TypeOK'
    BY <1>2 DEF ReadProduct
  <1>3. ASSUME NEW p \in Products, NEW v \in Prices, SetPrice(p, v) PROVE TypeOK'
    BY <1>3 DEF SetPrice
  <1>4. ASSUME NEW r \in Requests, Load(r) PROVE TypeOK'
    BY <1>4 DEF Load
  <1>5. ASSUME NEW m \in Movers, NEW s \in Status, CheckTransition(m, s)
        PROVE  TypeOK'
    BY <1>5 DEF CheckTransition
  <1>6. ASSUME NEW m \in Movers, SaveStatus(m) PROVE TypeOK'
    BY <1>6 DEF SaveStatus
  <1>7. ASSUME NEW m \in Movers, LogTransition(m) PROVE TypeOK'
    BY <1>7 DEF LogTransition
  <1>8. ASSUME NEW e \in Editors, SaveEdit(e) PROVE TypeOK'
    BY <1>8 DEF SaveEdit
  <1>9. CASE UNCHANGED vars  BY <1>9 DEF vars
  <1>10. QED
    BY <1>1, <1>2, <1>3, <1>4, <1>5, <1>6, <1>7, <1>8, <1>9 DEF Next

\* Every variable of the order, its requests and the catalog keeps its type.
THEOREM TypeCorrect == Spec => []TypeOK
  BY TypeInit, TypeNext, PTL DEF Spec

(***************************************************************************)
(* A request that may save or has saved asks for a move that the table     *)
(* allows from the status the request loaded.                              *)
(***************************************************************************)

MovesAllowed ==
  \A m \in Movers : pc[m] \in {"allowed", "saved"} =>
    target[m] \in Life!ALLOWED_TRANSITIONS[loaded[m].status]

\* The check happens once and nothing the request holds changes after it.
LEMMA MovesAllowedNext == TypeOK /\ MovesAllowed /\ [Next]_vars => MovesAllowed'
  <1> SUFFICES ASSUME TypeOK, MovesAllowed, [Next]_vars PROVE MovesAllowed'
    OBVIOUS
  <1> USE DEF TypeOK, MovesAllowed, Requests
  <1>1. CASE CreateOrder  BY <1>1 DEF CreateOrder
  <1>2. ASSUME NEW p \in Products, ReadProduct(p) PROVE MovesAllowed'
    BY <1>2 DEF ReadProduct
  <1>3. ASSUME NEW p \in Products, NEW v \in Prices, SetPrice(p, v)
        PROVE  MovesAllowed'
    BY <1>3 DEF SetPrice
  <1>4. ASSUME NEW r \in Requests, Load(r) PROVE MovesAllowed'
    BY <1>4 DEF Load
  <1>5. ASSUME NEW m \in Movers, NEW s \in Status, CheckTransition(m, s)
        PROVE  MovesAllowed'
    BY <1>5 DEF CheckTransition
  <1>6. ASSUME NEW m \in Movers, SaveStatus(m) PROVE MovesAllowed'
    BY <1>6 DEF SaveStatus
  <1>7. ASSUME NEW m \in Movers, LogTransition(m) PROVE MovesAllowed'
    BY <1>7 DEF LogTransition
  <1>8. ASSUME NEW e \in Editors, SaveEdit(e) PROVE MovesAllowed'
    BY <1>8 DEF SaveEdit
  <1>9. CASE UNCHANGED vars  BY <1>9 DEF vars
  <1>10. QED
    BY <1>1, <1>2, <1>3, <1>4, <1>5, <1>6, <1>7, <1>8, <1>9 DEF Next

\* MovesAllowed is an invariant.
LEMMA MovesAllowedCorrect == Spec => []MovesAllowed
  <1>1. Init => MovesAllowed  BY DEF Init, MovesAllowed, Requests
  <1>2. QED  BY <1>1, MovesAllowedNext, TypeCorrect, PTL DEF Spec

(***************************************************************************)
(* Fulfilment starts with a confirmation.                                  *)
(***************************************************************************)

\* Whoever has read a status on the way to the customer read it after the
\* confirmation, which nobody but a PATCH takes back.
ConfirmedInv ==
  ~Patched =>
    /\ status \in Fulfilling => confirmed_by # Nobody
    /\ \A r \in Requests :
         loaded[r].status \in Fulfilling => confirmed_by # Nobody

\* A step keeps it: only a confirmation enters Fulfilling from outside.
LEMMA ConfirmedNext ==
  ASSUME TypeOK, MovesAllowed, ConfirmedInv, [Next]_vars
  PROVE  ConfirmedInv'
  <1> USE OrdersAssumption
      DEF TypeOK, ConfirmedInv, Patched, Requests, Fulfilling
  <1>1. CASE CreateOrder  BY <1>1 DEF CreateOrder
  <1>2. ASSUME NEW p \in Products, ReadProduct(p) PROVE ConfirmedInv'
    BY <1>2 DEF ReadProduct
  <1>3. ASSUME NEW p \in Products, NEW v \in Prices, SetPrice(p, v)
        PROVE  ConfirmedInv'
    BY <1>3 DEF SetPrice
  <1>4. ASSUME NEW r \in Requests, Load(r) PROVE ConfirmedInv'
    BY <1>4 DEF Load
  <1>5. ASSUME NEW m \in Movers, NEW s \in Status, CheckTransition(m, s)
        PROVE  ConfirmedInv'
    BY <1>5 DEF CheckTransition
  <1>6. ASSUME NEW m \in Movers, SaveStatus(m) PROVE ConfirmedInv'
    <2>1. target[m] \in Life!ALLOWED_TRANSITIONS[loaded[m].status]
      BY <1>6 DEF SaveStatus, MovesAllowed
    <2>2. target[m] \in Fulfilling \ {"confirmed"}
            => loaded[m].status \in Fulfilling
      BY <2>1 DEF Life!ALLOWED_TRANSITIONS, Status, Life!Status
    <2>3. CASE target[m] = "confirmed"  BY <1>6, <2>3 DEF SaveStatus
    <2>4. CASE target[m] # "confirmed"  BY <1>6, <2>2, <2>4 DEF SaveStatus
    <2>5. QED  BY <2>3, <2>4
  <1>7. ASSUME NEW m \in Movers, LogTransition(m) PROVE ConfirmedInv'
    BY <1>7 DEF LogTransition
  <1>8. ASSUME NEW e \in Editors, SaveEdit(e) PROVE ConfirmedInv'
    BY <1>8 DEF SaveEdit
  <1>9. CASE UNCHANGED vars  BY <1>9 DEF vars
  <1>10. QED
    BY <1>1, <1>2, <1>3, <1>4, <1>5, <1>6, <1>7, <1>8, <1>9 DEF Next

\* However status requests overlap, an order on its way to the customer was
\* confirmed by somebody, until a PATCH writes old columns back.
THEOREM Confirmed == Spec => []FulfilledWasConfirmed
  <1>1. Init => ConfirmedInv
    BY DEF Init, ConfirmedInv, Fulfilling, Requests
  <1>2. TypeOK /\ MovesAllowed /\ ConfirmedInv /\ [Next]_vars => ConfirmedInv'
    BY ConfirmedNext
  <1>3. ConfirmedInv => FulfilledWasConfirmed
    BY DEF ConfirmedInv, FulfilledWasConfirmed
  <1>4. QED
    BY <1>1, <1>2, <1>3, TypeCorrect, MovesAllowedCorrect, PTL DEF Spec

(***************************************************************************)
(* The audit log explains the status, with and without PATCH.              *)
(***************************************************************************)

\* A status that the log accounts for, or will once a saved move is logged.
Explained(s) ==
  \/ s = "pending"
  \/ \E m \in Movers : pc[m] = "saved" /\ target[m] = s
  \/ \E a \in audit : a[2] = s

\* Not only the status in the database: a PATCH may put back any that was read.
AuditInv ==
  /\ \A a \in audit : a[2] \in Life!ALLOWED_TRANSITIONS[a[1]]
  /\ Explained(status)
  /\ \A r \in Requests : Explained(loaded[r].status)

\* Explained is monotone: no step takes back a log entry, and a saved move
\* leaves "saved" only by being logged.
LEMMA StaysExplained ==
  ASSUME TypeOK, [Next]_vars, NEW s \in Status, Explained(s)
  PROVE  Explained(s)'
  <1> USE DEF TypeOK, Explained, Requests
  <1>1. CASE CreateOrder  BY <1>1 DEF CreateOrder
  <1>2. ASSUME NEW p \in Products, ReadProduct(p) PROVE Explained(s)'
    BY <1>2 DEF ReadProduct
  <1>3. ASSUME NEW p \in Products, NEW v \in Prices, SetPrice(p, v)
        PROVE  Explained(s)'
    BY <1>3 DEF SetPrice
  <1>4. ASSUME NEW r \in Requests, Load(r) PROVE Explained(s)'
    BY <1>4 DEF Load
  <1>5. ASSUME NEW m \in Movers, NEW t \in Status, CheckTransition(m, t)
        PROVE  Explained(s)'
    BY <1>5 DEF CheckTransition
  <1>6. ASSUME NEW m \in Movers, SaveStatus(m) PROVE Explained(s)'
    BY <1>6 DEF SaveStatus
  <1>7. ASSUME NEW m \in Movers, LogTransition(m) PROVE Explained(s)'
    <2>1. <<loaded[m].status, target[m]>> \in audit'  BY <1>7 DEF LogTransition
    <2>2. audit \subseteq audit'  BY <1>7 DEF LogTransition
    <2>3. CASE pc[m] = "saved" /\ target[m] = s  BY <2>1, <2>3
    <2>4. CASE ~(pc[m] = "saved" /\ target[m] = s)
      BY <1>7, <2>2, <2>4 DEF LogTransition
    <2>5. QED  BY <2>3, <2>4
  <1>8. ASSUME NEW e \in Editors, SaveEdit(e) PROVE Explained(s)'
    BY <1>8 DEF SaveEdit
  <1>9. CASE UNCHANGED vars  BY <1>9 DEF vars
  <1>10. QED
    BY <1>1, <1>2, <1>3, <1>4, <1>5, <1>6, <1>7, <1>8, <1>9 DEF Next

\* AuditInv is kept: what a step writes or reads was explained before it, or
\* is the move it saves.
LEMMA AuditNext ==
  ASSUME TypeOK, MovesAllowed, AuditInv, [Next]_vars PROVE AuditInv'
  <1> USE DEF TypeOK, Requests
  <1>1. \A t \in Status : Explained(t) => Explained(t)'  BY StaysExplained
  <1>2. Explained(status) /\ \A r \in Requests : Explained(loaded[r].status)
    BY DEF AuditInv
  <1>3. Explained(status)'
    <2>1. \/ status' = status
          \/ \E m \in Movers : SaveStatus(m)
          \/ \E e \in Editors : SaveEdit(e)
      BY DEF Next, vars, CreateOrder, ReadProduct, SetPrice, Load,
             CheckTransition, LogTransition
    <2>2. CASE status' = status
      <3>1. Explained(status)  BY <1>2
      <3>2. QED  BY <1>1, <2>2, <3>1 DEF Explained
    <2>3. ASSUME NEW m \in Movers, SaveStatus(m) PROVE Explained(status)'
      BY <2>3 DEF SaveStatus, Explained
    <2>4. ASSUME NEW e \in Editors, SaveEdit(e) PROVE Explained(status)'
      <3>1. loaded[e].status \in Status /\ Explained(loaded[e].status)  BY <1>2
      <3>2. status' = loaded[e].status  BY <2>4 DEF SaveEdit
      <3>3. QED  BY <1>1, <3>1, <3>2 DEF Explained
    <2>5. QED  BY <2>1, <2>2, <2>3, <2>4
  <1>4. ASSUME NEW r \in Requests PROVE Explained(loaded[r].status)'
    <2>0. loaded' = loaded \/ \E q \in Requests : Load(q)
      BY DEF Next, vars, CreateOrder, ReadProduct, SetPrice,
             CheckTransition, SaveStatus, LogTransition, SaveEdit
    <2>1. ASSUME NEW q \in Requests, Load(q)
          PROVE  /\ r # q => loaded'[r] = loaded[r]
                 /\ r = q => loaded'[r].status = status
                 /\ status' = status
      BY <2>1 DEF Load
    <2>2. CASE loaded'[r] = loaded[r]
      <3>1. loaded[r].status \in Status /\ Explained(loaded[r].status)  BY <1>2
      <3>2. QED  BY <1>1, <2>2, <3>1 DEF Explained
    <2>3. CASE loaded'[r].status = status /\ status' = status
      BY <1>3, <2>3 DEF Explained
    <2>4. QED  BY <2>0, <2>1, <2>2, <2>3
  <1>5. (\A a \in audit : a[2] \in Life!ALLOWED_TRANSITIONS[a[1]])'
    <2>1. \/ audit' = audit
          \/ \E m \in Movers :
               /\ pc[m] = "saved"
               /\ audit' = audit \cup {<<loaded[m].status, target[m]>>}
      BY DEF Next, vars, CreateOrder, ReadProduct, SetPrice, Load,
             CheckTransition, SaveStatus, LogTransition, SaveEdit
    <2>2. QED  BY <2>1 DEF AuditInv, MovesAllowed
  <1>6. QED  BY <1>3, <1>4, <1>5 DEF AuditInv

\* Only allowed moves are logged, and with no move waiting to be logged the
\* status is "pending" or one the log names, whatever requests overlap.
THEOREM Audited == Spec => []AuditExplains
  <1>1. Init => AuditInv
    BY DEF Init, AuditInv, Explained
  <1>2. TypeOK /\ MovesAllowed /\ AuditInv /\ [Next]_vars => AuditInv'
    BY AuditNext
  <1>3. AuditInv => AuditExplains  BY DEF AuditInv, Explained, AuditExplains
  <1>4. QED
    BY <1>1, <1>2, <1>3, TypeCorrect, MovesAllowedCorrect, PTL DEF Spec

(***************************************************************************)
(* Prices are snapshots.                                                   *)
(***************************************************************************)

\* While the customer orders, prices read and current prices have been offered.
SnapshotInv ==
  /\ TotalIsSnapshot
  /\ ~created => \A p \in Products : /\ price[p] \in offered[p]
                                     /\ cart[p] # Unread => cart[p] \in offered[p]

\* Creation multiplies the prices read, and no later step touches the order.
LEMMA SnapshotNext == ASSUME TypeOK, SnapshotInv, [Next]_vars PROVE SnapshotInv'
  <1> USE DEF TypeOK, SnapshotInv, TotalIsSnapshot
  <1>1. CASE CreateOrder
    <2>1. items' = [p \in Products |-> OrderItem(p)] /\ UNCHANGED offered
      BY <1>1 DEF CreateOrder
    <2>2. \A p \in Products : items'[p].unit_price \in offered'[p]
      BY <1>1, <2>1 DEF CreateOrder, OrderItem
    <2>3. [p \in Products |-> OrderItem(p).subtotal]
            = [p \in Products |-> items'[p].unit_price * Quantity[p]]
      BY <2>1 DEF OrderItem
    <2>4. total_amount'
            = SumFunction([p \in Products |-> items'[p].unit_price * Quantity[p]])
      BY <1>1, <2>3 DEF CreateOrder
    <2>5. created'  BY <1>1 DEF CreateOrder
    <2>6. QED  BY <2>2, <2>4, <2>5
  <1>2. ASSUME NEW p \in Products, ReadProduct(p) PROVE SnapshotInv'
    BY <1>2 DEF ReadProduct, order
  <1>3. ASSUME NEW p \in Products, NEW v \in Prices, SetPrice(p, v)
        PROVE  SnapshotInv'
    BY <1>3 DEF SetPrice, order
  <1>4. CASE UNCHANGED <<price, cart, order, offered>>
    BY <1>4 DEF order
  <1>5. QED
    BY <1>1, <1>2, <1>3, <1>4
    DEF Next, vars, Load, CheckTransition, SaveStatus, LogTransition, SaveEdit,
        order

\* The total of an order is forever the sum over its items at prices that
\* were offered while it was put together.
THEOREM Snapshot == Spec => []TotalIsSnapshot
  <1>1. Init => SnapshotInv  BY DEF Init, SnapshotInv, TotalIsSnapshot
  <1>2. TypeOK /\ SnapshotInv /\ [Next]_vars => SnapshotInv'
    BY SnapshotNext
  <1>3. SnapshotInv => TotalIsSnapshot  BY DEF SnapshotInv
  <1>4. QED  BY <1>1, <1>2, <1>3, TypeCorrect, PTL DEF Spec

(***************************************************************************)
(* Refinement: requests served one at a time follow the lifecycle.         *)
(***************************************************************************)

\* One worker: at most one request is in service, and until it saves, what it
\* has loaded is what the database holds.
SerialInv ==
  /\ \A q, r \in Requests : pc[q] \in Serving /\ pc[r] \in Serving => q = r
  /\ \A m \in Movers :
       pc[m] \in {"loaded", "allowed"} => loaded[m].status = status
  /\ \A e \in Editors :
       pc[e] = "loaded" => loaded[e] = [status |-> status, by |-> confirmed_by]

\* A step keeps it: a request is loaded only while none is in service.
LEMMA SerialNext ==
  ASSUME MaxServed = 1, TypeOK, SerialInv, [Next]_vars
  PROVE  SerialInv'
  <1> USE DEF TypeOK, SerialInv, Requests, Serving
  <1>1. CASE CreateOrder  BY <1>1 DEF CreateOrder
  <1>2. ASSUME NEW p \in Products, ReadProduct(p) PROVE SerialInv'
    BY <1>2 DEF ReadProduct
  <1>3. ASSUME NEW p \in Products, NEW v \in Prices, SetPrice(p, v)
        PROVE  SerialInv'
    BY <1>3 DEF SetPrice
  <1>4. ASSUME NEW r \in Requests, Load(r) PROVE SerialInv'
    <2>1. IsFiniteSet(InService)
      <3>1. InService \subseteq Requests  BY DEF InService
      <3>2. IsFiniteSet(Requests)  BY OrdersAssumption, FS_Union
      <3>3. QED  BY <3>1, <3>2, FS_Subset
    <2>2. Cardinality(InService) \in Nat  BY <2>1, FS_CardinalityType
    <2>3. Cardinality(InService) = 0  BY <1>4, <2>2 DEF Load
    <2>4. InService = {}  BY <2>1, <2>3, FS_EmptySet
    <2>5. \A q \in Requests : pc[q] \notin Serving  BY <2>4 DEF InService
    <2>6. QED  BY <1>4, <2>5 DEF Load
  <1>5. ASSUME NEW m \in Movers, NEW s \in Status, CheckTransition(m, s)
        PROVE  SerialInv'
    BY <1>5 DEF CheckTransition
  <1>6. ASSUME NEW m \in Movers, SaveStatus(m) PROVE SerialInv'
    BY <1>6 DEF SaveStatus
  <1>7. ASSUME NEW m \in Movers, LogTransition(m) PROVE SerialInv'
    BY <1>7 DEF LogTransition
  <1>8. ASSUME NEW e \in Editors, SaveEdit(e) PROVE SerialInv'
    BY <1>8 DEF SaveEdit
  <1>9. CASE UNCHANGED vars  BY <1>9 DEF vars
  <1>10. QED
    BY <1>1, <1>2, <1>3, <1>4, <1>5, <1>6, <1>7, <1>8, <1>9 DEF Next

\* Then a step of the code is a step of the lifecycle, or leaves it alone.
LEMMA LifecycleStep ==
  ASSUME MaxServed = 1, TypeOK, MovesAllowed, SerialInv, [Next]_vars
  PROVE  [Life!Next]_(Life!vars)
  <1>1. ASSUME NEW m \in Movers, SaveStatus(m) PROVE Life!Next
    <2>1. target[m] \in Life!ALLOWED_TRANSITIONS[status]
      BY <1>1 DEF SaveStatus, MovesAllowed, SerialInv
    <2>2. CASE target[m] = "confirmed"
      <3>1. status = "pending"
        BY <2>1, <2>2 DEF Life!ALLOWED_TRANSITIONS, Life!Status, TypeOK, Status
      <3>2. Life!Confirm(m)
        BY <1>1, <2>2, <3>1 DEF SaveStatus, Life!Confirm
      <3>3. QED  BY <3>2 DEF Life!Next
    <2>3. CASE target[m] # "confirmed"
      <3>1. Life!Move  BY <1>1, <2>1, <2>3 DEF SaveStatus, Life!Move
      <3>2. QED  BY <3>1 DEF Life!Next
    <2>4. QED  BY <2>2, <2>3
  <1>2. ASSUME NEW e \in Editors, SaveEdit(e)
        PROVE  UNCHANGED <<status, confirmed_by>>
    BY <1>2 DEF SaveEdit, SerialInv, Requests
  <1>3. CASE UNCHANGED <<status, confirmed_by>>  BY <1>3 DEF Life!vars
  <1>4. QED
    BY <1>1, <1>2, <1>3
    DEF Next, vars, CreateOrder, ReadProduct, SetPrice, Load, CheckTransition,
        LogTransition

\* With one request served at a time, the status endpoint, and PATCH beside
\* it, implement the lifecycle that the order model promises.
THEOREM Lifecycle ==
  ASSUME MaxServed = 1 PROVE Spec => FollowsLifecycle
  <1>1. Init => Life!Init  BY DEF Init, Life!Init
  <1>2. Init => SerialInv  BY DEF Init, SerialInv, Requests, Serving
  <1>3. TypeOK /\ SerialInv /\ [Next]_vars => SerialInv'  BY SerialNext
  <1>4. TypeOK /\ MovesAllowed /\ SerialInv /\ [Next]_vars
          => [Life!Next]_(Life!vars)
    BY LifecycleStep
  <1>5. QED
    BY <1>1, <1>2, <1>3, <1>4, TypeCorrect, MovesAllowedCorrect, PTL
    DEF Spec, FollowsLifecycle, Life!Spec
=============================================================================

---------------------------- MODULE Billing_proofs ----------------------------
(***************************************************************************)
(* Proofs about Billing, for any tenants, number of requests, limit and    *)
(* months.                                                                 *)
(***************************************************************************)
EXTENDS Billing, FiniteSetTheorems, TLAPS

\* Sends that a press or a task has in hand; tasks that are counting, and those
\* that count in month m.
Busy == {r \in Requests : req[r].op \in {"send", "count"}}
Counting == {r \in Requests : req[r].op = "count"}
CountingIn(m) == {r \in Counting : req[r].of[1] = m}

\* A send that is in hand is one of those under way.
QueueOK == Cardinality(Busy) <= sends

\* The sets of requests that are counted are finite.
LEMMA Finite ==
  ASSUME NEW S, S \subseteq Requests
  PROVE  IsFiniteSet(S) /\ Cardinality(S) \in Nat /\ Cardinality(S) <= Cardinality(Requests)
  <1>1. IsFiniteSet(Requests)  BY BillingAssumption
  <1>2. QED  BY <1>1, FS_Subset, FS_CardinalityType

\* Adding and removing one.
LEMMA OneMore ==
  ASSUME NEW S, S \subseteq Requests, NEW r \in Requests, r \notin S
  PROVE  Cardinality(S \cup {r}) = Cardinality(S) + 1
  BY Finite, FS_AddElement

LEMMA OneLess ==
  ASSUME NEW S, S \subseteq Requests, NEW r \in S
  PROVE  Cardinality(S \ {r}) = Cardinality(S) - 1 /\ Cardinality(S) > 0
  <1>1. Cardinality(S \ {r}) = Cardinality(S) - 1  BY Finite, FS_RemoveElement
  <1>2. S \ {r} \subseteq Requests  OBVIOUS
  <1>3. Cardinality(S \ {r}) \in Nat /\ Cardinality(S) \in Nat  BY <1>2, Finite
  <1>4. QED  BY <1>1, <1>3

(***************************************************************************)
(* Types                                                                   *)
(***************************************************************************)
LEMMA TenantType == ASSUME TypeOK, [Next]_vars PROVE tenant' \in [Tenants -> TenantRow]
  <1>0. tenant \in [Tenants -> TenantRow]  BY DEF TypeOK
  <1>1. ASSUME NEW t \in Tenants, NEW s \in {"trial", "suspended", "active"},
               tenant' = [tenant EXCEPT ![t].status = s]
        PROVE  tenant' \in [Tenants -> TenantRow]
    BY <1>0, <1>1 DEF TenantRow
  <1>2. ASSUME NEW t \in Tenants, Onboard(t) \/ SuspendTenant(t) \/ ActivateTenant(t)
        PROVE  tenant' \in [Tenants -> TenantRow]
    BY <1>1, <1>2 DEF Onboard, SuspendTenant, ActivateTenant
  <1>3. CASE UNCHANGED tenant  BY <1>0, <1>3
  <1>4. QED
    BY <1>2, <1>3
    DEF Next, vars, accounts, CheckLimit, Insert, GetRecord, UpdateRecord, RequestInvoice,
        RunBatch, FoundInvoice, NoInvoice, InsertInvoice, Raise, InboundCustomer,
        DeactivateUser, ActivateUser, CheckSends, QueueSend, PressFails, DropSend,
        ChangePrice, MonthEnds

LEMMA InvoicesType == ASSUME TypeOK, [Next]_vars PROVE invoices' \subseteq InvoiceRow
  <1>0. invoices \subseteq InvoiceRow  BY DEF TypeOK
  <1>1. ASSUME NEW r \in Requests, InsertInvoice(r) PROVE invoices' \subseteq InvoiceRow
    <2>1. \A t \in req[r].now : Invoice(t, req[r].of) \in InvoiceRow
      BY DEF TypeOK, Request, Invoice, InvoiceRow
    <2>2. QED  BY <1>0, <1>1, <2>1 DEF InsertInvoice
  <1>2. CASE UNCHANGED invoices  BY <1>0, <1>2
  <1>3. QED
    BY <1>1, <1>2
    DEF Next, vars, Onboard, SuspendTenant, ActivateTenant, CheckLimit, Insert, GetRecord,
        UpdateRecord, RequestInvoice, RunBatch, FoundInvoice, NoInvoice, Raise,
        InboundCustomer, DeactivateUser, ActivateUser, CheckSends, QueueSend,
        PressFails, DropSend, ChangePrice, MonthEnds

LEMMA RequestType == ASSUME TypeOK, [Next]_vars PROVE req' \in [Requests -> Request]
  <1>0. req \in [Requests -> Request]  BY DEF TypeOK
  <1>1. ASSUME NEW r \in Requests, NEW new \in Request, req' = [req EXCEPT ![r] = new]
        PROVE  req' \in [Requests -> Request]
    BY <1>0, <1>1
  <1>2. Idle \in Request  BY BillingAssumption DEF Idle, Request, Days
  <1>3. month \in 1..Months /\ 1..month \subseteq 1..Months
    BY BillingAssumption DEF TypeOK
  <1>4. ASSUME NEW r \in Requests, CheckLimit(r) PROVE req' \in [Requests -> Request]
    <2>1. <<1, 1>> \in Days  BY BillingAssumption DEF Days
    <2>2. [op |-> "create", at |-> "insert", todo |-> {}, now |-> {}, of |-> <<1, 1>>] \in Request
      BY <2>1 DEF Request
    <2>3. QED  BY <1>1, <1>4, <2>2 DEF CheckLimit, Start, Begin
  <1>5. ASSUME NEW r \in Requests,
               Insert(r) \/ QueueSend(r) \/ PressFails(r) \/ UpdateRecord(r) \/ Raise(r)
        PROVE  req' \in [Requests -> Request]
    BY <1>1, <1>2, <1>5 DEF Insert, QueueSend, PressFails, UpdateRecord, Raise, Done
  <1>6. ASSUME NEW r \in Requests, GetRecord(r) PROVE req' \in [Requests -> Request]
    BY <1>1, <1>3, <1>6 DEF GetRecord, Begin, Request, Days
  <1>13. ASSUME NEW r \in Requests, CheckSends(r) PROVE req' \in [Requests -> Request]
    <2>1. <<1, 1>> \in Days  BY BillingAssumption DEF Days
    <2>2. [op |-> "send", at |-> "queue", todo |-> {}, now |-> {}, of |-> <<1, 1>>] \in Request
      BY <2>1 DEF Request
    <2>3. QED  BY <1>1, <1>13, <2>2 DEF CheckSends, Start, Begin
  <1>7. ASSUME NEW r \in Requests, RequestInvoice(r) PROVE req' \in [Requests -> Request]
    BY <1>1, <1>3, <1>7 DEF RequestInvoice, Start, Begin, Request, Days
  <1>8. ASSUME NEW r \in Requests, RunBatch(r) PROVE req' \in [Requests -> Request]
    BY <1>1, <1>3, <1>8 DEF RunBatch, Start, Begin, Request, Days
  <1>9. ASSUME NEW r \in Requests, FoundInvoice(r) \/ InsertInvoice(r)
        PROVE  req' \in [Requests -> Request]
    <2>1. \/ Done(r) \/ Goto(r, "again")
          \/ \E t \in Tenants :
               req' = [req EXCEPT ![r].at = "get", ![r].todo = @ \ {t}, ![r].now = {}]
      BY <1>0, <1>9 DEF FoundInvoice, InsertInvoice, Finish, Request
    <2>2. /\ [req[r] EXCEPT !.at = "again"] \in Request
          /\ \A t \in Tenants :
               [req[r] EXCEPT !.at = "get", !.todo = @ \ {t}, !.now = {}] \in Request
      BY <1>0 DEF Request
    <2>3. CASE \E t \in Tenants :
            req' = [req EXCEPT ![r].at = "get", ![r].todo = @ \ {t}, ![r].now = {}]
      BY <1>0, <2>2, <2>3
    <2>4. QED  BY <1>1, <1>2, <2>1, <2>2, <2>3 DEF Done, Goto
  <1>10. ASSUME NEW r \in Requests, NoInvoice(r) PROVE req' \in [Requests -> Request]
    <2>1. \A t \in req[r].todo : [req[r] EXCEPT !.at = "insert", !.now = {t}] \in Request
      BY <1>0 DEF Request
    <2>2. QED  BY <1>0, <1>10, <2>1 DEF NoInvoice
  <1>11. CASE UNCHANGED req  BY <1>0, <1>11
  <1>12. QED
    BY <1>4, <1>5, <1>6, <1>7, <1>8, <1>9, <1>10, <1>11, <1>13
    DEF Next, vars, Onboard, SuspendTenant, ActivateTenant, InboundCustomer, DeactivateUser,
        ActivateUser, DropSend, ChangePrice, MonthEnds

LEMMA HistType == ASSUME TypeOK, [Next]_vars PROVE hist' \in [unchecked : Nat, peak : Nat]
  <1>0. hist \in [unchecked : Nat, peak : Nat] /\ sends \in Nat  BY DEF TypeOK
  <1>1. CASE InboundCustomer \/ ActivateUser
    BY <1>0, <1>1 DEF InboundCustomer, ActivateUser, Unchecked
  <1>2. ASSUME NEW r \in Requests, CheckSends(r)
        PROVE  hist' \in [unchecked : Nat, peak : Nat]
    BY <1>0, <1>2 DEF CheckSends, Begun
  <1>3. CASE UNCHANGED hist  BY <1>0, <1>3
  <1>4. QED
    BY <1>1, <1>2, <1>3
    DEF Next, vars, Onboard, SuspendTenant, ActivateTenant, CheckLimit, Insert, GetRecord,
        UpdateRecord, RequestInvoice, RunBatch, FoundInvoice, NoInvoice, InsertInvoice,
        Raise, DeactivateUser, QueueSend, PressFails, DropSend, ChangePrice, MonthEnds

\* The rest are numbers.
LEMMA CountsType ==
  ASSUME TypeOK, QueueOK, [Next]_vars
  PROVE  /\ price' \in 1..2 /\ month' \in 1..Months /\ served' \in Nat
         /\ kind' \in Kinds /\ live' \in Nat /\ idle' \in Nat /\ sends' \in Nat
         /\ usage' \in [1..Months -> Nat \cup {-1}]
  <1> DEFINE Numbers ==
        /\ price \in 1..2 /\ month \in 1..Months /\ served \in Nat
        /\ kind \in Kinds /\ live \in Nat /\ idle \in Nat /\ sends \in Nat
        /\ usage \in [1..Months -> Nat \cup {-1}]
  <1>0. Numbers /\ Months \in Nat  BY BillingAssumption DEF TypeOK
  <1> SUFFICES Numbers'  OBVIOUS
  <1>1. ASSUME NEW t \in Tenants, Onboard(t) \/ SuspendTenant(t) \/ ActivateTenant(t)
        PROVE  Numbers'
    BY <1>0, <1>1 DEF Onboard, SuspendTenant, ActivateTenant, counts
  <1>2. ASSUME NEW r \in Requests, CheckLimit(r) \/ RequestInvoice(r) \/ RunBatch(r)
        PROVE  Numbers'
    <2>1. UNCHANGED <<accounts, counts>> /\ served' = served + 1
      BY <1>2 DEF CheckLimit, RequestInvoice, RunBatch, Start
    <2>2. QED  BY <1>0, <2>1 DEF accounts, counts
  <1>3. ASSUME NEW r \in Requests, Insert(r) PROVE Numbers'
    BY <1>0, <1>3 DEF Insert, accounts
  <1>4. ASSUME NEW r \in Requests, GetRecord(r) PROVE Numbers'
    BY <1>0, <1>4 DEF GetRecord, accounts
  <1>13. ASSUME NEW r \in Requests, req[r].op \in {"send", "count"} PROVE sends > 0
    <2>1. r \in Busy /\ Busy \subseteq Requests  BY <1>13 DEF Busy
    <2>2. Cardinality(Busy) > 0 /\ Cardinality(Busy) \in Nat  BY <2>1, OneLess, Finite
    <2>3. QED  BY <1>0, <2>2 DEF QueueOK
  <1>5. ASSUME NEW r \in Requests, UpdateRecord(r) PROVE Numbers'
    <2>1. At(r, "count", "update")  BY <1>5 DEF UpdateRecord
    <2>2. sends > 0  BY <1>13, <2>1 DEF At
    <2>3. req[r].of[1] \in 1..Months  BY DEF TypeOK, Request, Days
    <2>4. usage[req[r].of[1]] + 1 \in Nat \cup {-1}  BY <1>0, <2>3
    <2>5. usage' \in [1..Months -> Nat \cup {-1}]
      BY <1>0, <1>5, <2>4 DEF UpdateRecord
    <2>6. sends' \in Nat  BY <1>0, <1>5, <2>2 DEF UpdateRecord
    <2>7. UNCHANGED <<price, month, kind, live, idle, served>>
      BY <1>5 DEF UpdateRecord, accounts
    <2>8. QED  BY <1>0, <2>5, <2>6, <2>7
  <1>6. ASSUME NEW r \in Requests,
               FoundInvoice(r) \/ NoInvoice(r) \/ InsertInvoice(r) \/ Raise(r)
        PROVE  Numbers'
    BY <1>0, <1>6 DEF FoundInvoice, NoInvoice, InsertInvoice, Raise, accounts, counts
  <1>7. CASE InboundCustomer \/ DeactivateUser \/ ActivateUser
    BY <1>0, <1>7 DEF InboundCustomer, DeactivateUser, ActivateUser, Unchecked, accounts
  <1>8. ASSUME NEW r \in Requests, CheckSends(r) \/ QueueSend(r) \/ PressFails(r)
        PROVE  Numbers'
    <2>1. CASE CheckSends(r)  BY <1>0, <2>1 DEF CheckSends, Begun, Start, accounts
    <2>2. CASE QueueSend(r)  BY <1>0, <2>2 DEF QueueSend, accounts, counts
    <2>3. CASE PressFails(r)
      <3>1. sends > 0  BY <1>13, <2>3 DEF PressFails, At
      <3>2. QED  BY <1>0, <2>3, <3>1 DEF PressFails, accounts
    <2>4. QED  BY <1>8, <2>1, <2>2, <2>3
  <1>9. CASE DropSend
    <2>1. Busy \subseteq Requests /\ Cardinality(Busy) < sends
      BY <1>9 DEF DropSend, Waiting, Busy
    <2>2. sends > 0  BY <1>0, <2>1, Finite
    <2>3. QED  BY <1>0, <1>9, <2>2 DEF DropSend, accounts
  <1>10. CASE ChangePrice \/ MonthEnds
    BY <1>0, <1>10 DEF ChangePrice, MonthEnds, counts
  <1>11. CASE UNCHANGED vars  BY <1>0, <1>11 DEF vars
  <1>12. QED
    BY <1>1, <1>2, <1>3, <1>4, <1>5, <1>6, <1>7, <1>8, <1>9, <1>10, <1>11 DEF Next

\* Every step keeps the types.
LEMMA TypeNext == ASSUME TypeOK, QueueOK, [Next]_vars PROVE TypeOK'
  BY TenantType, InvoicesType, RequestType, HistType, CountsType DEF TypeOK

\* What a step may do to the sends that are under way.
LEMMA Steps ==
  ASSUME TypeOK, [Next]_vars
  PROVE  \/ DropSend \/ MonthEnds
         \/ \E r \in Requests : CheckSends(r) \/ QueueSend(r) \/ PressFails(r)
         \/ \E r \in Requests : GetRecord(r) \/ UpdateRecord(r)
         \/ UNCHANGED <<month, usage, sends, hist.peak, Busy, Counting>>
            /\ \A m \in 1..Months : CountingIn(m)' = CountingIn(m)
  <1> DEFINE Other ==
        UNCHANGED <<month, usage, sends, hist.peak, Busy, Counting>>
        /\ \A m \in 1..Months : CountingIn(m)' = CountingIn(m)
  <1>0. req \in [Requests -> Request]  BY DEF TypeOK
  <1> USE DEF accounts, counts
  <1>1. ASSUME UNCHANGED <<month, usage, sends, hist.peak>>, UNCHANGED req PROVE Other
    BY <1>1 DEF Busy, Counting, CountingIn
  <1>2. ASSUME UNCHANGED <<month, usage, sends, hist.peak>>,
               NEW r \in Requests, req[r].op \notin {"send", "count"},
               req'[r].op \notin {"send", "count"},
               \A q \in Requests \ {r} : req'[q] = req[q]
        PROVE  Other
    BY <1>0, <1>2 DEF Busy, Counting, CountingIn
  <1>3. ASSUME NEW r \in Requests, CheckLimit(r) PROVE Other
    <2>1. /\ UNCHANGED <<month, usage, sends, hist.peak>> /\ req[r].op = "none"
          /\ req' = [req EXCEPT ![r] = [op |-> "create", at |-> "insert", todo |-> {}, now |-> {},
                                        of |-> <<1, 1>>]]
      BY <1>3 DEF CheckLimit, Start, Begin
    <2>2. req'[r].op \notin {"send", "count"} /\ \A q \in Requests \ {r} : req'[q] = req[q]
      BY <1>0, <2>1
    <2>3. QED  BY <1>2, <2>1, <2>2
  <1>4. ASSUME NEW r \in Requests, Insert(r) PROVE Other
    <2>1. /\ UNCHANGED <<month, usage, sends, hist.peak>> /\ req[r].op = "create"
          /\ req' = [req EXCEPT ![r] = Idle]
      BY <1>4 DEF Insert, At, Done
    <2>2. req'[r].op \notin {"send", "count"} /\ \A q \in Requests \ {r} : req'[q] = req[q]
      BY <1>0, <2>1 DEF Idle
    <2>3. QED  BY <1>2, <2>1, <2>2
  <1>5. ASSUME NEW r \in Requests, RequestInvoice(r) \/ RunBatch(r) PROVE Other
    <2>1. UNCHANGED <<month, usage, sends, hist.peak>> /\ req[r].op = "none"
      BY <1>5 DEF RequestInvoice, RunBatch, Start, Begin
    <2>2. \E op \in {"one", "batch"} : \E due, of :
            req' = [req EXCEPT ![r] = [op |-> op, at |-> "get", todo |-> due, now |-> {},
                                       of |-> of]]
      BY <1>5 DEF RequestInvoice, RunBatch, Start, Begin
    <2>3. req'[r].op \notin {"send", "count"} /\ \A q \in Requests \ {r} : req'[q] = req[q]
      BY <1>0, <2>2
    <2>4. QED  BY <1>2, <2>1, <2>3
  <1>6. ASSUME NEW r \in Requests,
               FoundInvoice(r) \/ NoInvoice(r) \/ InsertInvoice(r) \/ Raise(r)
        PROVE  Other
    <2>1. UNCHANGED <<month, usage, sends, hist>> /\ req[r].op \in {"one", "batch"}
      BY <1>6 DEF FoundInvoice, NoInvoice, InsertInvoice, Raise, Billing
    <2>2. \/ req' = [req EXCEPT ![r] = Idle]
          \/ req' = [req EXCEPT ![r].at = "again"]
          \/ \E t : req' = [req EXCEPT ![r].at = "insert", ![r].now = {t}]
          \/ \E t : req' = [req EXCEPT ![r].at = "get", ![r].todo = @ \ {t}, ![r].now = {}]
      BY <1>6 DEF FoundInvoice, NoInvoice, InsertInvoice, Raise, Finish, Done, Goto
    <2>3. /\ \A q \in Requests \ {r} : req'[q] = req[q]
          /\ req'[r].op \notin {"send", "count"}
      <3>1. CASE req' = [req EXCEPT ![r] = Idle]  BY <1>0, <3>1 DEF Idle
      <3>2. CASE req' # [req EXCEPT ![r] = Idle]
        BY <1>0, <2>1, <2>2, <3>2, ZenonT(30) DEF Request
      <3>3. QED  BY <3>1, <3>2
    <2>4. QED  BY <1>2, <2>1, <2>3
  <1>7. ASSUME NEW t \in Tenants, Onboard(t) \/ SuspendTenant(t) \/ ActivateTenant(t)
        PROVE  Other
    BY <1>1, <1>7 DEF Onboard, SuspendTenant, ActivateTenant
  <1>8. ASSUME InboundCustomer \/ DeactivateUser \/ ActivateUser \/ ChangePrice
        PROVE  Other
    <2>1. UNCHANGED <<month, usage, sends, req>>
      BY <1>8 DEF InboundCustomer, DeactivateUser, ActivateUser, ChangePrice
    <2>2. hist' = hist \/ hist' = [hist EXCEPT !.unchecked = @ + 1]
      BY <1>8 DEF InboundCustomer, DeactivateUser, ActivateUser, ChangePrice, Unchecked
    <2>3. hist'.peak = hist.peak  BY <2>2 DEF TypeOK
    <2>4. QED  BY <1>1, <2>1, <2>3
  <1>9. CASE UNCHANGED vars  BY <1>1, <1>9 DEF vars
  <1>10. QED  BY <1>3, <1>4, <1>5, <1>6, <1>7, <1>8, <1>9 DEF Next

\* A task that starts or ends counting.
LEMMA GetCounts ==
  ASSUME TypeOK, NEW r \in Requests, GetRecord(r)
  PROVE  /\ r \notin Counting /\ Counting' = Counting \cup {r}
         /\ r \notin Busy /\ Busy' = Busy \cup {r}
         /\ CountingIn(month)' = CountingIn(month) \cup {r}
         /\ \A m \in (1..Months) \ {month} : CountingIn(m)' = CountingIn(m)
  BY DEF TypeOK, GetRecord, Begin, Busy, Counting, CountingIn, accounts

LEMMA UpdateCounts ==
  ASSUME TypeOK, NEW r \in Requests, UpdateRecord(r)
  PROVE  /\ r \in Counting /\ Counting' = Counting \ {r}
         /\ r \in Busy /\ Busy' = Busy \ {r}
         /\ r \in CountingIn(req[r].of[1])
         /\ \A m \in 1..Months : CountingIn(m)' = CountingIn(m) \ {r}
  BY DEF TypeOK, UpdateRecord, At, Done, Idle, Busy, Counting, CountingIn

\* A press that begins or ends.
LEMMA CheckCounts ==
  ASSUME TypeOK, NEW r \in Requests, CheckSends(r)
  PROVE  /\ r \notin Busy /\ Busy' = Busy \cup {r} /\ Counting' = Counting
         /\ \A m \in 1..Months : CountingIn(m)' = CountingIn(m)
  BY DEF TypeOK, CheckSends, Start, Begin, Busy, Counting, CountingIn

LEMMA PressCounts ==
  ASSUME TypeOK, NEW r \in Requests, QueueSend(r) \/ PressFails(r)
  PROVE  /\ r \in Busy /\ Busy' = Busy \ {r} /\ Counting' = Counting
         /\ \A m \in 1..Months : CountingIn(m)' = CountingIn(m)
  BY DEF TypeOK, QueueSend, PressFails, At, Done, Idle, Busy, Counting, CountingIn

\* The sends under way do not run below zero.
LEMMA QueueNext == ASSUME TypeOK, QueueOK, [Next]_vars PROVE QueueOK'
  <1>0. Busy \subseteq Requests  BY DEF Busy
  <1>1. Cardinality(Busy) \in Nat /\ sends \in Nat  BY <1>0, Finite DEF TypeOK
  <1>2. ASSUME NEW r \in Requests, CheckSends(r) PROVE QueueOK'
    <2>1. Cardinality(Busy') = Cardinality(Busy) + 1
      BY <1>0, <1>2, CheckCounts, OneMore
    <2>2. sends' = sends + 1  BY <1>2 DEF CheckSends, Begun
    <2>3. QED  BY <1>1, <2>1, <2>2 DEF QueueOK
  <1>3. CASE DropSend
    <2>1. Busy' = Busy /\ sends' = sends - 1 /\ Cardinality(Busy) < sends
      BY <1>3 DEF DropSend, Busy, Waiting
    <2>2. QED  BY <1>1, <2>1 DEF QueueOK
  <1>4. CASE MonthEnds
    BY <1>4 DEF MonthEnds, Busy, QueueOK, counts
  <1>5. ASSUME NEW r \in Requests, GetRecord(r) PROVE QueueOK'
    <2>1. Cardinality(Busy') = Cardinality(Busy) + 1
      BY <1>0, <1>5, GetCounts, OneMore
    <2>2. Cardinality(Busy) < sends /\ sends' = sends
      BY <1>5 DEF GetRecord, Waiting, Busy
    <2>3. QED  BY <1>1, <2>1, <2>2 DEF QueueOK
  <1>6. ASSUME NEW r \in Requests, QueueSend(r) \/ PressFails(r) \/ UpdateRecord(r)
        PROVE  QueueOK'
    <2>1. Cardinality(Busy') = Cardinality(Busy) - 1
      BY <1>0, <1>6, PressCounts, UpdateCounts, OneLess
    <2>2. sends' = sends - 1 \/ sends' = sends
      BY <1>6 DEF QueueSend, PressFails, UpdateRecord, counts
    <2>3. QED  BY <1>1, <2>1, <2>2 DEF QueueOK
  <1>7. CASE UNCHANGED <<sends, Busy>>  BY <1>7 DEF QueueOK
  <1>8. QED  BY <1>2, <1>3, <1>4, <1>5, <1>6, <1>7, Steps

LEMMA TypeInit == Init => TypeOK /\ QueueOK
  <1> SUFFICES ASSUME Init PROVE TypeOK /\ QueueOK  OBVIOUS
  <1>1. TypeOK
    BY BillingAssumption
    DEF Init, TypeOK, Idle, Kinds, Midmonth, TenantRow, InvoiceRow, Request, Days
  <1>2. Busy = {}  BY DEF Init, Busy, Idle
  <1>3. QED  BY <1>1, <1>2, FS_EmptySet DEF QueueOK, Init

LEMMA TypeQueue == Spec => [](TypeOK /\ QueueOK)
  <1>1. TypeOK /\ QueueOK /\ [Next]_vars => TypeOK' /\ QueueOK'
    BY TypeNext, QueueNext
  <1>2. QED  BY <1>1, TypeInit, PTL DEF Spec

\* Every variable keeps its type.
THEOREM TypeCorrect == Spec => []TypeOK
  BY TypeQueue, PTL

(***************************************************************************)
(* The usage of a month                                                    *)
(***************************************************************************)
Used(m) == IF usage[m] = -1 THEN 0 ELSE usage[m]

\* What month m has counted and may yet count: by the tasks that count in it,
\* and if it is the current one by the sends that have still to be counted.
Expected(m) ==
  Used(m) + Cardinality(CountingIn(m)) +
    (IF m = month THEN sends - Cardinality(Counting) ELSE 0)

\* A press finds room for one more, so together with what is under way a month
\* stays below the limit plus the most that ever was; months to come are untouched.
UsageOK ==
  /\ sends <= hist.peak
  /\ \A m \in 1..Months : m > month => usage[m] = -1 /\ CountingIn(m) = {}
  /\ Limited => \A m \in 1..Months : Expected(m) < Limit + hist.peak

LEMMA Numbers ==
  ASSUME TypeOK, QueueOK, NEW m \in 1..Months
  PROVE  /\ Used(m) \in Nat /\ usage[m] <= Used(m)
         /\ Cardinality(CountingIn(m)) \in Nat /\ Cardinality(Counting) \in Nat
         /\ Cardinality(CountingIn(m)) <= Cardinality(Counting)
         /\ sends \in Nat /\ hist.peak \in Nat /\ Limit \in Nat
         /\ sends - Cardinality(Counting) \in Nat
  <1>1. Busy \subseteq Requests /\ Counting \subseteq Busy /\ CountingIn(m) \subseteq Counting
    BY DEF Busy, Counting, CountingIn
  <1>2. /\ IsFiniteSet(Counting) /\ Cardinality(Counting) \in Nat
        /\ Cardinality(Counting) <= Cardinality(Busy) /\ Cardinality(Busy) \in Nat
    BY <1>1, Finite, FS_Subset
  <1>3. /\ Cardinality(CountingIn(m)) <= Cardinality(Counting)
        /\ Cardinality(CountingIn(m)) \in Nat
    BY <1>1, <1>2, FS_Subset, FS_CardinalityType
  <1>4. usage[m] \in Nat \cup {-1} /\ sends \in Nat /\ hist.peak \in Nat  BY DEF TypeOK
  <1>5. Used(m) \in Nat /\ usage[m] <= Used(m)  BY <1>4 DEF Used
  <1>6. QED  BY <1>2, <1>3, <1>4, <1>5, BillingAssumption DEF QueueOK

\* Plans stay assigned.
LEMMA LimitedStays == ASSUME TypeOK, [Next]_vars PROVE Limited' = Limited
  <1>0. tenant \in [Tenants -> TenantRow]  BY DEF TypeOK
  <1>1. ASSUME NEW t \in Tenants, NEW s, tenant' = [tenant EXCEPT ![t].status = s]
        PROVE  tenant'[Us].plan = tenant[Us].plan
    BY <1>0, <1>1, BillingAssumption DEF TenantRow
  <1>2. ASSUME NEW t \in Tenants, Onboard(t) \/ SuspendTenant(t) \/ ActivateTenant(t)
        PROVE  tenant'[Us].plan = tenant[Us].plan
    BY <1>1, <1>2 DEF Onboard, SuspendTenant, ActivateTenant
  <1>3. ASSUME UNCHANGED tenant PROVE tenant'[Us].plan = tenant[Us].plan
    <2>1. tenant' = tenant  BY <1>3
    <2>2. QED  BY <2>1
  <1>4. tenant'[Us].plan = tenant[Us].plan
    BY <1>2, <1>3
    DEF Next, vars, accounts, CheckLimit, Insert, GetRecord, UpdateRecord, RequestInvoice,
        RunBatch, FoundInvoice, NoInvoice, InsertInvoice, Raise, InboundCustomer,
        DeactivateUser, ActivateUser, CheckSends, QueueSend, PressFails, DropSend,
        ChangePrice, MonthEnds
  <1>5. QED  BY <1>4 DEF Limited, HasPlan

LEMMA UsageNext ==
  ASSUME TypeOK, QueueOK, UsageOK, TypeOK', QueueOK', [Next]_vars
  PROVE  UsageOK'
  <1>0. /\ month \in Nat /\ sends \in Nat /\ hist.peak \in Nat /\ Limit \in Nat
        /\ month \in 1..Months
    BY BillingAssumption DEF TypeOK
  <1>1. ASSUME NEW r \in Requests, CheckSends(r) PROVE UsageOK'
    <2>1. /\ UNCHANGED <<month, usage, Counting>> /\ sends' = sends + 1
          /\ \A m \in 1..Months : CountingIn(m)' = CountingIn(m)
          /\ kind = "campaign_sends" /\ ~OverLimit
      BY <1>1, CheckCounts DEF CheckSends, Begun, accounts
    <2>2. hist'.peak \in Nat /\ hist'.peak >= sends' /\ hist'.peak >= hist.peak
      <3>1. hist'.peak = IF sends + 1 > hist.peak THEN sends + 1 ELSE hist.peak
        BY <1>1 DEF CheckSends, Begun, TypeOK
      <3>2. QED  BY <1>0, <2>1, <3>1
    <2>3. ASSUME Limited, NEW m \in 1..Months PROVE Expected(m)' < Limit + hist'.peak
      <3>1. Expected(m) < Limit + hist.peak  BY <2>3 DEF UsageOK
      <3>2. CASE m # month
        BY <2>1, <2>2, <3>1, <3>2, Numbers DEF Expected, Used
      <3>3. CASE m = month
        <4>1. Used(m) < Limit
          <5>1. Limit # 0 /\ HasPlan(Us)  BY <2>3 DEF Limited
          <5>2. Count = Used(m)  BY <2>1, <3>3 DEF Count, Used
          <5>3. ~(Count >= Limit)  BY <2>1, <5>1 DEF OverLimit
          <5>4. Used(m) \in Nat  BY Numbers
          <5>5. QED  BY <1>0, <5>2, <5>3, <5>4
        <4>2. Expected(m)' = Used(m) + Cardinality(CountingIn(m))
                               + (sends + 1 - Cardinality(Counting))
          <5>1. /\ Used(m)' = Used(m) /\ CountingIn(m)' = CountingIn(m)
                /\ month' = m /\ Counting' = Counting /\ sends' = sends + 1
            BY <2>1, <3>3 DEF Used
          <5>2. Expected(m)' = Used(m)' + Cardinality(CountingIn(m)')
                  + (IF m = month' THEN sends' - Cardinality(Counting') ELSE 0)
            BY DEF Expected
          <5>3. (IF m = month' THEN sends' - Cardinality(Counting') ELSE 0)
                  = sends + 1 - Cardinality(Counting)
            <6>1. Cardinality(Counting') = Cardinality(Counting)  BY <5>1
            <6>2. Cardinality(Counting) \in Nat  BY Numbers
            <6>3. QED  BY <1>0, <5>1, <6>1, <6>2
          <5>4. QED  BY <5>1, <5>2, <5>3
        <4>3. QED  BY <4>1, <4>2, <2>1, <2>2, <1>0, Numbers
      <3>4. QED  BY <3>2, <3>3
    <2>4. QED  BY <2>1, <2>2, <2>3, LimitedStays DEF UsageOK
  <1>2. ASSUME DropSend \/ \E r \in Requests : PressFails(r) PROVE UsageOK'
    <2>1. /\ UNCHANGED <<month, usage, Counting, hist>> /\ sends' = sends - 1
          /\ \A m \in 1..Months : CountingIn(m)' = CountingIn(m)
      <3>1. CASE DropSend  BY <3>1 DEF DropSend, accounts, Counting, CountingIn
      <3>2. CASE \E r \in Requests : PressFails(r)
        BY <3>2, PressCounts DEF PressFails, accounts
      <3>3. QED  BY <1>2, <3>1, <3>2
    <2>2. ASSUME Limited, NEW m \in 1..Months PROVE Expected(m)' < Limit + hist'.peak
      <3>1. Expected(m) < Limit + hist.peak  BY <2>2 DEF UsageOK
      <3>2. QED  BY <1>0, <2>1, <3>1, Numbers DEF Expected, Used
    <2>3. QED  BY <1>0, <2>1, <2>2, LimitedStays DEF UsageOK
  <1>3. CASE MonthEnds
    <2>1. /\ UNCHANGED <<usage, sends, Counting, hist>> /\ month' = month + 1
          /\ \A m \in 1..Months : CountingIn(m)' = CountingIn(m)
      BY <1>3 DEF MonthEnds, counts, Counting, CountingIn
    <2>2. ASSUME Limited, NEW m \in 1..Months PROVE Expected(m)' < Limit + hist'.peak
      <3>1. Expected(m) < Limit + hist.peak /\ sends <= hist.peak
        BY <2>2 DEF UsageOK
      <3>2. CASE m # month'
        BY <1>0, <2>1, <3>1, <3>2, Numbers DEF Expected, Used
      <3>3. CASE m = month'
        <4>1. Used(m) = 0 /\ Cardinality(CountingIn(m)) = 0
          BY <1>0, <2>1, <3>3, FS_EmptySet DEF UsageOK, Used
        <4>2. Expected(m)' = sends - Cardinality(Counting)
          BY <2>1, <3>3, <4>1, Numbers DEF Expected, Used
        <4>3. Limit > 0  BY <1>0, <2>2 DEF Limited
        <4>4. QED  BY <1>0, <2>1, <3>1, <4>2, <4>3, Numbers
      <3>4. QED  BY <3>2, <3>3
    <2>3. QED  BY <1>0, <2>1, <2>2, LimitedStays DEF UsageOK
  <1>4. ASSUME NEW r \in Requests, GetRecord(r) PROVE UsageOK'
    <2>1. /\ UNCHANGED <<month, sends, hist>>
          /\ \A m \in 1..Months : Used(m)' = Used(m) /\ (m # month => usage'[m] = usage[m])
      BY <1>0, <1>4 DEF GetRecord, accounts, TypeOK, Used
    <2>2. /\ CountingIn(month)' = CountingIn(month) \cup {r}
          /\ Counting' = Counting \cup {r} /\ r \notin Counting
          /\ \A m \in (1..Months) \ {month} : CountingIn(m)' = CountingIn(m)
      BY <1>4, GetCounts
    <2>3. /\ Cardinality(Counting') = Cardinality(Counting) + 1
          /\ Cardinality(CountingIn(month) \cup {r}) = Cardinality(CountingIn(month)) + 1
      <3>1. /\ Counting \subseteq Requests /\ CountingIn(month) \subseteq Requests
            /\ r \notin CountingIn(month)
        BY <2>2 DEF Counting, CountingIn
      <3>2. QED  BY <2>2, <3>1, OneMore
    <2>4. ASSUME Limited, NEW m \in 1..Months PROVE Expected(m)' < Limit + hist'.peak
      <3>1. Expected(m) < Limit + hist.peak  BY <2>4 DEF UsageOK
      <3>2. CASE m = month
        <4>1. Expected(m)' = Used(m) + (Cardinality(CountingIn(m)) + 1)
                               + (sends - (Cardinality(Counting) + 1))
          BY <2>1, <2>2, <2>3, <3>2 DEF Expected
        <4>2. QED  BY <1>0, <2>1, <3>1, <3>2, <4>1, Numbers DEF Expected
      <3>3. CASE m # month
        BY <1>0, <2>1, <2>2, <3>1, <3>3, Numbers DEF Expected
      <3>4. QED  BY <3>2, <3>3
    <2>5. QED  BY <1>0, <2>1, <2>2, <2>4, LimitedStays DEF UsageOK
  <1>5. ASSUME NEW r \in Requests, UpdateRecord(r) PROVE UsageOK'
    <2>0. req[r].of[1] \in 1..Months  BY DEF TypeOK, Request, Days
    <2>10. PICK n \in 1..Months : n = req[r].of[1]  BY <2>0
    <2>1. /\ UNCHANGED <<month, hist>> /\ sends' = sends - 1
          /\ usage' = [usage EXCEPT ![n] = @ + 1]
      BY <1>5, <2>10 DEF UpdateRecord, accounts
    <2>2. /\ r \in Counting /\ Counting' = Counting \ {r}
          /\ r \in CountingIn(n)
          /\ \A m \in 1..Months : CountingIn(m)' = CountingIn(m) \ {r}
      BY <1>5, <2>10, UpdateCounts
    <2>3. n \in 1..Months  OBVIOUS
    <2>4. \A m \in (1..Months) \ {n} : r \notin CountingIn(m) /\ CountingIn(m)' = CountingIn(m)
      BY <2>10, <2>2 DEF CountingIn
    <2>5. n <= month  BY <1>0, <2>2, <2>3 DEF UsageOK
    <2>6. /\ Cardinality(Counting') = Cardinality(Counting) - 1
          /\ Cardinality(CountingIn(n) \ {r}) = Cardinality(CountingIn(n)) - 1
      <3>1. Counting \subseteq Requests /\ CountingIn(n) \subseteq Requests
        BY DEF Counting, CountingIn
      <3>2. QED  BY <2>2, <3>1, OneLess
    <2>7. /\ Used(n)' <= Used(n) + 1 /\ Used(n)' \in Nat
          /\ \A m \in (1..Months) \ {n} : Used(m)' = Used(m) /\ usage'[m] = usage[m]
      <3>1. /\ usage[n] \in Nat \cup {-1} /\ usage'[n] = usage[n] + 1
            /\ \A m \in (1..Months) \ {n} : usage'[m] = usage[m]
        BY <2>1, <2>3 DEF TypeOK
      <3>2. Used(n)' = IF usage'[n] = -1 THEN 0 ELSE usage'[n]  BY <2>3, <3>1 DEF Used
      <3>3. QED  BY <3>1, <3>2 DEF Used
    <2>8. ASSUME Limited, NEW m \in 1..Months PROVE Expected(m)' < Limit + hist'.peak
      <3>1. Expected(m) < Limit + hist.peak  BY <2>8 DEF UsageOK
      <3>2. sends' - Cardinality(Counting') = sends - Cardinality(Counting)
        BY <2>1, <2>3, <2>6, Numbers
      <3>3. CASE m = n
        <4>1. Expected(m)' = Used(n)' + (Cardinality(CountingIn(n)) - 1)
                  + (IF m = month THEN sends - Cardinality(Counting) ELSE 0)
          <5>1. /\ CountingIn(m)' = CountingIn(n) \ {r} /\ month' = month
                /\ Used(m)' = Used(n)'
            BY <2>1, <2>2, <2>3, <3>3 DEF Used
          <5>2. Expected(m)' = Used(m)' + Cardinality(CountingIn(m)')
                  + (IF m = month' THEN sends' - Cardinality(Counting') ELSE 0)
            BY DEF Expected
          <5>3. QED  BY <2>6, <3>2, <5>1, <5>2
        <4>2. QED  BY <1>0, <2>1, <2>7, <3>1, <3>3, <4>1, Numbers DEF Expected
      <3>4. CASE m # n
        <4>1. Expected(m)' = Used(m) + Cardinality(CountingIn(m))
                  + (IF m = month THEN sends - Cardinality(Counting) ELSE 0)
          BY <2>1, <2>4, <2>7, <3>2, <3>4 DEF Expected
        <4>2. QED  BY <2>1, <3>1, <4>1 DEF Expected
      <3>5. QED  BY <3>3, <3>4
    <2>9. QED  BY <1>0, <2>1, <2>4, <2>5, <2>7, <2>8, LimitedStays DEF UsageOK
  <1>8. ASSUME NEW r \in Requests, QueueSend(r)
        PROVE  UNCHANGED <<month, usage, sends, hist.peak, Counting>>
               /\ \A m \in 1..Months : CountingIn(m)' = CountingIn(m)
    BY <1>8, PressCounts DEF QueueSend, accounts, counts
  <1>6. CASE UNCHANGED <<month, usage, sends, hist.peak, Counting>>
             /\ \A m \in 1..Months : CountingIn(m)' = CountingIn(m)
    <2>1. \A m \in 1..Months : Expected(m)' = Expected(m)  BY <1>6 DEF Expected, Used
    <2>2. QED  BY <1>6, <2>1, LimitedStays DEF UsageOK
  <1>7. QED  BY <1>1, <1>2, <1>3, <1>4, <1>5, <1>6, <1>8, Steps

\* A month's campaigns go over the limit by less than the sends that were ever
\* under way together, from check to count.
THEOREM CampaignsLimited == Spec => []CampaignLimit
  <1>1. Init => UsageOK
    <2> SUFFICES ASSUME Init PROVE UsageOK  OBVIOUS
    <2>1. Counting = {} /\ \A m \in 1..Months : CountingIn(m) = {}
      BY DEF Init, Counting, CountingIn, Idle
    <2>2. /\ sends = 0 /\ hist.peak = 0
          /\ \A m \in 1..Months : usage[m] = -1 /\ Used(m) = 0
      BY DEF Init, Used
    <2>3. \A m \in 1..Months : Expected(m) = 0
      BY <2>1, <2>2, FS_EmptySet DEF Expected
    <2>4. Limited => Limit > 0  BY BillingAssumption DEF Limited
    <2>5. QED  BY <2>1, <2>2, <2>3, <2>4, BillingAssumption DEF UsageOK
  <1>2. TypeOK /\ QueueOK /\ UsageOK /\ TypeOK' /\ QueueOK' /\ [Next]_vars => UsageOK'
    BY UsageNext
  <1>3. TypeOK /\ QueueOK /\ UsageOK => CampaignLimit
    <2> SUFFICES ASSUME TypeOK, QueueOK, UsageOK, Limited, NEW m \in 1..Months
                 PROVE  usage[m] < Limit + hist.peak
      BY DEF CampaignLimit
    <2>1. usage[m] <= Expected(m) /\ Expected(m) < Limit + hist.peak /\ Expected(m) \in Nat
      <3>1. /\ Used(m) \in Nat /\ usage[m] <= Used(m)
            /\ Cardinality(CountingIn(m)) \in Nat /\ sends - Cardinality(Counting) \in Nat
        BY Numbers
      <3>2. usage[m] \in Int  BY DEF TypeOK
      <3>3. CASE m = month
        <4>1. Expected(m) = Used(m) + Cardinality(CountingIn(m))
                              + (sends - Cardinality(Counting))
          BY <3>3 DEF Expected
        <4>2. QED  BY <3>1, <3>2, <4>1 DEF UsageOK
      <3>4. CASE m # month
        <4>1. Expected(m) = Used(m) + Cardinality(CountingIn(m)) + 0
          BY <3>4 DEF Expected
        <4>2. QED  BY <3>1, <3>2, <4>1 DEF UsageOK
      <3>5. QED  BY <3>3, <3>4
    <2>2. usage[m] \in Int /\ hist.peak \in Nat /\ Limit \in Nat
      BY BillingAssumption DEF TypeOK
    <2>3. QED  BY <2>1, <2>2
  <1>4. QED  BY <1>1, <1>2, <1>3, TypeQueue, PTL DEF Spec

(***************************************************************************)
(* Live counts                                                             *)
(***************************************************************************)
Creating == {r \in Requests : At(r, "create", "insert")}

\* What is counted and about to be inserted is below the limit as each request
\* saw it, plus the requests that were let through together with it.
LiveOK ==
  Limited => live + Cardinality(Creating) <= (Limit - 1) + Cardinality(Requests) + hist.unchecked

LEMMA LiveNumbers ==
  ASSUME TypeOK
  PROVE  /\ Creating \subseteq Requests
         /\ live \in Nat /\ Limit \in Nat /\ hist.unchecked \in Nat
         /\ Cardinality(Creating) \in Nat /\ Cardinality(Requests) \in Nat
         /\ Cardinality(Creating) <= Cardinality(Requests)
  <1>1. Creating \subseteq Requests  BY DEF Creating
  <1>2. QED  BY <1>1, Finite, BillingAssumption DEF TypeOK

\* What a step may do to the rows that count and to those about to.
LEMMA LiveSteps ==
  ASSUME TypeOK, [Next]_vars
  PROVE  \/ \E r \in Requests : CheckLimit(r) \/ Insert(r)
         \/ live' = live + 1 /\ hist'.unchecked = hist.unchecked + 1 /\ Creating' = Creating
         \/ live' <= live /\ live' \in Nat /\ hist'.unchecked = hist.unchecked
            /\ Creating' = Creating
  <1> DEFINE Other == live' <= live /\ live' \in Nat /\ hist'.unchecked = hist.unchecked
                      /\ Creating' = Creating
  <1>0. req \in [Requests -> Request] /\ live \in Nat /\ idle \in Nat  BY DEF TypeOK
  <1> USE DEF accounts, counts
  <1>1. ASSUME UNCHANGED <<live, hist.unchecked>>, UNCHANGED req PROVE Other
    BY <1>0, <1>1 DEF Creating, At
  <1>2. ASSUME UNCHANGED <<live, hist.unchecked>>,
               NEW r \in Requests, req[r].op # "create", req'[r].op # "create",
               \A q \in Requests \ {r} : req'[q] = req[q]
        PROVE  Other
    BY <1>0, <1>2 DEF Creating, At
  <1>3. ASSUME NEW r \in Requests, CheckSends(r) \/ GetRecord(r) \/ RequestInvoice(r) \/ RunBatch(r)
        PROVE  Other
    <2>1. UNCHANGED <<live, hist.unchecked>> /\ req[r].op = "none"
      BY <1>3 DEF CheckSends, Begun, GetRecord, RequestInvoice, RunBatch, Start, Begin, TypeOK
    <2>2. \E op \in {"send", "count", "one", "batch"} : \E step, due, of :
            req' = [req EXCEPT ![r] = [op |-> op, at |-> step, todo |-> due, now |-> {},
                                       of |-> of]]
      BY <1>3 DEF CheckSends, GetRecord, RequestInvoice, RunBatch, Start, Begin
    <2>3. req'[r].op # "create" /\ \A q \in Requests \ {r} : req'[q] = req[q]
      BY <1>0, <2>2
    <2>4. QED  BY <1>2, <2>1, <2>3
  <1>4. ASSUME NEW r \in Requests, QueueSend(r) \/ PressFails(r) \/ UpdateRecord(r) PROVE Other
    <2>1. /\ UNCHANGED <<live, hist.unchecked>> /\ req[r].op \in {"send", "count"}
          /\ req' = [req EXCEPT ![r] = Idle]
      BY <1>4 DEF QueueSend, PressFails, UpdateRecord, At, Done
    <2>2. req'[r].op # "create" /\ \A q \in Requests \ {r} : req'[q] = req[q]
      BY <1>0, <2>1 DEF Idle
    <2>3. QED  BY <1>2, <2>1, <2>2
  <1>6. ASSUME NEW r \in Requests,
               FoundInvoice(r) \/ NoInvoice(r) \/ InsertInvoice(r) \/ Raise(r)
        PROVE  Other
    <2>1. UNCHANGED <<live, hist>> /\ req[r].op \in {"one", "batch"}
      BY <1>6 DEF FoundInvoice, NoInvoice, InsertInvoice, Raise, Billing
    <2>2. \/ req' = [req EXCEPT ![r] = Idle]
          \/ req' = [req EXCEPT ![r].at = "again"]
          \/ \E t : req' = [req EXCEPT ![r].at = "insert", ![r].now = {t}]
          \/ \E t : req' = [req EXCEPT ![r].at = "get", ![r].todo = @ \ {t}, ![r].now = {}]
      BY <1>6 DEF FoundInvoice, NoInvoice, InsertInvoice, Raise, Finish, Done, Goto
    <2>3. /\ \A q \in Requests \ {r} : req'[q] = req[q]
          /\ req'[r].op # "create"
      <3>1. CASE req' = [req EXCEPT ![r] = Idle]  BY <1>0, <3>1 DEF Idle
      <3>2. CASE req' # [req EXCEPT ![r] = Idle]
        BY <1>0, <2>1, <2>2, <3>2, ZenonT(30) DEF Request
      <3>3. QED  BY <3>1, <3>2
    <2>4. QED  BY <1>2, <2>1, <2>3
  <1>7. ASSUME NEW t \in Tenants, Onboard(t) \/ SuspendTenant(t) \/ ActivateTenant(t)
        PROVE  Other
    BY <1>1, <1>7 DEF Onboard, SuspendTenant, ActivateTenant
  <1>8. ASSUME DropSend \/ ChangePrice \/ MonthEnds PROVE Other
    <2>1. UNCHANGED <<live, req>>  BY <1>8 DEF DropSend, ChangePrice, MonthEnds
    <2>2. hist'.unchecked = hist.unchecked
      BY <1>8 DEF DropSend, ChangePrice, MonthEnds, TypeOK
    <2>3. QED  BY <1>1, <2>1, <2>2
  <1>9. CASE DeactivateUser
    <2>1. UNCHANGED <<req, hist>> /\ live' = live - 1 /\ live > 1  BY <1>9 DEF DeactivateUser
    <2>2. QED  BY <1>0, <2>1 DEF Creating, At
  <1>10. ASSUME InboundCustomer \/ ActivateUser
         PROVE  live' = live + 1 /\ hist'.unchecked = hist.unchecked + 1 /\ Creating' = Creating
    <2>1. UNCHANGED req /\ live' = live + 1 /\ hist' = [hist EXCEPT !.unchecked = @ + 1]
      BY <1>10 DEF InboundCustomer, ActivateUser, Unchecked
    <2>2. hist'.unchecked = hist.unchecked + 1  BY <2>1 DEF TypeOK
    <2>3. Creating' = Creating  BY <2>1 DEF Creating, At
    <2>4. QED  BY <2>1, <2>2, <2>3
  <1>11. CASE UNCHANGED vars  BY <1>1, <1>11 DEF vars
  <1>12. QED  BY <1>3, <1>4, <1>6, <1>7, <1>8, <1>9, <1>10, <1>11 DEF Next

LEMMA LiveNext == ASSUME TypeOK, TypeOK', LiveOK, [Next]_vars PROVE LiveOK'
  <1> SUFFICES ASSUME Limited'
               PROVE  live' + Cardinality(Creating')
                        <= (Limit - 1) + Cardinality(Requests) + hist'.unchecked
    BY DEF LiveOK
  <1>0. /\ Limited
        /\ live + Cardinality(Creating) <= (Limit - 1) + Cardinality(Requests) + hist.unchecked
    BY LimitedStays DEF LiveOK
  <1>1. ASSUME NEW r \in Requests, CheckLimit(r)
        PROVE  live' + Cardinality(Creating')
                 <= (Limit - 1) + Cardinality(Requests) + hist'.unchecked
    <2>1. live < Limit
      <3>1. Limit # 0 /\ HasPlan(Us)  BY <1>0 DEF Limited
      <3>2. Count = live  BY <1>1 DEF CheckLimit, Count
      <3>3. ~(Count >= Limit)  BY <1>1, <3>1 DEF CheckLimit, OverLimit
      <3>4. QED  BY <3>2, <3>3, LiveNumbers
    <2>2. live' = live /\ hist' = hist  BY <1>1 DEF CheckLimit, counts
    <2>3. Creating' \subseteq Requests  BY DEF Creating
    <2>4. /\ Cardinality(Creating') \in Nat
          /\ Cardinality(Creating') <= Cardinality(Requests)
      BY <2>3, Finite
    <2>5. QED  BY <2>1, <2>2, <2>4, LiveNumbers
  <1>2. ASSUME NEW r \in Requests, Insert(r)
        PROVE  live' + Cardinality(Creating')
                 <= (Limit - 1) + Cardinality(Requests) + hist'.unchecked
    <2>1. live' = live + 1 /\ hist' = hist  BY <1>2 DEF Insert
    <2>2. r \in Creating /\ Creating' = Creating \ {r}
      BY <1>2 DEF Insert, Done, Idle, Creating, At, TypeOK
    <2>3. Cardinality(Creating') = Cardinality(Creating) - 1
      BY <2>2, LiveNumbers, OneLess
    <2>4. QED  BY <1>0, <2>1, <2>3, LiveNumbers
  <1>3. ASSUME live' = live + 1, hist'.unchecked = hist.unchecked + 1, Creating' = Creating
        PROVE  live' + Cardinality(Creating')
                 <= (Limit - 1) + Cardinality(Requests) + hist'.unchecked
    BY <1>0, <1>3, LiveNumbers
  <1>4. ASSUME live' <= live, live' \in Nat, hist'.unchecked = hist.unchecked,
               Creating' = Creating
        PROVE  live' + Cardinality(Creating')
                 <= (Limit - 1) + Cardinality(Requests) + hist'.unchecked
    BY <1>0, <1>4, LiveNumbers
  <1>5. QED  BY <1>1, <1>2, <1>3, <1>4, LiveSteps

\* A limit on live counts is overshot by no more than the other requests in
\* flight and the rows that came in unchecked.
THEOREM LimitOvershoot == Spec => []LimitHolds
  <1>1. TypeOK /\ Init => LiveOK
    <2> SUFFICES ASSUME TypeOK, Init, Limited
                 PROVE  live + Cardinality(Creating)
                          <= (Limit - 1) + Cardinality(Requests) + hist.unchecked
      BY DEF LiveOK
    <2>1. Creating = {}  BY DEF Init, Creating, At, Idle
    <2>2. Cardinality(Creating) = 0  BY <2>1, FS_EmptySet
    <2>3. live <= 1 /\ hist.unchecked = 0  BY DEF Init
    <2>4. Limit > 0  BY BillingAssumption DEF Limited
    <2>5. Cardinality(Requests) > 0
      <3>1. PICK r \in Requests : TRUE  BY BillingAssumption
      <3>2. QED  BY OneLess, <3>1
    <2>6. QED  BY <2>2, <2>3, <2>4, <2>5, LiveNumbers
  <1>2. TypeOK /\ TypeOK' /\ LiveOK /\ [Next]_vars => LiveOK'  BY LiveNext
  <1>3. TypeOK /\ LiveOK => LimitHolds
    <2> SUFFICES ASSUME TypeOK, LiveOK, Limited
                 PROVE  live < Limit + Cardinality(Requests) + hist.unchecked
      BY DEF LimitHolds
    <2>1. live + Cardinality(Creating) <= (Limit - 1) + Cardinality(Requests) + hist.unchecked
      BY DEF LiveOK
    <2>2. QED  BY <2>1, LiveNumbers
  <1>4. QED  BY <1>1, <1>2, <1>3, TypeCorrect, PTL DEF Spec

(***************************************************************************)
(* Invoices                                                                *)
(***************************************************************************)
\* An invoice is inserted where its tenant and month have none, and never
\* touched again.
LEMMA InvoicesNext ==
  ASSUME BilledOnce, [Next]_vars
  PROVE  BilledOnce' /\ invoices \subseteq invoices'
  <1>1. ASSUME NEW r \in Requests, InsertInvoice(r)
        PROVE  BilledOnce' /\ invoices \subseteq invoices'
    <2>1. CASE invoices' = invoices  BY <2>1 DEF BilledOnce
    <2>2. CASE invoices' # invoices
      <3>1. PICK t \in req[r].now :
              /\ Numbered(t, req[r].of) = {}
              /\ invoices' = invoices \cup {Invoice(t, req[r].of)}
        BY <1>1, <2>2 DEF InsertInvoice
      <3> DEFINE new == Invoice(t, req[r].of)
      <3>2. new.tenant = t /\ new.of = req[r].of  BY DEF Invoice
      <3>3. \A i \in invoices : ~(i.tenant = t /\ i.of[1] = req[r].of[1])
        BY <3>1 DEF Numbered
      <3>4. BilledOnce'  BY <3>1, <3>2, <3>3 DEF BilledOnce
      <3>5. QED  BY <3>1, <3>4
    <2>3. QED  BY <2>1, <2>2
  <1>2. CASE UNCHANGED invoices  BY <1>2 DEF BilledOnce
  <1>3. QED
    BY <1>1, <1>2
    DEF Next, vars, Onboard, SuspendTenant, ActivateTenant, CheckLimit, Insert, GetRecord,
        UpdateRecord, RequestInvoice, RunBatch, FoundInvoice, NoInvoice, Raise,
        InboundCustomer, DeactivateUser, ActivateUser, CheckSends, QueueSend,
        PressFails, DropSend, ChangePrice, MonthEnds

\* A tenant is billed once for a calendar month, by whatever requests and runs,
\* however they overlap.
THEOREM Once == Spec => []BilledOnce
  <1>1. Init => BilledOnce  BY DEF Init, BilledOnce
  <1>2. BilledOnce /\ [Next]_vars => BilledOnce'  BY InvoicesNext
  <1>3. QED  BY <1>1, <1>2, PTL DEF Spec

\* No step changes or removes an invoice.
THEOREM Stay == Spec => InvoicesStay
  <1>1. Init => BilledOnce  BY DEF Init, BilledOnce
  <1>2. BilledOnce /\ [Next]_vars => BilledOnce' /\ invoices \subseteq invoices'
    BY InvoicesNext
  <1>3. QED  BY <1>1, <1>2, PTL DEF Spec, InvoicesStay
=============================================================================

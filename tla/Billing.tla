------------------------------- MODULE Billing -------------------------------
(***************************************************************************)
(* Plan limits, usage counters and invoices (apps.billing), with the       *)
(* tenants they are about (apps.tenants).                                  *)
(*                                                                         *)
(* A limit is checked in one statement and what it guards is inserted or   *)
(* counted in a later one, by the same request or by a Celery task.        *)
(* Neither the rows of a limit nor the invoices depend on those of another *)
(* limit or tenant, so a behaviour follows one `kind` of them: one limit   *)
(* of one tenant (Us), or the invoices of all.                             *)
(* Invoices are made by the super admin's request for one tenant and by    *)
(* the batch command for all; both may run at once.  A calendar day is     *)
(* <<month, day>> with day 1 or another day of the month (Midmonth).       *)
(***************************************************************************)
EXTENDS Integers, FiniteSets

CONSTANTS
    Tenants,     \* tenants that may exist
    Requests,    \* requests, commands and tasks that may be at work together
    Us,          \* the tenant whose limit is followed
    Limit,       \* the plan's maximum for it, 0 for none
    Months,      \* bound: calendar months, 1..Months
    MaxLive,     \* bound: rows counted, and rows that come in unchecked
    MaxSends,    \* bound: sends under way at once
    MaxServed    \* bound: requests and commands started

ASSUME BillingAssumption ==
    /\ IsFiniteSet(Requests) /\ Requests # {} /\ Us \in Tenants
    /\ Limit \in Nat /\ MaxLive \in Nat /\ MaxSends \in Nat /\ MaxServed \in Nat
    /\ Months \in Nat \ {0}

VARIABLES
    tenant,    \* tenants_tenant rows: status and whether a plan is assigned
    price,     \* price_monthly of the plan
    month,     \* the current month
    kind,      \* what is followed: a limit, or the invoices
    live,      \* rows that count against it
    idle,      \* deactivated users
    usage,     \* per month: the campaign_sends UsageRecord, -1 if absent
    sends,     \* campaign sends that passed the check and have not counted yet
    invoices,  \* billing_invoice rows
    req,       \* per request: operation, next statement and what it has read
    served,    \* requests and commands started
    hist       \* what has happened, for the properties

accounts == <<tenant, price, month>>
counts == <<kind, live, idle, usage, sends>>
vars == <<tenant, price, month, kind, live, idle, usage, sends, invoices, req, served, hist>>

Kinds == {"users", "customers", "whatsapp_accounts", "campaign_sends", "invoices"}

Midmonth == 15
Plans == {"none", "standard"}
TenantRow == [status : {"absent", "trial", "active", "suspended"}, plan : Plans]
Days == (1..Months) \X {1, Midmonth}
InvoiceRow == [tenant : Tenants, of : Days, amount : 1..2]
Request == [op : {"none", "create", "send", "count", "one", "batch"},
            at : {"done", "insert", "queue", "update", "get", "again"},
            todo : SUBSET Tenants, now : SUBSET Tenants, of : Days]
Idle == [op |-> "none", at |-> "done", todo |-> {}, now |-> {}, of |-> <<1, 1>>]
At(r, op, step) == req[r].op = op /\ req[r].at = step
Goto(r, step) == req' = [req EXCEPT ![r].at = step]
Done(r) == req' = [req EXCEPT ![r] = Idle]

\* Work about the tenants `due` starts, ...
Begin(r, op, step, due, of) ==
    /\ req[r].op = "none"
    /\ req' = [req EXCEPT ![r] = [op |-> op, at |-> step, todo |-> due,
                                  now |-> {}, of |-> of]]

\* ... by a request or a command, not by a task.
Start(r, op, step, due, of) ==
    /\ served < MaxServed /\ served' = served + 1
    /\ Begin(r, op, step, due, of)

Exists(t) == tenant[t].status # "absent"
HasPlan(t) == tenant[t].plan # "none"

\* _count_period_usage (no record counts as zero) and the live counts.
Count == IF kind = "campaign_sends" THEN (IF usage[month] = -1 THEN 0 ELSE usage[month])
         ELSE live

\* Mutant of OverLimit: one more than the plan allows.
OverLimitByOne == HasPlan(Us) /\ Limit # 0 /\ Count > Limit

\* is_over_limit; check_limit raises PlanLimitExceeded in the same cases.
OverLimit == HasPlan(Us) /\ Limit # 0 /\ Count >= Limit

Init ==
    /\ tenant \in [Tenants -> [status : {"absent", "trial"}, plan : Plans]]
    /\ price = 1 /\ month = 1
    /\ kind \in Kinds
    /\ live = (IF kind = "users" THEN 1 ELSE 0)
    /\ idle = 0 /\ sends = 0
    /\ usage = [m \in 1..Months |-> -1]
    /\ invoices = {} /\ served = 0
    /\ req = [r \in Requests |-> Idle]
    /\ hist = [unchecked |-> 0, peak |-> 0]

(***************************************************************************)
(* Tenants                                                                 *)
(***************************************************************************)
\* OnboardBusinessView: a new tenant is on trial, on the plan asked for or
\* the default one, or on none if there is no default.
Onboard(t) ==
    /\ ~Exists(t)
    /\ tenant' = [tenant EXCEPT ![t].status = "trial"]
    /\ UNCHANGED <<price, month, counts, invoices, req, served, hist>>

SuspendTenant(t) ==
    /\ Exists(t) /\ tenant[t].status # "suspended"
    /\ tenant' = [tenant EXCEPT ![t].status = "suspended"]
    /\ UNCHANGED <<price, month, counts, invoices, req, served, hist>>

ActivateTenant(t) ==
    /\ Exists(t) /\ tenant[t].status # "active"
    /\ tenant' = [tenant EXCEPT ![t].status = "active"]
    /\ UNCHANGED <<price, month, counts, invoices, req, served, hist>>

\* The admin site edits the plan.
ChangePrice ==
    /\ kind = "invoices" /\ price = 1 /\ price' = 2
    /\ UNCHANGED <<tenant, month, counts, invoices, req, served, hist>>

MonthEnds ==
    /\ month < Months /\ month' = month + 1
    /\ UNCHANGED <<tenant, price, counts, invoices, req, served, hist>>

(***************************************************************************)
(* Limits on live counts                                                   *)
(***************************************************************************)
\* perform_create of customers and WhatsApp accounts, create of staff: the
\* rows are counted ...
CheckLimit(r) ==
    /\ kind \in {"users", "customers", "whatsapp_accounts"} /\ Exists(Us) /\ ~OverLimit
    /\ Start(r, "create", "insert", {}, <<1, 1>>)
    /\ UNCHANGED <<accounts, counts, invoices, hist>>

\* ... and the new one is inserted.
Insert(r) ==
    /\ At(r, "create", "insert") /\ live < MaxLive
    /\ live' = live + 1
    /\ Done(r)
    /\ UNCHANGED <<accounts, kind, idle, usage, sends, invoices, served, hist>>

Unchecked == /\ live < MaxLive /\ hist.unchecked < MaxLive
             /\ live' = live + 1
             /\ hist' = [hist EXCEPT !.unchecked = @ + 1]

\* The webhook creates customers whatever the limit.
InboundCustomer ==
    /\ kind = "customers" /\ Exists(Us) /\ Unchecked
    /\ UNCHANGED <<accounts, kind, idle, usage, sends, invoices, req, served>>

\* PATCH of a staff member: a deactivated user is not counted, and one that is
\* activated again is not checked.
DeactivateUser ==
    /\ kind = "users" /\ live > 1
    /\ live' = live - 1 /\ idle' = idle + 1
    /\ UNCHANGED <<accounts, kind, usage, sends, invoices, req, served, hist>>

ActivateUser ==
    /\ idle > 0 /\ idle' = idle - 1 /\ Unchecked
    /\ UNCHANGED <<accounts, kind, usage, sends, invoices, req, served>>

(***************************************************************************)
(* Limits on the usage of a month                                          *)
(***************************************************************************)
\* One more send under way.
Begun ==
    /\ sends < MaxSends
    /\ sends' = sends + 1
    /\ hist' = [hist EXCEPT !.peak = IF sends + 1 > @ THEN sends + 1 ELSE @]

\* Mutant of CheckSends: only the task looks at the limit, and too late.
CheckSendsLater(r) ==
    /\ kind = "campaign_sends" /\ Exists(Us) /\ Begun
    /\ Start(r, "send", "queue", {}, <<1, 1>>)
    /\ UNCHANGED <<accounts, kind, live, idle, usage, invoices>>

\* CampaignSendView checks the counter, ...
CheckSends(r) ==
    /\ kind = "campaign_sends" /\ Exists(Us) /\ ~OverLimit /\ Begun
    /\ Start(r, "send", "queue", {}, <<1, 1>>)
    /\ UNCHANGED <<accounts, kind, live, idle, usage, invoices>>

\* ... queues the task that will count, whatever has been counted meanwhile, ...
QueueSend(r) ==
    /\ At(r, "send", "queue") /\ Done(r)
    /\ UNCHANGED <<accounts, counts, invoices, served, hist>>

\* ... or ends before it could.
PressFails(r) ==
    /\ At(r, "send", "queue") /\ Done(r)
    /\ sends' = sends - 1
    /\ UNCHANGED <<accounts, kind, live, idle, usage, invoices, served, hist>>

\* A task is in the queue: a send that no press or task has in hand.
Waiting == Cardinality({r \in Requests : req[r].op \in {"send", "count"}}) < sends

\* increment_usage: the record of the month is found or made ...
GetRecord(r) ==
    /\ Waiting /\ Begin(r, "count", "update", {}, <<month, 1>>)
    /\ usage' = [usage EXCEPT ![month] = IF @ = -1 THEN 0 ELSE @]
    /\ UNCHANGED <<accounts, kind, live, idle, sends, invoices, served, hist>>

\* ... and incremented in the database.
UpdateRecord(r) ==
    LET m == req[r].of[1]
    IN  /\ At(r, "count", "update")
        /\ usage' = [usage EXCEPT ![m] = @ + 1]
        /\ sends' = sends - 1
        /\ Done(r)
        /\ UNCHANGED <<accounts, kind, live, idle, invoices, served, hist>>

\* A task that finds nothing to send, or whose worker dies, counts nothing.
DropSend ==
    /\ Waiting /\ sends' = sends - 1
    /\ UNCHANGED <<accounts, kind, live, idle, usage, invoices, req, served, hist>>

(***************************************************************************)
(* Invoices                                                                *)
(***************************************************************************)
Invoice(t, of) == [tenant |-> t, of |-> of, amount |-> price]
For(t, of) == {i \in invoices : i.tenant = t /\ i.of = of}
\* Mutant of Numbered: the number shows the day as well.
NumberedByDay(t, of) == For(t, of)

\* invoice_number is INV-<slug>-<year and month> and unique.
Numbered(t, of) == {i \in invoices : i.tenant = t /\ i.of[1] = of[1]}

\* GenerateInvoiceView takes any period_start, the current month's first day
\* if none is given.
RequestInvoice(r) ==
    \E t \in Tenants, m \in 1..month, day \in {1, Midmonth} :
      /\ kind = "invoices" /\ Exists(t) /\ HasPlan(t)
      /\ Start(r, "one", "get", {t}, <<m, day>>)
      /\ UNCHANGED <<accounts, counts, invoices, hist>>

\* The command lists the trial and active tenants that have a plan.
RunBatch(r) ==
    LET due == {t \in Tenants : tenant[t].status \in {"trial", "active"} /\ HasPlan(t)}
    IN  /\ kind = "invoices" /\ due # {}
        /\ Start(r, "batch", "get", due, <<month, 1>>)
        /\ UNCHANGED <<accounts, counts, invoices, hist>>

Billing(r, step) == req[r].op \in {"one", "batch"} /\ req[r].at = step

\* One tenant less.
Finish(r, t) ==
    IF req[r].todo = {t} THEN Done(r)
    ELSE req' = [req EXCEPT ![r].at = "get", ![r].todo = @ \ {t}, ![r].now = {}]

\* Mutant of FoundInvoice: update_or_create.
FoundAndUpdated(r) ==
    \E t \in req[r].todo :
      /\ Billing(r, "get") \/ (Billing(r, "again") /\ req[r].now = {t})
      /\ For(t, req[r].of) # {}
      /\ invoices' = (invoices \ For(t, req[r].of)) \cup {Invoice(t, req[r].of)}
      /\ Finish(r, t)
      /\ UNCHANGED <<accounts, counts, served, hist>>

\* get_or_create: the row of this tenant and period_start is there, ...
FoundInvoice(r) ==
    \E t \in req[r].todo :
      /\ Billing(r, "get") \/ (Billing(r, "again") /\ req[r].now = {t})
      /\ For(t, req[r].of) # {}
      /\ Finish(r, t)
      /\ UNCHANGED <<accounts, counts, invoices, served, hist>>

\* ... or is to be inserted, ...
NoInvoice(r) ==
    \E t \in req[r].todo :
      /\ Billing(r, "get") /\ For(t, req[r].of) = {}
      /\ req' = [req EXCEPT ![r].at = "insert", ![r].now = {t}]
      /\ UNCHANGED <<accounts, counts, invoices, served, hist>>

\* ... which the unique number allows once a month, ...
InsertInvoice(r) ==
    \E t \in req[r].now :
      /\ Billing(r, "insert")
      /\ \/ /\ Numbered(t, req[r].of) = {}
            /\ invoices' = invoices \cup {Invoice(t, req[r].of)}
            /\ Finish(r, t)
         \/ /\ Numbered(t, req[r].of) # {}
            /\ Goto(r, "again")
            /\ UNCHANGED invoices
      /\ UNCHANGED <<accounts, counts, served, hist>>

\* ... and if the second look finds nothing the IntegrityError ends it all.
Raise(r) ==
    \E t \in req[r].now :
      /\ Billing(r, "again") /\ For(t, req[r].of) = {}
      /\ Done(r)
      /\ UNCHANGED <<accounts, counts, invoices, served, hist>>

Next ==
    \/ \E t \in Tenants : Onboard(t) \/ SuspendTenant(t) \/ ActivateTenant(t)
    \/ \E r \in Requests :
         \/ CheckLimit(r) \/ Insert(r) \/ CheckSends(r) \/ QueueSend(r) \/ PressFails(r)
         \/ GetRecord(r) \/ UpdateRecord(r)
         \/ RequestInvoice(r) \/ RunBatch(r) \/ FoundInvoice(r) \/ NoInvoice(r)
         \/ InsertInvoice(r) \/ Raise(r)
    \/ InboundCustomer \/ DeactivateUser \/ ActivateUser \/ DropSend
    \/ ChangePrice \/ MonthEnds

Spec == Init /\ [][Next]_vars

(***************************************************************************)
(* Properties                                                              *)
(***************************************************************************)
\* Type invariant of the tenants, their counts, invoices and the requests.
TypeOK ==
    /\ tenant \in [Tenants -> TenantRow]
    /\ price \in 1..2 /\ month \in 1..Months /\ served \in Nat
    /\ kind \in Kinds /\ live \in Nat /\ idle \in Nat /\ sends \in Nat
    /\ usage \in [1..Months -> Nat \cup {-1}]
    /\ invoices \subseteq InvoiceRow
    /\ req \in [Requests -> Request]
    /\ hist \in [unchecked : Nat, peak : Nat]

Limited == HasPlan(Us) /\ Limit # 0

\* Checked creations overshoot a live-count limit by no more than the other
\* requests in flight; the rest of the rows came in unchecked.
LimitHolds == Limited => live < Limit + Cardinality(Requests) + hist.unchecked

\* Campaigns are sent beyond the month's limit only by presses that overlap: by
\* less than the sends that were ever under way together, each from its check to
\* its count, which the queue may delay without end.
CampaignLimit == Limited => \A m \in 1..Months : usage[m] < Limit + hist.peak

\* A tenant is billed once for a calendar month, from whatever day.
BilledOnce == \A i, j \in invoices : i.tenant = j.tenant /\ i.of[1] = j.of[1] => i = j

\* An invoice that is asked for again, by whichever way, stays as it was made,
\* whatever the plan costs meanwhile.
InvoicesStay == [][invoices \subseteq invoices']_vars

=============================================================================

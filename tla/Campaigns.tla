----------------------------- MODULE Campaigns -----------------------------
(***************************************************************************)
(* One bulk WhatsApp campaign of one business: the Send button             *)
(* (CampaignSendView), the Celery task it enqueues (send_campaign_task ->  *)
(* send_campaign -> _send_to_recipient), the PATCH endpoint of the         *)
(* campaign, and customers whose marketing consent changes meanwhile.      *)
(*                                                                         *)
(* Nothing in the code locks a row or opens a transaction around these     *)
(* handlers, so every database statement is a step of its own and what a   *)
(* handler has read may be stale when it writes.  Each press of Send owns  *)
(* at most one task, so presses name the tasks they enqueue too.           *)
(***************************************************************************)
EXTENDS Naturals, FiniteSets

CONSTANTS
  Customers,    \* customers of the business
  Presses,      \* POST .../send/ requests; each enqueues at most one task
  Editors,      \* PATCH .../campaigns/{id}/ requests
  Concurrency,  \* tasks the workers run at the same time (--concurrency)
  Limit,        \* the plan's max campaign_sends per month (0 is unlimited)
  MaxCrashes,   \* bound: worker processes that die during a task
  NoCustomer    \* the absence of a customer

ASSUME CampaignAssumption ==
  /\ NoCustomer \notin Customers
  /\ IsFiniteSet(Customers) /\ IsFiniteSet(Presses)
  /\ Concurrency \in Nat \ {0}
  /\ Limit \in Nat
  /\ MaxCrashes \in Nat

VARIABLES
  status,     \* Campaign.status
  counts,     \* the four counter columns of the campaign row
  row,        \* CampaignRecipient.status of each customer, "none" if no row
  optin,      \* Customer.marketing_opt_in
  usage,      \* UsageRecord of campaign_sends for the month
  pc,         \* where each press, then its task, stands
  mem,        \* counters of the Campaign instance the task holds in memory
  batch,      \* the set of customers the task holds in a local variable
  cur,        \* the recipient the task is working on
  result,     \* result["success"] of the task's last provider call
  edit,       \* each PATCH: its phase and the Campaign instance it loaded
  crashes,    \* worker deaths so far
  attempted,  \* history: customers each task called the provider for
  accepted,   \* history: those whose message the provider took
  stored,     \* history: those the task stored a Message row for
  peers,      \* history: tasks at work when a task listed its recipients
  outSince    \* history: customers opted out ever since that listing

campaign == <<status, counts>>
history  == <<attempted, accepted, stored, peers, outSince>>
vars == <<status, counts, row, optin, usage, pc, mem, batch, cur, result,
          edit, crashes, attempted, accepted, stored, peers, outSince>>

Status    == {"draft", "scheduled", "sending", "sent", "failed"}
Sendable  == {"draft", "scheduled"}
Decided   == {"sent", "failed", "skipped"}
RowStatus == {"none", "pending"} \cup Decided
Counts    == [recipient_count : Nat, sent_count : Nat,
              failed_count : Nat, skipped_count : Nat]
NoCounts  == [recipient_count |-> 0, sent_count |-> 0,
              failed_count |-> 0, skipped_count |-> 0]

InView     == {"idle", "eligible", "allowed", "marked"}
Preparing  == {"started", "gating", "segment", "creating", "counting",
               "snapshot", "listing"}
Delivering == {"metering", "sending", "skipping", "calling", "storing",
               "recording"}
Running    == Preparing \cup Delivering \cup {"empty"}
Settled    == {"rejected", "unqueued", "sent", "failed", "conflict", "died"}
PC         == InView \cup {"queued"} \cup Running \cup Settled

RunningTasks  == {p \in Presses : pc[p] \in Running}
Existing      == {c \in Customers : row[c] # "none"}
Pending       == {c \in Customers : row[c] = "pending"}

\* The task returns: its locals are gone (the history keeps what they did).
Drop(p) == /\ mem' = [mem EXCEPT ![p] = NoCounts]
           /\ batch' = [batch EXCEPT ![p] = {}]

Goto(p, from, to) == pc[p] = from /\ pc' = [pc EXCEPT ![p] = to]

Init ==
  /\ status = "draft" /\ counts = NoCounts
  /\ row = [c \in Customers |-> "none"]
  /\ optin \in [Customers -> BOOLEAN]
  /\ usage = 0
  /\ pc = [p \in Presses |-> "idle"]
  /\ mem = [p \in Presses |-> NoCounts]
  /\ batch = [p \in Presses |-> {}]
  /\ cur = [p \in Presses |-> NoCustomer]
  /\ result = [p \in Presses |-> FALSE]
  /\ edit = [e \in Editors |-> [phase |-> "idle", status |-> "draft",
                                counts |-> NoCounts]]
  /\ crashes = 0
  /\ attempted = [p \in Presses |-> {}]
  /\ accepted = [p \in Presses |-> {}]
  /\ stored = [p \in Presses |-> {}]
  /\ peers = [p \in Presses |-> {}]
  /\ outSince = [p \in Presses |-> {}]

(***************************************************************************)
(* CampaignSendView.post: four statements of one request.                  *)
(***************************************************************************)

\* get_object, then the status test.
Press(p) ==
  /\ Goto(p, "idle", IF status \in Sendable THEN "eligible" ELSE "rejected")
  /\ UNCHANGED <<campaign, row, optin, usage, mem, batch, cur, result, edit,
                 crashes, history>>

\* check_limit(tenant, "campaign_sends") reads the month's counter.
CheckLimit(p) ==
  /\ Goto(p, "eligible",
          IF Limit # 0 /\ usage >= Limit THEN "rejected" ELSE "allowed")
  /\ UNCHANGED <<campaign, row, optin, usage, mem, batch, cur, result, edit,
                 crashes, history>>

\* save(update_fields=["status"]) writes "scheduled" over whatever is there.
MarkScheduled(p) ==
  /\ Goto(p, "allowed", "marked")
  /\ status' = "scheduled"
  /\ UNCHANGED <<counts, row, optin, usage, mem, batch, cur, result, edit,
                 crashes, history>>

\* send_campaign_task.delay: the broker takes the task, or raises (a 500).
Enqueue(p) ==
  /\ \E to \in {"queued", "unqueued"} : Goto(p, "marked", to)
  /\ UNCHANGED <<campaign, row, optin, usage, mem, batch, cur, result, edit,
                 crashes, history>>

(***************************************************************************)
(* send_campaign_task and send_campaign, up to the recipients.             *)
(***************************************************************************)

\* A free worker takes the task and loads the campaign into memory.
StartTask(p) ==
  /\ Cardinality(RunningTasks) < Concurrency
  /\ Goto(p, "queued", "started")
  /\ mem' = [mem EXCEPT ![p] = counts]
  /\ UNCHANGED <<campaign, row, optin, usage, batch, cur, result, edit,
                 crashes, history>>

MarkSending(p) ==
  /\ Goto(p, "started", "gating")
  /\ status' = "sending"
  /\ UNCHANGED <<counts, row, optin, usage, mem, batch, cur, result, edit,
                 crashes, history>>

\* Mutant of FailGate: the task returns without recording the failure.
ReturnAtGate(p) ==
  /\ Goto(p, "gating", "failed")
  /\ Drop(p)
  /\ UNCHANGED <<campaign, row, optin, usage, cur, result, edit, crashes,
                 history>>

\* Template not approved, or no connected account: both belong to the
\* manager, who may have changed them at any moment, so either may be found.
FailGate(p) ==
  /\ Goto(p, "gating", "failed")
  /\ status' = "failed"
  /\ Drop(p)
  /\ UNCHANGED <<counts, row, optin, usage, cur, result, edit, crashes,
                 history>>

\* Past the gates; prepare_campaign_recipients reads existing_customer_ids.
ReadExisting(p) ==
  /\ Goto(p, "gating", "segment")
  /\ batch' = [batch EXCEPT ![p] = Existing]
  /\ UNCHANGED <<campaign, row, optin, usage, mem, cur, result, edit,
                 crashes, history>>

\* get_segment_customers: the filters select any set, opt-in always applies.
ReadSegment(p) ==
  /\ Goto(p, "segment", "creating")
  /\ \E S \in SUBSET Customers :
       batch' = [batch EXCEPT ![p] = {c \in S : optin[c]} \ @]
  /\ UNCHANGED <<campaign, row, optin, usage, mem, cur, result, edit,
                 crashes, history>>

\* bulk_create is one transaction under unique_customer_per_campaign.
CreateRecipients(p) ==
  /\ batch[p] \cap Existing = {}
  /\ Goto(p, "creating", "counting")
  /\ row' = [c \in Customers |-> IF c \in batch[p] THEN "pending" ELSE row[c]]
  /\ batch' = [batch EXCEPT ![p] = {}]
  /\ UNCHANGED <<campaign, optin, usage, mem, cur, result, edit, crashes,
                 history>>

\* IntegrityError: another task inserted one of them; nobody catches it.
CreateConflict(p) ==
  /\ batch[p] \cap Existing # {}
  /\ Goto(p, "creating", "conflict")
  /\ Drop(p)
  /\ UNCHANGED <<campaign, row, optin, usage, cur, result, edit, crashes,
                 history>>

CountRecipients(p) ==
  /\ Goto(p, "counting", "snapshot")
  /\ mem' = [mem EXCEPT ![p].recipient_count = Cardinality(Existing)]
  /\ UNCHANGED <<campaign, row, optin, usage, batch, cur, result, edit,
                 crashes, history>>

SaveRecipientCount(p) ==
  /\ Goto(p, "snapshot", "listing")
  /\ counts' = [counts EXCEPT !.recipient_count = mem[p].recipient_count]
  /\ UNCHANGED <<status, row, optin, usage, mem, batch, cur, result, edit,
                 crashes, history>>

\* Mutant of ListPending: without the filter on the recipients' status.
ListEveryone(p) ==
  /\ Goto(p, "listing", IF Existing = {} THEN "empty" ELSE "metering")
  /\ batch' = [batch EXCEPT ![p] = Existing]
  /\ peers' = [peers EXCEPT
       ![p] = {q \in Presses \ {p} : pc[q] \in Delivering}]
  /\ outSince' = [outSince EXCEPT ![p] = {c \in Customers : ~optin[c]}]
  /\ UNCHANGED <<campaign, row, optin, usage, mem, cur, result, edit, crashes,
                 attempted, accepted, stored>>

\* recipients = list(... status=PENDING).
ListPending(p) ==
  /\ Goto(p, "listing", IF Pending = {} THEN "empty" ELSE "metering")
  /\ batch' = [batch EXCEPT ![p] = Pending]
  /\ peers' = [peers EXCEPT
       ![p] = {q \in Presses \ {p} : pc[q] \in Delivering}]
  /\ outSince' = [outSince EXCEPT ![p] = {c \in Customers : ~optin[c]}]
  /\ UNCHANGED <<campaign, row, optin, usage, mem, cur, result, edit, crashes,
                 attempted, accepted, stored>>

\* "Segment has no opted-in customers."
FailEmpty(p) ==
  /\ Goto(p, "empty", "failed")
  /\ status' = "failed"
  /\ Drop(p)
  /\ UNCHANGED <<counts, row, optin, usage, cur, result, edit, crashes,
                 history>>

\* increment_usage is one atomic UPDATE, once per task.
MeterUsage(p) ==
  /\ Goto(p, "metering", "sending")
  /\ usage' = usage + 1
  /\ UNCHANGED <<campaign, row, optin, mem, batch, cur, result, edit, crashes,
                 history>>

(***************************************************************************)
(* _send_to_recipient, for each recipient of the list.                     *)
(***************************************************************************)

\* Mutant of FetchCustomer: consent is only checked when rows are prepared.
FetchUnchecked(p, c) ==
  /\ c \in batch[p]
  /\ Goto(p, "sending", "calling")
  /\ cur' = [cur EXCEPT ![p] = c]
  /\ batch' = [batch EXCEPT ![p] = @ \ {c}]
  /\ UNCHANGED <<campaign, row, optin, usage, mem, result, edit, crashes,
                 history>>

\* recipient.customer is fetched here, so the consent it carries is fresh.
FetchCustomer(p, c) ==
  /\ c \in batch[p]
  /\ Goto(p, "sending", IF optin[c] THEN "calling" ELSE "skipping")
  /\ cur' = [cur EXCEPT ![p] = c]
  /\ batch' = [batch EXCEPT ![p] = @ \ {c}]
  /\ UNCHANGED <<campaign, row, optin, usage, mem, result, edit, crashes,
                 history>>

\* Mutant of SkipRecipient: the skipped recipient is not counted.
SkipUncounted(p) ==
  /\ Goto(p, "skipping", "sending")
  /\ row' = [row EXCEPT ![cur[p]] = "skipped"]
  /\ cur' = [cur EXCEPT ![p] = NoCustomer]
  /\ UNCHANGED <<campaign, optin, usage, mem, batch, result, edit, crashes,
                 history>>

\* Not opted in any more: the row says so, nothing is sent.
SkipRecipient(p) ==
  /\ Goto(p, "skipping", "sending")
  /\ row' = [row EXCEPT ![cur[p]] = "skipped"]
  /\ mem' = [mem EXCEPT ![p].skipped_count = @ + 1]
  /\ cur' = [cur EXCEPT ![p] = NoCustomer]
  /\ UNCHANGED <<campaign, optin, usage, batch, result, edit, crashes,
                 history>>

\* send_template_message: Meta may take the message and the answer be lost
\* (a timeout reports failure), but success is only reported if it took it.
CallProvider(p) ==
  /\ Goto(p, "calling", "storing")
  /\ \E taken, success \in BOOLEAN :
       /\ success => taken
       /\ result' = [result EXCEPT ![p] = success]
       /\ accepted' = [accepted EXCEPT
            ![p] = IF taken THEN @ \cup {cur[p]} ELSE @]
  /\ attempted' = [attempted EXCEPT ![p] = @ \cup {cur[p]}]
  /\ UNCHANGED <<campaign, row, optin, usage, mem, batch, cur, edit, crashes,
                 stored, peers, outSince>>

\* Mutant of StoreMessage: only messages that were accepted are stored.
StoreTaken(p) ==
  /\ Goto(p, "storing", "recording")
  /\ stored' = [stored EXCEPT ![p] = IF result[p] THEN @ \cup {cur[p]} ELSE @]
  /\ UNCHANGED <<campaign, row, optin, usage, mem, batch, cur, result, edit,
                 crashes, attempted, accepted, peers, outSince>>

\* Find or open the conversation, create the Message, record_message.
StoreMessage(p) ==
  /\ Goto(p, "storing", "recording")
  /\ stored' = [stored EXCEPT ![p] = @ \cup {cur[p]}]
  /\ UNCHANGED <<campaign, row, optin, usage, mem, batch, cur, result, edit,
                 crashes, attempted, accepted, peers, outSince>>

\* The outcome goes to the row and, in memory, to the campaign's counters.
RecordOutcome(p) ==
  /\ Goto(p, "recording", "sending")
  /\ row' = [row EXCEPT ![cur[p]] = IF result[p] THEN "sent" ELSE "failed"]
  /\ mem' = IF result[p] THEN [mem EXCEPT ![p].sent_count = @ + 1]
                         ELSE [mem EXCEPT ![p].failed_count = @ + 1]
  /\ cur' = [cur EXCEPT ![p] = NoCustomer]
  /\ result' = [result EXCEPT ![p] = FALSE]
  /\ UNCHANGED <<campaign, optin, usage, batch, edit, crashes, history>>

\* Mutant of FinishCampaign: the loop stops one recipient short.
FinishShort(p) ==
  /\ Cardinality(batch[p]) <= 1
  /\ Goto(p, "sending", "sent")
  /\ status' = "sent"
  /\ counts' = [mem[p] EXCEPT !.recipient_count = counts.recipient_count]
  /\ Drop(p)
  /\ UNCHANGED <<row, optin, usage, cur, result, edit, crashes, history>>

\* The list is exhausted: status and three counters are saved together.
FinishCampaign(p) ==
  /\ batch[p] = {}
  /\ Goto(p, "sending", "sent")
  /\ status' = "sent"
  /\ counts' = [mem[p] EXCEPT !.recipient_count = counts.recipient_count]
  /\ Drop(p)
  /\ UNCHANGED <<row, optin, usage, cur, result, edit, crashes, history>>

\* The worker dies; the task was acknowledged when taken and is not redone.
Die(p) ==
  /\ crashes < MaxCrashes
  /\ pc[p] \in Running
  /\ pc' = [pc EXCEPT ![p] = "died"]
  /\ crashes' = crashes + 1
  /\ Drop(p)
  /\ UNCHANGED <<campaign, row, optin, usage, cur, result, edit, history>>

(***************************************************************************)
(* PATCH of the campaign, and consent changed by staff or by the customer. *)
(***************************************************************************)

EditLoad(e) ==
  /\ edit[e].phase = "idle"
  /\ edit' = [edit EXCEPT ![e] = [phase |-> "loaded", status |-> status,
                                  counts |-> counts]]
  /\ UNCHANGED <<campaign, row, optin, usage, pc, mem, batch, cur, result,
                 crashes, history>>

\* ModelSerializer.update ends in instance.save(): every column is written.
EditSave(e) ==
  /\ edit[e].phase = "loaded"
  /\ status' = edit[e].status
  /\ counts' = edit[e].counts
  /\ edit' = [edit EXCEPT ![e].phase = "saved"]
  /\ UNCHANGED <<row, optin, usage, pc, mem, batch, cur, result, crashes,
                 history>>

\* A staff member sets Customer.marketing_opt_in.
SetConsent(c, consent) ==
  /\ optin[c] # consent
  /\ optin' = [optin EXCEPT ![c] = consent]
  /\ outSince' = IF consent THEN [p \in Presses |-> outSince[p] \ {c}]
                            ELSE outSince
  /\ UNCHANGED <<campaign, row, usage, pc, mem, batch, cur, result, edit,
                 crashes, attempted, accepted, stored, peers>>

View(p) == Press(p) \/ CheckLimit(p) \/ MarkScheduled(p) \/ Enqueue(p)

Prepare(p) ==
  \/ StartTask(p) \/ MarkSending(p) \/ FailGate(p) \/ ReadExisting(p)
  \/ ReadSegment(p) \/ CreateRecipients(p) \/ CreateConflict(p)
  \/ CountRecipients(p) \/ SaveRecipientCount(p) \/ ListPending(p)
  \/ FailEmpty(p) \/ MeterUsage(p)

Deliver(p) ==
  \/ \E c \in Customers : FetchCustomer(p, c)
  \/ SkipRecipient(p) \/ CallProvider(p) \/ StoreMessage(p)
  \/ RecordOutcome(p) \/ FinishCampaign(p)

Task(p) == Prepare(p) \/ Deliver(p)

Next ==
  \/ \E p \in Presses : View(p) \/ Task(p) \/ Die(p)
  \/ \E e \in Editors : EditLoad(e) \/ EditSave(e)
  \/ \E c \in Customers, consent \in BOOLEAN : SetConsent(c, consent)

Spec == Init /\ [][Next]_vars

\* Workers keep working and a request that reached the view runs to its end;
\* users owe nothing, and nothing promises that a worker does not die.
FairSpec ==
  /\ Spec
  /\ \A p \in Presses : WF_vars(Task(p))
  /\ \A p \in Presses : WF_vars(pc[p] # "idle" /\ View(p))
  /\ \A e \in Editors : WF_vars(EditSave(e))

-----------------------------------------------------------------------------
(***************************************************************************)
(* Correctness.                                                            *)
(***************************************************************************)

TypeOK ==
  /\ status \in Status /\ counts \in Counts
  /\ row \in [Customers -> RowStatus]
  /\ optin \in [Customers -> BOOLEAN]
  /\ usage \in Nat /\ crashes \in Nat
  /\ pc \in [Presses -> PC]
  /\ mem \in [Presses -> Counts]
  /\ batch \in [Presses -> SUBSET Customers]
  /\ cur \in [Presses -> Customers \cup {NoCustomer}]
  /\ \A p \in Presses : pc[p] \in {"skipping", "calling", "storing", "recording"}
                         => cur[p] \in Customers
  /\ result \in [Presses -> BOOLEAN]
  /\ edit \in [Editors -> [phase : {"idle", "loaded", "saved"},
                           status : Status, counts : Counts]]
  /\ attempted \in [Presses -> SUBSET Customers]
  /\ accepted \in [Presses -> SUBSET Customers]
  /\ stored \in [Presses -> SUBSET Customers]
  /\ peers \in [Presses -> SUBSET Presses]
  /\ outSince \in [Presses -> SUBSET Customers]

\* Consent (docs/campaigns.md: "re-checked a second time at actual send time").
\* A customer who has been opted out ever since a task listed its recipients
\* is not messaged by that task, however long the task takes and whoever
\* created the recipient row.
OptOutRespected == \A p \in Presses : attempted[p] \cap outSince[p] = {}

\* The task died between calling the provider for c and saving the outcome.
LostRecord(p, c) == pc[p] = "died" /\ cur[p] = c

\* Two tasks of the same campaign message the same customer only if one was
\* at work when the other listed its recipients, or a worker died in between
\* messaging the customer and recording it; and no task repeats itself.
NoRepeat ==
  /\ \A s, t \in Presses : s # t =>
       \A c \in attempted[s] \cap attempted[t] :
         \/ s \in peers[t] \/ t \in peers[s]
         \/ LostRecord(s, c) \/ LostRecord(t, c)
  /\ \A p \in Presses : pc[p] = "calling" => cur[p] \notin attempted[p]

\* prepare_campaign_recipients may leave rows behind for a task to pick up.
\* Once no task is at work, and unless a worker died, none is left pending:
\* a task that ends in a conflict has inserted nothing, and one that fails
\* structurally fails before it inserts or when nobody is left to message.
NoneLeftBehind ==
  (\A p \in Presses : pc[p] \notin Running \cup {"died"}) => Pending = {}

\* What the recipient list shows is backed by the inbox: a recipient shown
\* sent or failed has a stored Message of this campaign, one shown sent was
\* taken by the provider, and a customer whom a task has messaged is shown
\* as decided, except while (or if) that task is cut off in between.
RowsBacked ==
  \A c \in Customers :
    /\ row[c] \in {"sent", "failed"} => \E p \in Presses : c \in stored[p]
    /\ row[c] = "sent" => \E p \in Presses : c \in accepted[p] \cap stored[p]
    /\ \A p \in Presses :
         c \in attempted[p] /\ cur[p] # c => row[c] \in Decided

Unpatched == \A e \in Editors : edit[e].phase # "saved"

\* Without crashes and until a PATCH is saved, a campaign is never left
\* "sending" by tasks that are gone: a task that dies of a conflict leaves the
\* status to the task it conflicted with, which is still at work.
NeverStranded ==
  (\A p \in Presses : pc[p] \notin Running \cup {"died"}) /\ Unpatched
    => status # "sending"

\* The counters of a sent campaign are those of its recipient list.
CountsMatchRows ==
  LET Rows(s) == Cardinality({c \in Customers : row[c] \in s})
  IN status = "sent" =>
       /\ counts.sent_count = Rows({"sent"})
       /\ counts.failed_count = Rows({"failed"})
       /\ counts.skipped_count = Rows({"skipped"})
       /\ counts.recipient_count = Rows(Decided)

\* Whenever the broker holds a task of the campaign, the campaign has an
\* outcome at some later moment, even if that very task ends in a conflict;
\* but a campaign whose worker dies may be left as it is for good.
QueuedGetsOutcome ==
  \A p \in Presses :
    pc[p] = "queued" ~> status \in {"sent", "failed"} \/ crashes > 0

\* One press of Send keeps the promise of CampaignPromise: "draft" and
\* "scheduled" are its open phase, recipient rows the customers' fates.
Promise == INSTANCE CampaignPromise WITH
  phase <- IF status \in Sendable THEN "open" ELSE status,
  fate  <- row

KeepsPromise == Promise!Spec
=============================================================================

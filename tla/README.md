# Verification of WhatsAppBusinessAI

TLA+ models of the backend of WhatsAppBusinessAI (Django, Celery, PostgreSQL),
the configurations with which TLC checks them, and proofs that TLAPS checks.
The models are translated from the code under `src/backend`; docs and tests are
read for what the code should do.

Contents: [the system](#the-system) ·
[how it executes](#how-the-system-executes) ·
[modules](#modules) · [runs](#runs) · [proofs](#proofs) ·
[where code and docs disagree](#where-the-code-and-its-docs-disagree) ·
[what is left out](#what-is-left-out) · [plan](#plan)

## The system

A business connects a WhatsApp number. Customers write to it; a webhook stores
what they write; an assistant answers or hands the conversation to staff. Staff
reply, take orders and send campaigns. Every row belongs to a tenant, and the
tenant's plan limits what it may use.

| Component | State it keeps | Operations that change it | What makes it correct |
|---|---|---|---|
| campaigns | `Campaign` (status, four counters), `CampaignRecipient` | create, PATCH, Send, the delivery task | consent respected; nobody messaged twice; every campaign gets an outcome; recipients, counters and inbox agree |
| orders | `Order`, `OrderItem` | create, status transition, PATCH | forward-only lifecycle; confirmation recorded; audit rows explain the status; the total is a snapshot |
| whatsapp webhook | `MessageEvent`; writes `Customer`, `Conversation`, `Message` | POST of deliveries | each message stored once whatever Meta redelivers; nothing acknowledged is lost; no waiting for ever |
| whatsapp outbound | `Message.status` of outbound messages | post_save signal, send task | the status shown is what happened; a message is not left pending without cause |
| ai | `AISettings`; writes `Message`, `Conversation.ai_enabled`, `AuditLog` | reply task: reply, hand off or stay silent | a hand-off is told and logged and holds; the usage limit bounds real calls |
| conversations | `Conversation` (status, `assigned_to`, `ai_enabled`, `unread_count`), `ConversationAssignment` | POST, PATCH, assign, `record_message` | unread counts within bounds; the open assignment is that of `assigned_to` |
| messages | `Message` | staff reply (POST) | stored and dispatched once |
| billing | `UsageRecord`, `Invoice` | `check_limit`, `is_over_limit`, `increment_usage`, `generate_invoice` by request and by batch | limits hold up to a known overshoot; a month is billed once; an invoice stays as it was made |
| knowledge | `KnowledgeDocument`, `KnowledgeChunk` | upload, the ingestion task, deletion, retrieval | the chunks of a ready document cover its text; a question is answered from what is there |
| accounts | `User` (lockout, MFA), `MFABackupCode`, `PasswordResetToken`, refresh tokens | login, MFA enrolment and verification, resets, PATCH of staff, refresh, logout | enough failures lock and nothing else does; a code or token is used up; what was saved is not undone behind one's back |
| customers | `Customer` with its marketing consent | PATCH, `touch_interaction`, soft deletion | a withdrawn consent does not come back by itself |
| tenants | `Tenant`, its plan and owner | onboarding, suspension, activation | every tenant has an owner |
| management commands | what they create | `seed_dev_data`, `createsuperadmin`, `provision_e2e_user`, `generate_invoices`, `reset_mfa` | safe to run again |
| analytics | none | figures over the messages | they are what the messages say |
| products, businesses | their rows | CRUD | inputs to the others |
| common audit log | `AuditLog` | append | rows tell what happened |
| core | none per request | scoping, permissions, exceptions, encryption | – |
| frontend | the tokens in the browser | `apiFetch`, refresh, logout | – |
| configuration, placeholders, tests, docs | none at run time | – | – |

How they interact:

- **Calls.** Views and tasks call `billing.services`; the webhook calls
  `Conversation.record_message` and `Customer.touch_interaction`; the reply task
  calls `_hand_off`, `record_message` and `AuditLog.log`.
- **Callbacks.** Storing an inbound `Message` fires `dispatch_ai_reply`
  (`ai/signals.py`), storing an outbound one fires `dispatch_outbound_message`
  (`whatsapp/signals.py`); each enqueues a Celery task, inside whatever
  transaction is open, and swallows an unreachable broker.
- **Messages.** Four kinds of task: `send_campaign_task`,
  `generate_ai_response_task`, `send_whatsapp_message_task`,
  `process_knowledge_document_task`.
- **Shared state.** All the rest goes through rows several handlers write, most
  often without a lock.

## How the system executes

What the models assume about the platform, and where that is written:

- Requests and tasks run concurrently: the web server serves requests in
  threads (`docker-compose.yml:49`), the worker has four processes
  (`docker-compose.yml:78`, the constant `Concurrency`).
- There is no `ATOMIC_REQUESTS` and no `select_for_update`; only the webhook,
  order creation, onboarding and the commands `seed_dev_data` and
  `provision_e2e_user` open a transaction. Elsewhere each statement
  commits on its own, so in the models **each statement is a step**, and what a
  handler has read may be stale when it writes.
- PostgreSQL runs at READ COMMITTED: a statement sees what is committed when it
  starts, an insert waits for an uncommitted insert of the same unique key, and
  an update waits for an uncommitted update of the same row.
- `save(update_fields=[...])` writes those columns; a serializer's `save()`
  writes every column with the value it loaded. Every PATCH does the latter, and so
  does the reset of a password.
- Celery acknowledges a task when a worker takes it, and no task here calls
  `retry`, so one whose worker dies is not run again.
- `increment_usage` adds in the database (`F("count") + n`) and loses nothing.

## Modules

Each component has its module, a `_proofs` module that extends it
(`Messaging_proofs` extends two: Webhook, and Assistant, whose specification is
therefore named `AssistantSpec`), and an `MC` module from which TLC runs it.
Names of actions and variables follow the code; a handler's local variables and
its place in the code (`pc`, `task`, `phase`) are functions over the requests
or tasks that run it. A few definitions, marked "Mutant of", are what an action
would be with a plausible bug in it; no specification uses them. They show that
each checked property can fail.

### Campaigns, CampaignPromise

One campaign. `Presses` are the requests to `POST .../send/`; each goes through
the four statements of `CampaignSendView.post` (`Press`, `CheckLimit`,
`MarkScheduled`, `Enqueue`) and then names the task it has enqueued, which goes
through `send_campaign`: `StartTask`, `MarkSending`, `FailGate`, the four
statements of `prepare_campaign_recipients` (`ReadExisting`, `ReadSegment`,
`CreateRecipients` or `CreateConflict`, `CountRecipients` and
`SaveRecipientCount`), `ListPending` or `FailEmpty`, `MeterUsage`, then for each
recipient `FetchCustomer`, `SkipRecipient` or `CallProvider`, `StoreMessage`,
`RecordOutcome`, and at the end `FinishCampaign`. `Die` is a worker that dies or
an exception nobody catches. Beside these run `EditLoad` and `EditSave` (PATCH)
and `SetConsent`.

`mem`, `batch` and `cur` are the Python locals of the task: the `Campaign`
instance it loaded, the recipients it listed, the one it is at. The variables
marked "history" remember what tasks did, for the properties. The account,
template and segment gates are one nondeterministic outcome; a segment is any
set of customers who had opted in when it was read.

`CampaignPromise` is what one press of Send promises, without tasks, batches or
counters: enlist once, decide each recipient once, complete when all are
decided. With one press, `Campaigns` refines it (`KeepsPromise`): `phase` is the
status with "draft" and "scheduled" taken together, and `fate` the recipient
rows.

### Orders, OrderLifecycle

One order. `ReadProduct` and `CreateOrder` are the creating request: prices are
read during validation and order, items and total stored in one transaction.
`Movers` are requests to `POST .../status/` (`Load`, `CheckTransition`,
`SaveStatus`, `LogTransition`), `Editors` are PATCH requests (`Load`,
`SaveEdit`), and `SetPrice` is a manager at the catalog. `MaxServed` bounds the
requests in service: with 1 they are serial.

`OrderLifecycle` is the promise of `Order.ALLOWED_TRANSITIONS`: forward only,
the last stages terminal, towards fulfilment only by being confirmed by
somebody. Orders whose requests are served one at a time refine it; overlapping
ones do not, since each decides on what it has read.

### Webhook

The messages (`Events`) of one customer of one business, delivered any number of
times by POSTs (`Deliveries`). Each event is one transaction: `InsertEvent`,
`GetCustomer`, `CreateCustomer` or `CustomerConflict`, `FindConversation`,
`CreateMessage`, `RecordMessage`, `TouchCustomer`, `Commit`. What a transaction
has written is private until `Commit`; the keys and rows it holds
(`HoldsEvent`, `HoldsPhone`, `HoldsRow`, `HoldsCustomer`) make others wait.
`Fail` rolls back. Beside it run the reply task's lookup of the message
(`RunReply`), PATCH of a conversation and outbound messages that record
themselves (`LoadPatch`, `SavePatch`, `RecordReply`), and deletion of the
customer in the admin site, which only marks the row.

A conversation is named after the event that opened it; its statuses are "open"
(anything but closed, as `FindConversation` tells them apart) and "closed".

### Assistant

One conversation and the task of each inbound message: `Take` is the worker that
takes it and loads message, conversation and settings; what these lead to is
`StaySilent`, `WantHuman` or `Attempt`. Then come `CheckUsage`, `CallProvider`
and either `CreateReply` or the hand-off, `SwitchOff`, `CreateReply`,
`LogHandoff`. Storing the message enqueues its send task (`Post`), which is
`CallMeta` and `SaveSent`. `Die` and `DieSending` are workers that die, or
exceptions. `LoadEdit` and `SaveEdit` are a PATCH of the conversation. It starts
with the assistant on or off, as the webhook or a POST has made it.

What a provider answers is one of `Answers` or a failure (`GenerateReply`);
`EstimateConfidence` is the code's heuristic in hundredths, and `Doubtful`
compares it with one of the `Thresholds` an owner may set. Settings are not a
variable: a task reads them once, the owner may have edited them to anything, so
each task meets any outcome of them.

### Accounts

One account. A request loads the row once (`Start`) and later saves columns of
its copy; `req[r].at` is the statement it executes next. Sign-in is `Login`,
`IncrementFailedLogin` or `ResetFailedLogin`, `StepUpToken`, then `MFAVerify` or
`LookUpCode` and `ConsumeCode`, and `IssueTokens`. Enrolment is `MFASetup`,
`SaveSecret`, `MFASetupConfirm`, `Enable`, `WipeCodes`, `StoreCodes`; its reset,
by a super admin or `manage.py reset_mfa`, `Disable` and `WipeCodes`. Beside
them run password resets, the owner's PATCH of a staff member, and the browser:
`Refresh` and `Rotate`, `Logout`, `RevokeSession`. Locks and tokens run out at
any moment.

Passwords, secrets, codes and sign-ins are numbered by the request that made
them, which is why `MaxServed` bounds the requests of a behaviour, and not only
those in flight. A batch of ten backup codes is one code: they do not interact.

### Billing

Limits and invoices of all tenants. A behaviour follows one `kind`: one limit of
one tenant, or the invoices. A live count is tested by `CheckLimit` and the row
inserted by `Insert`; `InboundCustomer` and `ActivateUser` add rows that nobody
checks. A send tests the campaigns of a month in `CheckSends`; the request then
queues its task (`QueueSend`) or ends before (`PressFails`), and the task counts,
in `GetRecord` and `UpdateRecord`, which may be in the next month. `sends` are
those under way from the test to the count, `hist.peak` the most there ever were
at once: presses pass the test on the counter as it was, and may be queued and
counted one after the other only then.
Invoices come from `RequestInvoice` (any first day) and `RunBatch` (day one, all
tenants); both go through `get_or_create` statement by statement: `FoundInvoice`
or `NoInvoice` and `InsertInvoice`, which may meet the unique number of the
month, look again and `Raise`.

### Knowledge

The documents of a business, the task of each in up to `Copies` deliveries, and
one question at a time. A document is its number of words and a chunk an
interval of them, so `ChunkText` computes the windows the code computes, with
its own width and overlap as constants, and a question is about one word.
`process_document` is `MarkProcessing`, `Extract`, `ClearChunks`,
`InsertChunks`, `ListChunks`, `CallProvider`, `StoreVectors`, `SaveReady` or
`SaveFailed`. `Ask` and `Answer` are `retrieve_relevant_chunks`: by vector where
there are vectors, else by shared words. The server may be restarted with
another provider setting, which leaves documents embedded and others not.

### Desk, Analytics

What staff do beside each other; its parts share no state, and a behaviour
follows one `kind`. *Assignment*: `assign_to` is `Assign`, `CloseOpen`,
`SaveAssigned`, `CreateAssignment`, beside PATCHes of the conversation, which a
POST (or the seed) has created for somebody or nobody, without a row in the
history. `hist.by` says who last wrote `assigned_to`, `hist.strays` who may
keep a row that is open: members named by assignments that overlapped, or from
whom a PATCH took the conversation, until their rows are closed. *Customer*: a
customer is created with a consent or without, and PATCHes that give, withdraw
or leave alone the marketing consent. *Setup*: PATCHes of a segment, a template
and a campaign, which must be of one business. *Figures*: any log of messages
(`Exchange`), over which `Analytics` defines the response times and top
questions of the dashboard as the code computes them, in one pass.

### Provisioning

The tenants and accounts of an installation, and the plans the seed looks for.
A command is a function of the database (`SeedAll`, `Superadmin`,
`ProvisionE2E`), composed of one operator for each helper of the command, that
returns the new database and whether it ran to its end. `RunCommand` runs one
whenever nobody is being onboarded; `createsuperadmin`, which is no
transaction, may also die half-way. Onboardings are `ValidateOnboard`,
`InsertTenant`, `InsertOwner`, `Commit` or `Abort`, and wait for each other at
unique values. Between them people work: they rename plans, copy, delete and
rename what the seed created, hide the assistant's settings, an invoice or a
customer in the admin site (rows that stay, and keep their unique values),
delete the business or give it too long a name, withdraw consent, bill a month
from its middle and reset MFA. `Seedable` is what each helper of the seed needs
of a tenant; `AISeedable`, `KnowledgeSeedable`, `CustomersSeedable`,
`CampaignsSeedable` and `InvoiceSeedable` stand beside the helper each belongs
to.

## Runs

Every run finishes in at most four minutes with two workers. Bounds that
cap a counter are constants of the modules (`MaxCrashes`, `MaxFailures`,
`MaxDeletions`, `MaxServed` and others, each marked "bound" where it is
declared); the rest are the sizes of the sets below. Deadlock is not a question
in Campaigns, where customers can always change their consent, nor with prices
that change. The other systems stop when all requests and tasks are
through, and their runs say so; that none stops earlier is what
`EveryPostAnswered`, `EveryTaskEnds` and `EveryDocumentSettles` state.

| Run | Instance | Properties | What it shows |
|---|---|---|---|
| `overlap` | 1 customer, 2 presses, 1 PATCH, 2 workers, monthly limit 1, 1 crash; fair | `OptOutRespected` `NoRepeat` `NoneLeftBehind` `RowsBacked` `NeverStranded` `QueuedGetsOutcome` | Two overlapping sends with consent that changes, a PATCH and a worker that dies: consent is respected; a customer is messaged twice only by tasks that were at work together or after a crash; nobody is left pending; recipient list and inbox agree; a campaign that was queued gets an outcome |
| `once` | 2 customers, 1 press, 1 crash | `CountsMatchRows` `KeepsPromise` | One send implements `CampaignPromise`, and counters match the recipient list |
| `orders_overlap` | 2 products, 2 prices, 3 movers, 1 PATCH | `FulfilledWasConfirmed` `AuditExplains` `TotalIsSnapshot` | However requests overlap, an order on its way was confirmed by somebody (until a PATCH), the audit rows explain the status, the total is a snapshot |
| `orders_serial` | the same, one at a time, fixed price | `FollowsLifecycle` | Served one at a time, orders implement `OrderLifecycle` |
| `webhook_deliver` | 2 messages, 2 POSTs of any of them, 1 PATCH or reply, 1 failure, 1 deletion; fair | `ExactlyOnce` `AnsweredIsStored` `OneConversation` `UnreadCounts` `EveryPostAnswered` | Redelivered, overlapping and cut-off deliveries store each message once; what was answered is stored; a new customer gets one conversation; unread counts stay within bounds; no deadlock among the locks |
| `webhook_reply` | 2 messages, 2 POSTs | `ReplyFindsMessage`, violated | A worker faster than the commit finds no message and gives the reply up |
| `assistant_handoff` | 2 messages, the assistant on or off at first, 2 workers, limit 1, 1 crash, 1 PATCH; fair | `WithinLimit` `HandoffHolds` `HandoffExplained` `EveryTaskEnds` | Hand-offs hold and are explained, the limit is exceeded by less than the workers, every task ends |
| `accounts_overlap` | 5 requests after the one that made the account, 2 at a time, lock at 2 failures | `LockedInTime` `LockExplained` `SingleUse` `LastWordHolds` | The lock may come late but comes, and never without the failures; codes and tokens serve no more requests than overlap; saves of whole rows undo each other only where they overlap |
| `billing_limits` | 2 tenants, 3 requests (and the tasks of two sends), 2 at a time, limit 1, 2 months | `LimitHolds` `CampaignLimit` `BilledOnce` `InvoicesStay` | Limits are overshot by what overlapped, or was under way together between test and count, and no more; a month is billed once, and an invoice stays as it was made |
| `knowledge_lookup` | 1 document of 0, 4, 5 or 7 words or unreadable, windows of 4 that overlap by 2, 2 deliveries, 1 death, 1 restart; fair | `TypeOK` `ReadyIsComplete` `NeverSilent` `EveryDocumentSettles` | However two runs over a document interleave, a ready one has complete chunks and counts them; a question about it is given a chunk; every document settles |
| `desk_staff` | 5 requests (3 to a campaign's setup), 3 at a time, 2 staff, 2 businesses, segments and templates, 5 messages, 1 death | `HistoryAgrees` `ConsentReturns` `SetupAgrees` `FiguresHold` | Who was assigned a conversation is in its history, and no row is open but theirs and those that overlap and PATCHes explain; a consent comes back only newly given or with an older row; a campaign is of one business; the figures are those of the messages |
| `provisioning_again` | 2 samples, 2 people, one with the address of a sample's owner, names that repeat, one too long for an invoice's number, 2 onboardings at a time, 3 tenants, 2 changes by people | `RerunIsSafe` `SeedFailsForReason` `TenantsOwned` | From every database people can make, a second run changes nothing and accounts are enrolled; the seed fails for the names of its plans or for what people have done in a sample owner's business, and for nothing else; no tenant is without an owner |

Why the bounds are enough. The handlers compare a request with the database or
with one other request, never with a third, so two presses, two tasks or two
workers meet every race there is; a third mover is there for the order that is
confirmed while two others race, and a third request at the desk for a PATCH
that is loaded before two assignments and saved after. One crash is enough since
what a task leaves behind does not depend on how many others died. Two customers
are needed for a batch that is cut in the middle (`once`); the races over a
batch are between tasks and need one customer. A lock at two failures is the
least at which a lost count shows; Accounts' bound on requests lets an account
be enrolled, reset and used again. Windows of four with an overlap of two, and
texts of 0, 4, 5 and 7 words, are no window, one exactly full, one that is begun
for a single word, and three. For the safety properties that are proved, the
proofs cover every size.

### Fairness

- **Campaigns** (`overlap`): workers keep working, so a queued task is taken and
  a task at work goes on, and a request already in the view runs to its end.
  That is what a running worker and a running web server do. Nobody has to press
  Send, change consent or PATCH. Nothing promises that a worker does not die: a
  task that dies is not run again, and nothing in the code takes its campaign
  out of "sending", so `QueuedGetsOutcome` excepts behaviours with a crash.
- **Webhook** (`webhook_deliver`): a POST that was received is served, when the
  database does not make it wait. Meta and staff owe nothing.
- **Assistant** (`assistant_handoff`): workers keep working, and the provider's
  call has a timeout (`ai/providers.py`). Crashes do happen in this run; a task
  that died has ended.
- **Knowledge** (`knowledge_lookup`): the same, for the ingestion task. The
  broker owes no second delivery, and staff no upload.

## Proofs

Eight modules hold them: one for each of `Campaigns`, `Orders`, `Accounts`,
`Billing`, `Knowledge`, `Desk` and `Provisioning`, and `Messaging_proofs` for
`Webhook` and `Assistant`. They hold for every value of the constants that
satisfies the assumption each module states (finite sets of requests, numbers
that are natural numbers, placeholders that are not members of the sets they
stand beside); a theorem that needs more says so in the table. A theorem, the
property it proves, and why that is not inductive alone:

| Theorem | Property | Inductive invariant it rests on |
|---|---|---|
| `Campaigns_proofs!TypeCorrect` | `TypeOK` | `TypeOK` itself |
| `…!Consent` | `OptOutRespected` | `ConsentInv` with `LocalInv`: a task about to call a customer has seen an opt-in since it listed, so the customer is not in `outSince` |
| `…!AtMostOnce` | `NoRepeat` | `DecidedInv` (a customer a task has messaged is decided, or is the one it is at) and `ClaimInv` (whom two tasks may both message, they listed while the other was at work) |
| `…!EveryoneHandled` | `NoneLeftBehind` | `CarriedInv`: each pending recipient is in the hands of a task at work, of one about to list it, or of one that died |
| `…!Backed` | `RowsBacked` | `BackedInv`: rows, messages and the task between storing one and saving the other |
| `…!Unstranded` | `NeverStranded` | `AnswerInv`: a "sending" campaign has a task that still owes it an outcome |
| `…!CountsMatch` | `CountsMatchRows` until a PATCH is saved, for one press | `Counted`: what the task has counted so far, with the recipients left in its batch, are the rows; `Placed`: its rows, batch and place go together |
| `…!Promised` | `KeepsPromise`, for one press and no PATCH | the same, and each step is one of `CampaignPromise` or leaves `phase` and `fate` alone |
| `Orders_proofs!TypeCorrect` | `TypeOK` | itself |
| `…!Confirmed` | `FulfilledWasConfirmed` | `MovesAllowed` (a transition past its test is an allowed one) and `ConfirmedInv` (what was loaded as fulfilling was confirmed) |
| `…!Audited` | `AuditExplains` | `AuditInv`: the status is logged, or about to be, whatever a PATCH puts back |
| `…!Snapshot` | `TotalIsSnapshot` | `SnapshotInv`: the prices in the cart are among those offered |
| `…!Lifecycle` | `FollowsLifecycle`, if `MaxServed = 1` | `SerialInv`: the one request in service has loaded what is in the database |
| `Messaging_proofs!TypeCorrect` | `TypeOK` | `LocalInv`, which adds what a transaction holds at each statement |
| `…!Exactly` | `ExactlyOnce` | `KeyInv` (the unique key serialises the transactions of an event) and `StoredInv` |
| `…!Answered` | `AnsweredIsStored` | `PhoneInv` (a conflict at the phone means the customer is deleted) and `DoneInv` (what is off a POST's list is stored) |
| `…!OneHome` | `OneConversation` | `NamedInv`, `HomeInv`: the transaction that inserts the customer is the one that opens the conversation; the others wait for it and find it open |
| `…!Unread` | `UnreadCounts` | `CountInv`: whatever has been loaded was a count the conversation already had messages for |
| `…!AssistantTypeCorrect` | `AssistantTypeOK` | `TaskInv`, which also says what a task has decided by each statement |
| `…!Limited` | `WithinLimit` | `SlotInv`: tasks at work are no more than the workers, so a call that passes the test below the limit joins at most `Concurrency - 1` others |
| `…!Holds` | `HandoffHolds` | `HoldInv`: only a PATCH switches the assistant on |
| `…!Explained` | `HandoffExplained` | `ExplainInv`: the hand-off that switched it off is on its way to its message and row, has left them, or died; until a PATCH is saved |
| `…!Honest` | `ShownHonestly` | `SentInv`: a message is stored once, sent once stored, taken while sent |
| `Accounts_proofs!TypeCorrect` | `TypeOK` | with `RouteOK`: which statements a request of each operation goes through |
| `…!Explained` | `LockExplained` | `EvidenceOK`: each copy of the row tells of no more failures than there were |
| `…!LastWord` | `LastWordHolds` | `WordOK`: two requests in flight that save the row are remembered as met, and what holds of the row holds of each copy that will be saved whole |
| `…!UsedUp` | `SingleUse` | `UseOK`: for each code, link and session, the uses so far and the requests that have looked it up and not used it yet are together no more than the requests; what can still be looked up has served only those about to mark it |
| `…!Locked` | `LockedInTime` | `LockOK`: until the account is locked its failures are bounded by a `Chain` of numbers over the requests at each `Level` of the count; `ChainBound` keeps such a chain below `Enough` |
| `Billing_proofs!TypeCorrect` | `TypeOK` | with `QueueOK`: the sends that presses and tasks have in hand are among those under way |
| `…!LimitOvershoot` | `LimitHolds` | `LiveOK`: rows there and about to be inserted are below the limit each request saw, and those let through with it |
| `…!CampaignsLimited` | `CampaignLimit` | `UsageOK`: `Expected(m)`, what a month has counted and what is under way and may be counted in it, never passes the limit by the most that were under way |
| `…!Once` | `BilledOnce` | itself: the unique number is the month's |
| `…!Stay` | `InvoicesStay` | action by action |
| `Knowledge_proofs!TypeCorrect` | `TypeOK` | `DocOK`: a document's chunks are none or all of its text's windows, by one run or another |
| `…!Complete` | `ReadyIsComplete` | `DocOK`: chunks are lost only where a run will insert them again, the counts are those of the windows, and what one run alone has embedded it holds (`Alone`, `Holding`) |
| `…!Answers` | `NeverSilent` | `AskOK`: a question about a word of a document at rest has read a chunk with that word |
| `Desk_proofs!TypeCorrect` | `TypeOK` | with `RouteOK`, as for accounts |
| `…!Logged` | `HistoryAgrees` | `LoggedOK`: who was assigned the conversation is logged, about to be, or about to be replaced; `StrayOK`: assignments that overlap name strays (`OverlapOK`), and for each assignment at work its target, and whoever has the conversation unless it closes their row, has no open row or is a stray (`AwaitOK`) |
| `…!Agrees` | `SetupAgrees` | `SetupOK`: and so is each campaign about to be saved of one business |
| `…!Evidence` | `EvidenceIsReal` | `ConsentOK`: the stamp in each copy is one that was given |
| `…!Returns` | `ConsentReturns` | `ConsentOK`: a copy that is no older than the clock is the customer as it is |
| `…!Figures` | `FiguresHold` | `LogOK`: messages are sent at a time after 0, which stands for none waiting; the rest holds of every such log |
| `Provisioning_proofs!TypeCorrect` | `TypeOK` | with `Consistent` (owners have tenants, staff was hired by owners) and `RequestOK` (an onboarding about to commit has its address to itself) |
| `…!Again` | `RerunIsSafe` | the same, and `Settled`: seeding one sample leaves it so that seeding it again changes nothing, and no later sample unsettles it |
| `…!Reasons` | `SeedFailsForReason` | the same, and `Blamed`: what the seed creates it can seed again, new names find free slugs, and new accounts are in new tenants, so what it fails at was there before |
| `…!Owners` | `TenantsOwned`, if `E2E \notin People` | `Owned`: the e2e tenant's owner owns only a tenant of that name, and platform admins own none |
| `…!Takes` | `OwnerTaken`, step by step, for any `People` | `Admins`: platform admins own no tenant |

Each property is about what has happened, while a step only sees where the
requests and tasks are. The invariants say what a request's place in the code,
and the copy it holds, imply about the rows and the history.

Some of these are about what a function computes for every input, and are shown
by induction. The library states induction for an operator, which the provers
cannot instantiate, so the modules that need it prove two lemmas about sets of
natural numbers from the library's well-founded `<`: a set that is not empty has
a least member (`Least`), and one with 0 and each successor has all (`Upward`).

- `Enough` (Accounts) is defined by recursion over pairs. `EnoughCells` shows
  that its definition holds for all of them; `EnoughSums` and `MoreGrows` give
  the sums `LockOK` compares.
- `ResponsePass` (Analytics) is a recursive function over the log. `PassFits`
  shows that a function with its equations exists, `PassAll` that after n
  messages it knows what is waiting and what has been answered among them.
- `TopCount` (Desk): in a finite set in strict order, L members have fewer than
  L before them, unless all have. Places in the order are an injection into an
  interval of the same size, hence onto it.
- `Windows` and `Covered` (Knowledge): the windows of a text are in it and
  together hold each stretch of `Overlap + 1` words. The loop of `chunk_text` is
  written as the set of its starts (`Starts`): start k is taken while the window
  before it does not reach the end.
- `SeedAll` (Provisioning) is a recursive function over the list of samples.
  `SeedAllPasses` shows that its equations hold; `SeedAllFacts` what has become
  of the database after n samples (`Progress`), from what one sample does to it
  (`BackfillFacts`, `CreateFacts`); `SeedAllStill` that nothing happens when all
  are settled. `FreeSlug` finds a number (`SlugFacts`), since fewer are taken
  than there are to choose from.

`Owners` needs its premise. A business could be onboarded for the fixed address
of the e2e fixture (`provision_e2e_user.py:38`), and the command then moves that
account to the e2e tenant (line 85): its business is left without an owner, and
TLC finds it in six steps when `People` has that address. The run, like the
theorem, is about the others; `Takes` is about all, and says that nothing else
ever takes an owner away.

Proved but not in a run: the type invariants other than Knowledge's,
`ShownHonestly`, `EvidenceIsReal` and `OwnerTaken`.

Only model-checked are the liveness properties `QueuedGetsOutcome`,
`EveryPostAnswered`, `EveryTaskEnds` and `EveryDocumentSettles`: the provers do
not handle liveness under fairness or `ENABLED`. Every other property of a
passing run is proved.

## Where the code and its docs disagree

One run shows a behaviour that contradicts what a doc says:

1. `webhook_reply`: `docs/ai.md:3` promises a reply "to every inbound WhatsApp
   customer message", but the task is enqueued before the message is committed.

The rest was met while modelling. It is part of the models' behaviour, or noted
where a model abstracts from it.

Campaigns:

- `campaigns/views.py:168` says "only a draft or scheduled campaign can be
  sent", but the test and the save of "scheduled" (`views.py:181`) are separate
  statements: the second of two presses takes a campaign that is being sent, or
  has been, back to "scheduled".
- A PATCH writes back the old status and counters (hence the premise
  `Unpatched`).
- Of two overlapping sends, the one that finds everybody messaged marks the
  campaign "failed" (`services.py:116`), although `docs/campaigns.md` says only
  structural problems do.
- The docstring of `CampaignDetailView` (`views.py:133-138`) says a
  PATCH makes sense only for a draft, since another segment or template would
  misrepresent what was sent; nothing refuses it. Moving a segment or template
  to another business leaves the campaigns that use it mixed.
- `get_segment_customers` selects by tenant, while `models.py:106` speaks of the
  business's own customers.

Orders:

- "DELIVERED and CANCELLED are terminal" (`orders/models.py:31-33`), but the
  transition is decided on an instance read earlier (`views.py:121`), so
  overlapping requests move an order out of a terminal status.
- A PATCH writes back the old status and `confirmed_by` (hence `Patched`).

Inbound messages and the assistant:

- `unread_count` loses counts when deliveries, replies and PATCHes overlap.
- After a customer was soft-deleted, further messages of that phone number are
  acknowledged and lost (`whatsapp/services.py:132`).
- `docs/ai.md:74-77` says an assistant stays off "until a human manually flips
  it back", but a PATCH of another field that overlaps the hand-off does it too
  (`conversations/views.py:29`).
- With hand-off disabled, a failed provider call sends the fallback message
  (`ai/services.py:196`), while `docs/ai.md:82-84` says nothing is sent.
- With a threshold of 0 an empty answer of the provider is taken as a reply.
- A worker that dies between switching the assistant off and storing the
  fallback message leaves a silent conversation (`ai/services.py:110`).
- A POST or PATCH that sets `assigned_to` leaves no row in the history, and
  overlapping assigns leave rows of several members open
  (`conversations/models.py:63`).
- `WhatsAppAccount.mark_error` is called by nobody: an account keeps its status
  whatever Meta answers.

Accounts and the browser:

- `refreshAccessToken` drops the rotated refresh token (`frontend/lib/api.ts:98`),
  while the server blacklists the old one (`docs/security.md:9`): a session is
  refreshed once and ends with the next access token.
- The reset of a password and the PATCH of a staff member save every column, and
  undo what overlapped them (`accounts/views.py:361`).
- A backup code is marked used in a statement after its lookup (`mfa.py:67`), so
  requests that overlap may both be served by it, as may a reset token.
- `accounts/views.py:61-63` calls a second setup before the confirmation
  harmless; one that is asked for with a token still valid after it replaces the
  secret of an account that is enrolled.

Billing:

- An invoice is found by its first day and numbered by its month: billing a month
  again from another day ends in an uncaught `IntegrityError`
  (`billing/views.py:59`).
- `docs/billing.md:70-75` says that a send over the limit is "never even queued",
  but the request tests a counter that the task increments: presses whose test
  comes before the first count all pass, and each is queued whatever has been
  counted by then (`campaigns/views.py:173-186`).
- Reactivated staff (`accounts/views.py:479`) and customers who write first are
  not checked against the limits.

Knowledge:

- Chunks of a deleted document are still retrieved.
- A provider that fails leaves a document ready without vectors, one whose answer
  cannot be read makes it failed; `docs/rag.md` describes the former only.
- A worker that dies leaves a document "processing", a broker that refuses leaves
  it "pending", and nothing takes it from there.

Commands:

- `seed_dev_data` calls itself safe to run again, but fails when another plan has
  the name Starter or Growth (plans are found by slug, and names are unique), and for
  the reasons of `Seedable`: settings, an invoice of the month or a customer that
  were hidden, so that they are not found but keep their unique values; a month
  billed from another day; two documents or setups of one name; names too
  long. And it gives a consent that was withdrawn back, which
  `customers/models.py:46-49` rules out.
- It does not hire staff again where the owner is there.
- `createsuperadmin` that dies between enrolling the account and storing its codes
  leaves an enrolled account without any, which later runs skip.
- `provision_e2e_user` takes the account with its address out of the tenant it was
  onboarded with (line 85), which is left without an owner.

## What is left out

- **Campaigns**: creation, DELETE and the soft deletion of segments, templates and
  filters (inputs of a send); the texts of messages; `scheduled_at`, which
  nothing in the code acts on.
- **Orders**: several orders (they share nothing but prices), soft deletion.
- **Webhook**: the GET handshake and signatures (they decide what is received);
  payload parsing (what is parsed is the set of events); several customers (they
  share no row); which of several open conversations is the latest, which
  depends on clocks, so any may be found.
- **Assistant**: the wording of prompts and the history in them; the end of the
  month, at which the counter starts anew; several conversations of a tenant,
  whose calls share the counter: `WithinLimit` counts the tasks of one
  conversation, and as its proof only uses that tasks are no more than workers,
  it says the same of all. The send tasks of staff replies: the same two actions
  for messages the assistant has not written.
- **Accounts**: the profile, lists, permissions of roles, and the clock (locks and
  tokens run out at any moment instead of after their minutes).
- **Billing**: the usage of AI messages, which is in Assistant; listing. An
  invoice's status has no endpoint.
- **Knowledge**: extraction from the file formats (a text comes out or it does
  not), and the numbers of a vector (any choice of the embedded chunks may score
  best).
- **Desk**: tags, notes and other plain columns; the plain counts and sums of
  the dashboard, which the database computes.
- **Provisioning**: the fields of what is seeded, where no later step depends on
  them; several businesses of one tenant; accounts that are deleted or change
  their address; tenants that are renamed; an account with the address of a
  sample's staff before the seed has hired it; work in tenants that the seed does not
  look into, and a business that is onboarded with too long a name (it gets one
  later). Several rows of a kind in one business (documents, customers,
  invoices of other months) are one that stands for those the seed looks for.
- **Products, businesses, audit log, core, pages of the frontend**: stateless, or
  one row written by one request.
- **Placeholders**: the applications are empty.

## Plan

Done: every component that decides something over more than one statement, in
the order of what is at stake, with every safety property proved.

Next, in this order:

1. **Compositions**: Assistant with Webhook (the reply task starts from a message
   that is committed, or not), and Campaigns with Billing (the limit that is
   tested when queueing and counted when sending, over several campaigns).
2. **Campaigns**: DELETE of a segment or campaign while a task is at work.
3. **Accounts**: several browsers of one account, each with its refresh token.

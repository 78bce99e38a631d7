------------------------------- MODULE Webhook -------------------------------
(***************************************************************************)
(* Inbound WhatsApp messages of one customer of one business.  Meta POSTs  *)
(* them to WhatsAppWebhookView, repeatedly and concurrently if it likes;   *)
(* process_webhook_payload runs one transaction per message event.  Each   *)
(* statement of a transaction is a step: it sees what others have          *)
(* committed (READ COMMITTED), its own writes stay private until Commit,   *)
(* and it waits for whoever holds the unique key or the row it wants.      *)
(*                                                                         *)
(* A conversation is named after the event whose transaction opened it.    *)
(***************************************************************************)
EXTENDS Naturals, FiniteSets

CONSTANTS
  Events,        \* WhatsApp message ids
  Deliveries,    \* webhook POSTs
  Staff,         \* PATCH .../conversations/{id}/ requests, and replies
  NoEvent,       \* no message id
  MaxFailures,   \* bound: requests that die or answer 500
  MaxDeletions   \* bound: soft deletions of the customer in the admin site

ASSUME WebhookAssumption ==
  /\ NoEvent \notin Events
  /\ IsFiniteSet(Events) /\ IsFiniteSet(Deliveries)
  /\ MaxFailures \in Nat /\ MaxDeletions \in {0, 1}

VARIABLES
  customer,   \* the Customer row with this phone, as committed
  conv,       \* status of each committed conversation, "none" if there is none
  unread,     \* Conversation.unread_count
  seen,       \* committed MessageEvent rows
  messages,   \* committed Message rows
  pc,         \* where each POST stands
  payload,    \* the events it carries
  todo,       \* those it has not processed yet
  ev,         \* the event of its open transaction
  newcomer,   \* that transaction has inserted the customer
  link,       \* the conversation it has found or opened
  read,       \* the unread_count it has loaded with it
  reply,      \* generate_ai_response_task of each POST and event
  patch,      \* each of Staff: its phase, the conversation and what it loaded
  failures,
  stranger    \* history: the customer was unknown to begin with

database == <<customer, conv, unread, seen, messages>>
local    == <<ev, newcomer, link, read>>
vars == <<customer, conv, unread, seen, messages, pc, payload, todo, ev,
          newcomer, link, read, reply, patch, failures, stranger>>

InTransaction == {"customer", "creating", "conversation", "message",
                  "recording", "touching", "committing"}
PC == {"idle", "ready", "answered", "failed"} \cup InTransaction

Open(k)    == conv[k] = "open"
Fresh(d)   == link[d] = ev[d]
Stored(e)  == {m \in messages : m.event = e}

\* Uncommitted work that makes others wait: the MessageEvent key, the unique
\* (tenant, phone) of a new customer, and rows updated.
HoldsEvent(d, e)  == pc[d] \in InTransaction /\ ev[d] = e
HoldsPhone(d)     == pc[d] \in InTransaction /\ newcomer[d]
HoldsRow(d, k)    == /\ pc[d] \in {"touching", "committing"}
                     /\ link[d] = k /\ ~Fresh(d)
HoldsCustomer(d)  == pc[d] = "committing" /\ ~newcomer[d]
Others(d) == Deliveries \ {d}

Goto(d, from, to) == pc[d] = from /\ pc' = [pc EXCEPT ![d] = to]

\* The transaction of d is over, committed or rolled back.
Leave(d) ==
  /\ ev' = [ev EXCEPT ![d] = NoEvent]
  /\ newcomer' = [newcomer EXCEPT ![d] = FALSE]
  /\ link' = [link EXCEPT ![d] = NoEvent]
  /\ read' = [read EXCEPT ![d] = 0]

Init ==
  /\ customer \in {"absent", "present"}
  /\ stranger = (customer = "absent")
  /\ conv = [k \in Events |-> "none"]
  /\ unread = [k \in Events |-> 0]
  /\ seen = {} /\ messages = {}
  /\ pc = [d \in Deliveries |-> "idle"]
  /\ payload = [d \in Deliveries |-> {}]
  /\ todo = [d \in Deliveries |-> {}]
  /\ ev = [d \in Deliveries |-> NoEvent]
  /\ newcomer = [d \in Deliveries |-> FALSE]
  /\ link = [d \in Deliveries |-> NoEvent]
  /\ read = [d \in Deliveries |-> 0]
  /\ reply = [d \in Deliveries |-> [e \in Events |-> "none"]]
  /\ patch = [s \in Staff |-> [phase |-> "idle", conv |-> NoEvent, unread |-> 0]]
  /\ failures = 0

(***************************************************************************)
(* WhatsAppWebhookView.post                                                *)
(***************************************************************************)

\* Signed and parsed; events without an id or for an unknown account are not
\* among those to process.
Receive(d) ==
  /\ Goto(d, "idle", "ready")
  /\ \E S \in SUBSET Events :
       /\ payload' = [payload EXCEPT ![d] = S]
       /\ todo' = [todo EXCEPT ![d] = S]
  /\ UNCHANGED <<database, local, reply, patch, failures, stranger>>

\* 200, "regardless of what we did with it".
Answer(d) ==
  /\ todo[d] = {}
  /\ Goto(d, "ready", "answered")
  /\ UNCHANGED <<database, payload, todo, local, reply, patch, failures, stranger>>

(***************************************************************************)
(* _process_single_event, inside transaction.atomic()                      *)
(***************************************************************************)

\* Mutant of InsertEvent: the row is committed at once, outside the atomic block.
InsertAutocommitted(d, e) ==
  /\ pc[d] = "ready" /\ e \in todo[d]
  /\ \A o \in Others(d) : ~HoldsEvent(o, e)
  /\ IF e \in seen
     THEN /\ todo' = [todo EXCEPT ![d] = @ \ {e}]
          /\ UNCHANGED <<seen, pc, ev>>
     ELSE /\ pc' = [pc EXCEPT ![d] = "customer"]
          /\ ev' = [ev EXCEPT ![d] = e]
          /\ seen' = seen \cup {e}
          /\ UNCHANGED todo
  /\ UNCHANGED <<customer, conv, unread, messages, payload, newcomer, link,
                 read, reply, patch, failures, stranger>>

\* MessageEvent.objects.create: waits for whoever is inserting the same key;
\* if the row is there, IntegrityError, and on to the next event.
InsertEvent(d, e) ==
  /\ pc[d] = "ready" /\ e \in todo[d]
  /\ \A o \in Others(d) : ~HoldsEvent(o, e)
  /\ IF e \in seen
     THEN /\ todo' = [todo EXCEPT ![d] = @ \ {e}]
          /\ UNCHANGED <<pc, ev>>
     ELSE /\ pc' = [pc EXCEPT ![d] = "customer"]
          /\ ev' = [ev EXCEPT ![d] = e]
          /\ UNCHANGED todo
  /\ UNCHANGED <<database, payload, newcomer, link, read, reply, patch,
                 failures, stranger>>

\* get_or_create looks first; its manager does not see deleted customers.
GetCustomer(d) ==
  /\ Goto(d, "customer", IF customer = "present" THEN "conversation"
                                                 ELSE "creating")
  /\ UNCHANGED <<database, payload, todo, local, reply, patch, failures, stranger>>

\* Mutant of CreateCustomer: without the unique constraint nobody waits.
CreateUnconstrained(d) ==
  /\ Goto(d, "creating", "conversation")
  /\ newcomer' = [newcomer EXCEPT ![d] = (customer = "absent")]
  /\ UNCHANGED <<database, payload, todo, ev, link, read, reply, patch,
                 failures, stranger>>

\* ... then inserts, unless another transaction has inserted it meanwhile: the
\* second look finds that customer.
CreateCustomer(d) ==
  /\ customer # "deleted"
  /\ \A o \in Others(d) : ~HoldsPhone(o)
  /\ Goto(d, "creating", "conversation")
  /\ newcomer' = [newcomer EXCEPT ![d] = (customer = "absent")]
  /\ UNCHANGED <<database, payload, todo, ev, link, read, reply, patch,
                 failures, stranger>>

\* Mutant of CustomerConflict: the event is tried again until it succeeds.
ConflictRetried(d) ==
  /\ customer = "deleted"
  /\ Goto(d, "creating", "ready")
  /\ Leave(d)
  /\ UNCHANGED <<database, payload, todo, reply, patch, failures, stranger>>

\* A deleted customer keeps its phone: the insert fails and the second look
\* finds nobody, so IntegrityError, which is taken for a duplicate event.
CustomerConflict(d) ==
  /\ customer = "deleted"
  /\ Goto(d, "creating", "ready")
  /\ todo' = [todo EXCEPT ![d] = @ \ {ev[d]}]
  /\ Leave(d)
  /\ UNCHANGED <<database, payload, reply, patch, failures, stranger>>

\* The latest conversation that is not closed (any, as clocks may differ), or
\* a new one.
FindConversation(d) ==
  /\ Goto(d, "conversation", "message")
  /\ \/ \E k \in Events :
          /\ Open(k)
          /\ link' = [link EXCEPT ![d] = k]
          /\ read' = [read EXCEPT ![d] = unread[k]]
     \/ /\ \A k \in Events : ~Open(k)
        /\ link' = [link EXCEPT ![d] = ev[d]]
        /\ UNCHANGED read
  /\ UNCHANGED <<database, payload, todo, ev, newcomer, reply, patch, failures, stranger>>

\* Message.objects.create, whose signal enqueues the reply task at once, or
\* swallows the broker's error.
CreateMessage(d) ==
  /\ Goto(d, "message", "recording")
  /\ \E r \in {"queued", "none"} : reply' = [reply EXCEPT ![d][ev[d]] = r]
  /\ UNCHANGED <<database, payload, todo, local, patch, failures, stranger>>

\* record_message updates the conversation, whose row it locks.
RecordMessage(d) ==
  /\ \A o \in Others(d) : ~HoldsRow(o, link[d])
  /\ Goto(d, "recording", "touching")
  /\ UNCHANGED <<database, payload, todo, local, reply, patch, failures, stranger>>

\* touch_interaction updates the customer.
TouchCustomer(d) ==
  /\ \A o \in Others(d) : ~HoldsCustomer(o)
  /\ Goto(d, "touching", "committing")
  /\ UNCHANGED <<database, payload, todo, local, reply, patch, failures, stranger>>

\* Mutant of Commit: the conversation counts the message a second time.
CommitCountedTwice(d) ==
  /\ Goto(d, "committing", "ready")
  /\ seen' = seen \cup {ev[d]}
  /\ customer' = IF newcomer[d] THEN "present" ELSE customer
  /\ conv' = IF Fresh(d) THEN [conv EXCEPT ![link[d]] = "open"] ELSE conv
  /\ messages' = messages \cup
       {[delivery |-> d, event |-> ev[d], conv |-> link[d]]}
  /\ unread' = [unread EXCEPT ![link[d]] = read[d] + 2]
  /\ todo' = [todo EXCEPT ![d] = @ \ {ev[d]}]
  /\ Leave(d)
  /\ UNCHANGED <<payload, reply, patch, failures, stranger>>

\* Everything the transaction wrote becomes visible together.
Commit(d) ==
  /\ Goto(d, "committing", "ready")
  /\ seen' = seen \cup {ev[d]}
  /\ customer' = IF newcomer[d] THEN "present" ELSE customer
  /\ conv' = IF Fresh(d) THEN [conv EXCEPT ![link[d]] = "open"] ELSE conv
  /\ messages' = messages \cup
       {[delivery |-> d, event |-> ev[d], conv |-> link[d]]}
  /\ unread' = [unread EXCEPT ![link[d]] = read[d] + 1]
  /\ todo' = [todo EXCEPT ![d] = @ \ {ev[d]}]
  /\ Leave(d)
  /\ UNCHANGED <<payload, reply, patch, failures, stranger>>

\* Mutant of Fail: every exception passes for a duplicate.
FailSwallowed(d) ==
  /\ failures < MaxFailures
  /\ pc[d] \in InTransaction
  /\ pc' = [pc EXCEPT ![d] = "ready"]
  /\ todo' = [todo EXCEPT ![d] = @ \ {ev[d]}]
  /\ failures' = failures + 1
  /\ Leave(d)
  /\ UNCHANGED <<database, payload, reply, patch, stranger>>

\* Any other exception, or the death of the process: the open transaction is
\* rolled back, what was committed stays, and Meta gets no 200.
Fail(d) ==
  /\ failures < MaxFailures
  /\ pc[d] \in InTransaction \cup {"ready"}
  /\ pc' = [pc EXCEPT ![d] = "failed"]
  /\ failures' = failures + 1
  /\ Leave(d)
  /\ UNCHANGED <<database, payload, todo, reply, patch, stranger>>

(***************************************************************************)
(* Around it: the reply task, staff, the admin site.                       *)
(***************************************************************************)

\* A worker takes generate_ai_response_task; Message.DoesNotExist ends it.
RunReply(d, e) ==
  /\ reply[d][e] = "queued"
  /\ reply' = [reply EXCEPT ![d][e] =
       IF \E m \in Stored(e) : m.delivery = d THEN "found" ELSE "dropped"]
  /\ UNCHANGED <<database, pc, payload, todo, local, patch, failures, stranger>>

LoadPatch(s, k) ==
  /\ patch[s].phase = "idle" /\ conv[k] # "none"
  /\ patch' = [patch EXCEPT ![s] = [phase |-> "loaded", conv |-> k,
                                    unread |-> unread[k]]]
  /\ UNCHANGED <<database, pc, payload, todo, local, reply, failures, stranger>>

\* A PATCH saves any status, and every other column as it was loaded.
SavePatch(s, status) ==
  /\ patch[s].phase = "loaded"
  /\ \A d \in Deliveries : ~HoldsRow(d, patch[s].conv)
  /\ conv' = [conv EXCEPT ![patch[s].conv] = status]
  /\ unread' = [unread EXCEPT ![patch[s].conv] = patch[s].unread]
  /\ patch' = [patch EXCEPT ![s].phase = "saved"]
  /\ UNCHANGED <<customer, seen, messages, pc, payload, todo, local, reply,
                 failures, stranger>>

\* A reply, of staff or of the assistant, is recorded as outbound: unread_count
\* is written back as it was loaded.
RecordReply(s) ==
  /\ patch[s].phase = "loaded"
  /\ \A d \in Deliveries : ~HoldsRow(d, patch[s].conv)
  /\ unread' = [unread EXCEPT ![patch[s].conv] = patch[s].unread]
  /\ patch' = [patch EXCEPT ![s].phase = "recorded"]
  /\ UNCHANGED <<customer, conv, seen, messages, pc, payload, todo, local, reply,
                 failures, stranger>>

\* Deletion of a customer in the admin site only marks the row.
DeleteCustomer ==
  /\ MaxDeletions = 1 /\ customer = "present"
  /\ \A d \in Deliveries : ~HoldsCustomer(d)
  /\ customer' = "deleted"
  /\ UNCHANGED <<conv, unread, seen, messages, pc, payload, todo, local, reply,
                 patch, failures, stranger>>

ProcessEvent(d) ==
  \/ \E e \in Events : InsertEvent(d, e)
  \/ GetCustomer(d) \/ CreateCustomer(d) \/ CustomerConflict(d)
  \/ FindConversation(d) \/ CreateMessage(d) \/ RecordMessage(d)
  \/ TouchCustomer(d) \/ Commit(d)

Serve(d) == ProcessEvent(d) \/ Answer(d)

Next ==
  \/ \E d \in Deliveries : Receive(d) \/ Serve(d) \/ Fail(d)
  \/ \E d \in Deliveries, e \in Events : RunReply(d, e)
  \/ \E s \in Staff : RecordReply(s) \/ \E k \in Events : LoadPatch(s, k)
  \/ \E s \in Staff, status \in {"open", "closed"} : SavePatch(s, status)
  \/ DeleteCustomer

Spec == Init /\ [][Next]_vars

\* A request that was received is served; Meta and staff owe nothing.
FairSpec == Spec /\ \A d \in Deliveries : WF_vars(Serve(d))

-----------------------------------------------------------------------------
(***************************************************************************)
(* Correctness.                                                            *)
(***************************************************************************)

TypeOK ==
  /\ customer \in {"absent", "present", "deleted"}
  /\ conv \in [Events -> {"none", "open", "closed"}]
  /\ unread \in [Events -> Nat]
  /\ seen \subseteq Events
  /\ messages \subseteq [delivery : Deliveries, event : Events, conv : Events]
  /\ pc \in [Deliveries -> PC]
  /\ payload \in [Deliveries -> SUBSET Events]
  /\ todo \in [Deliveries -> SUBSET Events]
  /\ ev \in [Deliveries -> Events \cup {NoEvent}]
  /\ newcomer \in [Deliveries -> BOOLEAN]
  /\ link \in [Deliveries -> Events \cup {NoEvent}]
  /\ read \in [Deliveries -> Nat]
  /\ reply \in [Deliveries -> [Events -> {"none", "queued", "found", "dropped"}]]
  /\ patch \in [Staff -> [phase : {"idle", "loaded", "saved", "recorded"},
                          conv : Events \cup {NoEvent}, unread : Nat]]
  /\ \A s \in Staff : patch[s].phase = "loaded" => patch[s].conv \in Events
  /\ failures \in Nat /\ stranger \in BOOLEAN

\* docs/whatsapp.md: "no duplicate Message, no partial" state.  However often
\* and however concurrently an event is delivered, and wherever a delivery is
\* cut off, there is one message if the event is marked as processed and none
\* otherwise: an aborted delivery does not block its redelivery.
ExactlyOnce ==
  \A e \in Events : IF e \in seen THEN Cardinality(Stored(e)) = 1
                                  ELSE Stored(e) = {}

\* Meta stops redelivering after a 200.  Whatever it was told has been taken
\* is in the inbox, also if it was another delivery's, unless the customer has
\* been deleted: then the event is lost.
AnsweredIsStored ==
  customer # "deleted" =>
    \A d \in Deliveries : pc[d] = "answered" =>
      \A e \in payload[d] : Stored(e) # {}

Messages(k) == {m \in messages : m.conv = k}
Unpatched   == \A s \in Staff : patch[s].phase # "saved"

\* The first messages of a new customer, however they overlap, end up in one
\* conversation: its inserts wait for each other at the unique phone number.
OneConversation ==
  stranger /\ Unpatched => Cardinality({k \in Events : conv[k] # "none"}) <= 1

\* unread_count is written back from memory, so overlapping deliveries, replies
\* and PATCHes lose counts.  It never exceeds what is in the conversation, and
\* deliveries among themselves never make one with messages look read.
UnreadCounts ==
  \A k \in Events :
    /\ unread[k] <= Cardinality(Messages(k))
    /\ (\A s \in Staff : patch[s].phase \in {"idle", "loaded"})
         /\ Messages(k) # {} => unread[k] > 0

\* docs/ai.md: the task generates the reply "to every inbound WhatsApp customer
\* message": it does not give up on a message that is in the inbox.
ReplyFindsMessage ==
  \A m \in messages : reply[m.delivery][m.event] # "dropped"

\* No delivery waits for ever, be it for another one's key or row.
EveryPostAnswered ==
  \A d \in Deliveries : pc[d] = "ready" ~> pc[d] \in {"answered", "failed"}
=============================================================================

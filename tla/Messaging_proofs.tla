-------------------------- MODULE Messaging_proofs --------------------------
(***************************************************************************)
(* Proofs about the way of an inbound message: Webhook, which stores it    *)
(* and enqueues its task, for any number of events, deliveries, failures   *)
(* and PATCH requests, and Assistant, which runs that task, for any number *)
(* of inbound messages, edits, crashes and worker processes and any limit. *)
(***************************************************************************)
EXTENDS Webhook, Assistant, FiniteSetTheorems, TLAPS

(***************************************************************************)
(*                               W E B H O O K                             *)
(***************************************************************************)

(***************************************************************************)
(* Type correctness, and what an open transaction has at each statement.   *)
(***************************************************************************)

\* From FindConversation on, a transaction knows its conversation.
Linked == {"message", "recording", "touching", "committing"}

LocalInv ==
  /\ TypeOK
  /\ \A d \in Deliveries :
       /\ pc[d] \in InTransaction => ev[d] \in todo[d]
       /\ pc[d] \in Linked => link[d] \in Events

\* The types hold initially.
LEMMA LocalInit == Init => LocalInv
  <1> SUFFICES ASSUME Init PROVE LocalInv  OBVIOUS
  <1> USE DEF Init
  <1>1. TypeOK  BY DEF TypeOK, PC
  <1>2. QED  BY <1>1 DEF LocalInv, InTransaction, Linked

\* Every statement keeps the types, and has what the next one needs.
LEMMA LocalNext == LocalInv /\ [Next]_vars => LocalInv'
  <1> SUFFICES ASSUME LocalInv, [Next]_vars PROVE LocalInv'  OBVIOUS
  <1> USE WebhookAssumption
      DEF LocalInv, TypeOK, PC, InTransaction, Linked, database, local, Goto
  <1>1. ASSUME NEW d \in Deliveries, Receive(d) PROVE LocalInv'
    BY <1>1 DEF Receive
  <1>2. ASSUME NEW d \in Deliveries, Answer(d) PROVE LocalInv'
    BY <1>2 DEF Answer
  <1>3. ASSUME NEW d \in Deliveries, NEW e \in Events, InsertEvent(d, e)
        PROVE  LocalInv'
    <2>1. /\ pc[d] = "ready" /\ e \in todo[d]
          /\ UNCHANGED <<customer, conv, unread, seen, messages, payload,
                         newcomer, link, read, reply, patch, failures, stranger>>
      BY <1>3 DEF InsertEvent
    <2>2. CASE /\ todo' = [todo EXCEPT ![d] = @ \ {e}]
               /\ UNCHANGED <<pc, ev>>
      BY <2>1, <2>2
    <2>3. CASE /\ pc' = [pc EXCEPT ![d] = "customer"]
               /\ ev' = [ev EXCEPT ![d] = e]
               /\ UNCHANGED todo
      BY <2>1, <2>3
    <2>4. QED  BY <1>3, <2>2, <2>3 DEF InsertEvent
  <1>4. ASSUME NEW d \in Deliveries, GetCustomer(d) PROVE LocalInv'
    BY <1>4 DEF GetCustomer
  <1>5. ASSUME NEW d \in Deliveries, CreateCustomer(d) PROVE LocalInv'
    BY <1>5 DEF CreateCustomer
  <1>6. ASSUME NEW d \in Deliveries, CustomerConflict(d) PROVE LocalInv'
    BY <1>6 DEF CustomerConflict, Leave
  <1>7. ASSUME NEW d \in Deliveries, FindConversation(d) PROVE LocalInv'
    <2>1. PICK k \in Events, n \in Nat :
            /\ pc[d] = "conversation" /\ pc' = [pc EXCEPT ![d] = "message"]
            /\ link' = [link EXCEPT ![d] = k]
            /\ read' = [read EXCEPT ![d] = n]
      <3>1. CASE \E k \in Events : /\ link' = [link EXCEPT ![d] = k]
                                   /\ read' = [read EXCEPT ![d] = unread[k]]
        BY <1>7, <3>1 DEF FindConversation
      <3>2. CASE link' = [link EXCEPT ![d] = ev[d]] /\ UNCHANGED read
        <4>1. read' = [read EXCEPT ![d] = read[d]] /\ ev[d] \in Events
          BY <1>7, <3>2 DEF FindConversation
        <4>2. QED  BY <1>7, <3>2, <4>1 DEF FindConversation
      <3>3. QED  BY <1>7, <3>1, <3>2 DEF FindConversation
    <2>2. UNCHANGED <<customer, conv, unread, seen, messages, payload, todo, ev,
                      newcomer, reply, patch, failures, stranger>>
      BY <1>7 DEF FindConversation
    <2>3. QED  BY <2>1, <2>2
  <1>8. ASSUME NEW d \in Deliveries, CreateMessage(d) PROVE LocalInv'
    BY <1>8 DEF CreateMessage
  <1>9. ASSUME NEW d \in Deliveries, RecordMessage(d) PROVE LocalInv'
    BY <1>9 DEF RecordMessage
  <1>10. ASSUME NEW d \in Deliveries, TouchCustomer(d) PROVE LocalInv'
    BY <1>10 DEF TouchCustomer
  <1>11. ASSUME NEW d \in Deliveries, Commit(d) PROVE LocalInv'
    BY <1>11 DEF Commit, Leave
  <1>12. ASSUME NEW d \in Deliveries, Fail(d) PROVE LocalInv'
    BY <1>12 DEF Fail, Leave
  <1>13. ASSUME NEW d \in Deliveries, NEW e \in Events, RunReply(d, e)
         PROVE  LocalInv'
    BY <1>13 DEF RunReply
  <1>14. ASSUME NEW s \in Staff, NEW k \in Events, LoadPatch(s, k)
         PROVE  LocalInv'
    BY <1>14 DEF LoadPatch
  <1>15. ASSUME NEW s \in Staff, NEW status \in {"open", "closed"},
                SavePatch(s, status)
         PROVE  LocalInv'
    BY <1>15, ZenonT(30) DEF SavePatch
  <1>16. ASSUME NEW s \in Staff, RecordReply(s) PROVE LocalInv'
    BY <1>16, ZenonT(30) DEF RecordReply
  <1>17. CASE DeleteCustomer  BY <1>17 DEF DeleteCustomer
  <1>18. CASE UNCHANGED vars  BY <1>18 DEF vars
  <1> HIDE DEF LocalInv, TypeOK, PC, InTransaction, Linked, database, local, Goto
  <1>19. QED
    BY <1>1, <1>2, <1>3, <1>4, <1>5, <1>6, <1>7, <1>8, <1>9, <1>10, <1>11,
       <1>12, <1>13, <1>14, <1>15, <1>16, <1>17, <1>18
    DEF Next, Serve, ProcessEvent

\* LocalInv is an invariant.
LEMMA LocalCorrect == Spec => []LocalInv
  BY LocalInit, LocalNext, PTL DEF Spec

\* Every variable of the webhook, its transactions and its database keeps its
\* type.
THEOREM TypeCorrect == Spec => []TypeOK
  <1>1. LocalInv => TypeOK  BY DEF LocalInv
  <1>2. QED  BY <1>1, LocalCorrect, PTL

(***************************************************************************)
(* The unique key on MessageEvent makes one message of many deliveries.    *)
(***************************************************************************)

\* Nobody works on an event that is marked, or that another one works on.
KeyInv ==
  \A d \in Deliveries : pc[d] \in InTransaction =>
    /\ ev[d] \notin seen
    /\ \A o \in Others(d) : ~HoldsEvent(o, ev[d])

\* Marked events are those with a message, and it is the only one.
StoredInv ==
  \A e \in Events : /\ e \in seen => \E m \in messages : Stored(e) = {m}
                    /\ e \notin seen => Stored(e) = {}

\* A transaction starts on an event that is free, and a commit marks one that
\* nobody else holds.
LEMMA KeyNext == ASSUME LocalInv, KeyInv, [Next]_vars PROVE KeyInv'
  <1> USE DEF LocalInv, TypeOK, KeyInv, Others, HoldsEvent, InTransaction,
              database, local, Goto
  <1>1. ASSUME NEW d \in Deliveries, Receive(d) PROVE KeyInv'
    BY <1>1 DEF Receive
  <1>2. ASSUME NEW d \in Deliveries, Answer(d) PROVE KeyInv'
    BY <1>2 DEF Answer
  <1>3. ASSUME NEW d \in Deliveries, NEW e \in Events, InsertEvent(d, e)
        PROVE  KeyInv'
    BY <1>3, SMTT(20) DEF InsertEvent
  <1>4. ASSUME NEW d \in Deliveries, GetCustomer(d) PROVE KeyInv'
    BY <1>4 DEF GetCustomer
  <1>5. ASSUME NEW d \in Deliveries, CreateCustomer(d) PROVE KeyInv'
    BY <1>5 DEF CreateCustomer
  <1>6. ASSUME NEW d \in Deliveries, CustomerConflict(d) PROVE KeyInv'
    BY <1>6 DEF CustomerConflict, Leave
  <1>7. ASSUME NEW d \in Deliveries, FindConversation(d) PROVE KeyInv'
    BY <1>7 DEF FindConversation
  <1>8. ASSUME NEW d \in Deliveries, CreateMessage(d) PROVE KeyInv'
    BY <1>8 DEF CreateMessage
  <1>9. ASSUME NEW d \in Deliveries, RecordMessage(d) PROVE KeyInv'
    BY <1>9 DEF RecordMessage
  <1>10. ASSUME NEW d \in Deliveries, TouchCustomer(d) PROVE KeyInv'
    BY <1>10 DEF TouchCustomer
  <1>11. ASSUME NEW d \in Deliveries, Commit(d) PROVE KeyInv'
    BY <1>11 DEF Commit, Leave
  <1>12. ASSUME NEW d \in Deliveries, Fail(d) PROVE KeyInv'
    BY <1>12 DEF Fail, Leave
  <1>13. CASE UNCHANGED <<seen, pc, ev>>  BY <1>13
  <1>14. QED
    BY <1>1, <1>2, <1>3, <1>4, <1>5, <1>6, <1>7, <1>8, <1>9, <1>10, <1>11,
       <1>12, <1>13
    DEF Next, Serve, ProcessEvent, vars, RunReply, LoadPatch, SavePatch,
        RecordReply, DeleteCustomer

\* Messages and marks change only at a commit, together.
LEMMA StoredNext == ASSUME LocalInv, KeyInv, StoredInv, [Next]_vars PROVE StoredInv'
  <1>1. ASSUME NEW d \in Deliveries, Commit(d) PROVE StoredInv'
    <2>1. PICK x \in Events : x = ev[d] /\ x \notin seen
      BY <1>1 DEF Commit, Goto, LocalInv, TypeOK, KeyInv, InTransaction
    <2>2. PICK new : /\ new = [delivery |-> d, event |-> x, conv |-> link[d]]
                     /\ seen' = seen \cup {x}
                     /\ messages' = messages \cup {new}
      BY <1>1, <2>1 DEF Commit
    <2>3. Stored(x) = {}  BY <2>1 DEF StoredInv
    <2>4. Stored(x)' = {new}  BY <2>2, <2>3 DEF Stored
    <2>5. \A e \in Events : e # x => Stored(e)' = Stored(e)
      BY <2>2 DEF Stored
    <2>6. QED  BY <2>1, <2>2, <2>4, <2>5 DEF StoredInv
  <1>2. CASE UNCHANGED <<seen, messages>>
    BY <1>2 DEF StoredInv, Stored
  <1>3. QED
    BY <1>1, <1>2
    DEF Next, Serve, ProcessEvent, vars, database, Receive, Answer, InsertEvent,
        GetCustomer, CreateCustomer, CustomerConflict, FindConversation,
        CreateMessage, RecordMessage, TouchCustomer, Fail, RunReply, LoadPatch,
        SavePatch, RecordReply, DeleteCustomer

\* Both are invariants.
LEMMA StoredCorrect == Spec => [](KeyInv /\ StoredInv)
  <1>1. Init => KeyInv /\ StoredInv
    BY DEF Init, KeyInv, StoredInv, Stored, InTransaction
  <1>2. LocalInv /\ (KeyInv /\ StoredInv) /\ [Next]_vars
          => (KeyInv /\ StoredInv)'
    BY KeyNext, StoredNext
  <1>3. QED  BY <1>1, <1>2, LocalCorrect, PTL DEF Spec

\* Each event has one message if it is marked as processed and none otherwise,
\* however often and concurrently it is delivered and wherever one is cut off.
THEOREM Exactly == Spec => []ExactlyOnce
  <1>1. StoredInv => ExactlyOnce
    <2> SUFFICES ASSUME StoredInv, NEW e \in Events
                 PROVE  IF e \in seen THEN Cardinality(Stored(e)) = 1
                                      ELSE Stored(e) = {}
      BY DEF ExactlyOnce
    <2>1. CASE e \in seen
      <3>1. PICK m \in messages : Stored(e) = {m}  BY <2>1 DEF StoredInv
      <3>2. Cardinality({m}) = 1  BY FS_Singleton
      <3>3. QED  BY <2>1, <3>1, <3>2
    <2>2. CASE e \notin seen  BY <2>2 DEF StoredInv
    <2>3. QED  BY <2>1, <2>2
  <1>2. QED  BY <1>1, StoredCorrect, PTL

(***************************************************************************)
(* What is answered is stored, while the customer exists.                  *)
(***************************************************************************)

\* One transaction at most inserts the customer, and only while there is none:
\* a deleted customer stays deleted.
PhoneInv ==
  \A d \in Deliveries : newcomer[d] =>
    /\ pc[d] \in {"conversation"} \cup Linked
    /\ customer = "absent"
    /\ \A o \in Others(d) : ~newcomer[o]

\* What a delivery has done with is marked, unless the customer is deleted.
DoneInv ==
  \A d \in Deliveries :
    /\ pc[d] = "answered" => todo[d] = {}
    /\ customer # "deleted" => payload[d] \ todo[d] \subseteq seen

\* The unique phone number admits one inserting transaction at a time.
LEMMA PhoneNext == ASSUME LocalInv, PhoneInv, [Next]_vars PROVE PhoneInv'
  <1> USE DEF LocalInv, TypeOK, PhoneInv, Others, HoldsPhone, InTransaction,
              Linked, database, local, Goto
  <1>1. ASSUME NEW d \in Deliveries, Receive(d) PROVE PhoneInv'
    BY <1>1 DEF Receive
  <1>2. ASSUME NEW d \in Deliveries, Answer(d) PROVE PhoneInv'
    BY <1>2 DEF Answer
  <1>3. ASSUME NEW d \in Deliveries, NEW e \in Events, InsertEvent(d, e)
        PROVE  PhoneInv'
    BY <1>3 DEF InsertEvent
  <1>4. ASSUME NEW d \in Deliveries, GetCustomer(d) PROVE PhoneInv'
    BY <1>4 DEF GetCustomer
  <1>5. ASSUME NEW d \in Deliveries, CreateCustomer(d) PROVE PhoneInv'
    BY <1>5 DEF CreateCustomer
  <1>6. ASSUME NEW d \in Deliveries, CustomerConflict(d) PROVE PhoneInv'
    BY <1>6 DEF CustomerConflict, Leave
  <1>7. ASSUME NEW d \in Deliveries, FindConversation(d) PROVE PhoneInv'
    BY <1>7 DEF FindConversation
  <1>8. ASSUME NEW d \in Deliveries, CreateMessage(d) PROVE PhoneInv'
    BY <1>8 DEF CreateMessage
  <1>9. ASSUME NEW d \in Deliveries, RecordMessage(d) PROVE PhoneInv'
    BY <1>9 DEF RecordMessage
  <1>10. ASSUME NEW d \in Deliveries, TouchCustomer(d) PROVE PhoneInv'
    BY <1>10 DEF TouchCustomer
  <1>11. ASSUME NEW d \in Deliveries, Commit(d) PROVE PhoneInv'
    BY <1>11 DEF Commit, Leave
  <1>12. ASSUME NEW d \in Deliveries, Fail(d) PROVE PhoneInv'
    BY <1>12 DEF Fail, Leave
  <1>13. CASE DeleteCustomer  BY <1>13 DEF DeleteCustomer
  <1>14. CASE UNCHANGED <<customer, pc, newcomer>>  BY <1>14
  <1>15. QED
    BY <1>1, <1>2, <1>3, <1>4, <1>5, <1>6, <1>7, <1>8, <1>9, <1>10, <1>11,
       <1>12, <1>13, <1>14
    DEF Next, Serve, ProcessEvent, vars, RunReply, LoadPatch, SavePatch,
        RecordReply

\* An event leaves the list of a delivery when it is marked, or when the
\* customer is deleted for good.
LEMMA DoneNext ==
  ASSUME LocalInv, PhoneInv, DoneInv, [Next]_vars PROVE DoneInv'
  <1> USE DEF LocalInv, TypeOK, DoneInv, InTransaction, database, local, Goto
  <1>1. ASSUME NEW d \in Deliveries, Receive(d) PROVE DoneInv'
    BY <1>1 DEF Receive
  <1>2. ASSUME NEW d \in Deliveries, Answer(d) PROVE DoneInv'
    BY <1>2 DEF Answer
  <1>3. ASSUME NEW d \in Deliveries, NEW e \in Events, InsertEvent(d, e)
        PROVE  DoneInv'
    BY <1>3 DEF InsertEvent
  <1>4. ASSUME NEW d \in Deliveries, GetCustomer(d) PROVE DoneInv'
    BY <1>4 DEF GetCustomer
  <1>5. ASSUME NEW d \in Deliveries, CreateCustomer(d) PROVE DoneInv'
    BY <1>5 DEF CreateCustomer
  <1>6. ASSUME NEW d \in Deliveries, CustomerConflict(d) PROVE DoneInv'
    BY <1>6 DEF CustomerConflict, Leave
  <1>7. ASSUME NEW d \in Deliveries, FindConversation(d) PROVE DoneInv'
    BY <1>7 DEF FindConversation
  <1>8. ASSUME NEW d \in Deliveries, CreateMessage(d) PROVE DoneInv'
    BY <1>8 DEF CreateMessage
  <1>9. ASSUME NEW d \in Deliveries, RecordMessage(d) PROVE DoneInv'
    BY <1>9 DEF RecordMessage
  <1>10. ASSUME NEW d \in Deliveries, TouchCustomer(d) PROVE DoneInv'
    BY <1>10 DEF TouchCustomer
  <1>11. ASSUME NEW d \in Deliveries, Commit(d) PROVE DoneInv'
    <2>1. customer' # "deleted" => customer # "deleted"
      BY <1>11 DEF Commit, PhoneInv
    <2>2. /\ seen' = seen \cup {ev[d]} /\ UNCHANGED payload
          /\ todo' = [todo EXCEPT ![d] = @ \ {ev[d]}]
          /\ pc' = [pc EXCEPT ![d] = "ready"]
      BY <1>11 DEF Commit
    <2>3. QED  BY <2>1, <2>2
  <1>12. ASSUME NEW d \in Deliveries, Fail(d) PROVE DoneInv'
    BY <1>12 DEF Fail, Leave
  <1>13. CASE DeleteCustomer  BY <1>13 DEF DeleteCustomer
  <1>14. CASE UNCHANGED <<customer, seen, pc, payload, todo>>  BY <1>14
  <1>15. QED
    BY <1>1, <1>2, <1>3, <1>4, <1>5, <1>6, <1>7, <1>8, <1>9, <1>10, <1>11,
       <1>12, <1>13, <1>14
    DEF Next, Serve, ProcessEvent, vars, RunReply, LoadPatch, SavePatch,
        RecordReply

\* Both are invariants.
LEMMA DoneCorrect == Spec => [](PhoneInv /\ DoneInv)
  <1>1. Init => PhoneInv /\ DoneInv
    BY DEF Init, PhoneInv, DoneInv
  <1>2. LocalInv /\ (PhoneInv /\ DoneInv) /\ [Next]_vars
          => (PhoneInv /\ DoneInv)'
    BY PhoneNext, DoneNext
  <1>3. QED  BY <1>1, <1>2, LocalCorrect, PTL DEF Spec

\* An event that Meta has been told was taken has its message, whichever
\* delivery stored it, unless the customer has been deleted.
THEOREM Answered == Spec => []AnsweredIsStored
  <1>1. StoredInv /\ DoneInv /\ LocalInv => AnsweredIsStored
    BY DEF StoredInv, DoneInv, LocalInv, TypeOK, AnsweredIsStored
  <1>2. QED  BY <1>1, LocalCorrect, StoredCorrect, DoneCorrect, PTL

(***************************************************************************)
(* A new customer gets one conversation.                                   *)
(***************************************************************************)

Committed(k) == conv[k] # "none"

\* A conversation is named after an event that has been processed; staff have
\* loaded one that exists.
NamedInv ==
  /\ \A k \in Events : Committed(k) => k \in seen
  /\ \A s \in Staff : patch[s].phase = "loaded" => Committed(patch[s].conv)

\* The transaction that inserts the customer is the one that opens the
\* conversation: there is none before it commits, and everyone else waits for
\* that commit and then finds it open.
HomeInv ==
  stranger /\ Unpatched =>
    /\ customer = "absent" => \A k \in Events : ~Committed(k)
    /\ customer # "absent" =>
         \E k \in Events : /\ Open(k)
                           /\ \A j \in Events : Committed(j) => j = k
    /\ \A d \in Deliveries :
         /\ pc[d] \in {"conversation"} \cup Linked /\ ~newcomer[d]
              => customer # "absent"
         /\ pc[d] \in Linked => (Fresh(d) <=> newcomer[d])

\* A conversation is created by the commit that marks its event, for good.
LEMMA NamedNext == ASSUME LocalInv, NamedInv, [Next]_vars PROVE NamedInv'
  <1> USE DEF NamedInv, Committed, LocalInv, TypeOK
  <1>1. ASSUME NEW d \in Deliveries, Commit(d) PROVE NamedInv'
    <2>1. CASE Fresh(d)
      <3>1. /\ conv' = [conv EXCEPT ![ev[d]] = "open"]
            /\ seen' = seen \cup {ev[d]} /\ UNCHANGED patch
        BY <1>1, <2>1 DEF Commit, Fresh
      <3>2. QED  BY <3>1
    <2>2. CASE ~Fresh(d)
      <3>1. UNCHANGED <<conv, patch>> /\ seen' = seen \cup {ev[d]}
        BY <1>1, <2>2 DEF Commit
      <3>2. QED  BY <3>1
    <2>3. QED  BY <2>1, <2>2
  <1>2. ASSUME NEW s \in Staff, NEW status \in {"open", "closed"},
               SavePatch(s, status)
        PROVE  NamedInv'
    BY <1>2 DEF SavePatch
  <1>3. ASSUME NEW s \in Staff, RecordReply(s) PROVE NamedInv'
    BY <1>3 DEF RecordReply
  <1>4. ASSUME NEW s \in Staff, NEW k \in Events, LoadPatch(s, k)
        PROVE  NamedInv'
    BY <1>4 DEF LoadPatch, database
  <1>5. CASE UNCHANGED <<conv, seen, patch>>  BY <1>5
  <1>6. QED
    BY <1>1, <1>2, <1>3, <1>4, <1>5
    DEF Next, Serve, ProcessEvent, vars, database, Receive, Answer, InsertEvent,
        GetCustomer, CreateCustomer, CustomerConflict, FindConversation,
        CreateMessage, RecordMessage, TouchCustomer, Fail, RunReply,
        DeleteCustomer

\* Only the transaction that inserts the customer finds nobody's conversation.
LEMMA HomeNext ==
  ASSUME LocalInv, KeyInv, PhoneInv, NamedInv, HomeInv, [Next]_vars
  PROVE  HomeInv'
  <1> SUFFICES ASSUME stranger', Unpatched' PROVE HomeInv'  BY DEF HomeInv
  <1> USE DEF LocalInv, TypeOK, PC, InTransaction, Linked, database, local, Goto
  <1>0. stranger /\ Unpatched
    <2>1. stranger
      BY DEF Next, Serve, ProcessEvent, vars, Receive, Answer, InsertEvent,
             GetCustomer, CreateCustomer, CustomerConflict, FindConversation,
             CreateMessage, RecordMessage, TouchCustomer, Commit, Fail, RunReply,
             LoadPatch, SavePatch, RecordReply, DeleteCustomer
    <2>2. \A s \in Staff : patch[s].phase = "saved" => patch'[s].phase = "saved"
      <3>1. ASSUME NEW t \in Staff,
                   \/ \E k \in Events : LoadPatch(t, k)
                   \/ RecordReply(t)
                   \/ \E status \in {"open", "closed"} : SavePatch(t, status)
            PROVE  /\ patch[t].phase # "saved"
                   /\ \A s \in Staff \ {t} : patch'[s] = patch[s]
        BY <3>1, ZenonT(30) DEF LoadPatch, RecordReply, SavePatch
      <3>2. \/ UNCHANGED patch
            \/ \E t \in Staff : \/ \E k \in Events : LoadPatch(t, k)
                              \/ RecordReply(t)
                              \/ \E status \in {"open", "closed"} : SavePatch(t, status)
        BY DEF Next, Serve, ProcessEvent, vars, Receive, Answer, InsertEvent,
               GetCustomer, CreateCustomer, CustomerConflict, FindConversation,
               CreateMessage, RecordMessage, TouchCustomer, Commit, Fail, RunReply,
               DeleteCustomer
      <3>3. QED  BY ONLY <3>1, <3>2
    <2>3. QED  BY <2>1, <2>2 DEF Unpatched
  <1> USE <1>0 DEF HomeInv, Committed, Open, Fresh
  <1>1. ASSUME NEW d \in Deliveries, Receive(d) PROVE HomeInv'
    BY <1>1 DEF Receive
  <1>2. ASSUME NEW d \in Deliveries, Answer(d) PROVE HomeInv'
    BY <1>2 DEF Answer
  <1>3. ASSUME NEW d \in Deliveries, NEW e \in Events, InsertEvent(d, e)
        PROVE  HomeInv'
    BY <1>3 DEF InsertEvent
  <1>4. ASSUME NEW d \in Deliveries, GetCustomer(d) PROVE HomeInv'
    BY <1>4 DEF GetCustomer
  <1>5. ASSUME NEW d \in Deliveries, CreateCustomer(d) PROVE HomeInv'
    BY <1>5 DEF CreateCustomer
  <1>6. ASSUME NEW d \in Deliveries, CustomerConflict(d) PROVE HomeInv'
    BY <1>6 DEF CustomerConflict, Leave
  <1>7. ASSUME NEW d \in Deliveries, FindConversation(d) PROVE HomeInv'
    <2>1. CASE newcomer[d]
      <3>1. \A k \in Events : ~Open(k)
        BY <1>7, <2>1 DEF FindConversation, PhoneInv
      <3>2. link' = [link EXCEPT ![d] = ev[d]]
        BY <1>7, <3>1 DEF FindConversation
      <3>3. QED  BY <1>7, <2>1, <3>2 DEF FindConversation
    <2>2. CASE ~newcomer[d]
      <3>1. customer # "absent"
        BY <1>7, <2>2 DEF FindConversation
      <3>2. PICK k \in Events : Open(k) /\ link' = [link EXCEPT ![d] = k]
        BY <1>7, <3>1 DEF FindConversation
      <3>3. k # ev[d]
        BY <1>7, <3>2 DEF FindConversation, NamedInv, KeyInv
      <3>4. QED  BY <1>7, <2>2, <3>1, <3>2, <3>3 DEF FindConversation
    <2>3. QED  BY <2>1, <2>2
  <1>8. ASSUME NEW d \in Deliveries, CreateMessage(d) PROVE HomeInv'
    BY <1>8 DEF CreateMessage
  <1>9. ASSUME NEW d \in Deliveries, RecordMessage(d) PROVE HomeInv'
    BY <1>9 DEF RecordMessage
  <1>10. ASSUME NEW d \in Deliveries, TouchCustomer(d) PROVE HomeInv'
    BY <1>10 DEF TouchCustomer
  <1>11. ASSUME NEW d \in Deliveries, Commit(d) PROVE HomeInv'
    <2>1. /\ pc[d] = "committing" /\ pc' = [pc EXCEPT ![d] = "ready"]
          /\ \A o \in Deliveries \ {d} : /\ ev'[o] = ev[o] /\ link'[o] = link[o]
                                         /\ newcomer'[o] = newcomer[o]
      BY <1>11 DEF Commit, Leave
    <2>2. CASE newcomer[d]
      <3>1. PICK x \in Events : x = ev[d]
        BY <2>1
      <3>2. /\ customer = "absent" /\ customer' = "present"
            /\ conv' = [conv EXCEPT ![x] = "open"]
        BY <1>11, <2>1, <2>2, <3>1 DEF Commit, PhoneInv
      <3>3. conv'[x] = "open" /\ \A j \in Events : conv'[j] # "none" => j = x
        BY <3>2
      <3>4. QED  BY <2>1, <3>2, <3>3
    <2>3. CASE ~newcomer[d]
      <3>1. UNCHANGED <<customer, conv>>
        BY <1>11, <2>1, <2>3 DEF Commit
      <3>2. QED  BY <2>1, <3>1
    <2>4. QED  BY <2>2, <2>3
  <1>12. ASSUME NEW d \in Deliveries, Fail(d) PROVE HomeInv'
    BY <1>12 DEF Fail, Leave
  <1>13. ASSUME NEW s \in Staff, NEW status \in {"open", "closed"},
                SavePatch(s, status)
         PROVE  HomeInv'
    BY <1>13 DEF SavePatch, Unpatched
  <1>14. CASE DeleteCustomer  BY <1>14 DEF DeleteCustomer
  <1>15. CASE UNCHANGED <<customer, conv, pc, ev, newcomer, link>>  BY <1>15
  <1>16. QED
    BY <1>1, <1>2, <1>3, <1>4, <1>5, <1>6, <1>7, <1>8, <1>9, <1>10, <1>11,
       <1>12, <1>13, <1>14, <1>15
    DEF Next, Serve, ProcessEvent, vars, RunReply, LoadPatch, RecordReply

\* Both are invariants.
LEMMA HomeCorrect == Spec => [](NamedInv /\ HomeInv)
  <1>1. Init => NamedInv /\ HomeInv
    <2> SUFFICES ASSUME Init PROVE NamedInv /\ HomeInv  OBVIOUS
    <2>1. NamedInv  BY DEF Init, NamedInv, Committed
    <2>2. stranger => customer = "absent"  BY DEF Init
    <2>3. HomeInv  BY <2>2 DEF Init, HomeInv, Committed, Linked
    <2>4. QED  BY <2>1, <2>3
  <1>2. LocalInv /\ (KeyInv /\ StoredInv) /\ (PhoneInv /\ DoneInv)
          /\ (NamedInv /\ HomeInv) /\ [Next]_vars => (NamedInv /\ HomeInv)'
    BY NamedNext, HomeNext
  <1>3. QED
    BY <1>1, <1>2, LocalCorrect, StoredCorrect, DoneCorrect, PTL DEF Spec

\* Until a PATCH is saved, the messages of a customer who was unknown are all in
\* one conversation, however their deliveries overlap.
THEOREM OneHome == Spec => []OneConversation
  <1>1. HomeInv => OneConversation
    <2> SUFFICES ASSUME HomeInv, stranger, Unpatched
                 PROVE  Cardinality({k \in Events : Committed(k)}) <= 1
      BY DEF OneConversation, Committed
    <2>1. CASE {k \in Events : Committed(k)} = {}  BY <2>1, FS_EmptySet
    <2>2. CASE \E x \in Events : {k \in Events : Committed(k)} = {x}
      <3>1. PICK x \in Events : {k \in Events : Committed(k)} = {x}  BY <2>2
      <3>2. Cardinality({x}) = 1  BY FS_Singleton
      <3>3. Cardinality({k \in Events : Committed(k)}) = 1  BY <3>1, <3>2, Zenon
      <3>4. QED  BY <3>3
    <2>3. QED  BY <2>1, <2>2 DEF HomeInv, Committed, Open
  <1>2. QED  BY <1>1, HomeCorrect, PTL

(***************************************************************************)
(* unread_count, written back from memory, never exceeds the messages.     *)
(***************************************************************************)

Count(k) == Cardinality(Messages(k))
Quiet    == \A s \in Staff : patch[s].phase \in {"idle", "loaded"}

\* Whatever has been loaded was no more than the messages of then, and there
\* never are fewer.
CountInv ==
  /\ IsFiniteSet(messages)
  /\ \A k \in Events : unread[k] <= Count(k)
  /\ \A d \in Deliveries : IF pc[d] \in Linked THEN read[d] <= Count(link[d])
                                                ELSE read[d] = 0
  /\ \A s \in Staff : patch[s].phase = "loaded" => patch[s].unread <= Count(patch[s].conv)
  /\ Quiet => \A k \in Events : Messages(k) # {} => unread[k] > 0

\* Messages can be counted.
LEMMA CountType == ASSUME IsFiniteSet(messages), NEW k PROVE Count(k) \in Nat
  <1>1. IsFiniteSet(Messages(k))  BY FS_Subset DEF Messages
  <1>2. QED  BY <1>1, FS_CardinalityType DEF Count

\* A commit adds one message to one conversation.
LEMMA CommitCounts ==
  ASSUME LocalInv, KeyInv, StoredInv, CountInv, NEW d \in Deliveries, Commit(d)
  PROVE  \E x \in Events :
           /\ x = link[d] /\ IsFiniteSet(messages')
           /\ Count(x)' = Count(x) + 1
           /\ \A k \in Events : k # x => Messages(k)' = Messages(k)
  <1>1. PICK x \in Events, y \in Events : x = link[d] /\ y = ev[d] /\ y \notin seen
    BY DEF LocalInv, TypeOK, KeyInv, Commit, Goto, InTransaction, Linked
  <1>2. PICK m : /\ m = [delivery |-> d, event |-> y, conv |-> x]
                 /\ messages' = messages \cup {m}
    BY <1>1 DEF Commit
  <1>3. m \notin messages  BY <1>1, <1>2 DEF StoredInv, Stored
  <1>4. /\ Messages(x)' = Messages(x) \cup {m} /\ m \notin Messages(x)
        /\ \A k \in Events : k # x => Messages(k)' = Messages(k)
    BY <1>2, <1>3 DEF Messages
  <1>5. IsFiniteSet(messages') /\ IsFiniteSet(Messages(x))
    BY <1>2, FS_AddElement, FS_Subset DEF CountInv, Messages
  <1>6. Cardinality(Messages(x) \cup {m}) = Cardinality(Messages(x)) + 1
    BY <1>4, <1>5, FS_AddElement
  <1>7. QED  BY <1>1, <1>4, <1>5, <1>6 DEF Count

\* Every count written is one more than one loaded, or one loaded.
LEMMA CountNext ==
  ASSUME LocalInv, KeyInv, StoredInv, NamedInv, CountInv, [Next]_vars
  PROVE  CountInv'
  <1>0. \A k : Count(k) \in Nat  BY CountType DEF CountInv
  <1> USE DEF LocalInv, TypeOK, CountInv, InTransaction, Linked, database, local,
              Goto, Quiet
  <1>1. ASSUME NEW d \in Deliveries, Commit(d) PROVE CountInv'
    <2>1. PICK x \in Events :
            /\ x = link[d] /\ IsFiniteSet(messages')
            /\ Count(x)' = Count(x) + 1
            /\ \A k \in Events : k # x => Messages(k)' = Messages(k)
      BY <1>1, CommitCounts
    <2>2. /\ pc[d] = "committing" /\ pc' = [pc EXCEPT ![d] = "ready"]
          /\ unread' = [unread EXCEPT ![x] = read[d] + 1]
          /\ link' = [link EXCEPT ![d] = NoEvent]
          /\ read' = [read EXCEPT ![d] = 0]
          /\ UNCHANGED patch
      BY <1>1, <2>1 DEF Commit, Leave
    <2>3. \A k \in Events : Count(k)' >= Count(k) /\ Count(k)' \in Nat
      BY <1>0, <2>1 DEF Count
    <2>4. \A k \in Events : unread'[k] <= Count(k)'
      <3>1. read[d] <= Count(x) /\ read[d] \in Nat  BY <2>1, <2>2
      <3>2. ASSUME NEW k \in Events, k # x PROVE unread'[k] <= Count(k)'
        BY <1>0, <2>2, <2>3, <3>2
      <3>3. unread'[x] <= Count(x)'
        BY <1>0, <2>1, <2>2, <3>1
      <3>4. QED  BY <3>2, <3>3
    <2>5. ASSUME NEW o \in Deliveries
          PROVE  (IF pc[o] \in Linked THEN read[o] <= Count(link[o])
                                     ELSE read[o] = 0)'
      <3>1. CASE o = d  BY <2>2, <3>1
      <3>2. CASE o # d /\ pc[o] \in Linked
        <4>1. PICK k \in Events : k = link[o]  BY <3>2
        <4>2. read'[o] <= Count(k)'  BY <1>0, <2>2, <2>3, <3>2, <4>1
        <4>3. link'[o] = k  BY <2>2, <3>2, <4>1
        <4>4. QED  BY <2>2, <3>2, <4>2, <4>3 DEF Count, Messages
      <3>3. CASE o # d /\ pc[o] \notin Linked  BY <2>2, <3>3
      <3>4. QED  BY <3>1, <3>2, <3>3
    <2>6. ASSUME NEW s \in Staff, patch'[s].phase = "loaded"
          PROVE  (patch[s].unread <= Count(patch[s].conv))'
      <3>1. PICK k \in Events : k = patch[s].conv  BY <2>2, <2>6
      <3>2. patch[s].unread \in Nat /\ patch[s].unread <= Count(k)
        BY <2>2, <2>6, <3>1
      <3>3. patch[s].unread <= Count(k)'  BY <1>0, <2>3, <3>2
      <3>4. QED  BY <2>2, <3>1, <3>3 DEF Count, Messages
    <2>7. ASSUME Quiet', NEW k \in Events, Messages(k)' # {} PROVE unread'[k] > 0
      BY <2>1, <2>2, <2>7
    <2>8. QED  BY <2>1, <2>4, <2>5, <2>6, <2>7
  <1>2. ASSUME NEW d \in Deliveries, FindConversation(d) PROVE CountInv'
    <2>1. /\ UNCHANGED <<messages, unread, patch>>
          /\ pc[d] = "conversation" /\ pc' = [pc EXCEPT ![d] = "message"]
      BY <1>2 DEF FindConversation
    <2>2. \A k : Count(k)' = Count(k)  BY <2>1 DEF Count, Messages
    <2>3. \E k \in Events : \E n \in Nat :
            /\ n <= Count(k) /\ link' = [link EXCEPT ![d] = k]
            /\ read' = [read EXCEPT ![d] = n]
      <3>1. CASE \E k \in Events : /\ link' = [link EXCEPT ![d] = k]
                                   /\ read' = [read EXCEPT ![d] = unread[k]]
        BY <3>1
      <3>2. CASE link' = [link EXCEPT ![d] = ev[d]] /\ UNCHANGED read
        <4>1. read[d] = 0 /\ ev[d] \in Events  BY <2>1
        <4>2. read' = [read EXCEPT ![d] = 0] /\ 0 <= Count(ev[d])
          BY <1>0, <3>2, <4>1
        <4>3. QED  BY <3>2, <4>1, <4>2
      <3>3. QED  BY <1>2, <3>1, <3>2 DEF FindConversation
    <2>4. QED  BY <2>1, <2>2, <2>3 DEF Messages
  <1>3. ASSUME UNCHANGED <<messages, unread, patch>>,
               NEW d \in Deliveries, NEW p \in PC,
               pc' = [pc EXCEPT ![d] = p],
               \/ p \notin Linked /\ read' = [read EXCEPT ![d] = 0]
               \/ (p \in Linked <=> pc[d] \in Linked) /\ UNCHANGED <<link, read>>,
               \A o \in Deliveries \ {d} : link'[o] = link[o]
        PROVE  CountInv'
    <2>1. \A k : Count(k)' = Count(k)  BY <1>3 DEF Count, Messages
    <2>2. QED  BY <1>3, <2>1 DEF Messages
  <1>4. ASSUME NEW s \in Staff, NEW status \in {"open", "closed"},
               SavePatch(s, status) \/ RecordReply(s)
        PROVE  CountInv'
    <2>1. UNCHANGED <<messages, pc, link, read>>
      BY <1>4 DEF SavePatch, RecordReply
    <2>2. \A k : Count(k)' = Count(k)  BY <2>1 DEF Count, Messages
    <2>3. /\ patch[s].phase = "loaded"
          /\ unread' = [unread EXCEPT ![patch[s].conv] = patch[s].unread]
          /\ \E f \in {"saved", "recorded"} : patch' = [patch EXCEPT ![s].phase = f]
      BY <1>4 DEF SavePatch, RecordReply
    <2>4. QED  BY <2>1, <2>2, <2>3 DEF Messages
  <1>5. ASSUME NEW s \in Staff, NEW k \in Events, LoadPatch(s, k) PROVE CountInv'
    <2>1. UNCHANGED <<messages, unread, pc, link, read>>
      BY <1>5 DEF LoadPatch
    <2>2. \A j : Count(j)' = Count(j)  BY <2>1 DEF Count, Messages
    <2>3. QED  BY <1>5, <2>1, <2>2 DEF LoadPatch, Messages
  <1>6. CASE UNCHANGED <<messages, unread, patch, pc, link, read>>
    <2>1. \A j : Count(j)' = Count(j)  BY <1>6 DEF Count, Messages
    <2>2. QED  BY <1>6, <2>1 DEF Messages
  <1>7. QED
    <2> USE DEF PC
    <2>1. ASSUME NEW d \in Deliveries, Receive(d) \/ Serve(d) \/ Fail(d)
          PROVE  CountInv'
      <3>1. CASE Receive(d)  BY <3>1, <1>3 DEF Receive
      <3>2. CASE Answer(d)  BY <3>2, <1>3 DEF Answer
      <3>3. CASE \E e \in Events : InsertEvent(d, e)
        BY <3>3, <1>3, <1>6, SMTT(20) DEF InsertEvent
      <3>4. CASE GetCustomer(d)  BY <3>4, <1>3 DEF GetCustomer
      <3>5. CASE CreateCustomer(d)  BY <3>5, <1>3 DEF CreateCustomer
      <3>6. CASE CustomerConflict(d)  BY <3>6, <1>3 DEF CustomerConflict, Leave
      <3>7. CASE CreateMessage(d)  BY <3>7, <1>3 DEF CreateMessage
      <3>8. CASE RecordMessage(d)  BY <3>8, <1>3 DEF RecordMessage
      <3>9. CASE TouchCustomer(d)  BY <3>9, <1>3 DEF TouchCustomer
      <3>10. CASE Fail(d)  BY <3>10, <1>3 DEF Fail, Leave
      <3>11. QED
        BY <1>1, <1>2, <2>1, <3>1, <3>2, <3>3, <3>4, <3>5, <3>6, <3>7, <3>8,
           <3>9, <3>10
        DEF Serve, ProcessEvent
    <2>2. QED
      BY <1>4, <1>5, <1>6, <2>1 DEF Next, vars, RunReply, DeleteCustomer

\* CountInv is an invariant.
LEMMA CountCorrect == Spec => []CountInv
  <1>1. Init => CountInv
    <2> SUFFICES ASSUME Init PROVE CountInv  OBVIOUS
    <2>1. \A k : Count(k) = 0 /\ Messages(k) = {}
      BY FS_EmptySet DEF Init, Count, Messages
    <2>2. QED  BY <2>1, FS_EmptySet DEF Init, CountInv, Linked
  <1>2. LocalInv /\ (KeyInv /\ StoredInv) /\ (NamedInv /\ HomeInv) /\ CountInv
          /\ [Next]_vars => CountInv'
    BY CountNext
  <1>3. QED
    BY <1>1, <1>2, LocalCorrect, StoredCorrect, HomeCorrect, PTL DEF Spec

\* unread_count never exceeds the messages of its conversation, and deliveries
\* alone, however they overlap, leave none with messages at zero.
THEOREM Unread == Spec => []UnreadCounts
  <1>1. CountInv => UnreadCounts
    BY DEF CountInv, UnreadCounts, Count, Quiet
  <1>2. QED  BY <1>1, CountCorrect, PTL

(***************************************************************************)
(*                             A S S I S T A N T                           *)
(***************************************************************************)

\* Types, and what a task has decided by the statement it has reached.
TaskInv ==
  /\ AssistantTypeOK
  /\ \A i \in Inbound :
       /\ task[i] \in {"none", "queued", "limit", "call"} => intent[i] = "none"
       /\ task[i] \in {"switch", "log"} => intent[i] = "handoff"
       /\ task[i] \in {"none", "queued"} => i \notin late

\* Every step keeps the types and a task's decision.
LEMMA TaskNext == TaskInv /\ [AssistantNext]_assistantVars => TaskInv'
  <1> SUFFICES ASSUME TaskInv, [AssistantNext]_assistantVars PROVE TaskInv'  OBVIOUS
  <1> USE DEF TaskInv, AssistantTypeOK, Working, Sending, Step, Decide
  <1>1. ASSUME NEW i \in Inbound, Arrive(i) PROVE TaskInv'  BY <1>1 DEF Arrive
  <1>2. ASSUME NEW i \in Inbound, StaySilent(i) PROVE TaskInv'
    BY <1>2 DEF StaySilent, Take
  <1>3. ASSUME NEW i \in Inbound, WantHuman(i) PROVE TaskInv'
    BY <1>3 DEF WantHuman, Take
  <1>4. ASSUME NEW i \in Inbound, Attempt(i) PROVE TaskInv'
    BY <1>4 DEF Attempt, Take
  <1>5. ASSUME NEW i \in Inbound, CheckUsage(i) PROVE TaskInv'
    BY <1>5 DEF CheckUsage
  <1>6. ASSUME NEW i \in Inbound, CallProvider(i) PROVE TaskInv'
    BY <1>6 DEF CallProvider
  <1>7. ASSUME NEW i \in Inbound, SwitchOff(i) PROVE TaskInv'
    BY <1>7 DEF SwitchOff
  <1>8. ASSUME NEW i \in Inbound, CreateReply(i) PROVE TaskInv'
    BY <1>8 DEF CreateReply, Post
  <1>9. ASSUME NEW i \in Inbound, LogHandoff(i) PROVE TaskInv'
    BY <1>9 DEF LogHandoff
  <1>10. ASSUME NEW i \in Inbound, Die(i) PROVE TaskInv'  BY <1>10 DEF Die
  <1>11. ASSUME NEW i \in Inbound, CallMeta(i) PROVE TaskInv'
    BY <1>11 DEF CallMeta
  <1>12. ASSUME NEW i \in Inbound, SaveSent(i) PROVE TaskInv'
    BY <1>12 DEF SaveSent
  <1>13. ASSUME NEW i \in Inbound, DieSending(i) PROVE TaskInv'
    BY <1>13 DEF DieSending
  <1>14. ASSUME NEW e \in Editors, LoadEdit(e) PROVE TaskInv'
    BY <1>14 DEF LoadEdit
  <1>15. ASSUME NEW e \in Editors, SaveEdit(e) PROVE TaskInv'
    BY <1>15 DEF SaveEdit
  <1>16. CASE UNCHANGED assistantVars  BY <1>16 DEF assistantVars
  <1>17. QED
    BY <1>1, <1>2, <1>3, <1>4, <1>5, <1>6, <1>7, <1>8, <1>9, <1>10, <1>11,
       <1>12, <1>13, <1>14, <1>15, <1>16
    DEF AssistantNext, Generate, SendOut

\* TaskInv is an invariant.
LEMMA TaskCorrect == AssistantSpec => []TaskInv
  <1>1. AssistantInit => TaskInv
    <2> SUFFICES ASSUME AssistantInit PROVE TaskInv  OBVIOUS
    <2>1. usage \in Nat  BY AssistantAssumption DEF AssistantInit
    <2>2. QED  BY <2>1 DEF AssistantInit, TaskInv, AssistantTypeOK, Working, Sending
  <1>2. QED  BY <1>1, TaskNext, PTL DEF AssistantSpec

\* Every variable of the conversation, its tasks and its messages keeps its
\* type.
THEOREM AssistantTypeCorrect == AssistantSpec => []AssistantTypeOK
  <1>1. TaskInv => AssistantTypeOK  BY DEF TaskInv
  <1>2. QED  BY <1>1, TaskCorrect, PTL

(***************************************************************************)
(* A hand-off holds until a PATCH is saved.                                *)
(***************************************************************************)

\* Until then nothing switches the assistant on, so no task that starts finds
\* it on.
HoldInv == Unedited => (quiet => ~ai) /\ QuietUntilResumed

\* A PATCH that is saved stays so.
LEMMA UneditedBefore ==
  ASSUME AssistantTypeOK, [AssistantNext]_assistantVars, Unedited'
  PROVE  Unedited
  <1>1. CASE UNCHANGED edit  BY <1>1 DEF Unedited
  <1>2. ASSUME NEW e \in Editors, LoadEdit(e) \/ SaveEdit(e) PROVE Unedited
    BY <1>2 DEF Unedited, LoadEdit, SaveEdit, AssistantTypeOK
  <1>3. QED
    BY <1>1, <1>2
    DEF AssistantNext, Generate, SendOut, assistantVars,
        Arrive, StaySilent, WantHuman, Attempt,
        Take, CheckUsage, CallProvider, SwitchOff, CreateReply, LogHandoff, Die,
        CallMeta, SaveSent, DieSending

LEMMA HoldNext == ASSUME TaskInv, HoldInv, [AssistantNext]_assistantVars PROVE HoldInv'
  <1> SUFFICES ASSUME Unedited' PROVE ((quiet => ~ai) /\ QuietUntilResumed)'
    BY DEF HoldInv
  <1>0. Unedited  BY UneditedBefore DEF TaskInv
  <1> USE <1>0 DEF HoldInv, QuietUntilResumed, TaskInv, AssistantTypeOK, Step, Decide,
              Working
  <1>1. ASSUME NEW i \in Inbound, Arrive(i) PROVE HoldInv'  BY <1>1 DEF Arrive
  <1>2. ASSUME NEW i \in Inbound, StaySilent(i) PROVE HoldInv'
    BY <1>2 DEF StaySilent, Take
  <1>3. ASSUME NEW i \in Inbound, WantHuman(i) PROVE HoldInv'
    BY <1>3 DEF WantHuman, Take
  <1>4. ASSUME NEW i \in Inbound, Attempt(i) PROVE HoldInv'
    BY <1>4 DEF Attempt, Take
  <1>5. ASSUME NEW i \in Inbound, CheckUsage(i) PROVE HoldInv'
    BY <1>5 DEF CheckUsage
  <1>6. ASSUME NEW i \in Inbound, CallProvider(i) PROVE HoldInv'
    BY <1>6 DEF CallProvider
  <1>7. ASSUME NEW i \in Inbound, SwitchOff(i) PROVE HoldInv'
    BY <1>7 DEF SwitchOff
  <1>8. ASSUME NEW i \in Inbound, CreateReply(i) PROVE HoldInv'
    BY <1>8 DEF CreateReply
  <1>9. ASSUME NEW i \in Inbound, LogHandoff(i) PROVE HoldInv'
    BY <1>9 DEF LogHandoff
  <1>10. ASSUME NEW i \in Inbound, Die(i) PROVE HoldInv'  BY <1>10 DEF Die
  <1>11. ASSUME NEW e \in Editors, SaveEdit(e) PROVE HoldInv'
    BY <1>11 DEF SaveEdit, Unedited
  <1>12. CASE UNCHANGED <<ai, quiet, late, task, intent>>  BY <1>12
  <1>13. QED
    BY <1>1, <1>2, <1>3, <1>4, <1>5, <1>6, <1>7, <1>8, <1>9, <1>10, <1>11,
       <1>12
    DEF AssistantNext, Generate, SendOut, assistantVars,
        LoadEdit, CallMeta, SaveSent, DieSending

\* After a hand-off and until a PATCH of the conversation is saved, the
\* assistant is off and tasks that start do nothing, whatever overlapped it.
THEOREM Holds == AssistantSpec => []HandoffHolds
  <1>1. AssistantInit => HoldInv  BY DEF AssistantInit, HoldInv, QuietUntilResumed
  <1>2. TaskInv /\ HoldInv /\ [AssistantNext]_assistantVars => HoldInv'  BY HoldNext
  <1>3. HoldInv => HandoffHolds  BY DEF HoldInv, HandoffHolds
  <1>4. QED  BY <1>1, <1>2, <1>3, TaskCorrect, PTL DEF AssistantSpec

(***************************************************************************)
(* A silent assistant is explained.                                        *)
(***************************************************************************)

\* A hand-off that has switched the assistant off goes on to its message and
\* its row, or dies.
ExplainInv ==
  /\ \A i \in audits : intent[i] = "handoff" /\ shown[i] # "none"
  /\ \A i \in Inbound : task[i] = "log" => shown[i] # "none"
  /\ quiet /\ Unedited =>
       \E i \in Inbound : /\ intent[i] = "handoff"
                          /\ i \in audits \/ task[i] \in {"create", "log", "dead"}

LEMMA ExplainNext ==
  ASSUME TaskInv, ExplainInv, [AssistantNext]_assistantVars
  PROVE  ExplainInv'
  <1> USE DEF ExplainInv, TaskInv, AssistantTypeOK, Step, Decide, Working
  <1>0. Unedited' => Unedited  BY UneditedBefore
  <1>1. ASSUME NEW i \in Inbound, Arrive(i) PROVE ExplainInv'
    BY <1>0, <1>1 DEF Arrive
  <1>2. ASSUME NEW i \in Inbound, StaySilent(i) PROVE ExplainInv'
    BY <1>0, <1>2 DEF StaySilent, Take
  <1>3. ASSUME NEW i \in Inbound, WantHuman(i) PROVE ExplainInv'
    BY <1>0, <1>3 DEF WantHuman, Take
  <1>4. ASSUME NEW i \in Inbound, Attempt(i) PROVE ExplainInv'
    BY <1>0, <1>4 DEF Attempt, Take
  <1>5. ASSUME NEW i \in Inbound, CheckUsage(i) PROVE ExplainInv'
    BY <1>0, <1>5 DEF CheckUsage
  <1>6. ASSUME NEW i \in Inbound, CallProvider(i) PROVE ExplainInv'
    BY <1>0, <1>6 DEF CallProvider
  <1>7. ASSUME NEW i \in Inbound, SwitchOff(i) PROVE ExplainInv'
    BY <1>0, <1>7 DEF SwitchOff
  <1>8. ASSUME NEW i \in Inbound, CreateReply(i) PROVE ExplainInv'
    BY <1>0, <1>8 DEF CreateReply, Post
  <1>9. ASSUME NEW i \in Inbound, LogHandoff(i) PROVE ExplainInv'
    BY <1>0, <1>9 DEF LogHandoff
  <1>10. ASSUME NEW i \in Inbound, Die(i) PROVE ExplainInv'
    BY <1>0, <1>10 DEF Die
  <1>11. ASSUME NEW i \in Inbound, SaveSent(i) PROVE ExplainInv'
    BY <1>0, <1>11 DEF SaveSent
  <1>12. ASSUME NEW e \in Editors, SaveEdit(e) PROVE ExplainInv'
    BY <1>12 DEF SaveEdit, Unedited
  <1>13. CASE UNCHANGED <<quiet, audits, intent, shown, task>>  BY <1>0, <1>13
  <1>14. QED
    BY <1>1, <1>2, <1>3, <1>4, <1>5, <1>6, <1>7, <1>8, <1>9, <1>10, <1>11,
       <1>12, <1>13
    DEF AssistantNext, Generate, SendOut, assistantVars,
        LoadEdit, CallMeta, DieSending

\* Until a PATCH is saved, an assistant that was switched off was so by a
\* hand-off that has told the customer and left its row, is about to, or died.
THEOREM Explained == AssistantSpec => []HandoffExplained
  <1>1. AssistantInit => ExplainInv  BY DEF AssistantInit, ExplainInv
  <1>2. TaskInv /\ ExplainInv /\ [AssistantNext]_assistantVars => ExplainInv'  BY ExplainNext
  <1>3. ExplainInv => HandoffExplained  BY DEF ExplainInv, HandoffExplained
  <1>4. QED  BY <1>1, <1>2, <1>3, TaskCorrect, PTL DEF AssistantSpec

(***************************************************************************)
(* Staff are shown what has become of a message.                           *)
(***************************************************************************)

\* A message is stored once, sent once it is stored, and taken while it is sent.
SentInv ==
  \A i \in Inbound :
    /\ task[i] \in {"none", "queued", "limit", "call", "switch", "create"}
         => shown[i] = "none"
    /\ shown[i] = "none" => send[i] = "none"
    /\ send[i] \in {"none", "queued", "skipped"} => i \notin taken
    /\ send[i] = "took" => i \in taken
    /\ shown[i] = "sent" => i \in taken
    /\ i \in taken /\ shown[i] = "pending" => send[i] \in {"took", "refused", "dead"}

LEMMA SentNext == ASSUME TaskInv, SentInv, [AssistantNext]_assistantVars PROVE SentInv'
  <1> USE DEF SentInv, TaskInv, AssistantTypeOK, Step, Decide, Working, Sending
  <1>1. ASSUME NEW i \in Inbound, Arrive(i) PROVE SentInv'  BY <1>1 DEF Arrive
  <1>2. ASSUME NEW i \in Inbound,
               StaySilent(i) \/ WantHuman(i) \/ Attempt(i)
        PROVE  SentInv'
    BY <1>2 DEF StaySilent, WantHuman, Attempt, Take
  <1>3. ASSUME NEW i \in Inbound, CheckUsage(i) PROVE SentInv'
    BY <1>3 DEF CheckUsage
  <1>4. ASSUME NEW i \in Inbound, CallProvider(i) PROVE SentInv'
    BY <1>4 DEF CallProvider
  <1>5. ASSUME NEW i \in Inbound, SwitchOff(i) PROVE SentInv'
    BY <1>5 DEF SwitchOff
  <1>6. ASSUME NEW i \in Inbound, CreateReply(i) PROVE SentInv'
    BY <1>6 DEF CreateReply, Post
  <1>7. ASSUME NEW i \in Inbound, LogHandoff(i) PROVE SentInv'
    BY <1>7 DEF LogHandoff
  <1>8. ASSUME NEW i \in Inbound, Die(i) PROVE SentInv'  BY <1>8 DEF Die
  <1>9. ASSUME NEW i \in Inbound, CallMeta(i) PROVE SentInv'
    BY <1>9 DEF CallMeta
  <1>10. ASSUME NEW i \in Inbound, SaveSent(i) PROVE SentInv'
    BY <1>10 DEF SaveSent
  <1>11. ASSUME NEW i \in Inbound, DieSending(i) PROVE SentInv'
    BY <1>11 DEF DieSending
  <1>12. CASE UNCHANGED <<task, shown, send, taken>>  BY <1>12
  <1>13. QED
    BY <1>1, <1>2, <1>3, <1>4, <1>5, <1>6, <1>7, <1>8, <1>9, <1>10, <1>11,
       <1>12
    DEF AssistantNext, Generate, SendOut, assistantVars,
        LoadEdit, SaveEdit

\* "Sent" is shown only for messages that Meta has taken, and those it has taken
\* do not stay pending unless their worker died.
THEOREM Honest == AssistantSpec => []ShownHonestly
  <1>1. AssistantInit => SentInv  BY DEF AssistantInit, SentInv
  <1>2. TaskInv /\ SentInv /\ [AssistantNext]_assistantVars => SentInv'  BY SentNext
  <1>3. SentInv => ShownHonestly  BY DEF SentInv, ShownHonestly
  <1>4. QED  BY <1>1, <1>2, <1>3, TaskCorrect, PTL DEF AssistantSpec

(***************************************************************************)
(* The usage limit is exceeded by less than the number of workers.         *)
(***************************************************************************)

\* A worker runs one task at a time.
SlotInv == Cardinality(Tasks) + Cardinality(Sends) <= Concurrency

\* The sets whose elements are counted are finite.
LEMMA Finite ==
  /\ IsFiniteSet(Tasks) /\ IsFiniteSet(Sends) /\ IsFiniteSet(Calls)
  /\ Cardinality(Tasks) \in Nat /\ Cardinality(Sends) \in Nat
  /\ Cardinality(Calls) \in Nat
  <1>1. IsFiniteSet(Tasks)
    BY AssistantAssumption, FS_Subset, Tasks \subseteq Inbound DEF Tasks
  <1>2. IsFiniteSet(Sends)
    BY AssistantAssumption, FS_Subset, Sends \subseteq Inbound DEF Sends
  <1>3. IsFiniteSet(Calls)
    BY AssistantAssumption, FS_Subset, Calls \subseteq Inbound DEF Calls
  <1>4. QED  BY <1>1, <1>2, <1>3, FS_CardinalityType

\* Adding one element to a finite set adds one at most to its size, and a
\* subset is not larger.
LEMMA Larger ==
  ASSUME NEW S, NEW T, NEW x, IsFiniteSet(S), T \subseteq S \cup {x}
  PROVE  Cardinality(T) \in Nat /\ Cardinality(T) <= Cardinality(S) + 1
  <1>1. IsFiniteSet(S \cup {x}) /\ Cardinality(S \cup {x}) <= Cardinality(S) + 1
    <2>1. /\ IsFiniteSet(S \cup {x})
          /\ Cardinality(S \cup {x}) =
               IF x \in S THEN Cardinality(S) ELSE Cardinality(S) + 1
      BY FS_AddElement
    <2>2. Cardinality(S) \in Nat  BY FS_CardinalityType
    <2>3. QED  BY <2>1, <2>2
  <1>2. IsFiniteSet(T) /\ Cardinality(T) <= Cardinality(S \cup {x})
    BY <1>1, FS_Subset
  <1>3. QED  BY <1>1, <1>2, FS_CardinalityType

LEMMA SlotNext == ASSUME TaskInv, SlotInv, [AssistantNext]_assistantVars PROVE SlotInv'
  <1> USE DEF TaskInv, AssistantTypeOK, Working, Sending, Step
  <1>1. ASSUME Tasks' \subseteq Tasks, Sends' \subseteq Sends PROVE SlotInv'
    <2>1. /\ Cardinality(Tasks') \in Nat /\ Cardinality(Tasks') <= Cardinality(Tasks)
          /\ Cardinality(Sends') \in Nat /\ Cardinality(Sends') <= Cardinality(Sends)
      BY <1>1, Finite, FS_Subset, FS_CardinalityType
    <2>2. QED  BY <2>1, Finite, AssistantAssumption DEF SlotInv
  <1>2. ASSUME NEW i \in Inbound, FreeWorker, Tasks' \subseteq Tasks \cup {i},
               Sends' = Sends
        PROVE  SlotInv'
    <2>1. Cardinality(Tasks') \in Nat /\ Cardinality(Tasks') <= Cardinality(Tasks) + 1
      BY <1>2, Larger, Finite
    <2>2. Cardinality(Sends') = Cardinality(Sends)  BY <1>2
    <2>3. Cardinality(Tasks) + Cardinality(Sends) < Concurrency
      BY <1>2 DEF FreeWorker
    <2>4. QED  BY <2>1, <2>2, <2>3, Finite, AssistantAssumption DEF SlotInv
  <1>3. ASSUME NEW i \in Inbound, FreeWorker, Sends' \subseteq Sends \cup {i},
               Tasks' = Tasks
        PROVE  SlotInv'
    <2>1. Cardinality(Sends') \in Nat /\ Cardinality(Sends') <= Cardinality(Sends) + 1
      BY <1>3, Larger, Finite
    <2>2. Cardinality(Tasks') = Cardinality(Tasks)  BY <1>3
    <2>3. Cardinality(Tasks) + Cardinality(Sends) < Concurrency
      BY <1>3 DEF FreeWorker
    <2>4. QED  BY <2>1, <2>2, <2>3, Finite, AssistantAssumption DEF SlotInv
  <1>4. ASSUME NEW i \in Inbound, StaySilent(i) \/ WantHuman(i) \/ Attempt(i)
        PROVE  SlotInv'
    <2>1. FreeWorker /\ send' = send /\ \E to : task' = [task EXCEPT ![i] = to]
      BY <1>4 DEF StaySilent, WantHuman, Attempt, Take
    <2>2. Tasks' \subseteq Tasks \cup {i} /\ Sends' = Sends
      BY <2>1 DEF Tasks, Sends
    <2>3. QED  BY <1>2, <2>1, <2>2
  <1>5. ASSUME NEW i \in Inbound, CallMeta(i) PROVE SlotInv'
    <2>1. /\ FreeWorker /\ task' = task
          /\ \A j \in Inbound \ {i} : send'[j] = send[j]
      BY <1>5 DEF CallMeta
    <2>2. Sends' \subseteq Sends \cup {i} /\ Tasks' = Tasks
      BY <2>1 DEF Tasks, Sends
    <2>3. QED  BY <1>3, <2>1, <2>2
  <1>6. ASSUME NEW i \in Inbound, Arrive(i) PROVE SlotInv'
    BY <1>1, <1>6 DEF Arrive, Tasks, Sends
  <1>7. ASSUME NEW i \in Inbound, CheckUsage(i) PROVE SlotInv'
    BY <1>1, <1>7 DEF CheckUsage, Tasks, Sends
  <1>8. ASSUME NEW i \in Inbound, CallProvider(i) PROVE SlotInv'
    BY <1>1, <1>8 DEF CallProvider, Tasks, Sends
  <1>9. ASSUME NEW i \in Inbound, SwitchOff(i) PROVE SlotInv'
    BY <1>1, <1>9 DEF SwitchOff, Tasks, Sends
  <1>10. ASSUME NEW i \in Inbound, CreateReply(i) PROVE SlotInv'
    BY <1>1, <1>10 DEF CreateReply, Post, Tasks, Sends
  <1>11. ASSUME NEW i \in Inbound, LogHandoff(i) PROVE SlotInv'
    BY <1>1, <1>11 DEF LogHandoff, Tasks, Sends
  <1>12. ASSUME NEW i \in Inbound, Die(i) \/ SaveSent(i) \/ DieSending(i)
         PROVE  SlotInv'
    BY <1>1, <1>12 DEF Die, SaveSent, DieSending, Tasks, Sends
  <1>13. CASE UNCHANGED <<task, send>>  BY <1>1, <1>13 DEF Tasks, Sends
  <1>14. QED
    BY <1>4, <1>5, <1>6, <1>7, <1>8, <1>9, <1>10, <1>11, <1>12, <1>13
    DEF AssistantNext, Generate, SendOut, assistantVars,
        LoadEdit, SaveEdit

\* A task that goes on to call the provider has found usage below the limit, and
\* those at the call are among the workers; a call is counted when it is made.
LEMMA LimitNext ==
  ASSUME TaskInv, WithinLimit, SlotInv', [AssistantNext]_assistantVars  PROVE WithinLimit'
  <1> USE DEF TaskInv, AssistantTypeOK, Working, Sending, Step
  <1>1. ASSUME Calls' \subseteq Calls, usage' = usage PROVE WithinLimit'
    <2>1. Cardinality(Calls') \in Nat /\ Cardinality(Calls') <= Cardinality(Calls)
      BY <1>1, Finite, FS_Subset, FS_CardinalityType
    <2>2. QED  BY <1>1, <2>1, Finite, AssistantAssumption DEF WithinLimit
  <1>2. ASSUME NEW i \in Inbound, CheckUsage(i) PROVE WithinLimit'
    <2>1. CASE OverLimit  BY <1>1, <1>2, <2>1 DEF CheckUsage, Calls
    <2>2. CASE ~OverLimit
      <3>1. TaskInv'  BY TaskNext
      <3>2. /\ IsFiniteSet(Tasks') /\ IsFiniteSet(Sends')
            /\ Calls' \subseteq Tasks'
        <4>1. Tasks' \subseteq Inbound /\ Sends' \subseteq Inbound
          BY DEF Tasks, Sends
        <4>2. Calls' \subseteq Tasks'  BY DEF Tasks, Calls
        <4>3. QED  BY <4>1, <4>2, AssistantAssumption, FS_Subset
      <3>3. /\ Cardinality(Tasks') \in Nat /\ Cardinality(Sends') \in Nat
            /\ Cardinality(Calls') \in Nat
            /\ Cardinality(Calls') <= Cardinality(Tasks')
        BY <3>2, FS_Subset, FS_CardinalityType
      <3>4. Cardinality(Calls') <= Concurrency
        BY <3>3, AssistantAssumption DEF SlotInv
      <3>5. usage' = usage /\ (Limit # 0 => usage < Limit)
        BY <1>2, <2>2, AssistantAssumption DEF CheckUsage, OverLimit
      <3>6. QED  BY <3>3, <3>4, <3>5, AssistantAssumption DEF WithinLimit
    <2>3. QED  BY <2>1, <2>2
  <1>3. ASSUME NEW i \in Inbound, CallProvider(i) PROVE WithinLimit'
    <2>1. Calls' = Calls \ {i} /\ i \in Calls /\ usage' = usage + 1
      BY <1>3 DEF CallProvider, Calls
    <2>2. Cardinality(Calls') = Cardinality(Calls) - 1
      BY <2>1, Finite, FS_RemoveElement
    <2>3. QED  BY <2>1, <2>2, Finite, AssistantAssumption DEF WithinLimit
  <1>4. ASSUME NEW i \in Inbound, StaySilent(i) \/ WantHuman(i) \/ Attempt(i)
        PROVE  WithinLimit'
    BY <1>1, <1>4 DEF StaySilent, WantHuman, Attempt, Take, Calls
  <1>5. ASSUME NEW i \in Inbound, Arrive(i) \/ SwitchOff(i) \/ CreateReply(i)
                                    \/ LogHandoff(i) \/ Die(i)
        PROVE  WithinLimit'
    BY <1>1, <1>5 DEF Arrive, SwitchOff, CreateReply, LogHandoff, Die, Calls
  <1>6. CASE UNCHANGED <<task, usage>>  BY <1>1, <1>6 DEF Calls
  <1>7. QED
    BY <1>2, <1>3, <1>4, <1>5, <1>6
    DEF AssistantNext, Generate, SendOut, assistantVars,
        CallMeta, SaveSent, DieSending, LoadEdit,
        SaveEdit

\* Overlapping tasks go over the limit together by less than the number of
\* worker processes.
THEOREM Limited == AssistantSpec => []WithinLimit
  <1>1. AssistantInit => SlotInv /\ WithinLimit
    <2> SUFFICES ASSUME AssistantInit PROVE SlotInv /\ WithinLimit  OBVIOUS
    <2>1. Tasks = {} /\ Sends = {} /\ Calls = {}
      BY DEF AssistantInit, Tasks, Sends, Calls, Working, Sending
    <2>2. QED
      BY <2>1, FS_EmptySet, AssistantAssumption DEF AssistantInit, SlotInv, WithinLimit
  <1>2. TaskInv /\ SlotInv /\ [AssistantNext]_assistantVars => SlotInv'  BY SlotNext
  <1>3. TaskInv /\ WithinLimit /\ SlotInv' /\ [AssistantNext]_assistantVars => WithinLimit'
    BY LimitNext
  <1>4. QED  BY <1>1, <1>2, <1>3, TaskCorrect, PTL DEF AssistantSpec
=============================================================================

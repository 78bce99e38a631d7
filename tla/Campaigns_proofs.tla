-------------------------- MODULE Campaigns_proofs --------------------------
(***************************************************************************)
(* Proofs about Campaigns, for any number of customers, presses, editors,  *)
(* crashes, and any concurrency of the workers.                            *)
(***************************************************************************)
EXTENDS Campaigns, FiniteSetTheorems, TLAPS

(***************************************************************************)
(* Type correctness.                                                       *)
(***************************************************************************)

\* TypeOK holds of the initial states.
LEMMA TypeInit == Init => TypeOK
  BY CampaignAssumption
  DEF Init, TypeOK, Status, RowStatus, Counts, NoCounts, PC, InView

\* Counting one more outcome in memory keeps a task's counters typed.
LEMMA TypeCount ==
  ASSUME NEW m \in [Presses -> Counts], NEW p \in Presses
  PROVE  /\ [m EXCEPT ![p].skipped_count = @ + 1] \in [Presses -> Counts]
         /\ [m EXCEPT ![p].sent_count = @ + 1] \in [Presses -> Counts]
         /\ [m EXCEPT ![p].failed_count = @ + 1] \in [Presses -> Counts]
  <1>1. m[p] \in Counts  OBVIOUS
  <1>2. /\ [m[p] EXCEPT !.skipped_count = @ + 1] \in Counts
        /\ [m[p] EXCEPT !.sent_count = @ + 1] \in Counts
        /\ [m[p] EXCEPT !.failed_count = @ + 1] \in Counts
    BY <1>1 DEF Counts
  <1>3. QED  BY <1>1, <1>2 DEF Counts

\* A step of the view keeps every variable in its type.
LEMMA TypeView == ASSUME NEW p \in Presses, TypeOK, View(p) PROVE TypeOK'
  <1> USE DEF TypeOK, Goto, campaign, history, PC, InView, Settled, Status
  <1>1. CASE Press(p)  BY <1>1 DEF Press
  <1>2. CASE CheckLimit(p)  BY <1>2 DEF CheckLimit
  <1>3. CASE MarkScheduled(p)  BY <1>3 DEF MarkScheduled
  <1>4. CASE Enqueue(p)  BY <1>4 DEF Enqueue
  <1>5. QED  BY <1>1, <1>2, <1>3, <1>4 DEF View

\* So does every step of a task up to its list of recipients.
LEMMA TypePrepare == ASSUME NEW p \in Presses, TypeOK, Prepare(p) PROVE TypeOK'
  <1> USE DEF TypeOK, Goto, campaign, history, PC, Running, Preparing,
              Delivering, Settled, Status, Counts, NoCounts, Drop
  <1>1. CASE StartTask(p)  BY <1>1 DEF StartTask
  <1>2. CASE MarkSending(p)  BY <1>2 DEF MarkSending
  <1>3. CASE FailGate(p)  BY <1>3 DEF FailGate
  <1>4. CASE ReadExisting(p)  BY <1>4 DEF ReadExisting, Existing
  <1>5. CASE ReadSegment(p)  BY <1>5 DEF ReadSegment
  <1>6. CASE CreateRecipients(p)
    BY <1>6 DEF CreateRecipients, RowStatus
  <1>7. CASE CreateConflict(p)  BY <1>7 DEF CreateConflict
  <1>8. CASE CountRecipients(p)
    <2>1. Existing \subseteq Customers  BY DEF Existing
    <2>2. Cardinality(Existing) \in Nat
      BY <2>1, CampaignAssumption, FS_Subset, FS_CardinalityType
    <2>3. QED  BY <1>8, <2>2 DEF CountRecipients
  <1>9. CASE SaveRecipientCount(p)  BY <1>9 DEF SaveRecipientCount
  <1>10. CASE ListPending(p)  BY <1>10 DEF ListPending, Pending
  <1>11. CASE FailEmpty(p)  BY <1>11 DEF FailEmpty
  <1>12. CASE MeterUsage(p)  BY <1>12 DEF MeterUsage
  <1>13. QED
    BY <1>1, <1>2, <1>3, <1>4, <1>5, <1>6, <1>7, <1>8, <1>9, <1>10, <1>11,
       <1>12 DEF Prepare

\* So does every step of a task while it messages its recipients.
LEMMA TypeDeliver == ASSUME NEW p \in Presses, TypeOK, Deliver(p) PROVE TypeOK'
  <1> USE DEF TypeOK, Goto, campaign, history, PC, Running, Delivering,
              Settled, Status, Counts, NoCounts, Drop
  <1>1. CASE \E c \in Customers : FetchCustomer(p, c)
    BY <1>1 DEF FetchCustomer
  <1>2. CASE SkipRecipient(p)
    <2>1. mem' \in [Presses -> Counts]
      <3>1. mem \in [Presses -> Counts]  BY DEF TypeOK
      <3>2. mem' = [mem EXCEPT ![p].skipped_count = @ + 1]
        BY <1>2 DEF SkipRecipient
      <3>3. QED  BY ONLY <3>1, <3>2, TypeCount
    <2>2. row' \in [Customers -> RowStatus]
      BY <1>2 DEF SkipRecipient, RowStatus, Decided
    <2>3. QED  BY <1>2, <2>1, <2>2 DEF SkipRecipient
  <1>3. CASE CallProvider(p)  BY <1>3 DEF CallProvider
  <1>4. CASE StoreMessage(p)  BY <1>4 DEF StoreMessage
  <1>5. CASE RecordOutcome(p)
    <2>1. mem' \in [Presses -> Counts]
      <3>1. mem \in [Presses -> Counts]  BY DEF TypeOK
      <3>2. \/ mem' = [mem EXCEPT ![p].sent_count = @ + 1]
            \/ mem' = [mem EXCEPT ![p].failed_count = @ + 1]
        BY <1>5 DEF RecordOutcome
      <3>3. /\ [mem EXCEPT ![p].sent_count = @ + 1] \in [Presses -> Counts]
            /\ [mem EXCEPT ![p].failed_count = @ + 1] \in [Presses -> Counts]
        BY ONLY <3>1, TypeCount
      <3>4. QED  BY ONLY <3>2, <3>3
    <2>2. row' \in [Customers -> RowStatus]
      BY <1>5 DEF RecordOutcome, RowStatus, Decided
    <2>3. QED  BY <1>5, <2>1, <2>2 DEF RecordOutcome
  <1>6. CASE FinishCampaign(p)  BY <1>6 DEF FinishCampaign
  <1>7. QED  BY <1>1, <1>2, <1>3, <1>4, <1>5, <1>6 DEF Deliver

\* Every step keeps every variable in its type.
LEMMA TypeNext == TypeOK /\ [Next]_vars => TypeOK'
  <1> SUFFICES ASSUME TypeOK, [Next]_vars PROVE TypeOK'
    OBVIOUS
  <1>1. ASSUME NEW p \in Presses, View(p) PROVE TypeOK'
    BY <1>1, TypeView
  <1>2. ASSUME NEW p \in Presses, Task(p) PROVE TypeOK'
    BY <1>2, TypePrepare, TypeDeliver DEF Task
  <1>3. ASSUME NEW p \in Presses, Die(p) PROVE TypeOK'
    BY <1>3 DEF TypeOK, Die, Drop, campaign, history, Counts, NoCounts, PC,
                Settled
  <1>4. ASSUME NEW e \in Editors, EditLoad(e) \/ EditSave(e) PROVE TypeOK'
    <2>1. CASE EditLoad(e)  BY <2>1 DEF TypeOK, EditLoad, campaign, history
    <2>2. CASE EditSave(e)  BY <2>2 DEF TypeOK, EditSave, campaign, history
    <2>3. QED  BY <1>4, <2>1, <2>2
  <1>5. ASSUME NEW c \in Customers, NEW consent \in BOOLEAN,
               SetConsent(c, consent)
        PROVE  TypeOK'
    BY <1>5 DEF TypeOK, SetConsent, campaign
  <1>6. CASE UNCHANGED vars
    BY <1>6 DEF TypeOK, vars, campaign, history
  <1>7. QED  BY <1>1, <1>2, <1>3, <1>4, <1>5, <1>6 DEF Next

\* Every variable keeps its type; in particular a task that skips, calls,
\* stores or records always has a recipient at hand.
THEOREM TypeCorrect == Spec => []TypeOK
  BY TypeInit, TypeNext, PTL DEF Spec

(***************************************************************************)
(* The inductive invariant.  Claim(p) is every customer the task of p has  *)
(* messaged or may still message; the part NoRepeat needs is that claims   *)
(* of two tasks meet only for the reasons NoRepeat names, and claims only  *)
(* grow when a task lists its recipients.                                  *)
(***************************************************************************)

BeforeList == InView \cup {"queued"} \cup Preparing
AtRecipient == {"skipping", "calling", "storing", "recording", "died"}

Claim(p) ==
  attempted[p] \cup {c \in batch[p] : pc[p] \in Delivering}
               \cup {c \in Customers : cur[p] = c}

\* Locals and history of a task agree with where it stands.
LocalInv ==
  \A p \in Presses :
    /\ pc[p] \in BeforeList => attempted[p] = {}
    /\ cur[p] # NoCustomer => pc[p] \in AtRecipient
    /\ pc[p] \in Delivering => /\ batch[p] \cap attempted[p] = {}
                               /\ cur[p] \notin batch[p]
    /\ pc[p] = "calling" => cur[p] \notin attempted[p]

\* A task that lists or has listed never meets a customer opted out since.
ConsentInv ==
  \A p \in Presses :
    /\ attempted[p] \cap outSince[p] = {}
    /\ pc[p] = "calling" => cur[p] \notin outSince[p]
    /\ \A c \in outSince[p] : ~optin[c]

\* A messaged customer is decided, except by a task cut off before saving it.
DecidedInv ==
  \A p \in Presses : \A c \in attempted[p] :
    \/ row[c] \in Decided
    \/ cur[p] = c /\ pc[p] \in {"storing", "recording", "died"}

ClaimInv ==
  \A s, t \in Presses : s # t =>
    \A c \in Claim(s) \cap Claim(t) :
      \/ s \in peers[t] \/ t \in peers[s]
      \/ LostRecord(s, c) \/ LostRecord(t, c)

\* A pending recipient is in the hands of a task, or of a task that died.
Carries(p, c) ==
  \/ pc[p] \in {"died", "counting", "snapshot", "listing"}
  \/ pc[p] \in Delivering /\ (c \in batch[p] \/ cur[p] = c)

CarriedInv ==
  \A c \in Customers : row[c] = "pending" => \E p \in Presses : Carries(p, c)

IInv == LocalInv /\ ConsentInv /\ DecidedInv /\ ClaimInv /\ CarriedInv

\* Locals and history keep agreeing with the task's place.
LEMMA LocalNext ==
  ASSUME TypeOK, LocalInv, [Next]_vars
  PROVE  LocalInv'
  <1> USE DEF LocalInv, Goto, Drop, campaign, history, TypeOK, BeforeList, AtRecipient, InView, Preparing, Delivering
  <1>1. ASSUME NEW p \in Presses, Press(p) PROVE LocalInv'
    BY <1>1 DEF Press
  <1>2. ASSUME NEW p \in Presses, CheckLimit(p) PROVE LocalInv'
    BY <1>2 DEF CheckLimit
  <1>3. ASSUME NEW p \in Presses, MarkScheduled(p) PROVE LocalInv'
    BY <1>3 DEF MarkScheduled
  <1>4. ASSUME NEW p \in Presses, Enqueue(p) PROVE LocalInv'
    BY <1>4 DEF Enqueue
  <1>5. ASSUME NEW p \in Presses, StartTask(p) PROVE LocalInv'
    BY <1>5 DEF StartTask
  <1>6. ASSUME NEW p \in Presses, MarkSending(p) PROVE LocalInv'
    BY <1>6 DEF MarkSending
  <1>7. ASSUME NEW p \in Presses, FailGate(p) PROVE LocalInv'
    BY <1>7 DEF FailGate
  <1>8. ASSUME NEW p \in Presses, ReadExisting(p) PROVE LocalInv'
    BY <1>8 DEF ReadExisting
  <1>9. ASSUME NEW p \in Presses, ReadSegment(p) PROVE LocalInv'
    BY <1>9 DEF ReadSegment
  <1>10. ASSUME NEW p \in Presses, CreateRecipients(p) PROVE LocalInv'
    BY <1>10 DEF CreateRecipients
  <1>11. ASSUME NEW p \in Presses, CreateConflict(p) PROVE LocalInv'
    BY <1>11 DEF CreateConflict
  <1>12. ASSUME NEW p \in Presses, CountRecipients(p) PROVE LocalInv'
    BY <1>12 DEF CountRecipients
  <1>13. ASSUME NEW p \in Presses, SaveRecipientCount(p) PROVE LocalInv'
    BY <1>13 DEF SaveRecipientCount
  <1>14. ASSUME NEW p \in Presses, ListPending(p) PROVE LocalInv'
    BY <1>14, CampaignAssumption DEF ListPending, Pending
  <1>15. ASSUME NEW p \in Presses, FailEmpty(p) PROVE LocalInv'
    BY <1>15 DEF FailEmpty
  <1>16. ASSUME NEW p \in Presses, MeterUsage(p) PROVE LocalInv'
    BY <1>16 DEF MeterUsage
  <1>17. ASSUME NEW p \in Presses, NEW c \in Customers,
               FetchCustomer(p, c) PROVE LocalInv'
    BY <1>17 DEF FetchCustomer
  <1>18. ASSUME NEW p \in Presses, SkipRecipient(p) PROVE LocalInv'
    BY <1>18, CampaignAssumption DEF SkipRecipient
  <1>19. ASSUME NEW p \in Presses, CallProvider(p) PROVE LocalInv'
    BY <1>19 DEF CallProvider
  <1>20. ASSUME NEW p \in Presses, StoreMessage(p) PROVE LocalInv'
    BY <1>20 DEF StoreMessage
  <1>21. ASSUME NEW p \in Presses, RecordOutcome(p) PROVE LocalInv'
    BY <1>21, CampaignAssumption DEF RecordOutcome
  <1>22. ASSUME NEW p \in Presses, FinishCampaign(p) PROVE LocalInv'
    BY <1>22 DEF FinishCampaign
  <1>23. ASSUME NEW p \in Presses, Die(p) PROVE LocalInv'
    BY <1>23 DEF Die
  <1>24. ASSUME NEW e \in Editors, EditLoad(e) PROVE LocalInv'
    BY <1>24 DEF EditLoad
  <1>25. ASSUME NEW e \in Editors, EditSave(e) PROVE LocalInv'
    BY <1>25 DEF EditSave
  <1>26. ASSUME NEW c \in Customers, NEW consent \in BOOLEAN,
               SetConsent(c, consent) PROVE LocalInv'
    BY <1>26 DEF SetConsent
  <1>27. CASE UNCHANGED vars
    BY <1>27 DEF vars
  <1>28. QED  BY <1>1, <1>2, <1>3, <1>4, <1>5, <1>6, <1>7, <1>8, <1>9,
     <1>10, <1>11, <1>12, <1>13, <1>14, <1>15, <1>16, <1>17, <1>18, <1>19,
     <1>20, <1>21, <1>22, <1>23, <1>24, <1>25, <1>26, <1>27 DEF Next,
     View, Task, Prepare, Deliver

\* A recipient fetched opted in has been opted in since the listing.
LEMMA ConsentNext ==
  ASSUME TypeOK, LocalInv, ConsentInv, [Next]_vars
  PROVE  ConsentInv'
  <1> USE DEF ConsentInv, Goto, Drop, campaign, history, TypeOK
  <1>1. ASSUME NEW p \in Presses, Press(p) PROVE ConsentInv'
    BY <1>1 DEF Press
  <1>2. ASSUME NEW p \in Presses, CheckLimit(p) PROVE ConsentInv'
    BY <1>2 DEF CheckLimit
  <1>3. ASSUME NEW p \in Presses, MarkScheduled(p) PROVE ConsentInv'
    BY <1>3 DEF MarkScheduled
  <1>4. ASSUME NEW p \in Presses, Enqueue(p) PROVE ConsentInv'
    BY <1>4 DEF Enqueue
  <1>5. ASSUME NEW p \in Presses, StartTask(p) PROVE ConsentInv'
    BY <1>5 DEF StartTask
  <1>6. ASSUME NEW p \in Presses, MarkSending(p) PROVE ConsentInv'
    BY <1>6 DEF MarkSending
  <1>7. ASSUME NEW p \in Presses, FailGate(p) PROVE ConsentInv'
    BY <1>7 DEF FailGate
  <1>8. ASSUME NEW p \in Presses, ReadExisting(p) PROVE ConsentInv'
    BY <1>8 DEF ReadExisting
  <1>9. ASSUME NEW p \in Presses, ReadSegment(p) PROVE ConsentInv'
    BY <1>9 DEF ReadSegment
  <1>10. ASSUME NEW p \in Presses, CreateRecipients(p) PROVE ConsentInv'
    BY <1>10 DEF CreateRecipients
  <1>11. ASSUME NEW p \in Presses, CreateConflict(p) PROVE ConsentInv'
    BY <1>11 DEF CreateConflict
  <1>12. ASSUME NEW p \in Presses, CountRecipients(p) PROVE ConsentInv'
    BY <1>12 DEF CountRecipients
  <1>13. ASSUME NEW p \in Presses, SaveRecipientCount(p) PROVE ConsentInv'
    BY <1>13 DEF SaveRecipientCount
  <1>14. ASSUME NEW p \in Presses, ListPending(p) PROVE ConsentInv'
    BY <1>14 DEF ListPending, LocalInv, BeforeList, Preparing
  <1>15. ASSUME NEW p \in Presses, FailEmpty(p) PROVE ConsentInv'
    BY <1>15 DEF FailEmpty
  <1>16. ASSUME NEW p \in Presses, MeterUsage(p) PROVE ConsentInv'
    BY <1>16 DEF MeterUsage
  <1>17. ASSUME NEW p \in Presses, NEW c \in Customers,
               FetchCustomer(p, c) PROVE ConsentInv'
    BY <1>17 DEF FetchCustomer
  <1>18. ASSUME NEW p \in Presses, SkipRecipient(p) PROVE ConsentInv'
    BY <1>18 DEF SkipRecipient
  <1>19. ASSUME NEW p \in Presses, CallProvider(p) PROVE ConsentInv'
    BY <1>19 DEF CallProvider
  <1>20. ASSUME NEW p \in Presses, StoreMessage(p) PROVE ConsentInv'
    BY <1>20 DEF StoreMessage
  <1>21. ASSUME NEW p \in Presses, RecordOutcome(p) PROVE ConsentInv'
    BY <1>21 DEF RecordOutcome
  <1>22. ASSUME NEW p \in Presses, FinishCampaign(p) PROVE ConsentInv'
    BY <1>22 DEF FinishCampaign
  <1>23. ASSUME NEW p \in Presses, Die(p) PROVE ConsentInv'
    BY <1>23 DEF Die
  <1>24. ASSUME NEW e \in Editors, EditLoad(e) PROVE ConsentInv'
    BY <1>24 DEF EditLoad
  <1>25. ASSUME NEW e \in Editors, EditSave(e) PROVE ConsentInv'
    BY <1>25 DEF EditSave
  <1>26. ASSUME NEW c \in Customers, NEW consent \in BOOLEAN,
               SetConsent(c, consent) PROVE ConsentInv'
    BY <1>26 DEF SetConsent
  <1>27. CASE UNCHANGED vars
    BY <1>27 DEF vars
  <1>28. QED  BY <1>1, <1>2, <1>3, <1>4, <1>5, <1>6, <1>7, <1>8, <1>9,
     <1>10, <1>11, <1>12, <1>13, <1>14, <1>15, <1>16, <1>17, <1>18, <1>19,
     <1>20, <1>21, <1>22, <1>23, <1>24, <1>25, <1>26, <1>27 DEF Next,
     View, Task, Prepare, Deliver

\* What is decided stays decided: only "none" rows become pending.
LEMMA DecidedNext ==
  ASSUME TypeOK, LocalInv, DecidedInv, [Next]_vars
  PROVE  DecidedInv'
  <1> USE DEF DecidedInv, Goto, Drop, campaign, history, TypeOK
  <1>1. ASSUME NEW p \in Presses, Press(p) PROVE DecidedInv'
    BY <1>1 DEF Press
  <1>2. ASSUME NEW p \in Presses, CheckLimit(p) PROVE DecidedInv'
    BY <1>2 DEF CheckLimit
  <1>3. ASSUME NEW p \in Presses, MarkScheduled(p) PROVE DecidedInv'
    BY <1>3 DEF MarkScheduled
  <1>4. ASSUME NEW p \in Presses, Enqueue(p) PROVE DecidedInv'
    BY <1>4 DEF Enqueue
  <1>5. ASSUME NEW p \in Presses, StartTask(p) PROVE DecidedInv'
    BY <1>5 DEF StartTask
  <1>6. ASSUME NEW p \in Presses, MarkSending(p) PROVE DecidedInv'
    BY <1>6 DEF MarkSending
  <1>7. ASSUME NEW p \in Presses, FailGate(p) PROVE DecidedInv'
    BY <1>7 DEF FailGate
  <1>8. ASSUME NEW p \in Presses, ReadExisting(p) PROVE DecidedInv'
    BY <1>8 DEF ReadExisting
  <1>9. ASSUME NEW p \in Presses, ReadSegment(p) PROVE DecidedInv'
    BY <1>9 DEF ReadSegment
  <1>10. ASSUME NEW p \in Presses, CreateRecipients(p) PROVE DecidedInv'
    BY <1>10 DEF CreateRecipients, Existing, Decided
  <1>11. ASSUME NEW p \in Presses, CreateConflict(p) PROVE DecidedInv'
    BY <1>11 DEF CreateConflict
  <1>12. ASSUME NEW p \in Presses, CountRecipients(p) PROVE DecidedInv'
    BY <1>12 DEF CountRecipients
  <1>13. ASSUME NEW p \in Presses, SaveRecipientCount(p) PROVE DecidedInv'
    BY <1>13 DEF SaveRecipientCount
  <1>14. ASSUME NEW p \in Presses, ListPending(p) PROVE DecidedInv'
    BY <1>14 DEF ListPending
  <1>15. ASSUME NEW p \in Presses, FailEmpty(p) PROVE DecidedInv'
    BY <1>15 DEF FailEmpty
  <1>16. ASSUME NEW p \in Presses, MeterUsage(p) PROVE DecidedInv'
    BY <1>16 DEF MeterUsage
  <1>17. ASSUME NEW p \in Presses, NEW c \in Customers,
               FetchCustomer(p, c) PROVE DecidedInv'
    BY <1>17 DEF FetchCustomer, LocalInv, AtRecipient
  <1>18. ASSUME NEW p \in Presses, SkipRecipient(p) PROVE DecidedInv'
    BY <1>18 DEF SkipRecipient, Decided
  <1>19. ASSUME NEW p \in Presses, CallProvider(p) PROVE DecidedInv'
    BY <1>19 DEF CallProvider
  <1>20. ASSUME NEW p \in Presses, StoreMessage(p) PROVE DecidedInv'
    BY <1>20 DEF StoreMessage
  <1>21. ASSUME NEW p \in Presses, RecordOutcome(p) PROVE DecidedInv'
    BY <1>21 DEF RecordOutcome, Decided
  <1>22. ASSUME NEW p \in Presses, FinishCampaign(p) PROVE DecidedInv'
    BY <1>22 DEF FinishCampaign
  <1>23. ASSUME NEW p \in Presses, Die(p) PROVE DecidedInv'
    BY <1>23 DEF Die, LocalInv, AtRecipient, Running, Preparing, Delivering
  <1>24. ASSUME NEW e \in Editors, EditLoad(e) PROVE DecidedInv'
    BY <1>24 DEF EditLoad
  <1>25. ASSUME NEW e \in Editors, EditSave(e) PROVE DecidedInv'
    BY <1>25 DEF EditSave
  <1>26. ASSUME NEW c \in Customers, NEW consent \in BOOLEAN,
               SetConsent(c, consent) PROVE DecidedInv'
    BY <1>26 DEF SetConsent
  <1>27. CASE UNCHANGED vars
    BY <1>27 DEF vars
  <1>28. QED  BY <1>1, <1>2, <1>3, <1>4, <1>5, <1>6, <1>7, <1>8, <1>9,
     <1>10, <1>11, <1>12, <1>13, <1>14, <1>15, <1>16, <1>17, <1>18, <1>19,
     <1>20, <1>21, <1>22, <1>23, <1>24, <1>25, <1>26, <1>27 DEF Next,
     View, Task, Prepare, Deliver

\* A pending recipient passes from the task that created it to a list.
LEMMA CarriedNext ==
  ASSUME TypeOK, LocalInv, CarriedInv, [Next]_vars
  PROVE  CarriedInv'
  <1> USE DEF CarriedInv, Carries, Goto, Drop, campaign, history, TypeOK, Delivering
  <1>1. ASSUME NEW p \in Presses, Press(p) PROVE CarriedInv'
    BY <1>1 DEF Press
  <1>2. ASSUME NEW p \in Presses, CheckLimit(p) PROVE CarriedInv'
    BY <1>2 DEF CheckLimit
  <1>3. ASSUME NEW p \in Presses, MarkScheduled(p) PROVE CarriedInv'
    BY <1>3 DEF MarkScheduled
  <1>4. ASSUME NEW p \in Presses, Enqueue(p) PROVE CarriedInv'
    BY <1>4 DEF Enqueue
  <1>5. ASSUME NEW p \in Presses, StartTask(p) PROVE CarriedInv'
    BY <1>5 DEF StartTask
  <1>6. ASSUME NEW p \in Presses, MarkSending(p) PROVE CarriedInv'
    BY <1>6 DEF MarkSending
  <1>7. ASSUME NEW p \in Presses, FailGate(p) PROVE CarriedInv'
    BY <1>7 DEF FailGate
  <1>8. ASSUME NEW p \in Presses, ReadExisting(p) PROVE CarriedInv'
    BY <1>8 DEF ReadExisting
  <1>9. ASSUME NEW p \in Presses, ReadSegment(p) PROVE CarriedInv'
    BY <1>9 DEF ReadSegment
  <1>10. ASSUME NEW p \in Presses, CreateRecipients(p) PROVE CarriedInv'
    BY <1>10 DEF CreateRecipients, Existing
  <1>11. ASSUME NEW p \in Presses, CreateConflict(p) PROVE CarriedInv'
    BY <1>11 DEF CreateConflict
  <1>12. ASSUME NEW p \in Presses, CountRecipients(p) PROVE CarriedInv'
    BY <1>12 DEF CountRecipients
  <1>13. ASSUME NEW p \in Presses, SaveRecipientCount(p) PROVE CarriedInv'
    BY <1>13 DEF SaveRecipientCount
  <1>14. ASSUME NEW p \in Presses, ListPending(p) PROVE CarriedInv'
    BY <1>14 DEF ListPending, Pending
  <1>15. ASSUME NEW p \in Presses, FailEmpty(p) PROVE CarriedInv'
    BY <1>15 DEF FailEmpty, LocalInv
  <1>16. ASSUME NEW p \in Presses, MeterUsage(p) PROVE CarriedInv'
    BY <1>16 DEF MeterUsage, Running
  <1>17. ASSUME NEW p \in Presses, NEW c \in Customers,
               FetchCustomer(p, c) PROVE CarriedInv'
    BY <1>17, CampaignAssumption DEF FetchCustomer, LocalInv, AtRecipient
  <1>18. ASSUME NEW p \in Presses, SkipRecipient(p) PROVE CarriedInv'
    BY <1>18 DEF SkipRecipient
  <1>19. ASSUME NEW p \in Presses, CallProvider(p) PROVE CarriedInv'
    BY <1>19 DEF CallProvider
  <1>20. ASSUME NEW p \in Presses, StoreMessage(p) PROVE CarriedInv'
    BY <1>20 DEF StoreMessage
  <1>21. ASSUME NEW p \in Presses, RecordOutcome(p) PROVE CarriedInv'
    BY <1>21 DEF RecordOutcome
  <1>22. ASSUME NEW p \in Presses, FinishCampaign(p) PROVE CarriedInv'
    BY <1>22, CampaignAssumption DEF FinishCampaign, LocalInv, AtRecipient
  <1>23. ASSUME NEW p \in Presses, Die(p) PROVE CarriedInv'
    BY <1>23 DEF Die
  <1>24. ASSUME NEW e \in Editors, EditLoad(e) PROVE CarriedInv'
    BY <1>24 DEF EditLoad
  <1>25. ASSUME NEW e \in Editors, EditSave(e) PROVE CarriedInv'
    BY <1>25 DEF EditSave
  <1>26. ASSUME NEW c \in Customers, NEW consent \in BOOLEAN,
               SetConsent(c, consent) PROVE CarriedInv'
    BY <1>26 DEF SetConsent
  <1>27. CASE UNCHANGED vars
    BY <1>27 DEF vars
  <1>28. QED  BY <1>1, <1>2, <1>3, <1>4, <1>5, <1>6, <1>7, <1>8, <1>9,
     <1>10, <1>11, <1>12, <1>13, <1>14, <1>15, <1>16, <1>17, <1>18, <1>19,
     <1>20, <1>21, <1>22, <1>23, <1>24, <1>25, <1>26, <1>27 DEF Next,
     View, Task, Prepare, Deliver

\* A step that gives no task a new claim and forgets no excuse.
Shrinks ==
  \A q \in Presses :
    /\ Claim(q)' \subseteq Claim(q)
    /\ peers'[q] = peers[q]
    /\ \A c \in Customers : LostRecord(q, c) => LostRecord(q, c)'

Listing == \E p \in Presses : ListPending(p)

\* Only the listing of recipients makes a claim.
LEMMA ShrinkOrList ==
  ASSUME TypeOK, LocalInv, [Next]_vars
  PROVE  Shrinks \/ Listing
  <1> USE DEF Shrinks, Claim, LostRecord, Goto, Drop, campaign, history, TypeOK, Delivering
  <1>1. ASSUME NEW p \in Presses, Press(p) PROVE Shrinks \/ Listing
    BY <1>1 DEF Press
  <1>2. ASSUME NEW p \in Presses, CheckLimit(p) PROVE Shrinks \/ Listing
    BY <1>2 DEF CheckLimit
  <1>3. ASSUME NEW p \in Presses, MarkScheduled(p) PROVE Shrinks \/ Listing
    BY <1>3 DEF MarkScheduled
  <1>4. ASSUME NEW p \in Presses, Enqueue(p) PROVE Shrinks \/ Listing
    BY <1>4 DEF Enqueue
  <1>5. ASSUME NEW p \in Presses, StartTask(p) PROVE Shrinks \/ Listing
    BY <1>5 DEF StartTask
  <1>6. ASSUME NEW p \in Presses, MarkSending(p) PROVE Shrinks \/ Listing
    BY <1>6 DEF MarkSending
  <1>7. ASSUME NEW p \in Presses, FailGate(p) PROVE Shrinks \/ Listing
    BY <1>7 DEF FailGate
  <1>8. ASSUME NEW p \in Presses, ReadExisting(p) PROVE Shrinks \/ Listing
    BY <1>8 DEF ReadExisting
  <1>9. ASSUME NEW p \in Presses, ReadSegment(p) PROVE Shrinks \/ Listing
    BY <1>9 DEF ReadSegment
  <1>10. ASSUME NEW p \in Presses, CreateRecipients(p) PROVE Shrinks \/ Listing
    BY <1>10 DEF CreateRecipients
  <1>11. ASSUME NEW p \in Presses, CreateConflict(p) PROVE Shrinks \/ Listing
    BY <1>11 DEF CreateConflict
  <1>12. ASSUME NEW p \in Presses, CountRecipients(p) PROVE Shrinks \/ Listing
    BY <1>12 DEF CountRecipients
  <1>13. ASSUME NEW p \in Presses, SaveRecipientCount(p) PROVE Shrinks \/ Listing
    BY <1>13 DEF SaveRecipientCount
  <1>14. ASSUME NEW p \in Presses, ListPending(p) PROVE Shrinks \/ Listing
    BY <1>14 DEF ListPending, Listing
  <1>15. ASSUME NEW p \in Presses, FailEmpty(p) PROVE Shrinks \/ Listing
    BY <1>15 DEF FailEmpty
  <1>16. ASSUME NEW p \in Presses, MeterUsage(p) PROVE Shrinks \/ Listing
    BY <1>16 DEF MeterUsage
  <1>17. ASSUME NEW p \in Presses, NEW c \in Customers,
               FetchCustomer(p, c) PROVE Shrinks \/ Listing
    BY <1>17 DEF FetchCustomer
  <1>18. ASSUME NEW p \in Presses, SkipRecipient(p) PROVE Shrinks \/ Listing
    BY <1>18, CampaignAssumption DEF SkipRecipient
  <1>19. ASSUME NEW p \in Presses, CallProvider(p) PROVE Shrinks \/ Listing
    BY <1>19 DEF CallProvider
  <1>20. ASSUME NEW p \in Presses, StoreMessage(p) PROVE Shrinks \/ Listing
    BY <1>20 DEF StoreMessage
  <1>21. ASSUME NEW p \in Presses, RecordOutcome(p) PROVE Shrinks \/ Listing
    BY <1>21, CampaignAssumption DEF RecordOutcome
  <1>22. ASSUME NEW p \in Presses, FinishCampaign(p) PROVE Shrinks \/ Listing
    BY <1>22 DEF FinishCampaign
  <1>23. ASSUME NEW p \in Presses, Die(p) PROVE Shrinks \/ Listing
    BY <1>23 DEF Die, Running
  <1>24. ASSUME NEW e \in Editors, EditLoad(e) PROVE Shrinks \/ Listing
    BY <1>24 DEF EditLoad
  <1>25. ASSUME NEW e \in Editors, EditSave(e) PROVE Shrinks \/ Listing
    BY <1>25 DEF EditSave
  <1>26. ASSUME NEW c \in Customers, NEW consent \in BOOLEAN,
               SetConsent(c, consent) PROVE Shrinks \/ Listing
    BY <1>26 DEF SetConsent
  <1>27. CASE UNCHANGED vars
    BY <1>27 DEF vars
  <1>28. QED  BY <1>1, <1>2, <1>3, <1>4, <1>5, <1>6, <1>7, <1>8, <1>9,
     <1>10, <1>11, <1>12, <1>13, <1>14, <1>15, <1>16, <1>17, <1>18, <1>19,
     <1>20, <1>21, <1>22, <1>23, <1>24, <1>25, <1>26, <1>27 DEF Next,
     View, Task, Prepare, Deliver

\* A step that lists nobody keeps the claims of tasks on their customers apart.
LEMMA ClaimShrink ==
  ASSUME TypeOK, ClaimInv, Shrinks
  PROVE  ClaimInv'
  <1> SUFFICES ASSUME NEW s \in Presses, NEW t \in Presses, s # t,
                      NEW c, c \in Claim(s)', c \in Claim(t)'
               PROVE  (\/ s \in peers[t] \/ t \in peers[s]
                       \/ LostRecord(s, c) \/ LostRecord(t, c))'
    BY DEF ClaimInv
  <1>1. c \in Claim(s) /\ c \in Claim(t)  BY DEF Shrinks
  <1>2. c \in Customers  BY <1>1 DEF Claim, TypeOK
  <1>3. \/ s \in peers[t] \/ t \in peers[s]
        \/ LostRecord(s, c) \/ LostRecord(t, c)
    BY <1>1 DEF ClaimInv
  <1>4. QED  BY <1>2, <1>3 DEF Shrinks

\* A task lists only pending recipients; another task with a claim on one of
\* them is still at work (and becomes a peer) or has died holding it, because
\* a customer it has messaged and let go is decided.
LEMMA ClaimList ==
  ASSUME TypeOK, LocalInv, DecidedInv, ClaimInv,
         NEW p \in Presses, ListPending(p)
  PROVE  ClaimInv'
  <1> USE DEF TypeOK
  <1>1. Claim(p)' \subseteq Pending
    BY CampaignAssumption
    DEF ListPending, Goto, Claim, LocalInv, BeforeList, Preparing, AtRecipient,
        Pending
  <1>2. ASSUME NEW q \in Presses, q # p
        PROVE  /\ Claim(q)' = Claim(q)
               /\ peers'[q] = peers[q]
               /\ \A c \in Customers : LostRecord(q, c)' = LostRecord(q, c)
    BY <1>2 DEF ListPending, Goto, Claim, LostRecord
  <1>3. ASSUME NEW q \in Presses, q # p, NEW c \in Claim(q), c \in Pending
        PROVE  pc[q] \in Delivering \/ LostRecord(q, c)
    <2>1. CASE c \in batch[q] /\ pc[q] \in Delivering  BY <2>1
    <2>2. CASE c \in Customers /\ cur[q] = c
      BY <2>2, CampaignAssumption
      DEF LocalInv, AtRecipient, Delivering, LostRecord
    <2>3. CASE c \in attempted[q]
      <3>1. row[c] \notin Decided  BY <1>3 DEF Pending, Decided
      <3>2. QED  BY <2>3, <3>1 DEF DecidedInv, Delivering, LostRecord
    <2>4. QED  BY <1>3, <2>1, <2>2, <2>3 DEF Claim
  <1>4. peers'[p] = {q \in Presses \ {p} : pc[q] \in Delivering}
    BY DEF ListPending
  <1>5. ASSUME NEW q \in Presses, q # p, NEW c \in Claim(q), c \in Claim(p)'
        PROVE  (q \in peers[p] \/ LostRecord(q, c))'
    <2>1. c \in Pending /\ c \in Customers  BY <1>1, <1>5 DEF Pending
    <2>2. pc[q] \in Delivering \/ LostRecord(q, c)  BY <1>3, <1>5, <2>1
    <2>3. QED  BY <1>2, <1>4, <1>5, <2>1, <2>2
  <1>6. SUFFICES ASSUME NEW s \in Presses, NEW t \in Presses, s # t,
                        NEW c, c \in Claim(s)', c \in Claim(t)'
                 PROVE  (\/ s \in peers[t] \/ t \in peers[s]
                         \/ LostRecord(s, c) \/ LostRecord(t, c))'
    BY DEF ClaimInv
  <1>7. CASE s = p  BY <1>2, <1>5, <1>6, <1>7
  <1>8. CASE t = p  BY <1>2, <1>5, <1>6, <1>8
  <1>9. CASE s # p /\ t # p
    <2>1. c \in Claim(s) /\ c \in Claim(t)  BY <1>2, <1>6, <1>9
    <2>2. c \in Customers  BY <2>1 DEF Claim
    <2>3. \/ s \in peers[t] \/ t \in peers[s]
          \/ LostRecord(s, c) \/ LostRecord(t, c)
      BY <1>6, <2>1 DEF ClaimInv
    <2>4. QED  BY <1>2, <1>9, <2>2, <2>3
  <1>10. QED  BY <1>7, <1>8, <1>9

\* Every step keeps them apart, listing or not.
LEMMA ClaimNext ==
  ASSUME TypeOK, LocalInv, DecidedInv, ClaimInv, [Next]_vars
  PROVE  ClaimInv'
  BY ShrinkOrList, ClaimShrink, ClaimList DEF Listing

\* The inductive invariant holds of the initial states.
LEMMA IInvInit == Init => IInv
  BY CampaignAssumption
  DEF Init, IInv, LocalInv, ConsentInv, DecidedInv, ClaimInv, CarriedInv, Claim,
      BeforeList, InView, AtRecipient, Delivering

\* It is an invariant of the specification.
LEMMA IInvCorrect == Spec => []IInv
  <1>1. IInv /\ TypeOK /\ [Next]_vars => IInv'
    BY LocalNext, ConsentNext, DecidedNext, ClaimNext, CarriedNext DEF IInv
  <1>2. QED  BY IInvInit, <1>1, TypeCorrect, PTL DEF Spec

(***************************************************************************)
(* The theorems.                                                           *)
(***************************************************************************)

\* No task messages a customer who has been opted out since it listed its
\* recipients, whatever the other tasks, editors and crashes do.
THEOREM Consent == Spec => []OptOutRespected
  <1>1. IInv => OptOutRespected  BY DEF IInv, ConsentInv, OptOutRespected
  <1>2. QED  BY IInvCorrect, <1>1, PTL

\* A customer is messaged twice only by tasks that overlap or by one that
\* resumes after a worker died between the message and its record.
THEOREM AtMostOnce == Spec => []NoRepeat
  <1>1. IInv /\ TypeOK => NoRepeat
    BY DEF IInv, LocalInv, ClaimInv, Claim, NoRepeat, TypeOK
  <1>2. QED  BY IInvCorrect, TypeCorrect, <1>1, PTL

\* When no task is at work and no worker has died, no recipient is pending.
THEOREM EveryoneHandled == Spec => []NoneLeftBehind
  <1>1. IInv => NoneLeftBehind
    BY DEF IInv, CarriedInv, Carries, NoneLeftBehind, Pending, Running,
           Preparing, Delivering
  <1>2. QED  BY IInvCorrect, <1>1, PTL

(***************************************************************************)
(* The recipient list is backed by what the tasks did.                     *)
(***************************************************************************)

BackedInv ==
  /\ \A c \in Customers :
       /\ row[c] \in {"sent", "failed"} => \E p \in Presses : c \in stored[p]
       /\ row[c] = "sent" => \E p \in Presses : c \in accepted[p] \cap stored[p]
  /\ \A p \in Presses :
       /\ pc[p] = "recording" => cur[p] \in stored[p]
       /\ pc[p] \in {"storing", "recording"} /\ result[p] => cur[p] \in accepted[p]

\* The outcome is recorded after the message is stored.
LEMMA BackedNext ==
  ASSUME TypeOK, BackedInv, [Next]_vars
  PROVE  BackedInv'
  <1> USE DEF BackedInv, Goto, Drop, campaign, history, TypeOK
  <1>1. ASSUME NEW p \in Presses, Press(p) PROVE BackedInv'
    BY <1>1 DEF Press
  <1>2. ASSUME NEW p \in Presses, CheckLimit(p) PROVE BackedInv'
    BY <1>2 DEF CheckLimit
  <1>3. ASSUME NEW p \in Presses, MarkScheduled(p) PROVE BackedInv'
    BY <1>3 DEF MarkScheduled
  <1>4. ASSUME NEW p \in Presses, Enqueue(p) PROVE BackedInv'
    BY <1>4 DEF Enqueue
  <1>5. ASSUME NEW p \in Presses, StartTask(p) PROVE BackedInv'
    BY <1>5 DEF StartTask
  <1>6. ASSUME NEW p \in Presses, MarkSending(p) PROVE BackedInv'
    BY <1>6 DEF MarkSending
  <1>7. ASSUME NEW p \in Presses, FailGate(p) PROVE BackedInv'
    BY <1>7 DEF FailGate
  <1>8. ASSUME NEW p \in Presses, ReadExisting(p) PROVE BackedInv'
    BY <1>8 DEF ReadExisting
  <1>9. ASSUME NEW p \in Presses, ReadSegment(p) PROVE BackedInv'
    BY <1>9 DEF ReadSegment
  <1>10. ASSUME NEW p \in Presses, CreateRecipients(p) PROVE BackedInv'
    BY <1>10 DEF CreateRecipients
  <1>11. ASSUME NEW p \in Presses, CreateConflict(p) PROVE BackedInv'
    BY <1>11 DEF CreateConflict
  <1>12. ASSUME NEW p \in Presses, CountRecipients(p) PROVE BackedInv'
    BY <1>12 DEF CountRecipients
  <1>13. ASSUME NEW p \in Presses, SaveRecipientCount(p) PROVE BackedInv'
    BY <1>13 DEF SaveRecipientCount
  <1>14. ASSUME NEW p \in Presses, ListPending(p) PROVE BackedInv'
    BY <1>14 DEF ListPending
  <1>15. ASSUME NEW p \in Presses, FailEmpty(p) PROVE BackedInv'
    BY <1>15 DEF FailEmpty
  <1>16. ASSUME NEW p \in Presses, MeterUsage(p) PROVE BackedInv'
    BY <1>16 DEF MeterUsage
  <1>17. ASSUME NEW p \in Presses, NEW c \in Customers,
               FetchCustomer(p, c) PROVE BackedInv'
    BY <1>17 DEF FetchCustomer
  <1>18. ASSUME NEW p \in Presses, SkipRecipient(p) PROVE BackedInv'
    BY <1>18 DEF SkipRecipient
  <1>19. ASSUME NEW p \in Presses, CallProvider(p) PROVE BackedInv'
    BY <1>19 DEF CallProvider
  <1>20. ASSUME NEW p \in Presses, StoreMessage(p) PROVE BackedInv'
    BY <1>20 DEF StoreMessage
  <1>21. ASSUME NEW p \in Presses, RecordOutcome(p) PROVE BackedInv'
    BY <1>21 DEF RecordOutcome
  <1>22. ASSUME NEW p \in Presses, FinishCampaign(p) PROVE BackedInv'
    BY <1>22 DEF FinishCampaign
  <1>23. ASSUME NEW p \in Presses, Die(p) PROVE BackedInv'
    BY <1>23 DEF Die
  <1>24. ASSUME NEW e \in Editors, EditLoad(e) PROVE BackedInv'
    BY <1>24 DEF EditLoad
  <1>25. ASSUME NEW e \in Editors, EditSave(e) PROVE BackedInv'
    BY <1>25 DEF EditSave
  <1>26. ASSUME NEW c \in Customers, NEW consent \in BOOLEAN,
               SetConsent(c, consent) PROVE BackedInv'
    BY <1>26 DEF SetConsent
  <1>27. CASE UNCHANGED vars
    BY <1>27 DEF vars
  <1>28. QED  BY <1>1, <1>2, <1>3, <1>4, <1>5, <1>6, <1>7, <1>8, <1>9,
     <1>10, <1>11, <1>12, <1>13, <1>14, <1>15, <1>16, <1>17, <1>18, <1>19,
     <1>20, <1>21, <1>22, <1>23, <1>24, <1>25, <1>26, <1>27 DEF Next,
     View, Task, Prepare, Deliver

\* Recipients shown sent or failed have their message, those shown sent were
\* taken by the provider, and whoever was messaged is decided.
THEOREM Backed == Spec => []RowsBacked
  <1>1. Init => BackedInv  BY DEF Init, BackedInv
  <1>2. TypeOK /\ BackedInv /\ [Next]_vars => BackedInv'  BY BackedNext
  <1>3. BackedInv /\ IInv => RowsBacked
    BY DEF BackedInv, IInv, DecidedInv, RowsBacked
  <1>4. QED  BY <1>1, <1>2, <1>3, TypeCorrect, IInvCorrect, PTL DEF Spec

(***************************************************************************)
(* Until a PATCH is saved no campaign is left "sending" by tasks gone.     *)
(***************************************************************************)

\* A "sending" campaign has a task that will write its outcome: one past the
\* insertion of its recipients, or one whose insertion would not conflict.
Answers(p) ==
  \/ pc[p] \in {"died", "gating", "counting", "snapshot", "listing", "empty"}
                \cup Delivering
  \/ pc[p] = "segment" /\ batch[p] = Existing
  \/ pc[p] = "creating" /\ batch[p] \cap Existing = {}

AnswerInv == status = "sending" => \E p \in Presses : Answers(p)

\* A step that touches neither status nor rows nor the tasks that answer.
LEMMA AnswerKept ==
  ASSUME AnswerInv, status' = status, row' = row,
         \A q \in Presses : Answers(q) => /\ pc'[q] = pc[q]
                                         /\ batch'[q] = batch[q]
  PROVE  AnswerInv'
  <1>1. Existing' = Existing  BY DEF Existing
  <1>2. \A q \in Presses : Answers(q) => Answers(q)'  BY <1>1 DEF Answers
  <1>3. QED  BY <1>2 DEF AnswerInv

\* A task that conflicts leaves behind the one it conflicted with.
LEMMA AnswerNext ==
  ASSUME TypeOK, LocalInv, AnswerInv, Unpatched', [Next]_vars
  PROVE  AnswerInv'
  <1> USE DEF AnswerInv, Answers, Goto, Drop, campaign, history, TypeOK, Delivering
  <1>1. ASSUME NEW p \in Presses, Press(p) PROVE AnswerInv'
    <2>1. \A q \in Presses : Answers(q) => /\ pc'[q] = pc[q]
                                         /\ batch'[q] = batch[q]
      BY <1>1 DEF Press
    <2>2. QED  BY <1>1, <2>1, AnswerKept DEF Press
  <1>2. ASSUME NEW p \in Presses, CheckLimit(p) PROVE AnswerInv'
    <2>1. \A q \in Presses : Answers(q) => /\ pc'[q] = pc[q]
                                         /\ batch'[q] = batch[q]
      BY <1>2 DEF CheckLimit
    <2>2. QED  BY <1>2, <2>1, AnswerKept DEF CheckLimit
  <1>3. ASSUME NEW p \in Presses, MarkScheduled(p) PROVE AnswerInv'
    BY <1>3 DEF MarkScheduled
  <1>4. ASSUME NEW p \in Presses, Enqueue(p) PROVE AnswerInv'
    <2>1. \A q \in Presses : Answers(q) => /\ pc'[q] = pc[q]
                                         /\ batch'[q] = batch[q]
      BY <1>4 DEF Enqueue
    <2>2. QED  BY <1>4, <2>1, AnswerKept DEF Enqueue
  <1>5. ASSUME NEW p \in Presses, StartTask(p) PROVE AnswerInv'
    <2>1. \A q \in Presses : Answers(q) => /\ pc'[q] = pc[q]
                                         /\ batch'[q] = batch[q]
      BY <1>5 DEF StartTask
    <2>2. QED  BY <1>5, <2>1, AnswerKept DEF StartTask
  <1>6. ASSUME NEW p \in Presses, MarkSending(p) PROVE AnswerInv'
    BY <1>6 DEF MarkSending
  <1>7. ASSUME NEW p \in Presses, FailGate(p) PROVE AnswerInv'
    BY <1>7 DEF FailGate
  <1>8. ASSUME NEW p \in Presses, ReadExisting(p) PROVE AnswerInv'
    BY <1>8 DEF ReadExisting, Existing
  <1>9. ASSUME NEW p \in Presses, ReadSegment(p) PROVE AnswerInv'
    BY <1>9 DEF ReadSegment, Existing
  <1>10. ASSUME NEW p \in Presses, CreateRecipients(p) PROVE AnswerInv'
    BY <1>10 DEF CreateRecipients, Existing
  <1>11. ASSUME NEW p \in Presses, CreateConflict(p) PROVE AnswerInv'
    <2>1. \A q \in Presses : Answers(q) => /\ pc'[q] = pc[q]
                                         /\ batch'[q] = batch[q]
      BY <1>11 DEF CreateConflict
    <2>2. QED  BY <1>11, <2>1, AnswerKept DEF CreateConflict
  <1>12. ASSUME NEW p \in Presses, CountRecipients(p) PROVE AnswerInv'
    BY <1>12 DEF CountRecipients
  <1>13. ASSUME NEW p \in Presses, SaveRecipientCount(p) PROVE AnswerInv'
    BY <1>13 DEF SaveRecipientCount
  <1>14. ASSUME NEW p \in Presses, ListPending(p) PROVE AnswerInv'
    BY <1>14 DEF ListPending, Pending
  <1>15. ASSUME NEW p \in Presses, FailEmpty(p) PROVE AnswerInv'
    BY <1>15 DEF FailEmpty
  <1>16. ASSUME NEW p \in Presses, MeterUsage(p) PROVE AnswerInv'
    BY <1>16 DEF MeterUsage
  <1>17. ASSUME NEW p \in Presses, NEW c \in Customers,
               FetchCustomer(p, c) PROVE AnswerInv'
    BY <1>17 DEF FetchCustomer
  <1>18. ASSUME NEW p \in Presses, SkipRecipient(p) PROVE AnswerInv'
    BY <1>18 DEF SkipRecipient
  <1>19. ASSUME NEW p \in Presses, CallProvider(p) PROVE AnswerInv'
    BY <1>19 DEF CallProvider
  <1>20. ASSUME NEW p \in Presses, StoreMessage(p) PROVE AnswerInv'
    BY <1>20 DEF StoreMessage
  <1>21. ASSUME NEW p \in Presses, RecordOutcome(p) PROVE AnswerInv'
    BY <1>21 DEF RecordOutcome
  <1>22. ASSUME NEW p \in Presses, FinishCampaign(p) PROVE AnswerInv'
    BY <1>22 DEF FinishCampaign
  <1>23. ASSUME NEW p \in Presses, Die(p) PROVE AnswerInv'
    BY <1>23 DEF Die, Running, Preparing
  <1>24. ASSUME NEW e \in Editors, EditLoad(e) PROVE AnswerInv'
    BY <1>24, AnswerKept DEF EditLoad
  <1>25. ASSUME NEW e \in Editors, EditSave(e) PROVE AnswerInv'
    BY <1>25 DEF EditSave, Unpatched
  <1>26. ASSUME NEW c \in Customers, NEW consent \in BOOLEAN,
               SetConsent(c, consent) PROVE AnswerInv'
    <2>1. \A q \in Presses : Answers(q) => /\ pc'[q] = pc[q]
                                         /\ batch'[q] = batch[q]
      BY <1>26 DEF SetConsent
    <2>2. QED  BY <1>26, <2>1, AnswerKept DEF SetConsent
  <1>27. CASE UNCHANGED vars
    BY <1>27, AnswerKept DEF vars
  <1>28. QED  BY <1>1, <1>2, <1>3, <1>4, <1>5, <1>6, <1>7, <1>8, <1>9,
     <1>10, <1>11, <1>12, <1>13, <1>14, <1>15, <1>16, <1>17, <1>18, <1>19,
     <1>20, <1>21, <1>22, <1>23, <1>24, <1>25, <1>26, <1>27 DEF Next,
     View, Task, Prepare, Deliver

\* A PATCH that is saved stays so.
LEMMA UnpatchedBefore == ASSUME TypeOK, [Next]_vars, Unpatched' PROVE Unpatched
  <1>1. CASE UNCHANGED edit  BY <1>1 DEF Unpatched
  <1>2. ASSUME NEW e \in Editors, EditLoad(e) \/ EditSave(e) PROVE Unpatched
    BY <1>2 DEF Unpatched, EditLoad, EditSave, TypeOK
  <1>3. QED
    BY <1>1, <1>2
    DEF Next, View, Task, Prepare, Deliver, vars, history, Press, CheckLimit,
        MarkScheduled, Enqueue, StartTask, MarkSending, FailGate, ReadExisting,
        ReadSegment, CreateRecipients, CreateConflict, CountRecipients,
        SaveRecipientCount, ListPending, FailEmpty, MeterUsage, FetchCustomer,
        SkipRecipient, CallProvider, StoreMessage, RecordOutcome,
        FinishCampaign, Die, SetConsent

\* Until a PATCH is saved, a campaign whose tasks have all ended, none by the
\* death of its worker, is not "sending".
THEOREM Unstranded == Spec => []NeverStranded
  <1> DEFINE Kept == Unpatched => AnswerInv
  <1>1. Init => Kept  BY DEF Init, AnswerInv
  <1>2. TypeOK /\ IInv /\ Kept /\ [Next]_vars => Kept'
    <2> SUFFICES ASSUME TypeOK, IInv, Kept, [Next]_vars, Unpatched'
                 PROVE  AnswerInv'
      OBVIOUS
    <2>1. AnswerInv  BY UnpatchedBefore
    <2>2. QED  BY <2>1, AnswerNext DEF IInv
  <1>3. Kept => NeverStranded
    BY DEF AnswerInv, Answers, NeverStranded, Running, Preparing, Delivering
  <1> HIDE DEF Kept
  <1>4. QED  BY <1>1, <1>2, <1>3, TypeCorrect, IInvCorrect, PTL DEF Spec

(***************************************************************************)
(* One press of Send.  With a single press, and until a PATCH is saved,    *)
(* the place of its task says what status, rows and counters are, so the   *)
(* counters of a sent campaign are those of its recipients and every step  *)
(* is one of CampaignPromise.                                              *)
(***************************************************************************)

Opening == InView \cup {"rejected", "unqueued", "queued", "started"}
Shown(s) == {c \in Customers : row[c] = s}

\* The status and the rows of the campaign, by where its only task stands.
Placed(p) ==
  /\ pc[p] # "conflict"
  /\ pc[p] \in Opening => status \in Sendable /\ counts = NoCounts
  /\ pc[p] \in Running \ {"started"} => status = "sending"
  /\ pc[p] = "failed" => status = "failed"
  /\ pc[p] = "died" => status \in Sendable \cup {"sending"}
  /\ pc[p] = "sent" => status = "sent"
  /\ pc[p] \in Opening \cup {"gating", "segment", "creating", "empty", "failed"}
       => Existing = {}
  /\ pc[p] \in {"counting", "snapshot", "listing"} => Existing = Pending
  /\ pc[p] \in Delivering =>
       /\ Pending = batch[p] \cup {c \in Customers : cur[p] = c}
       /\ Existing # {}
  /\ pc[p] = "sent" => Pending = {} /\ Existing # {}

\* The three outcome counters of k are those of the rows.
Tallied(k) ==
  /\ k.sent_count = Cardinality(Shown("sent"))
  /\ k.failed_count = Cardinality(Shown("failed"))
  /\ k.skipped_count = Cardinality(Shown("skipped"))

\* In memory the outcomes are counted all along, in the row at the end; the
\* number of recipients is known from the count on.
Counted(p) ==
  /\ pc[p] \in Running => Tallied(mem[p])
  /\ pc[p] = "sent" => Tallied(counts)
  /\ pc[p] = "snapshot" => mem[p].recipient_count = Cardinality(Existing)
  /\ pc[p] \in {"listing", "empty", "sent"} \cup Delivering
       => counts.recipient_count = Cardinality(Existing)

\* Where the rows stay, so does what they show.
LEMMA RowsKept ==
  ASSUME row' = row
  PROVE  /\ Existing' = Existing /\ Pending' = Pending
         /\ \A s : Shown(s)' = Shown(s)
  BY DEF Existing, Pending, Shown

\* The outcome of one pending recipient moves it to those shown with it.
LEMMA RowDecided ==
  ASSUME TypeOK, NEW c \in Customers, row[c] = "pending", NEW d \in Decided,
         row' = [row EXCEPT ![c] = d]
  PROVE  /\ Existing' = Existing /\ Pending' = Pending \ {c}
         /\ Shown(d)' = Shown(d) \cup {c} /\ c \notin Shown(d)
         /\ \A s \in Decided \ {d} : Shown(s)' = Shown(s)
  BY DEF TypeOK, Existing, Pending, Shown, Decided

\* A task between two recipients has none at hand.
LEMMA Unheld ==
  ASSUME TypeOK, LocalInv, NEW p \in Presses, pc[p] \in {"listing", "sending"}
  PROVE  {c \in Customers : cur[p] = c} = {}
  BY CampaignAssumption DEF LocalInv, AtRecipient

\* With one press, status and rows stay what its place says.
LEMMA PlacedNext ==
  ASSUME NEW p \in Presses, Presses = {p}, TypeOK, LocalInv, Placed(p),
         Unpatched', [Next]_vars
  PROVE  Placed(p)'
  <1> USE RowsKept
      DEF Placed, Goto, Drop, campaign, history, Opening, InView, Preparing,
          Delivering, Running, Sendable
  <1>0. /\ pc \in [Presses -> PC] /\ cur \in [Presses -> Customers \cup {NoCustomer}]
        /\ batch \in [Presses -> SUBSET Customers]
    BY DEF TypeOK
  <1>1. CASE Press(p)  BY <1>1, <1>0 DEF Press
  <1>2. CASE CheckLimit(p)  BY <1>2, <1>0 DEF CheckLimit
  <1>3. CASE MarkScheduled(p)  BY <1>3, <1>0 DEF MarkScheduled
  <1>4. CASE Enqueue(p)  BY <1>4, <1>0 DEF Enqueue
  <1>5. CASE StartTask(p)  BY <1>5, <1>0 DEF StartTask
  <1>6. CASE MarkSending(p)  BY <1>6, <1>0 DEF MarkSending
  <1>7. CASE FailGate(p)  BY <1>7, <1>0 DEF FailGate
  <1>8. CASE ReadExisting(p)  BY <1>8, <1>0 DEF ReadExisting
  <1>9. CASE ReadSegment(p)  BY <1>9, <1>0 DEF ReadSegment
  <1>10. CASE CreateRecipients(p)
    <2>1. batch[p] \subseteq Customers  BY <1>0
    <2>2. Existing' = Pending'
      BY <1>10, <2>1 DEF CreateRecipients, Pending, Existing
    <2>3. QED  BY <1>10, <1>0, <2>2 DEF CreateRecipients
  <1>11. CASE CreateConflict(p)  BY <1>11, <1>0 DEF CreateConflict
  <1>12. CASE CountRecipients(p)  BY <1>12, <1>0 DEF CountRecipients
  <1>13. CASE SaveRecipientCount(p)  BY <1>13, <1>0 DEF SaveRecipientCount
  <1>14. CASE ListPending(p)
    <2>1. {c \in Customers : cur'[p] = c} = {}
      BY <1>14, Unheld DEF ListPending
    <2>2. QED  BY <1>14, <1>0, <2>1 DEF ListPending
  <1>15. CASE FailEmpty(p)  BY <1>15, <1>0 DEF FailEmpty
  <1>16. CASE MeterUsage(p)  BY <1>16, <1>0 DEF MeterUsage
  <1>17. ASSUME NEW c \in Customers, FetchCustomer(p, c) PROVE Placed(p)'
    <2>1. {d \in Customers : cur[p] = d} = {}
      BY <1>17, Unheld DEF FetchCustomer
    <2>2. {d \in Customers : cur'[p] = d} = {c}
      BY <1>17, <1>0 DEF FetchCustomer
    <2>3. Pending' = batch'[p] \cup {c}
      BY <1>17, <1>0, <2>1 DEF FetchCustomer
    <2>4. QED  BY <1>17, <1>0, <2>2, <2>3 DEF FetchCustomer
  <1>18. CASE SkipRecipient(p)
    <2>1. cur[p] \in Customers /\ cur[p] \notin batch[p]
      BY <1>18 DEF SkipRecipient, TypeOK, LocalInv
    <2>2. Pending = batch[p] \cup {cur[p]} /\ row[cur[p]] = "pending"
      BY <1>18, <2>1 DEF SkipRecipient, Pending
    <2>3. Existing' = Existing /\ Pending' = batch[p]
      <3>1. \E d \in Decided : row' = [row EXCEPT ![cur[p]] = d]
        BY <1>18 DEF SkipRecipient, Decided
      <3>2. Existing' = Existing /\ Pending' = Pending \ {cur[p]}
        BY <2>1, <2>2, <3>1, RowDecided
      <3>3. QED  BY <2>1, <2>2, <3>2
    <2>4. {d \in Customers : cur'[p] = d} = {}
      BY <1>18, <1>0, CampaignAssumption DEF SkipRecipient
    <2>5. QED  BY <1>18, <1>0, <2>3, <2>4 DEF SkipRecipient
  <1>19. CASE CallProvider(p)  BY <1>19, <1>0 DEF CallProvider
  <1>20. CASE StoreMessage(p)  BY <1>20, <1>0 DEF StoreMessage
  <1>21. CASE RecordOutcome(p)
    <2>1. cur[p] \in Customers /\ cur[p] \notin batch[p]
      BY <1>21 DEF RecordOutcome, TypeOK, LocalInv
    <2>2. Pending = batch[p] \cup {cur[p]} /\ row[cur[p]] = "pending"
      BY <1>21, <2>1 DEF RecordOutcome, Pending
    <2>3. Existing' = Existing /\ Pending' = batch[p]
      <3>1. \E d \in Decided : row' = [row EXCEPT ![cur[p]] = d]
        BY <1>21 DEF RecordOutcome, Decided
      <3>2. Existing' = Existing /\ Pending' = Pending \ {cur[p]}
        BY <2>1, <2>2, <3>1, RowDecided
      <3>3. QED  BY <2>1, <2>2, <3>2
    <2>4. {d \in Customers : cur'[p] = d} = {}
      BY <1>21, <1>0, CampaignAssumption DEF RecordOutcome
    <2>5. QED  BY <1>21, <1>0, <2>3, <2>4 DEF RecordOutcome
  <1>22. CASE FinishCampaign(p)
    <2>1. Pending = {}  BY <1>22, Unheld DEF FinishCampaign
    <2>2. QED  BY <1>22, <1>0, <2>1 DEF FinishCampaign
  <1>23. CASE Die(p)  BY <1>23, <1>0 DEF Die
  <1>24. ASSUME NEW e \in Editors, EditLoad(e) PROVE Placed(p)'
    BY <1>24, <1>0 DEF EditLoad
  <1>25. ASSUME NEW c \in Customers, NEW consent \in BOOLEAN,
               SetConsent(c, consent) PROVE Placed(p)'
    BY <1>25, <1>0 DEF SetConsent
  <1>26. CASE UNCHANGED vars  BY <1>26, <1>0 DEF vars
  <1>27. ASSUME NEW e \in Editors, EditSave(e) PROVE FALSE
    BY <1>27 DEF EditSave, Unpatched, TypeOK
  <1>28. QED
    BY <1>1, <1>2, <1>3, <1>4, <1>5, <1>6, <1>7, <1>8, <1>9, <1>10, <1>11,
       <1>12, <1>13, <1>14, <1>15, <1>16, <1>17, <1>18, <1>19, <1>20,
       <1>21, <1>22, <1>23, <1>24, <1>25, <1>26, <1>27
    DEF Next, View, Task, Prepare, Deliver

\* Rows are finite, and no row is decided before one is enlisted and taken up.
LEMMA ShownFinite ==
  ASSUME NEW s
  PROVE  IsFiniteSet(Shown(s)) /\ Cardinality(Shown(s)) \in Nat
  BY FS_Subset, FS_CardinalityType, CampaignAssumption DEF Shown

LEMMA NoneShown ==
  ASSUME Existing = Pending, NEW d \in Decided
  PROVE  Cardinality(Shown(d)) = 0
  <1>1. Shown(d) = {}  BY DEF Shown, Existing, Pending, Decided
  <1>2. QED  BY <1>1, FS_EmptySet

\* With one press, its counters stay those of the rows.
LEMMA CountedNext ==
  ASSUME NEW p \in Presses, Presses = {p}, TypeOK, LocalInv, Placed(p),
         Counted(p), Unpatched', [Next]_vars
  PROVE  Counted(p)'
  <1> USE RowsKept
      DEF Counted, Tallied, Goto, Drop, campaign, history, Opening, InView,
          Preparing, Delivering, Running
  <1>0. /\ pc \in [Presses -> PC] /\ mem \in [Presses -> Counts]
        /\ counts \in Counts
    BY DEF TypeOK
  <1>1. CASE Press(p)  BY <1>1, <1>0 DEF Press
  <1>2. CASE CheckLimit(p)  BY <1>2, <1>0 DEF CheckLimit
  <1>3. CASE MarkScheduled(p)  BY <1>3, <1>0 DEF MarkScheduled
  <1>4. CASE Enqueue(p)  BY <1>4, <1>0 DEF Enqueue
  <1>5. CASE StartTask(p)
    <2>1. Existing = {} /\ counts = NoCounts
      BY <1>5 DEF StartTask, Placed
    <2>2. Pending = {}  BY <2>1 DEF Existing, Pending
    <2>3. Tallied(NoCounts)
      BY <2>1, <2>2, NoneShown DEF NoCounts, Decided
    <2>4. QED  BY <1>5, <1>0, <2>1, <2>3 DEF StartTask
  <1>6. CASE MarkSending(p)  BY <1>6, <1>0 DEF MarkSending
  <1>7. CASE FailGate(p)  BY <1>7, <1>0 DEF FailGate
  <1>8. CASE ReadExisting(p)  BY <1>8, <1>0 DEF ReadExisting
  <1>9. CASE ReadSegment(p)  BY <1>9, <1>0 DEF ReadSegment
  <1>10. CASE CreateRecipients(p)
    <2>1. Existing = {} /\ batch[p] \subseteq Customers
      BY <1>10 DEF CreateRecipients, Placed, TypeOK
    <2>2. Existing' = Pending'
      BY <1>10, <2>1 DEF CreateRecipients, Pending, Existing
    <2>3. \A d \in Decided : Shown(d)' = Shown(d)
      BY <1>10, <2>1 DEF CreateRecipients, Shown, Decided, Existing
    <2>4. QED  BY <1>10, <1>0, <2>3 DEF CreateRecipients, Decided
  <1>11. CASE CreateConflict(p)  BY <1>11, <1>0 DEF CreateConflict
  <1>12. CASE CountRecipients(p)  BY <1>12, <1>0 DEF CountRecipients
  <1>13. CASE SaveRecipientCount(p)  BY <1>13, <1>0 DEF SaveRecipientCount
  <1>14. CASE ListPending(p)  BY <1>14, <1>0 DEF ListPending
  <1>15. CASE FailEmpty(p)  BY <1>15, <1>0 DEF FailEmpty
  <1>16. CASE MeterUsage(p)  BY <1>16, <1>0 DEF MeterUsage
  <1>17. ASSUME NEW c \in Customers, FetchCustomer(p, c) PROVE Counted(p)'
    BY <1>17, <1>0 DEF FetchCustomer
  <1>18. CASE SkipRecipient(p)
    <2>1. cur[p] \in Customers /\ row[cur[p]] = "pending"
      BY <1>18 DEF SkipRecipient, TypeOK, Placed, Pending
    <2>2. /\ Existing' = Existing
          /\ Shown("skipped")' = Shown("skipped") \cup {cur[p]}
          /\ cur[p] \notin Shown("skipped")
          /\ \A s \in {"sent", "failed"} : Shown(s)' = Shown(s)
      BY <1>18, <2>1, RowDecided DEF SkipRecipient, Decided
    <2>3. Cardinality(Shown("skipped")') = Cardinality(Shown("skipped")) + 1
      BY <2>2, ShownFinite, FS_AddElement
    <2>4. QED  BY <1>18, <1>0, <2>2, <2>3 DEF SkipRecipient, Counts
  <1>19. CASE CallProvider(p)  BY <1>19, <1>0 DEF CallProvider
  <1>20. CASE StoreMessage(p)  BY <1>20, <1>0 DEF StoreMessage
  <1>21. CASE RecordOutcome(p)
    <2>1. cur[p] \in Customers /\ row[cur[p]] = "pending"
      BY <1>21 DEF RecordOutcome, TypeOK, Placed, Pending
    <2>2. PICK d \in Decided :
            /\ d = IF result[p] THEN "sent" ELSE "failed"
            /\ row' = [row EXCEPT ![cur[p]] = d]
      BY <1>21 DEF RecordOutcome, Decided
    <2>3. /\ Existing' = Existing
          /\ Shown(d)' = Shown(d) \cup {cur[p]}
          /\ cur[p] \notin Shown(d)
          /\ \A s \in Decided \ {d} : Shown(s)' = Shown(s)
      BY ONLY TypeOK, <2>1, <2>2, RowDecided
    <2>4. Cardinality(Shown(d)') = Cardinality(Shown(d)) + 1
      BY <2>3, ShownFinite, FS_AddElement, ZenonT(30)
    <2>5. CASE result[p]
      <3>1. d = "sent"  BY <2>2, <2>5
      <3>2. mem'[p] = [mem[p] EXCEPT !.sent_count = @ + 1]
        BY <1>21, <1>0, <2>5 DEF RecordOutcome
      <3>3. /\ Shown("failed")' = Shown("failed") /\ Shown("skipped")' = Shown("skipped")
            /\ Cardinality(Shown("sent")') = Cardinality(Shown("sent")) + 1
        BY <2>3, <2>4, <3>1 DEF Decided
      <3>4. Tallied(mem[p])  BY <1>21 DEF RecordOutcome
      <3>5. Tallied(mem[p])'  BY <1>0, <3>2, <3>3, <3>4 DEF Counts
      <3>6. QED  BY <1>21, <1>0, <2>3, <3>5 DEF RecordOutcome
    <2>6. CASE ~result[p]
      <3>1. d = "failed"  BY <2>2, <2>6
      <3>2. mem'[p] = [mem[p] EXCEPT !.failed_count = @ + 1]
        BY <1>21, <1>0, <2>6 DEF RecordOutcome
      <3>3. /\ Shown("sent")' = Shown("sent") /\ Shown("skipped")' = Shown("skipped")
            /\ Cardinality(Shown("failed")') = Cardinality(Shown("failed")) + 1
        BY <2>3, <2>4, <3>1 DEF Decided
      <3>4. Tallied(mem[p])  BY <1>21 DEF RecordOutcome
      <3>5. Tallied(mem[p])'  BY <1>0, <3>2, <3>3, <3>4 DEF Counts
      <3>6. QED  BY <1>21, <1>0, <2>3, <3>5 DEF RecordOutcome
    <2>7. QED  BY <2>5, <2>6
  <1>22. CASE FinishCampaign(p)  BY <1>22, <1>0 DEF FinishCampaign
  <1>23. CASE Die(p)  BY <1>23, <1>0 DEF Die
  <1>24. ASSUME NEW e \in Editors, EditLoad(e) PROVE Counted(p)'
    BY <1>24, <1>0 DEF EditLoad
  <1>25. ASSUME NEW c \in Customers, NEW consent \in BOOLEAN,
               SetConsent(c, consent) PROVE Counted(p)'
    BY <1>25, <1>0 DEF SetConsent
  <1>26. CASE UNCHANGED vars  BY <1>26, <1>0 DEF vars
  <1>27. ASSUME NEW e \in Editors, EditSave(e) PROVE FALSE
    BY <1>27 DEF EditSave, Unpatched, TypeOK
  <1>28. QED
    BY <1>1, <1>2, <1>3, <1>4, <1>5, <1>6, <1>7, <1>8, <1>9, <1>10, <1>11,
       <1>12, <1>13, <1>14, <1>15, <1>16, <1>17, <1>18, <1>19, <1>20,
       <1>21, <1>22, <1>23, <1>24, <1>25, <1>26, <1>27
    DEF Next, View, Task, Prepare, Deliver

\* Both hold as long as no PATCH is saved.
LEMMA OnePress ==
  ASSUME NEW p, Presses = {p}
  PROVE  Spec => [](Unpatched => Placed(p) /\ Counted(p))
  <1> DEFINE One == Unpatched => Placed(p) /\ Counted(p)
  <1>0. p \in Presses  OBVIOUS
  <1>1. Init => One
    <2> SUFFICES ASSUME Init PROVE Placed(p) /\ Counted(p)  OBVIOUS
    <2>1. pc[p] = "idle" /\ Existing = {}  BY <1>0 DEF Init, Existing
    <2>2. QED
      BY <2>1
      DEF Init, Placed, Counted, Opening, InView, Running, Preparing,
          Delivering, Sendable
  <1>2. TypeOK /\ IInv /\ One /\ [Next]_vars => One'
    <2> SUFFICES ASSUME TypeOK, IInv, One, [Next]_vars, Unpatched'
                 PROVE  (Placed(p) /\ Counted(p))'
      OBVIOUS
    <2>1. Placed(p) /\ Counted(p)  BY UnpatchedBefore
    <2>2. QED  BY <1>0, <2>1, PlacedNext, CountedNext DEF IInv
  <1> HIDE DEF One
  <1>3. QED
    <2>1. Spec => []One  BY <1>1, <1>2, TypeCorrect, IInvCorrect, PTL DEF Spec
    <2>2. QED  BY <2>1 DEF One

\* Of one press: once the campaign is sent, and until a PATCH is saved over
\* it, its four counters are those of its recipient list.
THEOREM CountsMatch ==
  ASSUME NEW p, Presses = {p}
  PROVE  Spec => [](Unpatched => CountsMatchRows)
  <1>0. p \in Presses  OBVIOUS
  <1>1. TypeOK /\ Placed(p) /\ Counted(p) => CountsMatchRows
    <2> SUFFICES ASSUME TypeOK, Placed(p), Counted(p), status = "sent"
                 PROVE  CountsMatchRows
      BY DEF CountsMatchRows
    <2>1. pc[p] = "sent"
      <3>1. pc[p] \in PC  BY <1>0 DEF TypeOK
      <3>2. QED
        BY <3>1 DEF Placed, PC, Opening, Settled, Running, Sendable
    <2>2. \A d \in Decided : Shown(d) = {c \in Customers : row[c] \in {d}}
      BY DEF Shown
    <2>3. Existing = {c \in Customers : row[c] \in Decided}
      BY <2>1 DEF Placed, Existing, Pending, TypeOK, RowStatus, Decided
    <2>4. QED
      BY <2>1, <2>2, <2>3 DEF Counted, Tallied, CountsMatchRows, Decided
  <1>2. QED  BY OnePress, <1>1, TypeCorrect, PTL

\* Every step of a campaign with one press is a step of its promise.
LEMMA PromiseNext ==
  ASSUME NEW p \in Presses, Presses = {p}, TypeOK, LocalInv, Placed(p),
         Unpatched', [Next]_vars
  PROVE  Promise!Next \/ UNCHANGED Promise!vars
  <1> DEFINE Kept == Promise!Next \/ UNCHANGED Promise!vars
  <1> USE DEF Promise!Next, Promise!vars, Goto, campaign, history, Sendable
  <1>0. row \in [Customers -> RowStatus] /\ status \in Status
    BY DEF TypeOK
  <1>1. CASE Press(p)  BY <1>1 DEF Press
  <1>2. CASE CheckLimit(p)  BY <1>2 DEF CheckLimit
  <1>3. CASE MarkScheduled(p)
    BY <1>3 DEF MarkScheduled, Placed, Opening, InView
  <1>4. CASE Enqueue(p)  BY <1>4 DEF Enqueue
  <1>5. CASE StartTask(p)  BY <1>5 DEF StartTask
  <1>6. CASE MarkSending(p)
    <2>1. status \in Sendable  BY <1>6 DEF MarkSending, Placed, Opening
    <2>2. Promise!Begin  BY <1>6, <2>1 DEF MarkSending, Promise!Begin
    <2>3. QED  BY <2>2
  <1>7. CASE FailGate(p)
    <2>1. status = "sending" /\ Existing = {}
      BY <1>7 DEF FailGate, Placed, Running, Preparing
    <2>2. Promise!Abandon
      BY <1>7, <2>1 DEF FailGate, Promise!Abandon, Existing
    <2>3. QED  BY <2>2
  <1>8. CASE ReadExisting(p)  BY <1>8 DEF ReadExisting
  <1>9. CASE ReadSegment(p)  BY <1>9 DEF ReadSegment
  <1>10. CASE CreateRecipients(p)
    <2>1. /\ status = "sending" /\ status' = status
          /\ \A c \in Customers : row[c] = "none"
      BY <1>10 DEF CreateRecipients, Placed, Running, Preparing, Existing
    <2>2. batch[p] \subseteq Customers  BY DEF TypeOK
    <2>3. row' = [c \in Customers |-> IF c \in batch[p] THEN "pending" ELSE "none"]
      BY <1>10, <2>1 DEF CreateRecipients
    <2>4. CASE batch[p] = {}
      <3>1. row' = row  BY <1>0, <2>1, <2>3, <2>4
      <3>2. QED  BY <2>1, <3>1
    <2>5. CASE batch[p] # {}
      <3>1. batch[p] \in (SUBSET Customers) \ {{}}  BY <2>2, <2>5
      <3>2. Promise!Enlist  BY <2>1, <2>3, <3>1 DEF Promise!Enlist
      <3>3. QED  BY <3>2
    <2>6. QED  BY <2>4, <2>5
  <1>11. CASE CreateConflict(p)
    BY <1>11 DEF CreateConflict, Placed
  <1>12. CASE CountRecipients(p)  BY <1>12 DEF CountRecipients
  <1>13. CASE SaveRecipientCount(p)  BY <1>13 DEF SaveRecipientCount
  <1>14. CASE ListPending(p)  BY <1>14 DEF ListPending
  <1>15. CASE FailEmpty(p)
    <2>1. status = "sending" /\ Existing = {}
      BY <1>15 DEF FailEmpty, Placed, Running, Preparing
    <2>2. Promise!Abandon
      BY <1>15, <2>1 DEF FailEmpty, Promise!Abandon, Existing
    <2>3. QED  BY <2>2
  <1>16. CASE MeterUsage(p)  BY <1>16 DEF MeterUsage
  <1>17. ASSUME NEW c \in Customers, FetchCustomer(p, c) PROVE Kept
    BY <1>17 DEF FetchCustomer
  <1>18. CASE SkipRecipient(p)
    <2>1. /\ status = "sending" /\ status' = status
          /\ cur[p] \in Customers /\ row[cur[p]] = "pending"
      BY <1>18
      DEF SkipRecipient, Placed, Running, Delivering, TypeOK, Pending
    <2>2. Promise!Decide(cur[p])
      BY <1>18, <2>1 DEF SkipRecipient, Promise!Decide
    <2>3. QED  BY <2>1, <2>2
  <1>19. CASE CallProvider(p)  BY <1>19 DEF CallProvider
  <1>20. CASE StoreMessage(p)  BY <1>20 DEF StoreMessage
  <1>21. CASE RecordOutcome(p)
    <2>1. /\ status = "sending" /\ status' = status
          /\ cur[p] \in Customers /\ row[cur[p]] = "pending"
      BY <1>21
      DEF RecordOutcome, Placed, Running, Delivering, TypeOK, Pending
    <2>2. Promise!Decide(cur[p])
      BY <1>21, <2>1 DEF RecordOutcome, Promise!Decide
    <2>3. QED  BY <2>1, <2>2
  <1>22. CASE FinishCampaign(p)
    <2>1. /\ status = "sending" /\ Existing # {}
          /\ Pending = batch[p] \cup {c \in Customers : cur[p] = c}
      BY <1>22 DEF FinishCampaign, Placed, Running, Delivering
    <2>2. Pending = {}  BY <1>22, <2>1, Unheld DEF FinishCampaign
    <2>3. /\ \A c \in Customers : row[c] # "pending"
          /\ \E c \in Customers : row[c] # "none"
      BY <2>1, <2>2 DEF Pending, Existing
    <2>4. Promise!Complete
      BY <1>22, <2>1, <2>3 DEF FinishCampaign, Promise!Complete
    <2>5. QED  BY <2>4
  <1>23. CASE Die(p)  BY <1>23 DEF Die
  <1>24. ASSUME NEW e \in Editors, EditLoad(e) PROVE Kept
    BY <1>24 DEF EditLoad
  <1>25. ASSUME NEW c \in Customers, NEW consent \in BOOLEAN,
               SetConsent(c, consent) PROVE Kept
    BY <1>25 DEF SetConsent
  <1>26. CASE UNCHANGED vars  BY <1>26 DEF vars
  <1>27. ASSUME NEW e \in Editors, EditSave(e) PROVE FALSE
    BY <1>27 DEF EditSave, Unpatched, TypeOK
  <1>28. QED
    BY <1>1, <1>2, <1>3, <1>4, <1>5, <1>6, <1>7, <1>8, <1>9, <1>10, <1>11,
       <1>12, <1>13, <1>14, <1>15, <1>16, <1>17, <1>18, <1>19, <1>20,
       <1>21, <1>22, <1>23, <1>24, <1>25, <1>26, <1>27
    DEF Next, View, Task, Prepare, Deliver

\* One press keeps the promise of CampaignPromise, where no PATCH comes in
\* between.
THEOREM Promised ==
  ASSUME NEW p, Presses = {p}, Editors = {}
  PROVE  Spec => KeepsPromise
  <1>0. p \in Presses  OBVIOUS
  <1>1. Init => Promise!Init
    BY DEF Init, Promise!Init, Sendable
  <1>2. Unpatched /\ Unpatched'  BY DEF Unpatched
  <1>3. /\ TypeOK /\ IInv /\ (Unpatched => Placed(p) /\ Counted(p)) /\ [Next]_vars
        => [Promise!Next]_(Promise!vars)
    BY <1>0, <1>2, PromiseNext DEF IInv
  <1>4. QED
    BY <1>1, <1>3, OnePress, TypeCorrect, IInvCorrect, PTL
    DEF Spec, KeepsPromise, Promise!Spec
=============================================================================

------------------------------ MODULE Assistant ------------------------------
(***************************************************************************)
(* The assistant in one conversation.  A Celery task per inbound message   *)
(* decides whether to reply or to hand the conversation off to a human;    *)
(* another task sends its message to WhatsApp.  Tasks work on what they    *)
(* loaded when they started, each statement commits on its own, a worker   *)
(* runs one task at a time, and a task whose worker dies is not run again. *)
(*                                                                         *)
(* A task makes one outbound message at most, which is named after the     *)
(* inbound one.  Its content is its intent.  The columns that              *)
(* record_message writes (preview, time, unread_count) are in Webhook.     *)
(*                                                                         *)
(* The specification is named apart from Webhook's: Messaging_proofs has   *)
(* theorems about both.                                                    *)
(***************************************************************************)
EXTENDS Naturals, FiniteSets

CONSTANTS
  Inbound,       \* messages of the customer
  Editors,       \* PATCH .../conversations/{id}/ requests
  Concurrency,   \* worker processes
  Limit,         \* Plan.max_ai_messages_per_month, 0 if unlimited
  MaxCrashes     \* bound: workers that die

ASSUME AssistantAssumption ==
  /\ IsFiniteSet(Inbound)
  /\ Concurrency \in Nat \ {0} /\ Limit \in Nat /\ MaxCrashes \in Nat

VARIABLES
  ai,       \* Conversation.ai_enabled
  usage,    \* UsageRecord.count of ai_messages, this month
  task,     \* generate_ai_response_task of each inbound message
  intent,   \* what it has decided to do
  allowed,  \* human_handoff_enabled, as it has loaded it
  shown,    \* status of each outbound message, "none" if there is none
  send,     \* send_whatsapp_message_task of each
  taken,    \* external: the outbound messages that Meta has taken
  audits,   \* AuditLog rows "AI_HANDOFF"
  edit,     \* each PATCH: its phase and the ai_enabled it has loaded
  crashes,
  quiet,    \* history: handed off, and nobody has asked for the assistant since
  late      \* history: tasks that started while quiet

assistantVars == <<ai, usage, task, intent, allowed, shown, send, taken, audits,
                   edit, crashes, quiet, late>>

Working  == {"limit", "call", "switch", "create", "log"}
Sending  == {"took", "refused"}

Tasks == {i \in Inbound : task[i] \in Working}
Sends == {i \in Inbound : send[i] \in Sending}
FreeWorker == Cardinality(Tasks) + Cardinality(Sends) < Concurrency

\* The conversation may have been created with the assistant off, by POST.
AssistantInit ==
  /\ ai \in BOOLEAN /\ usage \in 0..Limit
  /\ task = [i \in Inbound |-> "none"]
  /\ intent = [i \in Inbound |-> "none"]
  /\ allowed = [i \in Inbound |-> FALSE]
  /\ shown = [i \in Inbound |-> "none"]
  /\ send = [i \in Inbound |-> "none"]
  /\ taken = {} /\ audits = {}
  /\ edit = [e \in Editors |-> [phase |-> "idle", ai |-> FALSE]]
  /\ crashes = 0 /\ quiet = FALSE /\ late = {}

Step(i, from, to) == task[i] = from /\ task' = [task EXCEPT ![i] = to]
Decide(i, what)   == intent' = [intent EXCEPT ![i] = what]

(***************************************************************************)
(* generate_ai_reply                                                       *)
(***************************************************************************)

\* The webhook has stored a message and enqueued its task.
Arrive(i) ==
  /\ Step(i, "none", "queued")
  /\ UNCHANGED <<ai, usage, intent, allowed, shown, send, taken, audits, edit,
                 crashes, quiet, late>>

\* A worker takes the task: it loads the conversation with the message, and the
\* settings, which the owner may have edited to anything.
Take(i, to) ==
  /\ FreeWorker
  /\ Step(i, "queued", to)
  /\ late' = IF quiet THEN late \cup {i} ELSE late
  /\ UNCHANGED <<ai, usage, shown, send, taken, audits, edit, crashes, quiet>>

\* The assistant is off, here or in the settings, or has no provider and may
\* not hand off.
StaySilent(i) ==
  /\ Take(i, "done")
  /\ UNCHANGED <<intent, allowed>>

\* The customer wants a human, or there is no provider.
WantHuman(i) ==
  /\ ai
  /\ Take(i, "switch")
  /\ Decide(i, "handoff")
  /\ allowed' = [allowed EXCEPT ![i] = TRUE]

\* On with the checks.
Attempt(i) ==
  /\ ai
  /\ Take(i, "limit")
  /\ allowed' \in {[allowed EXCEPT ![i] = h] : h \in BOOLEAN}
  /\ UNCHANGED intent

\* Mutant of OverLimit: off by one.
AboveLimit == Limit # 0 /\ usage > Limit

OverLimit == Limit # 0 /\ usage >= Limit

\* Mutant of CheckUsage: a task over the limit is put back into the queue.
CheckRetried(i) ==
  /\ \/ OverLimit /\ allowed[i] /\ Step(i, "limit", "switch") /\ Decide(i, "handoff")
     \/ OverLimit /\ ~allowed[i] /\ Step(i, "limit", "queued") /\ UNCHANGED intent
     \/ ~OverLimit /\ Step(i, "limit", "call") /\ UNCHANGED intent
  /\ UNCHANGED <<ai, usage, allowed, shown, send, taken, audits, edit, crashes,
                 quiet, late>>

\* is_over_limit
CheckUsage(i) ==
  /\ \/ OverLimit /\ allowed[i] /\ Step(i, "limit", "switch") /\ Decide(i, "handoff")
     \/ OverLimit /\ ~allowed[i] /\ Step(i, "limit", "done") /\ UNCHANGED intent
     \/ ~OverLimit /\ Step(i, "limit", "call") /\ UNCHANGED intent
  /\ UNCHANGED <<ai, usage, allowed, shown, send, taken, audits, edit, crashes,
                 quiet, late>>

\* _estimate_confidence, in hundredths: of the text of an answer, and how it
\* finished.
EstimateConfidence(answer) ==
  CASE answer = "empty" -> 0
    [] answer = "cut off" -> 50
    [] answer = "hedging" -> 40
    [] answer = "sound" -> 85

\* What a provider may answer, if it does not fail or refuse.
Answers == {"empty", "cut off", "hedging", "sound"}

\* generate_reply, of either provider.
GenerateReply ==
  {[success |-> FALSE, confidence |-> 0]} \cup
  {[success |-> TRUE, confidence |-> EstimateConfidence(a)] : a \in Answers}

\* confidence_threshold: none, the default, or more than any answer has.
Thresholds == {0, 60, 90}

Doubtful(reply, threshold) == ~reply.success \/ reply.confidence < threshold

\* The reply is relied on or it is not; increment_usage adds in the database.
CallProvider(i) ==
  /\ \E reply \in GenerateReply, threshold \in Thresholds :
       \/ ~Doubtful(reply, threshold) /\ Step(i, "call", "create") /\ Decide(i, "reply")
       \/ /\ Doubtful(reply, threshold)
          /\ \/ allowed[i] /\ Step(i, "call", "switch") /\ Decide(i, "handoff")
             \/ ~allowed[i] /\ Step(i, "call", "create") /\ Decide(i, "fallback")
  /\ usage' = usage + 1
  /\ UNCHANGED <<ai, allowed, shown, send, taken, audits, edit, crashes, quiet,
                 late>>

\* _hand_off begins by switching the assistant off, that column only.
SwitchOff(i) ==
  /\ Step(i, "switch", "create")
  /\ ai' = FALSE
  /\ quiet' = TRUE
  /\ UNCHANGED <<usage, intent, allowed, shown, send, taken, audits, edit,
                 crashes, late>>

\* The message is stored; its signal enqueues the send, or swallows the
\* broker's error.
Post(i) ==
  /\ shown' = [shown EXCEPT ![i] = "pending"]
  /\ \E to \in {"queued", "skipped"} : send' = [send EXCEPT ![i] = to]

\* Mutant of CreateReply: the conversation is saved as it was loaded.
CreateSavingAll(i) ==
  /\ Step(i, "create", IF intent[i] = "handoff" THEN "log" ELSE "done")
  /\ Post(i)
  /\ ai' = (intent[i] # "handoff")
  /\ UNCHANGED <<usage, intent, allowed, taken, audits, edit, crashes, quiet, late>>

\* Mutant of CreateReply: a hand-off is not logged.
CreateUnlogged(i) ==
  /\ Step(i, "create", "done")
  /\ Post(i)
  /\ UNCHANGED <<ai, usage, intent, allowed, taken, audits, edit, crashes, quiet,
                 late>>

\* The reply, or the fallback message of _hand_off; then record_message.
CreateReply(i) ==
  /\ Step(i, "create", IF intent[i] = "handoff" THEN "log" ELSE "done")
  /\ Post(i)
  /\ UNCHANGED <<ai, usage, intent, allowed, taken, audits, edit, crashes, quiet,
                 late>>

\* AuditLog.log
LogHandoff(i) ==
  /\ Step(i, "log", "done")
  /\ audits' = audits \cup {i}
  /\ UNCHANGED <<ai, usage, intent, allowed, shown, send, taken, edit, crashes,
                 quiet, late>>

\* The worker dies, or a statement or the provider's client raises: nothing
\* runs the task again.
Die(i) ==
  /\ crashes < MaxCrashes
  /\ task[i] \in Working
  /\ task' = [task EXCEPT ![i] = "dead"]
  /\ crashes' = crashes + 1
  /\ UNCHANGED <<ai, usage, intent, allowed, shown, send, taken, audits, edit,
                 quiet, late>>

(***************************************************************************)
(* send_whatsapp_message_task                                              *)
(***************************************************************************)

\* Without a connected account the task ends there.  Otherwise Meta takes the
\* message or refuses it, or takes it and its answer does not arrive in time.
CallMeta(i) ==
  /\ FreeWorker
  /\ send[i] = "queued"
  /\ \/ /\ \E end \in {"skipped", "refused"} : send' = [send EXCEPT ![i] = end]
        /\ UNCHANGED taken
     \/ /\ \E end \in {"took", "refused"} : send' = [send EXCEPT ![i] = end]
        /\ taken' = taken \cup {i}
  /\ UNCHANGED <<ai, usage, task, intent, allowed, shown, audits, edit, crashes,
                 quiet, late>>

\* What Meta has answered is saved.
SaveSent(i) ==
  /\ send[i] \in {"took", "refused"}
  /\ shown' = [shown EXCEPT ![i] = IF send[i] = "took" THEN "sent" ELSE "failed"]
  /\ send' = [send EXCEPT ![i] = "done"]
  /\ UNCHANGED <<ai, usage, task, intent, allowed, taken, audits, edit, crashes,
                 quiet, late>>

DieSending(i) ==
  /\ crashes < MaxCrashes
  /\ send[i] \in Sending
  /\ send' = [send EXCEPT ![i] = "dead"]
  /\ crashes' = crashes + 1
  /\ UNCHANGED <<ai, usage, task, intent, allowed, shown, taken, audits, edit,
                 quiet, late>>

(***************************************************************************)
(* Staff: PATCH /api/v1/conversations/{id}/                                *)
(***************************************************************************)

LoadEdit(e) ==
  /\ edit[e].phase = "idle"
  /\ edit' = [edit EXCEPT ![e] = [phase |-> "loaded", ai |-> ai]]
  /\ UNCHANGED <<ai, usage, task, intent, allowed, shown, send, taken, audits,
                 crashes, quiet, late>>

\* The PATCH sets ai_enabled, or another field and with it ai_enabled as loaded.
SaveEdit(e) ==
  /\ edit[e].phase = "loaded"
  /\ edit' = [edit EXCEPT ![e].phase = "saved"]
  /\ \/ ai' = TRUE /\ quiet' = FALSE
     \/ ai' = FALSE /\ UNCHANGED quiet
     \/ ai' = edit[e].ai /\ UNCHANGED quiet
  /\ UNCHANGED <<usage, task, intent, allowed, shown, send, taken, audits,
                 crashes, late>>

Generate(i) ==
  \/ StaySilent(i) \/ WantHuman(i) \/ Attempt(i) \/ CheckUsage(i)
  \/ CallProvider(i) \/ SwitchOff(i) \/ CreateReply(i) \/ LogHandoff(i)

SendOut(i) == CallMeta(i) \/ SaveSent(i)

AssistantNext ==
  \/ \E i \in Inbound : \/ Arrive(i) \/ Generate(i) \/ Die(i)
                        \/ SendOut(i) \/ DieSending(i)
  \/ \E e \in Editors : LoadEdit(e) \/ SaveEdit(e)

AssistantSpec == AssistantInit /\ [][AssistantNext]_assistantVars

\* Workers keep working: a queued task is taken and a task at work goes on.
AssistantFairSpec ==
  /\ AssistantSpec
  /\ \A i \in Inbound : WF_assistantVars(Generate(i)) /\ WF_assistantVars(SendOut(i))

-----------------------------------------------------------------------------
(***************************************************************************)
(* Correctness.                                                            *)
(***************************************************************************)

AssistantTypeOK ==
  /\ ai \in BOOLEAN /\ usage \in Nat
  /\ task \in [Inbound -> {"none", "queued", "done", "dead"} \cup Working]
  /\ intent \in [Inbound -> {"none", "reply", "fallback", "handoff"}]
  /\ allowed \in [Inbound -> BOOLEAN]
  /\ shown \in [Inbound -> {"none", "pending", "sent", "failed"}]
  /\ send \in [Inbound -> {"none", "queued", "skipped", "done", "dead"} \cup Sending]
  /\ taken \subseteq Inbound /\ audits \subseteq Inbound
  /\ edit \in [Editors -> [phase : {"idle", "loaded", "saved"}, ai : BOOLEAN]]
  /\ crashes \in Nat /\ quiet \in BOOLEAN /\ late \subseteq Inbound

Calls == {i \in Inbound : task[i] = "call"}

\* docs/billing.md: ai_messages corresponds to a real external API cost.  The
\* limit is tested before the call and counted after it, so tasks that overlap
\* go over it together, but never by more than the other workers.
WithinLimit ==
  Limit # 0 => usage + Cardinality(Calls) <= Limit + Concurrency - 1

\* docs/ai.md: after a hand-off, "follow-up inbound messages on the same
\* conversation don't keep re-triggering AI attempts until a human manually
\* flips it back": a task that starts afterwards does nothing.
QuietUntilResumed ==
  \A i \in late : task[i] = "done" /\ intent[i] = "none"

Unedited == \A e \in Editors : edit[e].phase # "saved"

\* The same until a PATCH of the conversation is saved: tasks that overlap the
\* hand-off do not switch the assistant on again.
HandoffHolds == Unedited => (quiet => ~ai) /\ QuietUntilResumed

\* docs/ai.md: in every hand-off the fallback message is sent and an AuditLog
\* row is written.  If nobody has edited the conversation, an assistant that
\* has been switched off is explained by one, or its worker has died within it.
HandoffExplained ==
  /\ \A i \in audits : intent[i] = "handoff" /\ shown[i] # "none"
  /\ quiet /\ Unedited =>
       \E i \in Inbound : /\ intent[i] = "handoff"
                          /\ i \in audits \/ task[i] \in {"create", "log", "dead"}

\* Staff are shown "sent" only for what Meta has taken, and a message Meta has
\* taken is not left pending unless its worker has died or is still at it.
ShownHonestly ==
  \A i \in Inbound :
    /\ shown[i] = "sent" => i \in taken
    /\ i \in taken /\ shown[i] = "pending" => send[i] \in {"took", "refused", "dead"}

\* Whatever has been enqueued is done, or lost with its worker: tasks that wait
\* for a worker do not wait for ever.
EveryTaskEnds ==
  /\ \A i \in Inbound : task[i] = "queued" ~> task[i] \in {"done", "dead"}
  /\ \A i \in Inbound : send[i] = "queued" ~> send[i] \in {"done", "skipped", "dead"}
=============================================================================

------------------------------ MODULE Knowledge ------------------------------
(***************************************************************************)
(* The knowledge base of one business (apps.knowledge): documents are      *)
(* uploaded, a Celery task cuts each into overlapping chunks and embeds    *)
(* them, and the assistant looks up the chunks a question is about.        *)
(*                                                                         *)
(* A document is its number of words; a chunk is the words from..to-1 of   *)
(* it, and a question is about one word of one document, so keyword        *)
(* overlap is position and cosine similarity any choice of the chunks.     *)
(* process_document is no transaction: every statement is a step.  The     *)
(* task of a document runs once, or twice when the broker delivers its     *)
(* message again.                                                          *)
(***************************************************************************)
EXTENDS Integers, FiniteSets

CONSTANTS
  Docs,         \* documents that may be uploaded
  Lengths,      \* bound: the lengths of their texts, in words
  MaxWords,     \* MAX_CHUNK_WORDS
  Overlap,      \* CHUNK_OVERLAP_WORDS
  TopK,         \* DEFAULT_TOP_K
  Copies,       \* deliveries of a task's message
  MaxDeaths,    \* bound: workers that die during a task
  MaxSwitches   \* bound: restarts with another OPENAI_API_KEY setting

ASSUME KnowledgeAssumption ==
  /\ IsFiniteSet(Docs) /\ IsFiniteSet(Lengths) /\ Lengths \subseteq Nat
  /\ MaxWords \in Nat /\ Overlap \in Nat /\ Overlap < MaxWords
  /\ TopK \in Nat \ {0} /\ Copies \in Nat \ {0}
  /\ MaxDeaths \in Nat /\ MaxSwitches \in Nat

VARIABLES
  doc,       \* knowledge_document rows
  rows,      \* knowledge_chunk rows of each document
  task,      \* per document and delivery: next statement and what it holds
  provider,  \* whether an embedding provider is configured
  ask,       \* the question the assistant is answering
  deaths     \* workers that died so far

vars == <<doc, rows, task, provider, ask, deaths>>

Unreadable == -1   \* a file whose text cannot be extracted

Deliveries == 1..Copies
Loaded == {"mark", "extract", "clear", "insert", "list", "call", "store", "ready", "fail"}
Idle == [at |-> "none", held |-> {}]
NoAsk == [at |-> "idle", doc |-> {}, word |-> 0, read |-> {}, known |-> FALSE, answer |-> {}]

At(d, n, step) == task[<<d, n>>].at = step
Goto(d, n, step) == task' = [task EXCEPT ![<<d, n>>].at = step]
Done(d, n) == task' = [task EXCEPT ![<<d, n>>] = [at |-> "done", held |-> {}]]

(***************************************************************************)
(* chunk_text                                                              *)
(***************************************************************************)
\* Mutant of Window: the last one goes beyond the end.
WholeWindow(len, start) == [from |-> start, to |-> start + MaxWords]

Window(len, start) ==
  [from |-> start, to |-> IF start + MaxWords < len THEN start + MaxWords ELSE len]

\* Where windows start: the loop goes on while the one before has not reached
\* the end.
Starts(len, step) ==
  {k * step : k \in {j \in 0..len : j = 0 \/ (j - 1) * step + MaxWords < len}}

\* Mutant of ChunkText: the overlap is a word short.
ChunkTextApart(len) ==
  IF len = 0 THEN {} ELSE {Window(len, s) : s \in Starts(len, MaxWords - Overlap + 1)}

ChunkText(len) ==
  IF len = 0 THEN {} ELSE {Window(len, s) : s \in Starts(len, MaxWords - Overlap)}

(***************************************************************************)
(* Documents                                                               *)
(***************************************************************************)
Init ==
  /\ doc = [d \in Docs |-> [status |-> "absent", words |-> 0, deleted |-> FALSE,
                            chunks |-> 0, embedded |-> 0]]
  /\ rows = [d \in Docs |-> {}]
  /\ task = [t \in Docs \X Deliveries |-> Idle]
  /\ provider \in [on : BOOLEAN, switched : {0}]
  /\ ask = NoAsk /\ deaths = 0

\* create: a pasted text has words, an upload may turn out empty or unreadable.
Upload(d) ==
  /\ doc[d].status = "absent"
  /\ \E n \in Lengths \cup {Unreadable} :
       doc' = [doc EXCEPT ![d].status = "pending", ![d].words = n]
  /\ task' = [task EXCEPT ![<<d, 1>>].at = "unsent"]
  /\ UNCHANGED <<rows, provider, ask, deaths>>

\* ... then the task is queued, unless the broker refuses it (a 500).
Enqueue(d) ==
  /\ At(d, 1, "unsent")
  /\ \E to \in {"queued", "refused"} : Goto(d, 1, to)
  /\ UNCHANGED <<doc, rows, provider, ask, deaths>>

\* A message no worker has started on in time is delivered once more.
Redeliver(d, n) ==
  /\ n + 1 \in Deliveries /\ At(d, n, "queued") /\ At(d, n + 1, "none")
  /\ Goto(d, n + 1, "queued")
  /\ UNCHANGED <<doc, rows, provider, ask, deaths>>

\* DELETE: only the columns of the soft delete are written.
Delete(d) ==
  /\ doc[d].status # "absent" /\ ~doc[d].deleted
  /\ doc' = [doc EXCEPT ![d].deleted = TRUE]
  /\ UNCHANGED <<rows, task, provider, ask, deaths>>

\* The server is started with, or without, an API key.
Reconfigure ==
  /\ provider.switched < MaxSwitches
  /\ provider' = [on |-> ~provider.on, switched |-> provider.switched + 1]
  /\ UNCHANGED <<doc, rows, task, ask, deaths>>

(***************************************************************************)
(* process_knowledge_document_task, process_document                       *)
(***************************************************************************)
\* The task loads the document, which must not be deleted.
Load(d, n) ==
  /\ At(d, n, "queued")
  /\ IF doc[d].deleted THEN Done(d, n) ELSE Goto(d, n, "mark")
  /\ UNCHANGED <<doc, rows, provider, ask, deaths>>

MarkProcessing(d, n) ==
  /\ At(d, n, "mark")
  /\ doc' = [doc EXCEPT ![d].status = "processing"]
  /\ Goto(d, n, "extract")
  /\ UNCHANGED <<rows, provider, ask, deaths>>

\* extract_text and chunk_text; no text, or no chunk of it, is a failure.
Extract(d, n) ==
  /\ At(d, n, "extract")
  /\ Goto(d, n, IF doc[d].words = Unreadable \/ ChunkText(doc[d].words) = {}
                THEN "fail" ELSE "clear")
  /\ UNCHANGED <<doc, rows, provider, ask, deaths>>

ClearChunks(d, n) ==
  /\ At(d, n, "clear")
  /\ rows' = [rows EXCEPT ![d] = {}]
  /\ Goto(d, n, "insert")
  /\ UNCHANGED <<doc, provider, ask, deaths>>

\* bulk_create: all of them, or none if one breaks the unique chunk_index.
InsertChunks(d, n) ==
  /\ At(d, n, "insert")
  /\ \/ /\ rows[d] # {}
        /\ Goto(d, n, "fail") /\ UNCHANGED rows
     \/ /\ rows[d] = {}
        /\ rows' = [rows EXCEPT ![d] =
             {[by |-> n, from |-> w.from, to |-> w.to, vector |-> FALSE] :
                w \in ChunkText(doc[d].words)}]
        /\ Goto(d, n, IF provider.on THEN "list" ELSE "ready")
  /\ UNCHANGED <<doc, provider, ask, deaths>>

\* _embed_chunks lists the chunks there are ...
ListChunks(d, n) ==
  /\ At(d, n, "list")
  /\ task' = [task EXCEPT ![<<d, n>>] = [at |-> "call", held |-> rows[d]]]
  /\ UNCHANGED <<doc, rows, provider, ask, deaths>>

\* ... and calls the provider: it answers, it fails (None), or the answer is
\* not one vector for each chunk (an exception).  No chunk needs no call.
CallProvider(d, n) ==
  /\ At(d, n, "call")
  /\ \/ Goto(d, n, "store")
     \/ task[<<d, n>>].held # {}
        /\ task' = [task EXCEPT ![<<d, n>>] = [at |-> "ready", held |-> {}]]
     \/ task[<<d, n>>].held # {}
        /\ task' = [task EXCEPT ![<<d, n>>] = [at |-> "fail", held |-> {}]]
  /\ UNCHANGED <<doc, rows, provider, ask, deaths>>

\* bulk_update by primary key: rows that are gone stay gone.
StoreVectors(d, n) ==
  /\ At(d, n, "store")
  /\ rows' = [rows EXCEPT ![d] =
       {[c EXCEPT !.vector = @ \/ c \in task[<<d, n>>].held] : c \in rows[d]}]
  /\ Goto(d, n, "ready")
  /\ UNCHANGED <<doc, provider, ask, deaths>>

SaveReady(d, n) ==
  /\ At(d, n, "ready")
  /\ doc' = [doc EXCEPT ![d].status = "ready",
                        ![d].chunks = Cardinality(ChunkText(doc[d].words)),
                        ![d].embedded = Cardinality(task[<<d, n>>].held)]
  /\ Done(d, n)
  /\ UNCHANGED <<rows, provider, ask, deaths>>

\* Mutant of SaveFailed: the error is logged and nothing is saved.
LogFailed(d, n) ==
  /\ At(d, n, "fail") /\ Done(d, n)
  /\ UNCHANGED <<doc, rows, provider, ask, deaths>>

\* What the run has inserted so far is left as it is.
SaveFailed(d, n) ==
  /\ At(d, n, "fail")
  /\ doc' = [doc EXCEPT ![d].status = "failed"]
  /\ Done(d, n)
  /\ UNCHANGED <<rows, provider, ask, deaths>>

\* The message was acknowledged when the task began, so it is not run again.
Die(d, n) ==
  /\ task[<<d, n>>].at \in Loaded /\ deaths < MaxDeaths
  /\ task' = [task EXCEPT ![<<d, n>>] = [at |-> "died", held |-> {}]]
  /\ deaths' = deaths + 1
  /\ UNCHANGED <<doc, rows, provider, ask>>

Process(d, n) ==
  \/ Load(d, n) \/ MarkProcessing(d, n) \/ Extract(d, n) \/ ClearChunks(d, n)
  \/ InsertChunks(d, n) \/ ListChunks(d, n) \/ CallProvider(d, n)
  \/ StoreVectors(d, n) \/ SaveReady(d, n) \/ SaveFailed(d, n)

(***************************************************************************)
(* retrieve_relevant_chunks                                                *)
(***************************************************************************)
Chunk(d, c) == [doc |-> d, by |-> c.by, from |-> c.from, to |-> c.to, vector |-> c.vector]

\* No run of the document is under way or has died, and it has been processed.
AtRest(d) ==
  /\ \A n \in Deliveries : task[<<d, n>>].at \in {"none", "queued", "done"}
  /\ doc[d].status = "ready"

\* The query: chunks of ready documents, the deleted ones included.
Ask(d, word) ==
  /\ ask.at = "idle" /\ word \in 0..(doc[d].words - 1)
  /\ ask' = [at |-> "read", doc |-> {d}, word |-> word, answer |-> {},
             known |-> AtRest(d),
             read |-> UNION {{Chunk(e, c) : c \in rows[e]} :
                               e \in {x \in Docs : doc[x].status = "ready"}}]
  /\ UNCHANGED <<doc, rows, task, provider, deaths>>

Matching == {c \in ask.read : c.doc \in ask.doc /\ ask.word \in c.from..(c.to - 1)}
Embedded == {c \in ask.read : c.vector}
Best(S) == {T \in SUBSET S : Cardinality(T) <= TopK /\ (S # {} => T # {})
                          /\ (Cardinality(T) = TopK \/ T = S)}

\* Mutant of Answer: where there are vectors, only they are looked at.
AnswerEmbedded ==
  /\ ask.at = "read"
  /\ \E T \in SUBSET Embedded :
       ask' = [ask EXCEPT !.at = "answered", !.answer = T, !.read = {}]
  /\ UNCHANGED <<doc, rows, task, provider, deaths>>

\* Chunks that score by vector (any of them may, those of another dimension
\* do not); if none does, or nothing is embedded, those that share a word.  An
\* answer of the provider that cannot be read is an exception, and no answer.
Answer ==
  /\ ask.at = "read"
  /\ \/ /\ provider.on
        /\ \E S \in (SUBSET Embedded) \ {{}} : \E T \in Best(S) :
             ask' = [ask EXCEPT !.at = "answered", !.answer = T, !.read = {}]
     \/ \E T \in Best(Matching) :
          ask' = [ask EXCEPT !.at = "answered", !.answer = T, !.read = {}]
     \/ provider.on /\ Embedded # {} /\ ask' = NoAsk
  /\ UNCHANGED <<doc, rows, task, provider, deaths>>

\* The block is in the prompt; the next question may come.
Prompt ==
  /\ ask.at = "answered" /\ ask' = NoAsk
  /\ UNCHANGED <<doc, rows, task, provider, deaths>>

Next ==
  \/ \E d \in Docs :
       \/ Upload(d) \/ Enqueue(d) \/ Delete(d)
       \/ \E n \in Deliveries : Redeliver(d, n) \/ Process(d, n) \/ Die(d, n)
       \/ \E word \in 0..(doc[d].words - 1) : Ask(d, word)
  \/ Answer \/ Prompt \/ Reconfigure

\* Workers keep working; the provider's call has a timeout.
Fairness == \A d \in Docs : \A n \in Deliveries : WF_vars(Process(d, n))

Spec == Init /\ [][Next]_vars
FairSpec == Spec /\ Fairness

(***************************************************************************)
(* Properties                                                              *)
(***************************************************************************)
\* Type invariant; a chunk is a part of its document's text.
TypeOK ==
  /\ doc \in [Docs ->
       [status : {"absent", "pending", "processing", "ready", "failed"},
        words : Lengths \cup {0, Unreadable}, deleted : BOOLEAN,
        chunks : Nat, embedded : Nat]]
  /\ \A d \in Docs : \A c \in rows[d] :
       c.by \in Deliveries /\ 0 <= c.from /\ c.from < c.to /\ c.to <= doc[d].words
  /\ \A t \in DOMAIN task :
       task[t].at \in Loaded \cup {"none", "unsent", "queued", "refused", "done", "died"}
  /\ provider \in [on : BOOLEAN, switched : 0..MaxSwitches] /\ deaths \in 0..MaxDeaths
  /\ ask.at \in {"idle", "read", "answered"} /\ Cardinality(ask.answer) <= TopK

FactsWhole(d) ==
  \A first \in 0..(doc[d].words - 1) : \E c \in rows[d] :
    /\ c.from <= first
    /\ c.to >= doc[d].words \/ c.to >= first + Overlap + 1
CountsAgree(d) ==
  /\ doc[d].chunks = Cardinality(rows[d])
  /\ \/ \E n \in Deliveries : n > 1 /\ At(d, n, "done")
     \/ doc[d].embedded = Cardinality({c \in rows[d] : c.vector})

\* However two runs over a document have interleaved, when it is ready a fact of
\* up to Overlap + 1 words is whole in a chunk, wherever in the text it is, and
\* there are as many chunks as the document says; as many of them embedded, if
\* its task ran once.
ReadyIsComplete == \A d \in Docs : AtRest(d) => FactsWhole(d) /\ CountsAgree(d)

\* The knowledge base is never silently unused: a question about any word of a
\* ready document is given a chunk, in whatever mode and with any part of the
\* chunks embedded.
NeverSilent == ask.at = "answered" /\ ask.known => ask.answer # {}

\* A document whose task is queued is ready or failed in the end, unless it is
\* deleted or a worker dies.
EveryDocumentSettles ==
  \A d \in Docs :
    At(d, 1, "queued") ~> (doc[d].status \in {"ready", "failed"} \/ doc[d].deleted \/ deaths > 0)
=============================================================================

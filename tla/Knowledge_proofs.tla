--------------------------- MODULE Knowledge_proofs ---------------------------
(***************************************************************************)
(* Proofs about Knowledge, for documents of any length, windows and        *)
(* overlaps of any size and any number of deliveries of a task.            *)
(***************************************************************************)
EXTENDS Knowledge, FiniteSetTheorems, WellFoundedInduction, TLAPS

(***************************************************************************)
(* chunk_text                                                              *)
(***************************************************************************)
\* A set of numbers has a least one.
LEMMA Least ==
  ASSUME NEW T, T \subseteq Nat, T # {}
  PROVE  \E x \in T : \A y \in T : x <= y
  <1>1. IsWellFoundedOn(OpToRel(<, Nat), Nat)  BY NatLessThanWellFounded
  <1>2. PICK x \in T : \A y \in T : <<y, x>> \notin OpToRel(<, Nat)  BY <1>1, WFMin
  <1>3. ASSUME NEW y \in T PROVE x <= y
    <2>1. ~ (y < x)  BY <1>2 DEF OpToRel
    <2>2. QED  BY <2>1
  <1>4. QED  BY <1>3

LEMMA Times ==
  ASSUME NEW k \in Nat, NEW s \in Nat \ {0}
  PROVE  k * s \in Nat /\ k <= k * s /\ (k + 1) * s = k * s + s /\ 0 * s = 0
  OBVIOUS

\* The loop's next window starts a step later, if there is one.
LEMMA StartsFacts ==
  ASSUME NEW len \in Nat \ {0}, NEW s \in Nat \ {0}, s <= MaxWords
  PROVE  /\ 0 \in Starts(len, s)
         /\ \A k \in Nat : k * s + MaxWords < len => (k + 1) * s \in Starts(len, s)
         /\ \A x \in Starts(len, s) : x \in Nat /\ x < len
         /\ IsFiniteSet(Starts(len, s))
  <1>0. MaxWords \in Nat  BY KnowledgeAssumption
  <1> DEFINE J == {j \in 0..len : j = 0 \/ (j - 1) * s + MaxWords < len}
  <1>1. 0 \in Starts(len, s)
    <2>1. 0 \in J /\ 0 * s = 0  BY Times
    <2>2. QED  BY <2>1 DEF Starts
  <1>2. ASSUME NEW k \in Nat, k * s + MaxWords < len PROVE (k + 1) * s \in Starts(len, s)
    <2>1. k * s \in Nat /\ k <= k * s  BY Times
    <2>2. k + 1 \in 0..len  BY <1>0, <1>2, <2>1
    <2>3. (k + 1) - 1 = k  OBVIOUS
    <2>4. k + 1 \in J  BY <1>2, <2>2, <2>3
    <2>5. QED  BY <2>4 DEF Starts
  <1>3. ASSUME NEW x \in Starts(len, s) PROVE x \in Nat /\ x < len
    <2>1. PICK j \in J : x = j * s  BY DEF Starts
    <2>2. CASE j = 0
      <3>1. x = 0  BY <2>1, <2>2, Times
      <3>2. QED  BY <3>1
    <2>3. CASE j # 0
      <3>1. PICK i \in Nat : i = j - 1  BY <2>3
      <3>2. i * s \in Nat /\ (i + 1) * s = i * s + s  BY <3>1, Times
      <3>3. j = i + 1 /\ i * s + MaxWords < len  BY <2>1, <2>3, <3>1
      <3>4. x = i * s + s  BY <2>1, <3>2, <3>3
      <3>5. QED  BY <1>0, <3>2, <3>3, <3>4
    <2>4. QED  BY <2>2, <2>3
  <1>4. IsFiniteSet(Starts(len, s))
    <2>1. Starts(len, s) \subseteq 0..len  BY <1>3
    <2>2. IsFiniteSet(0..len)  BY FS_Interval
    <2>3. QED  BY <2>1, <2>2, FS_Subset
  <1>5. QED  BY <1>1, <1>2, <1>3, <1>4

\* There are windows, finitely many, and each is a part of the text.
LEMMA Windows ==
  ASSUME NEW len \in Nat \ {0}
  PROVE  /\ ChunkText(len) # {} /\ IsFiniteSet(ChunkText(len))
         /\ \A w \in ChunkText(len) :
              /\ w = [from |-> w.from, to |-> w.to]
              /\ w.from \in Nat /\ w.to \in Nat /\ w.from < w.to /\ w.to <= len
  <1>0. PICK s \in Nat \ {0} : s = MaxWords - Overlap /\ s <= MaxWords
    BY KnowledgeAssumption
  <1>00. MaxWords \in Nat \ {0}  BY KnowledgeAssumption
  <1>1. ChunkText(len) = {Window(len, x) : x \in Starts(len, s)}  BY <1>0 DEF ChunkText
  <1>2. 0 \in Starts(len, s) /\ \A x \in Starts(len, s) : x \in Nat /\ x < len
    BY <1>0, StartsFacts
  <1>3. ASSUME NEW w \in ChunkText(len)
        PROVE  /\ w = [from |-> w.from, to |-> w.to]
               /\ w.from \in Nat /\ w.to \in Nat /\ w.from < w.to /\ w.to <= len
    <2>1. PICK x \in Starts(len, s) : w = Window(len, x)  BY <1>1
    <2>2. x \in Nat /\ x < len  BY <1>2
    <2>3. QED  BY <1>00, <2>1, <2>2 DEF Window
  <1>4. IsFiniteSet(ChunkText(len))
    <2>1. IsFiniteSet(Starts(len, s))  BY <1>0, StartsFacts
    <2>2. PICK f : f = [x \in Starts(len, s) |-> Window(len, x)]  OBVIOUS
    <2>3. f \in Surjection(Starts(len, s), ChunkText(len))  BY <1>1, <2>2 DEF Surjection
    <2>4. QED  BY <2>1, <2>3, FS_Surjection
  <1>5. QED  BY <1>1, <1>2, <1>3, <1>4

\* Wherever a fact of up to Overlap + 1 words begins, it is whole in a window,
\* or the text ends before it does.
LEMMA Covered ==
  ASSUME NEW len \in Nat \ {0}, NEW first \in 0..(len - 1)
  PROVE  \E w \in ChunkText(len) :
           w.from <= first /\ (w.to >= len \/ w.to >= first + Overlap + 1)
  <1>0. PICK s \in Nat \ {0} : s = MaxWords - Overlap /\ s <= MaxWords
    BY KnowledgeAssumption
  <1>00. MaxWords \in Nat \ {0} /\ Overlap \in Nat  BY KnowledgeAssumption
  <1>1. PICK T : T = {k \in Nat : (k + 1) * s > first \/ k * s + MaxWords >= len}  OBVIOUS
  <1>2. len \in T
    <2>1. len * s \in Nat /\ len <= len * s  BY Times
    <2>2. len * s + MaxWords >= len  BY <1>00, <2>1
    <2>3. QED  BY <1>1, <2>2
  <1>3. PICK k \in T : \A j \in T : k <= j  BY <1>1, <1>2, Least
  <1>4. k \in Nat /\ k * s \in Nat /\ (k + 1) * s = k * s + s  BY <1>1, Times
  <1>5. k * s <= first /\ k * s \in Starts(len, s)
    <2>1. CASE k = 0
      <3>1. k * s = 0  BY <2>1, Times
      <3>2. QED  BY <1>0, <3>1, StartsFacts
    <2>2. CASE k # 0
      <3>1. PICK i \in Nat : i = k - 1 /\ k = i + 1  BY <1>4, <2>2
      <3>2. i \notin T  BY <1>3, <3>1
      <3>3. ~((i + 1) * s > first) /\ ~(i * s + MaxWords >= len)  BY <1>1, <3>2
      <3>4. i * s \in Nat  BY Times
      <3>5. k * s <= first  BY <1>4, <3>1, <3>3
      <3>6. i * s + MaxWords < len  BY <1>00, <3>3, <3>4
      <3>7. QED  BY <1>0, <3>1, <3>5, <3>6, StartsFacts
    <2>3. QED  BY <2>1, <2>2
  <1>6. Window(len, k * s) \in ChunkText(len)  BY <1>0, <1>5 DEF ChunkText
  <1>7. PICK from \in Nat : from = k * s  BY <1>4
  <1>8. from + s > first \/ from + MaxWords >= len  BY <1>1, <1>4, <1>7
  <1>9. PICK w : w = Window(len, from)  OBVIOUS
  <1>10. w.from = from /\ w.to = (IF from + MaxWords < len THEN from + MaxWords ELSE len)
    BY <1>9 DEF Window
  <1>11. w.to >= len \/ w.to >= first + Overlap + 1  BY <1>0, <1>00, <1>8, <1>10
  <1>12. QED  BY <1>5, <1>6, <1>7, <1>9, <1>10, <1>11

(***************************************************************************)
(* Documents, their chunks and the runs over them                          *)
(***************************************************************************)
\* Rows as they are inserted and, later, embedded.
Pieces == [by : Deliveries, from : Nat, to : Nat, vector : BOOLEAN]
Stages == Loaded \cup {"none", "unsent", "queued", "refused", "done", "died"}
Tasks == Docs \X Deliveries
DocRows == [status : {"absent", "pending", "processing", "ready", "failed"},
            words : Lengths \cup {0, Unreadable}, deleted : BOOLEAN,
            chunks : Nat, embedded : Nat]
Shapes ==
  /\ doc \in [Docs -> DocRows]
  /\ rows \in [Docs -> SUBSET Pieces] /\ \A d \in Docs : IsFiniteSet(rows[d])
  /\ task \in [Tasks -> [at : Stages, held : SUBSET Pieces]]
  /\ \A t \in Tasks : IsFiniteSet(task[t].held)

\* A document without a row in the database has no task and no chunks.
Fresh(d) ==
  doc[d].status = "absent" =>
    rows[d] = {} /\ \A n \in Deliveries : task[<<d, n>>].at = "none"

\* Behind the extraction there is text, and chunks are chunks of it: each
\* window once, or there is no chunk at all.
Cut == {"clear", "insert", "list", "call", "store", "ready"}
HasText(d) ==
  /\ rows[d] # {} => doc[d].words \in Nat \ {0}
  /\ \A n \in Deliveries : task[<<d, n>>].at \in Cut => doc[d].words \in Nat \ {0}
Span(c) == [from |-> c.from, to |-> c.to]
Whole(d) ==
  /\ {Span(c) : c \in rows[d]} = ChunkText(doc[d].words)
  /\ \A c, e \in rows[d] : Span(c) = Span(e) => c = e
AllOrNone(d) == rows[d] = {} \/ Whole(d)

\* Chunks that a run has deleted come back, unless its worker dies: the run is
\* about to insert them, and another one that was there first is done or fails.
NotLost(d) ==
  \/ rows[d] # {}
  \/ \E n \in Deliveries : task[<<d, n>>].at \in {"insert", "died"}
  \/ /\ doc[d].status # "ready"
     /\ \A n \in Deliveries : task[<<d, n>>].at \notin {"list", "call", "store", "ready"}

\* The numbers a ready document shows.
Counted(d) ==
  doc[d].status = "ready" =>
    doc[d].words \in Nat \ {0} /\ doc[d].chunks = Cardinality(ChunkText(doc[d].words))

\* A run that no other run can disturb embeds what it has inserted.
Vectors(d) == {c \in rows[d] : c.vector}
Alone(d) ==
  (\A n \in Deliveries : n > 1 => task[<<d, n>>].at \in {"none", "queued"}) =>
    LET t == task[<<d, 1>>] IN
    /\ t.at = "list" => Vectors(d) = {}
    /\ t.at \in {"call", "store"} => t.held = rows[d] /\ Vectors(d) = {}
    /\ t.at = "ready" => Cardinality(t.held) = Cardinality(Vectors(d))
    /\ doc[d].status = "ready" => /\ t.at = "done"
                                  /\ doc[d].embedded = Cardinality(Vectors(d))

\* Only a run that has listed chunks holds any.
Holding(d) ==
  \A n \in Deliveries :
    task[<<d, n>>].at \notin {"call", "store", "ready"} => task[<<d, n>>].held = {}

DocOK(d) ==
  Fresh(d) /\ HasText(d) /\ AllOrNone(d) /\ NotLost(d) /\ Counted(d) /\ Alone(d) /\ Holding(d)

\* What a statement does to the task it belongs to.
Moved(d, n, step, held) ==
  /\ task'[<<d, n>>].at = step /\ task'[<<d, n>>].held = held
  /\ task' \in [Tasks -> [at : Stages, held : SUBSET Pieces]]
  /\ \A t \in Tasks \ {<<d, n>>} : task'[t] = task[t]

LEMMA Moves ==
  ASSUME Shapes, NEW d \in Docs, NEW n \in Deliveries, NEW step \in Stages
  PROVE  /\ Goto(d, n, step) => Moved(d, n, step, task[<<d, n>>].held)
         /\ \A held \in SUBSET Pieces :
              task' = [task EXCEPT ![<<d, n>>] = [at |-> step, held |-> held]]
                => Moved(d, n, step, held)
  <1>0. task \in [Tasks -> [at : Stages, held : SUBSET Pieces]] /\ <<d, n>> \in Tasks
    BY DEF Shapes, Tasks
  <1>1. ASSUME NEW held \in SUBSET Pieces,
               task' = [task EXCEPT ![<<d, n>>] = [at |-> step, held |-> held]]
        PROVE  Moved(d, n, step, held)
    <2>1. [at |-> step, held |-> held] \in [at : Stages, held : SUBSET Pieces]  OBVIOUS
    <2>2. QED  BY <1>0, <1>1, <2>1 DEF Moved
  <1>2. ASSUME Goto(d, n, step) PROVE Moved(d, n, step, task[<<d, n>>].held)
    <2>1. [task[<<d, n>>] EXCEPT !.at = step]
            = [at |-> step, held |-> task[<<d, n>>].held]
          /\ task[<<d, n>>].held \in SUBSET Pieces
      BY <1>0
    <2>2. task' = [task EXCEPT ![<<d, n>>] = [task[<<d, n>>] EXCEPT !.at = step]]
      BY <1>2 DEF Goto
    <2>3. task' = [task EXCEPT ![<<d, n>>] = [at |-> step, held |-> task[<<d, n>>].held]]
      BY <2>1, <2>2
    <2>4. QED  BY <1>1, <2>1, <2>3
  <1>3. QED  BY <1>1, <1>2

\* What every statement leaves in order ...
LEMMA Still ==
  ASSUME Shapes, NEW d \in Docs, NEW n \in Deliveries, NEW step \in Stages, NEW held,
         Moved(d, n, step, held), DocOK(d), doc[d].status # "absent",
         doc'[d].status # "absent", doc'[d].words = doc[d].words,
         step \in Cut => doc[d].words \in Nat \ {0},
         rows'[d] # {} => doc[d].words \in Nat \ {0},
         step \notin {"call", "store", "ready"} => held = {}
  PROVE  Fresh(d)' /\ HasText(d)' /\ Holding(d)'
  <1>1. \A m \in Deliveries \ {n} : task'[<<d, m>>] = task[<<d, m>>]
    BY DEF Moved, Tasks
  <1>2. task'[<<d, n>>].at = step /\ task'[<<d, n>>].held = held  BY DEF Moved
  <1>3. Fresh(d)'  BY DEF Fresh
  <1>4. HasText(d)'
    <2>1. ASSUME NEW m \in Deliveries, task'[<<d, m>>].at \in Cut
          PROVE  doc[d].words \in Nat \ {0}
      BY <1>1, <1>2, <2>1 DEF DocOK, HasText
    <2>2. QED  BY <2>1 DEF HasText
  <1>5. Holding(d)'
    <2>1. ASSUME NEW m \in Deliveries, task'[<<d, m>>].at \notin {"call", "store", "ready"}
          PROVE  task'[<<d, m>>].held = {}
      BY <1>1, <1>2, <2>1 DEF DocOK, Holding
    <2>2. QED  BY <2>1 DEF Holding
  <1>6. QED  BY <1>3, <1>4, <1>5

SameText(d) ==
  /\ doc'[d].words = doc[d].words /\ doc'[d].chunks = doc[d].chunks
  /\ doc'[d].embedded = doc[d].embedded

\* ... those that change nothing of the document ...
LEMMA Elsewhere ==
  ASSUME NEW d \in Docs, DocOK(d), SameText(d), doc'[d].status = doc[d].status,
         rows'[d] = rows[d], \A n \in Deliveries : task'[<<d, n>>] = task[<<d, n>>]
  PROVE  DocOK(d)'
  <1> USE DEF DocOK, SameText
  <1>1. Fresh(d)' /\ Holding(d)'  BY DEF Fresh, Holding
  <1>2. HasText(d)' /\ NotLost(d)'  BY DEF HasText, NotLost
  <1>3. AllOrNone(d)' /\ Counted(d)'  BY DEF AllOrNone, Whole, Counted
  <1>4. Alone(d)'
    <2>1. 1 \in Deliveries  BY KnowledgeAssumption DEF Deliveries
    <2>2. Vectors(d)' = Vectors(d)  BY DEF Vectors
    <2>3. QED  BY <2>1, <2>2 DEF Alone
  <1>5. QED  BY <1>1, <1>2, <1>3, <1>4

\* ... and those that only move their task on, or mark the document as being
\* processed or failed.
LEMMA Quiet ==
  ASSUME Shapes, NEW d \in Docs, NEW n \in Deliveries, NEW step \in Stages, NEW held,
         Moved(d, n, step, held), DocOK(d), rows'[d] = rows[d], SameText(d),
         doc'[d].status \in {doc[d].status, "processing", "failed"},
         doc[d].status # "absent",
         step \in Cut => doc[d].words \in Nat \ {0},
         step \notin {"call", "store", "ready"} => held = {},
         NEW was, was = task[<<d, n>>].at,
         was = "insert" => step = "died" \/ rows[d] # {}, was # "died",
         step \in {"list", "call", "store", "ready"} => was \in {"list", "call", "store", "ready"},
         step \in {"none", "queued"} => was \in {"none", "queued"} \/ n = 1,
         n = 1 => /\ was # "done" /\ step # "list"
                  /\ (step = "call" => was = "list" /\ held = rows[d])
                  /\ (step = "store" => was = "call" /\ held = task[<<d, n>>].held)
                  /\ (step = "ready" => was = "call" /\ held = {})
  PROVE  DocOK(d)'
  <1>1. \A m \in Deliveries \ {n} : task'[<<d, m>>] = task[<<d, m>>]
    BY DEF Moved, Tasks
  <1>2. task'[<<d, n>>].at = step /\ task'[<<d, n>>].held = held  BY DEF Moved
  <1>3. Fresh(d)' /\ HasText(d)' /\ Holding(d)'
    <2>1. rows'[d] # {} => doc[d].words \in Nat \ {0}  BY DEF DocOK, HasText
    <2>2. QED  BY <2>1, Still DEF SameText
  <1>4. AllOrNone(d)' /\ Counted(d)'  BY DEF DocOK, SameText, AllOrNone, Whole, Counted
  <1>5. NotLost(d)'
    <2>1. CASE rows[d] # {}  BY <2>1 DEF NotLost
    <2>2. CASE rows[d] = {} /\ \E m \in Deliveries : task[<<d, m>>].at \in {"insert", "died"}
      <3>1. PICK m \in Deliveries : task[<<d, m>>].at \in {"insert", "died"}  BY <2>2
      <3>2. task'[<<d, m>>].at \in {"insert", "died"}  BY <1>1, <1>2, <2>2, <3>1
      <3>3. QED  BY <3>2 DEF NotLost
    <2>3. CASE /\ doc[d].status # "ready"
               /\ \A m \in Deliveries : task[<<d, m>>].at \notin {"list", "call", "store", "ready"}
      <3>1. ASSUME NEW m \in Deliveries
            PROVE  task'[<<d, m>>].at \notin {"list", "call", "store", "ready"}
        BY <1>1, <1>2, <2>3
      <3>2. QED  BY <2>3, <3>1 DEF NotLost
    <2>4. QED  BY <2>1, <2>2, <2>3 DEF DocOK, NotLost
  <1>6. Alone(d)'
    <2>0. 1 \in Deliveries  BY KnowledgeAssumption DEF Deliveries
    <2>1. SUFFICES ASSUME \A m \in Deliveries : m > 1 => task'[<<d, m>>].at \in {"none", "queued"}
                   PROVE  LET t == task'[<<d, 1>>] IN
                          /\ t.at = "list" => Vectors(d)' = {}
                          /\ t.at \in {"call", "store"} => t.held = rows'[d] /\ Vectors(d)' = {}
                          /\ t.at = "ready" => Cardinality(t.held) = Cardinality(Vectors(d)')
                          /\ doc'[d].status = "ready" =>
                               /\ t.at = "done"
                               /\ doc'[d].embedded = Cardinality(Vectors(d)')
      BY DEF Alone
    <2>2. \A m \in Deliveries : m > 1 => task[<<d, m>>].at \in {"none", "queued"}
      BY <1>1, <1>2, <2>1
    <2>3. Vectors(d)' = Vectors(d)  BY DEF Vectors
    <2>4. /\ task[<<d, 1>>].at = "list" => Vectors(d) = {}
          /\ task[<<d, 1>>].at \in {"call", "store"} =>
               task[<<d, 1>>].held = rows[d] /\ Vectors(d) = {}
          /\ task[<<d, 1>>].at = "ready" => Cardinality(task[<<d, 1>>].held) = Cardinality(Vectors(d))
          /\ doc[d].status = "ready" => /\ task[<<d, 1>>].at = "done"
                                        /\ doc[d].embedded = Cardinality(Vectors(d))
      BY <2>2 DEF DocOK, Alone
    <2>5. CASE n # 1
      <3>1. task'[<<d, 1>>] = task[<<d, 1>>]  BY <1>1, <2>0, <2>5
      <3>2. QED  BY <2>3, <2>4, <3>1 DEF SameText
    <2>6. CASE n = 1
      <3>1. task'[<<d, 1>>].at = step /\ task'[<<d, 1>>].held = held  BY <1>2, <2>6
      <3>2. doc[d].status # "ready"  BY <2>4, <2>6
      <3>3. step = "ready" => Cardinality(held) = Cardinality(Vectors(d))
        BY <2>4, <2>6
      <3>4. QED  BY <2>3, <2>4, <2>6, <3>1, <3>2, <3>3 DEF SameText
    <2>7. QED  BY <2>5, <2>6
  <1>7. QED  BY <1>3, <1>4, <1>5, <1>6 DEF DocOK

\* Tasks that have started, or are about to, are of a document in the database.
LEMMA Known ==
  ASSUME Shapes, NEW d \in Docs, NEW n \in Deliveries, DocOK(d), task[<<d, n>>].at # "none"
  PROVE  /\ doc[d].status # "absent" /\ doc[d].status \in {"pending", "processing", "ready", "failed"}
         /\ task[<<d, n>>].held \in SUBSET Pieces
         /\ task[<<d, n>>].at \notin {"call", "store", "ready"} => task[<<d, n>>].held = {}
         /\ task[<<d, n>>].at \in Cut => doc[d].words \in Nat \ {0}
  <1>1. doc[d] \in DocRows /\ task[<<d, n>>] \in [at : Stages, held : SUBSET Pieces]
    BY DEF Shapes, Tasks
  <1>2. doc[d].status \in {"absent", "pending", "processing", "ready", "failed"}
    BY <1>1 DEF DocRows
  <1>3. QED  BY <1>1, <1>2 DEF DocOK, Fresh, Holding, HasText

\* A statement of the task of one document: what becomes of it.
LEMMA TaskMoves ==
  ASSUME Shapes, NEW d \in Docs, NEW n \in Deliveries, DocOK(d),
         \/ n = 1 /\ Enqueue(d)
         \/ Load(d, n) \/ MarkProcessing(d, n) \/ Extract(d, n) \/ ListChunks(d, n)
         \/ CallProvider(d, n) \/ SaveFailed(d, n) \/ Die(d, n)
  PROVE  DocOK(d)'
  <1> DEFINE at == task[<<d, n>>].at
             held == task[<<d, n>>].held
  <1>0. {"queued", "refused", "done", "mark", "extract", "fail", "clear", "call", "store",
         "ready", "died"} \subseteq Stages /\ {} \in SUBSET Pieces
    BY DEF Stages, Loaded
  <1>1. at # "none" =>
          /\ doc[d].status # "absent" /\ held \in SUBSET Pieces
          /\ at \notin {"call", "store", "ready"} => held = {}
          /\ at \in Cut => doc[d].words \in Nat \ {0}
    BY Known
  <1>2. doc[d] \in DocRows /\ doc \in [Docs -> DocRows]  BY DEF Shapes
  <1>3. ASSUME UNCHANGED <<doc, rows>> PROVE SameText(d) /\ rows'[d] = rows[d] /\ doc'[d] = doc[d]
    BY <1>3 DEF SameText
  <1>4. CASE n = 1 /\ Enqueue(d)
    <2>1. PICK to \in {"queued", "refused"} : Goto(d, 1, to)  BY <1>4 DEF Enqueue
    <2>2. at = "unsent" /\ UNCHANGED <<doc, rows>>  BY <1>4 DEF Enqueue, At
    <2>3. Moved(d, n, to, held)  BY <1>0, <1>4, <2>1, Moves
    <2>4. to \notin Cut  BY DEF Cut
    <2>5. QED  BY <1>0, <1>1, <1>3, <1>4, <2>2, <2>3, <2>4, Quiet
  <1>5. CASE Load(d, n)
    <2>1. at = "queued" /\ UNCHANGED <<doc, rows>>  BY <1>5 DEF Load, At
    <2>2. Done(d, n) \/ Goto(d, n, "mark")  BY <1>5 DEF Load
    <2>3. \E step \in {"done", "mark"} : Moved(d, n, step, {})
      BY <1>0, <1>1, <2>1, <2>2, Moves DEF Done
    <2>4. QED  BY <1>0, <1>1, <1>3, <2>1, <2>3, Quiet DEF Cut
  <1>6. CASE MarkProcessing(d, n)
    <2>1. at = "mark" /\ rows' = rows  BY <1>6 DEF MarkProcessing, At
    <2>2. doc'[d] = [doc[d] EXCEPT !.status = "processing"]  BY <1>2, <1>6 DEF MarkProcessing
    <2>3. doc'[d].status = "processing" /\ SameText(d)
      BY <1>2, <2>2 DEF DocRows, SameText
    <2>4. Moved(d, n, "extract", {})
      BY <1>0, <1>1, <1>6, <2>1, Moves DEF MarkProcessing
    <2>5. QED  BY <1>0, <1>1, <2>1, <2>3, <2>4, Quiet DEF Cut
  <1>7. CASE Extract(d, n)
    <2>1. at = "extract" /\ UNCHANGED <<doc, rows>>  BY <1>7 DEF Extract, At
    <2>2. PICK step \in {"fail", "clear"} :
            Goto(d, n, step)
            /\ (step = "clear" => ~(doc[d].words = Unreadable \/ ChunkText(doc[d].words) = {}))
      BY <1>7 DEF Extract
    <2>3. step = "clear" => doc[d].words \in Nat \ {0}
      <3>1. doc[d].words \in Nat \cup {Unreadable}
        <4>1. doc[d].words \in Lengths \cup {0, Unreadable}  BY <1>2 DEF DocRows
        <4>2. Lengths \subseteq Nat /\ 0 \in Nat  BY KnowledgeAssumption
        <4>3. QED  BY <4>1, <4>2, Zenon
      <3>2. ChunkText(0) = {}  BY DEF ChunkText
      <3>3. QED  BY <2>2, <3>1, <3>2
    <2>4. Moved(d, n, step, {})  BY <1>0, <1>1, <2>1, <2>2, Moves
    <2>5. QED  BY <1>0, <1>1, <1>3, <2>1, <2>3, <2>4, Quiet DEF Cut
  <1>8. CASE ListChunks(d, n)
    <2>1. at = "list" /\ UNCHANGED <<doc, rows>>  BY <1>8 DEF ListChunks, At
    <2>2. rows[d] \in SUBSET Pieces  BY DEF Shapes
    <2>3. Moved(d, n, "call", rows[d])  BY <1>0, <1>8, <2>2, Moves DEF ListChunks
    <2>4. QED  BY <1>0, <1>1, <1>3, <2>1, <2>3, Quiet DEF Cut
  <1>9. CASE CallProvider(d, n)
    <2>1. at = "call" /\ UNCHANGED <<doc, rows>>  BY <1>9 DEF CallProvider, At
    <2>2. \/ Goto(d, n, "store")
          \/ \E step \in {"ready", "fail"} :
               task' = [task EXCEPT ![<<d, n>>] = [at |-> step, held |-> {}]]
      BY <1>9 DEF CallProvider
    <2>3. Moved(d, n, "store", held) \/ Moved(d, n, "ready", {}) \/ Moved(d, n, "fail", {})
      BY <1>0, <1>1, <2>1, <2>2, Moves
    <2>4. CASE Moved(d, n, "store", held)
      BY <1>0, <1>1, <1>3, <2>1, <2>4, Quiet DEF Cut
    <2>5. CASE Moved(d, n, "ready", {})
      BY <1>0, <1>1, <1>3, <2>1, <2>5, Quiet DEF Cut
    <2>6. CASE Moved(d, n, "fail", {})
      BY <1>0, <1>1, <1>3, <2>1, <2>6, Quiet DEF Cut
    <2>7. QED  BY <2>3, <2>4, <2>5, <2>6
  <1>10. CASE SaveFailed(d, n)
    <2>1. at = "fail" /\ rows' = rows  BY <1>10 DEF SaveFailed, At
    <2>2. doc'[d] = [doc[d] EXCEPT !.status = "failed"]  BY <1>2, <1>10 DEF SaveFailed
    <2>3. doc'[d].status = "failed" /\ SameText(d)
      BY <1>2, <2>2 DEF DocRows, SameText
    <2>4. Moved(d, n, "done", {})
      BY <1>0, <1>1, <1>10, <2>1, Moves DEF SaveFailed, Done
    <2>5. QED  BY <1>0, <1>1, <2>1, <2>3, <2>4, Quiet DEF Cut
  <1>11. CASE Die(d, n)
    <2>1. at \in Loaded /\ UNCHANGED <<doc, rows>>  BY <1>11 DEF Die
    <2>2. at \notin {"none", "died", "done"}  BY <2>1 DEF Loaded
    <2>3. Moved(d, n, "died", {})  BY <1>0, <1>11, Moves DEF Die
    <2>4. QED  BY <1>0, <1>1, <1>3, <2>1, <2>2, <2>3, Quiet DEF Cut
  <1>12. QED  BY <1>4, <1>5, <1>6, <1>7, <1>8, <1>9, <1>10, <1>11

LEMMA RedeliverDoc ==
  ASSUME Shapes, NEW d \in Docs, NEW n \in Deliveries, DocOK(d), Redeliver(d, n)
  PROVE  DocOK(d)'
  <1>1. /\ n + 1 \in Deliveries /\ n + 1 # 1
        /\ task[<<d, n + 1>>].at = "none" /\ task[<<d, n>>].at = "queued"
        /\ UNCHANGED <<doc, rows>>
    BY DEF Redeliver, At, Deliveries
  <1>2. Moved(d, n + 1, "queued", task[<<d, n + 1>>].held)
    <2>1. "queued" \in Stages  BY DEF Stages
    <2>2. QED  BY <1>1, <2>1, Moves DEF Redeliver
  <1>3. doc[d].status # "absent"  BY <1>1, Known
  <1>4. task[<<d, n + 1>>].held = {}  BY <1>1 DEF DocOK, Holding
  <1>5. "queued" \in Stages /\ "queued" \notin Cut  BY DEF Stages, Cut
  <1>6. SameText(d) /\ rows'[d] = rows[d] /\ doc'[d].status = doc[d].status
    BY <1>1 DEF SameText
  <1>7. QED  BY <1>1, <1>2, <1>3, <1>4, <1>5, <1>6, Quiet

LEMMA DeleteDoc ==
  ASSUME Shapes, NEW d \in Docs, DocOK(d), Delete(d)
  PROVE  DocOK(d)'
  <1>1. doc[d] \in DocRows /\ doc'[d] = [doc[d] EXCEPT !.deleted = TRUE]
    BY DEF Shapes, Delete
  <1>2. SameText(d) /\ doc'[d].status = doc[d].status  BY <1>1 DEF DocRows, SameText
  <1>3. QED  BY <1>2, Elsewhere DEF Delete

LEMMA UploadDoc ==
  ASSUME Shapes, NEW d \in Docs, DocOK(d), Upload(d)
  PROVE  DocOK(d)'
  <1>0. 1 \in Deliveries  BY KnowledgeAssumption DEF Deliveries
  <1>1. /\ rows[d] = {} /\ rows'[d] = {}
        /\ \A n \in Deliveries : task[<<d, n>>].at = "none" /\ task[<<d, n>>].held = {}
    BY DEF DocOK, Fresh, Holding, Upload
  <1>2. doc'[d].status = "pending"
    <2>1. doc[d] \in DocRows  BY DEF Shapes
    <2>2. PICK k : doc' = [doc EXCEPT ![d].status = "pending", ![d].words = k]
      BY DEF Upload
    <2>3. QED  BY <2>1, <2>2 DEF Shapes, DocRows
  <1>3. Moved(d, 1, "unsent", {})
    <2>1. "unsent" \in Stages  BY DEF Stages
    <2>2. Goto(d, 1, "unsent")  BY DEF Upload, Goto
    <2>3. QED  BY <1>0, <1>1, <2>1, <2>2, Moves
  <1>4. \A n \in Deliveries : task'[<<d, n>>].at \in {"none", "unsent"} /\ task'[<<d, n>>].held = {}
    <2>1. \A n \in Deliveries \ {1} : task'[<<d, n>>] = task[<<d, n>>]
      BY <1>3 DEF Moved, Tasks
    <2>2. task'[<<d, 1>>].at = "unsent" /\ task'[<<d, 1>>].held = {}  BY <1>3 DEF Moved
    <2>3. QED  BY <1>1, <2>1, <2>2
  <1>5. Fresh(d)' /\ Holding(d)' /\ Counted(d)' /\ AllOrNone(d)' /\ NotLost(d)'
    BY <1>1, <1>2, <1>4 DEF Fresh, Holding, Counted, AllOrNone, NotLost
  <1>6. HasText(d)'  BY <1>1, <1>4 DEF HasText, Cut
  <1>7. Alone(d)'  BY <1>0, <1>2, <1>4 DEF Alone
  <1>8. QED  BY <1>5, <1>6, <1>7 DEF DocOK

LEMMA ClearDoc ==
  ASSUME Shapes, NEW d \in Docs, NEW n \in Deliveries, DocOK(d), ClearChunks(d, n)
  PROVE  DocOK(d)'
  <1>0. 1 \in Deliveries  BY KnowledgeAssumption DEF Deliveries
  <1>1. task[<<d, n>>].at = "clear" /\ rows'[d] = {} /\ doc' = doc
    BY DEF ClearChunks, At, Shapes
  <1>2. doc[d].status # "absent" /\ doc[d].words \in Nat \ {0} /\ task[<<d, n>>].held = {}
    BY <1>1, Known DEF Cut
  <1>3. Moved(d, n, "insert", {}) /\ "insert" \in Stages
    <2>1. "insert" \in Stages  BY DEF Stages, Loaded
    <2>2. QED  BY <1>2, <2>1, Moves DEF ClearChunks
  <1>4. Fresh(d)' /\ HasText(d)' /\ Holding(d)'  BY <1>1, <1>2, <1>3, Still
  <1>5. AllOrNone(d)' /\ Counted(d)'  BY <1>1 DEF DocOK, AllOrNone, Counted
  <1>6. task'[<<d, n>>].at = "insert" /\ \A m \in Deliveries \ {n} : task'[<<d, m>>] = task[<<d, m>>]
    BY <1>3 DEF Moved, Tasks
  <1>7. NotLost(d)'  BY <1>6 DEF NotLost
  <1>8. Alone(d)'
    <2>1. SUFFICES ASSUME \A m \in Deliveries : m > 1 => task'[<<d, m>>].at \in {"none", "queued"}
                   PROVE  n = 1 /\ doc[d].status # "ready"
      BY <1>1, <1>6 DEF Alone
    <2>2. n = 1  BY <1>6, <2>1 DEF Deliveries
    <2>3. \A m \in Deliveries : m > 1 => task[<<d, m>>].at \in {"none", "queued"}
      BY <1>6, <2>1, <2>2
    <2>4. QED  BY <1>1, <2>2, <2>3 DEF DocOK, Alone
  <1>9. QED  BY <1>4, <1>5, <1>7, <1>8 DEF DocOK

\* bulk_create inserts every window, once.
LEMMA InsertDoc ==
  ASSUME Shapes, NEW d \in Docs, NEW n \in Deliveries, DocOK(d), InsertChunks(d, n)
  PROVE  DocOK(d)' /\ rows'[d] \in SUBSET Pieces /\ IsFiniteSet(rows'[d])
  <1>0. 1 \in Deliveries  BY KnowledgeAssumption DEF Deliveries
  <1>1. task[<<d, n>>].at = "insert" /\ doc' = doc
    BY DEF InsertChunks, At
  <1>2. doc[d].status # "absent" /\ doc[d].words \in Nat \ {0} /\ task[<<d, n>>].held = {}
    BY <1>1, Known DEF Cut
  <1>3. {"fail", "list", "ready"} \subseteq Stages /\ "fail" \notin Cut  BY DEF Stages, Loaded, Cut
  <1>4. CASE rows[d] # {} /\ Goto(d, n, "fail") /\ UNCHANGED rows
    <2>1. Moved(d, n, "fail", {})  BY <1>2, <1>3, <1>4, Moves
    <2>2. SameText(d) /\ rows'[d] = rows[d] /\ doc'[d].status = doc[d].status
      BY <1>1, <1>4 DEF SameText
    <2>3. DocOK(d)'  BY <1>1, <1>2, <1>3, <1>4, <2>1, <2>2, Quiet
    <2>4. QED  BY <2>2, <2>3 DEF Shapes
  <1>5. CASE /\ rows' = [rows EXCEPT ![d] =
                   {[by |-> n, from |-> w.from, to |-> w.to, vector |-> FALSE] :
                      w \in ChunkText(doc[d].words)}]
             /\ Goto(d, n, IF provider.on THEN "list" ELSE "ready")
    <2>0. PICK C : C = ChunkText(doc[d].words)  OBVIOUS
    <2>00. /\ C # {} /\ IsFiniteSet(C)
           /\ \A w \in C : w = [from |-> w.from, to |-> w.to] /\ w.from \in Nat /\ w.to \in Nat
      BY <1>2, <2>0, Windows
    <2>1. rows'[d] = {[by |-> n, from |-> w.from, to |-> w.to, vector |-> FALSE] : w \in C}
      BY <1>5, <2>0 DEF Shapes
    <2>2. PICK step \in {"list", "ready"} : Moved(d, n, step, {})
      BY <1>2, <1>3, <1>5, Moves
    <2>3. task'[<<d, n>>].at = step /\ task'[<<d, n>>].held = {}
          /\ \A m \in Deliveries \ {n} : task'[<<d, m>>] = task[<<d, m>>]
      BY <2>2 DEF Moved, Tasks
    <2>4. Fresh(d)' /\ HasText(d)' /\ Holding(d)'  BY <1>1, <1>2, <1>3, <2>2, Still
    <2>5. \A c \in rows'[d] : c.vector = FALSE  BY <2>1
    <2>6. rows'[d] \in SUBSET Pieces
      <3>1. ASSUME NEW w \in C
            PROVE  [by |-> n, from |-> w.from, to |-> w.to, vector |-> FALSE] \in Pieces
        <4>1. w.from \in Nat /\ w.to \in Nat /\ n \in Deliveries /\ FALSE \in BOOLEAN  BY <2>00
        <4>2. QED  BY <4>1 DEF Pieces
      <3>2. QED  BY <2>1, <3>1
    <2>7. IsFiniteSet(rows'[d])
      <3>1. PICK f : f = [w \in C |-> [by |-> n, from |-> w.from, to |-> w.to, vector |-> FALSE]]
        OBVIOUS
      <3>2. f \in Surjection(C, rows'[d])  BY <2>1, <3>1 DEF Surjection
      <3>3. QED  BY <2>00, <3>2, FS_Surjection
    <2>8. Whole(d)'
      <3>1. {Span(c) : c \in rows'[d]} = C
        <4>1. ASSUME NEW w \in C PROVE \E c \in rows'[d] : Span(c) = w
          <5>1. PICK c : c = [by |-> n, from |-> w.from, to |-> w.to, vector |-> FALSE]  OBVIOUS
          <5>2. c \in rows'[d] /\ Span(c) = w  BY <2>00, <2>1, <5>1 DEF Span
          <5>3. QED  BY <5>2
        <4>2. \A c \in rows'[d] : Span(c) \in C  BY <2>00, <2>1 DEF Span
        <4>3. QED  BY <4>1, <4>2
      <3>2. ASSUME NEW c \in rows'[d], NEW e \in rows'[d], Span(c) = Span(e) PROVE c = e
        <4>1. PICK w \in C : c = [by |-> n, from |-> w.from, to |-> w.to, vector |-> FALSE]
          BY <2>1
        <4>2. PICK v \in C : e = [by |-> n, from |-> v.from, to |-> v.to, vector |-> FALSE]
          BY <2>1
        <4>3. w.from = v.from /\ w.to = v.to  BY <3>2, <4>1, <4>2 DEF Span
        <4>4. QED  BY <4>1, <4>2, <4>3
      <3>3. QED  BY <1>1, <2>0, <3>1, <3>2 DEF Whole
    <2>9. AllOrNone(d)' /\ Counted(d)'  BY <1>1, <2>8 DEF DocOK, AllOrNone, Counted
    <2>10. NotLost(d)'
      <3>1. PICK w \in C : TRUE  BY <2>00
      <3>2. rows'[d] # {}  BY <2>1, <3>1
      <3>3. QED  BY <3>2 DEF NotLost
    <2>11. Alone(d)'
      <3>1. SUFFICES ASSUME \A m \in Deliveries : m > 1 => task'[<<d, m>>].at \in {"none", "queued"}
                     PROVE  n = 1 /\ doc[d].status # "ready"
        <4>1. Vectors(d)' = {}  BY <2>5 DEF Vectors
        <4>2. QED  BY <1>1, <2>3, <3>1, <4>1 DEF Alone
      <3>2. n = 1  BY <2>3, <3>1 DEF Deliveries
      <3>3. \A m \in Deliveries : m > 1 => task[<<d, m>>].at \in {"none", "queued"}
        BY <2>3, <3>1, <3>2
      <3>4. QED  BY <1>1, <3>2, <3>3 DEF DocOK, Alone
    <2>12. QED  BY <2>4, <2>6, <2>7, <2>9, <2>10, <2>11 DEF DocOK
  <1>6. QED  BY <1>4, <1>5 DEF InsertChunks

\* As many chunks as windows.
LEMMA AsMany ==
  ASSUME NEW R, NEW C, IsFiniteSet(R), {Span(c) : c \in R} = C,
         \A c, e \in R : Span(c) = Span(e) => c = e
  PROVE  Cardinality(R) = Cardinality(C)
  <1>1. PICK f : f = [c \in R |-> Span(c)]  OBVIOUS
  <1>2. f \in Surjection(R, C) /\ f \in Injection(R, C)
    <2>1. f \in [R -> C] /\ \A w \in C : \E c \in R : f[c] = w  BY <1>1
    <2>2. \A c, e \in R : f[c] = f[e] => c = e  BY <1>1
    <2>3. QED  BY <2>1, <2>2 DEF Surjection, Injection, IsInjective
  <1>3. QED  BY <1>2, FS_Surjection

\* bulk_update keeps the windows.
LEMMA StoreDoc ==
  ASSUME Shapes, Shapes', NEW d \in Docs, NEW n \in Deliveries, DocOK(d), StoreVectors(d, n)
  PROVE  DocOK(d)'
  <1>0. 1 \in Deliveries  BY KnowledgeAssumption DEF Deliveries
  <1>1. task[<<d, n>>].at = "store" /\ doc' = doc
    BY DEF StoreVectors, At
  <1>2. /\ doc[d].status # "absent" /\ doc[d].words \in Nat \ {0}
        /\ task[<<d, n>>].held \in SUBSET Pieces
    BY <1>1, Known DEF Cut
  <1>3. PICK H, R : H = task[<<d, n>>].held /\ R = rows[d]  OBVIOUS
  <1>4. rows'[d] = {[c EXCEPT !.vector = @ \/ c \in H] : c \in R} /\ R \subseteq Pieces
    BY <1>3 DEF StoreVectors, Shapes
  <1>5. Moved(d, n, "ready", H)
    <2>1. "ready" \in Stages  BY DEF Stages, Loaded
    <2>2. QED  BY <1>3, <2>1, Moves DEF StoreVectors
  <1>6. task'[<<d, n>>].at = "ready" /\ task'[<<d, n>>].held = H
        /\ \A m \in Deliveries \ {n} : task'[<<d, m>>] = task[<<d, m>>]
    BY <1>5 DEF Moved, Tasks
  <1>7. Fresh(d)' /\ HasText(d)' /\ Holding(d)'
    <2>1. "ready" \in Stages  BY DEF Stages, Loaded
    <2>2. QED  BY <1>1, <1>2, <1>5, <2>1, Still
  <1>8. ASSUME NEW c \in R
        PROVE  LET e == [c EXCEPT !.vector = @ \/ c \in H]
               IN  e \in rows'[d] /\ Span(e) = Span(c) /\ (c \in H => e.vector)
    <2>1. c \in [by : Deliveries, from : Nat, to : Nat, vector : BOOLEAN]  BY <1>4 DEF Pieces
    <2>2. PICK v : v = (c.vector \/ c \in H)  OBVIOUS
    <2>3. PICK e : e = [c EXCEPT !.vector = v]  OBVIOUS
    <2>4. e.from = c.from /\ e.to = c.to /\ e.vector = v  BY <2>1, <2>3
    <2>5. e = [c EXCEPT !.vector = @ \/ c \in H]  BY <2>2, <2>3, Zenon
    <2>6. e \in rows'[d]  BY <1>4, <2>5, Zenon
    <2>7. Span(e) = Span(c)  BY <2>4 DEF Span
    <2>8. c \in H => e.vector  BY <2>2, <2>4, Zenon
    <2>9. QED  BY <2>5, <2>6, <2>7, <2>8, Zenon
  <1>80. \A e \in rows'[d] : \E c \in R : e = [c EXCEPT !.vector = @ \/ c \in H]
    BY <1>4, Zenon
  <1>9. AllOrNone(d)'
    <2>1. CASE R = {}  BY <1>4, <2>1 DEF AllOrNone
    <2>2. CASE Whole(d)
      <3>1. {Span(e) : e \in rows'[d]} = {Span(c) : c \in R}
        <4>1. ASSUME NEW e \in rows'[d] PROVE \E c \in R : Span(e) = Span(c)
          <5>1. PICK c \in R : e = [c EXCEPT !.vector = @ \/ c \in H]  BY <1>80
          <5>2. QED  BY <1>8, <5>1
        <4>2. \A c \in R : \E e \in rows'[d] : Span(e) = Span(c)  BY <1>8, Zenon
        <4>3. QED  BY <4>1, <4>2
      <3>2. ASSUME NEW e \in rows'[d], NEW f \in rows'[d], Span(e) = Span(f) PROVE e = f
        <4>1. PICK c \in R : e = [c EXCEPT !.vector = @ \/ c \in H]  BY <1>4
        <4>2. PICK b \in R : f = [b EXCEPT !.vector = @ \/ b \in H]  BY <1>4
        <4>3. Span(c) = Span(b)  BY <1>8, <3>2, <4>1, <4>2
        <4>4. c = b  BY <1>3, <2>2, <4>3 DEF Whole
        <4>5. QED  BY <4>1, <4>2, <4>4
      <3>3. QED  BY <1>1, <1>3, <2>2, <3>1, <3>2 DEF AllOrNone, Whole
    <2>3. QED  BY <1>3, <2>1, <2>2 DEF DocOK, AllOrNone
  <1>10. Counted(d)'  BY <1>1 DEF DocOK, Counted
  <1>11. NotLost(d)'
    <2>1. CASE R # {}
      <3>1. PICK c \in R : TRUE  BY <2>1
      <3>2. rows'[d] # {}  BY <1>4, <3>1
      <3>3. QED  BY <3>2 DEF NotLost
    <2>2. CASE R = {}
      <3>1. PICK m \in Deliveries : task[<<d, m>>].at \in {"insert", "died"}
        BY <1>1, <1>3, <2>2 DEF DocOK, NotLost
      <3>2. task'[<<d, m>>].at \in {"insert", "died"}  BY <1>1, <1>6, <3>1
      <3>3. QED  BY <3>2 DEF NotLost
    <2>3. QED  BY <2>1, <2>2
  <1>12. Alone(d)'
    <2>1. SUFFICES ASSUME \A m \in Deliveries : m > 1 => task'[<<d, m>>].at \in {"none", "queued"}
                   PROVE  /\ n = 1 /\ doc[d].status # "ready"
                          /\ Cardinality(H) = Cardinality(Vectors(d)')
      BY <1>1, <1>6 DEF Alone
    <2>2. n = 1  BY <1>6, <2>1 DEF Deliveries
    <2>3. \A m \in Deliveries : m > 1 => task[<<d, m>>].at \in {"none", "queued"}
      BY <1>6, <2>1, <2>2
    <2>4. H = R /\ doc[d].status # "ready"  BY <1>1, <1>3, <2>2, <2>3 DEF DocOK, Alone
    <2>5. Vectors(d)' = rows'[d]
      <3>1. ASSUME NEW e \in rows'[d] PROVE e.vector
        <4>1. PICK c \in R : e = [c EXCEPT !.vector = @ \/ c \in H]  BY <1>4
        <4>2. QED  BY <1>8, <2>4, <4>1
      <3>2. QED  BY <3>1 DEF Vectors
    <2>6. Cardinality(rows'[d]) = Cardinality(R)
      <3>1. CASE R = {}
        <4>1. rows'[d] = {}  BY <1>4, <3>1
        <4>2. QED  BY <3>1, <4>1
      <3>2. CASE R # {}
        <4>1. Whole(d)  BY <1>3, <3>2 DEF DocOK, AllOrNone
        <4>2. PICK c \in R : TRUE  BY <3>2
        <4>3. rows'[d] # {}  BY <1>4, <4>2
        <4>4. Whole(d)'  BY <1>9, <4>3 DEF AllOrNone
        <4>5. IsFiniteSet(rows[d]) /\ IsFiniteSet(rows'[d])  BY DEF Shapes
        <4>6. Cardinality(rows[d]) = Cardinality(ChunkText(doc[d].words))
          BY <4>1, <4>5, AsMany DEF Whole
        <4>7. Cardinality(rows'[d]) = Cardinality(ChunkText(doc[d].words))
          BY <1>1, <4>4, <4>5, AsMany DEF Whole
        <4>8. QED  BY <1>3, <4>6, <4>7
      <3>3. QED  BY <3>1, <3>2
    <2>7. QED  BY <2>2, <2>4, <2>5, <2>6
  <1>13. QED  BY <1>7, <1>9, <1>10, <1>11, <1>12 DEF DocOK

LEMMA ReadyDoc ==
  ASSUME Shapes, NEW d \in Docs, NEW n \in Deliveries, DocOK(d), SaveReady(d, n)
  PROVE  DocOK(d)'
  <1>0. 1 \in Deliveries  BY KnowledgeAssumption DEF Deliveries
  <1>1. task[<<d, n>>].at = "ready" /\ rows' = rows  BY DEF SaveReady, At
  <1>2. doc[d].status # "absent" /\ doc[d].words \in Nat \ {0}  BY <1>1, Known DEF Cut
  <1>3. /\ doc'[d].status = "ready" /\ doc'[d].words = doc[d].words
        /\ doc'[d].chunks = Cardinality(ChunkText(doc[d].words))
        /\ doc'[d].embedded = Cardinality(task[<<d, n>>].held)
    <2>1. doc[d] \in DocRows  BY DEF Shapes
    <2>2. doc'[d] = [doc[d] EXCEPT !.status = "ready",
                                   !.chunks = Cardinality(ChunkText(doc[d].words)),
                                   !.embedded = Cardinality(task[<<d, n>>].held)]
      BY DEF Shapes, SaveReady
    <2>3. QED  BY <2>1, <2>2 DEF DocRows
  <1>4. Moved(d, n, "done", {}) /\ "done" \in Stages
    <2>1. "done" \in Stages  BY DEF Stages
    <2>2. QED  BY <2>1, Moves DEF SaveReady, Done
  <1>5. task'[<<d, n>>].at = "done" /\ \A m \in Deliveries \ {n} : task'[<<d, m>>] = task[<<d, m>>]
    BY <1>4 DEF Moved, Tasks
  <1>6. Fresh(d)' /\ HasText(d)' /\ Holding(d)'
    <2>1. "done" \notin Cut  BY DEF Cut
    <2>2. QED  BY <1>2, <1>3, <1>4, <2>1, Still
  <1>7. AllOrNone(d)' /\ Counted(d)'
    BY <1>1, <1>2, <1>3 DEF DocOK, AllOrNone, Whole, Counted
  <1>8. NotLost(d)'
    <2>1. CASE rows[d] # {}  BY <1>1, <2>1 DEF NotLost
    <2>2. CASE rows[d] = {}
      <3>1. PICK m \in Deliveries : task[<<d, m>>].at \in {"insert", "died"}
        BY <1>1, <2>2 DEF DocOK, NotLost
      <3>2. task'[<<d, m>>].at \in {"insert", "died"}  BY <1>1, <1>5, <3>1
      <3>3. QED  BY <3>2 DEF NotLost
    <2>3. QED  BY <2>1, <2>2
  <1>9. Alone(d)'
    <2>1. SUFFICES ASSUME \A m \in Deliveries : m > 1 => task'[<<d, m>>].at \in {"none", "queued"}
                   PROVE  n = 1 /\ Cardinality(task[<<d, n>>].held) = Cardinality(Vectors(d)')
      BY <1>3, <1>5 DEF Alone
    <2>2. n = 1  BY <1>5, <2>1 DEF Deliveries
    <2>3. \A m \in Deliveries : m > 1 => task[<<d, m>>].at \in {"none", "queued"}
      BY <1>5, <2>1, <2>2
    <2>4. Cardinality(task[<<d, 1>>].held) = Cardinality(Vectors(d))
      BY <1>1, <2>2, <2>3 DEF DocOK, Alone
    <2>5. Vectors(d)' = Vectors(d)  BY <1>1 DEF Vectors
    <2>6. QED  BY <2>2, <2>4, <2>5
  <1>10. QED  BY <1>6, <1>7, <1>8, <1>9 DEF DocOK

(***************************************************************************)
(* Types                                                                   *)
(***************************************************************************)
DocsOK == \A d \in Docs : DocOK(d)

\* The statements that write to one document, and the others.
OfTask(d, n) ==
  \/ n = 1 /\ Enqueue(d)
  \/ Load(d, n) \/ MarkProcessing(d, n) \/ Extract(d, n) \/ ListChunks(d, n)
  \/ CallProvider(d, n) \/ SaveFailed(d, n) \/ Die(d, n)
Writes(d, n) ==
  \/ OfTask(d, n) \/ Redeliver(d, n) \/ ClearChunks(d, n) \/ InsertChunks(d, n)
  \/ StoreVectors(d, n) \/ SaveReady(d, n)
Asking ==
  \/ \E d \in Docs : \E word \in 0..(doc[d].words - 1) : Ask(d, word)
  \/ Answer \/ Prompt \/ Reconfigure

LEMMA Split ==
  ASSUME [Next]_vars
  PROVE  \/ \E d \in Docs : Upload(d) \/ Delete(d) \/ \E n \in Deliveries : Writes(d, n)
         \/ Asking \/ UNCHANGED vars
  <1>0. 1 \in Deliveries  BY KnowledgeAssumption DEF Deliveries
  <1>1. QED  BY <1>0 DEF Next, Process, Writes, OfTask, Asking

\* Nothing but a document's own statements writes to it.
LEMMA Own ==
  ASSUME Shapes, NEW d \in Docs, NEW n \in Deliveries,
         Upload(d) \/ Delete(d) \/ Writes(d, n), NEW e \in Docs \ {d}
  PROVE  /\ doc'[e] = doc[e] /\ rows'[e] = rows[e]
         /\ \A m \in Deliveries : task'[<<e, m>>] = task[<<e, m>>]
  <1>0. /\ doc \in [Docs -> DocRows] /\ rows \in [Docs -> SUBSET Pieces]
        /\ task \in [Tasks -> [at : Stages, held : SUBSET Pieces]]
    BY DEF Shapes
  <1>1. doc' = doc \/ \E v : doc' = [doc EXCEPT ![d] = v]
    BY DEF Upload, Delete, Writes, OfTask, Enqueue, Load, MarkProcessing, Extract, ListChunks,
           CallProvider, SaveFailed, Die, Redeliver, ClearChunks, InsertChunks, StoreVectors, SaveReady
  <1>2. rows' = rows \/ \E v : rows' = [rows EXCEPT ![d] = v]
    BY DEF Upload, Delete, Writes, OfTask, Enqueue, Load, MarkProcessing, Extract, ListChunks,
           CallProvider, SaveFailed, Die, Redeliver, ClearChunks, InsertChunks, StoreVectors, SaveReady
  <1>3. task' = task \/ \E m, v : task' = [task EXCEPT ![<<d, m>>] = v]
    BY DEF Upload, Delete, Writes, OfTask, Enqueue, Load, MarkProcessing, Extract, ListChunks,
           CallProvider, SaveFailed, Die, Redeliver, ClearChunks, InsertChunks, StoreVectors, SaveReady,
           Goto, Done
  <1>4. \A m, k \in Deliveries : <<e, m>> \in Tasks /\ \A x : <<e, m>> # <<d, x>>  BY DEF Tasks
  <1>5. QED  BY <1>0, <1>1, <1>2, <1>3, <1>4

LEMMA DocType ==
  ASSUME Shapes, NEW d \in Docs, DocOK(d),
         Upload(d) \/ Delete(d) \/ \E n \in Deliveries : Writes(d, n)
  PROVE  doc' \in [Docs -> DocRows]
  <1>0. doc \in [Docs -> DocRows] /\ doc[d] \in DocRows  BY DEF Shapes
  <1>1. CASE Upload(d)
    <2>1. PICK k \in Lengths \cup {Unreadable} :
            doc' = [doc EXCEPT ![d].status = "pending", ![d].words = k]
      BY <1>1 DEF Upload
    <2>2. [doc[d] EXCEPT !.status = "pending", !.words = k] \in DocRows  BY <1>0 DEF DocRows
    <2>3. QED  BY <1>0, <2>1, <2>2
  <1>2. CASE Delete(d)
    <2>1. [doc[d] EXCEPT !.deleted = TRUE] \in DocRows  BY <1>0 DEF DocRows
    <2>2. QED  BY <1>0, <1>2, <2>1 DEF Delete
  <1>3. ASSUME NEW n \in Deliveries, Writes(d, n) PROVE doc' \in [Docs -> DocRows]
    <2>1. CASE MarkProcessing(d, n)
      <3>1. [doc[d] EXCEPT !.status = "processing"] \in DocRows  BY <1>0 DEF DocRows
      <3>2. QED  BY <1>0, <2>1, <3>1 DEF MarkProcessing
    <2>2. CASE SaveFailed(d, n)
      <3>1. [doc[d] EXCEPT !.status = "failed"] \in DocRows  BY <1>0 DEF DocRows
      <3>2. QED  BY <1>0, <2>2, <3>1 DEF SaveFailed
    <2>3. CASE SaveReady(d, n)
      <3>1. PICK k, h : /\ k = Cardinality(ChunkText(doc[d].words))
                        /\ h = Cardinality(task[<<d, n>>].held)
        OBVIOUS
      <3>2. k \in Nat /\ h \in Nat
        <4>1. task[<<d, n>>].at = "ready"  BY <2>3 DEF SaveReady, At
        <4>2. doc[d].words \in Nat \ {0}  BY <4>1, Known DEF Cut
        <4>3. IsFiniteSet(ChunkText(doc[d].words))  BY <4>2, Windows
        <4>4. IsFiniteSet(task[<<d, n>>].held)  BY DEF Shapes, Tasks
        <4>5. QED  BY <3>1, <4>3, <4>4, FS_CardinalityType
      <3>3. doc' = [doc EXCEPT ![d].status = "ready", ![d].chunks = k, ![d].embedded = h]
        BY <2>3, <3>1 DEF SaveReady
      <3>4. [doc[d] EXCEPT !.status = "ready", !.chunks = k, !.embedded = h] \in DocRows
        BY <1>0, <3>2 DEF DocRows
      <3>5. QED  BY <1>0, <3>3, <3>4
    <2>4. CASE doc' = doc  BY <1>0, <2>4
    <2>5. QED
      BY <1>3, <2>1, <2>2, <2>3, <2>4
      DEF Writes, OfTask, Enqueue, Load, Extract, ListChunks, CallProvider, Die, Redeliver,
          ClearChunks, InsertChunks, StoreVectors
  <1>4. QED  BY <1>1, <1>2, <1>3

LEMMA RowsType ==
  ASSUME Shapes, NEW d \in Docs, DocOK(d),
         Upload(d) \/ Delete(d) \/ \E n \in Deliveries : Writes(d, n)
  PROVE  rows' \in [Docs -> SUBSET Pieces] /\ \A e \in Docs : IsFiniteSet(rows'[e])
  <1>0. /\ rows \in [Docs -> SUBSET Pieces] /\ rows[d] \subseteq Pieces
        /\ \A e \in Docs : IsFiniteSet(rows[e])
    BY DEF Shapes
  <1>1. ASSUME NEW R \in SUBSET Pieces, IsFiniteSet(R), rows' = [rows EXCEPT ![d] = R]
        PROVE  rows' \in [Docs -> SUBSET Pieces] /\ \A e \in Docs : IsFiniteSet(rows'[e])
    BY <1>0, <1>1
  <1>2. CASE rows' = rows  BY <1>0, <1>2
  <1>3. ASSUME NEW n \in Deliveries, ClearChunks(d, n)
        PROVE  rows' \in [Docs -> SUBSET Pieces] /\ \A e \in Docs : IsFiniteSet(rows'[e])
    <2>1. {} \in SUBSET Pieces /\ IsFiniteSet({})  BY FS_EmptySet
    <2>2. QED  BY <1>1, <1>3, <2>1 DEF ClearChunks
  <1>4. ASSUME NEW n \in Deliveries, InsertChunks(d, n)
        PROVE  rows' \in [Docs -> SUBSET Pieces] /\ \A e \in Docs : IsFiniteSet(rows'[e])
    <2>1. rows'[d] \in SUBSET Pieces /\ IsFiniteSet(rows'[d])  BY <1>4, InsertDoc
    <2>2. rows' = rows \/ \E R : rows' = [rows EXCEPT ![d] = R]  BY <1>4 DEF InsertChunks
    <2>3. rows' = rows \/ rows' = [rows EXCEPT ![d] = rows'[d]]  BY <1>0, <2>2
    <2>4. QED  BY <1>1, <1>2, <2>1, <2>3
  <1>5. ASSUME NEW n \in Deliveries, StoreVectors(d, n)
        PROVE  rows' \in [Docs -> SUBSET Pieces] /\ \A e \in Docs : IsFiniteSet(rows'[e])
    <2>1. PICK H, R : H = task[<<d, n>>].held /\ R = rows[d]  OBVIOUS
    <2>2. PICK f : f = [c \in R |-> [c EXCEPT !.vector = @ \/ c \in H]]  OBVIOUS
    <2>3. PICK S : S = {[c EXCEPT !.vector = @ \/ c \in H] : c \in R}  OBVIOUS
    <2>4. rows' = [rows EXCEPT ![d] = S]  BY <1>5, <2>1, <2>3 DEF StoreVectors
    <2>5. \A c \in R : [c EXCEPT !.vector = @ \/ c \in H] \in Pieces
      <3>1. ASSUME NEW c \in R PROVE [c EXCEPT !.vector = @ \/ c \in H] \in Pieces
        <4>1. c \in [by : Deliveries, from : Nat, to : Nat, vector : BOOLEAN]
          BY <1>0, <2>1 DEF Pieces
        <4>2. PICK v \in BOOLEAN : v = (c.vector \/ c \in H)  BY Zenon
        <4>3. [c EXCEPT !.vector = v] \in Pieces  BY <4>1 DEF Pieces
        <4>4. QED  BY <4>2, <4>3, Zenon
      <3>2. QED  BY <3>1
    <2>6. S \in SUBSET Pieces  BY <2>3, <2>5, Zenon
    <2>7. f \in Surjection(R, S)
      <3>1. \A c \in R : f[c] \in S  BY <2>2, <2>3, Zenon
      <3>2. \A x \in S : \E c \in R : f[c] = x  BY <2>2, <2>3, Zenon
      <3>3. f \in [R -> S]  BY <2>2, <3>1
      <3>4. QED  BY <3>2, <3>3 DEF Surjection
    <2>8. IsFiniteSet(S)  BY <1>0, <2>1, <2>7, FS_Surjection
    <2>9. QED  BY <1>1, <2>4, <2>6, <2>8
  <1>6. QED
    BY <1>2, <1>3, <1>4, <1>5
    DEF Writes, OfTask, Enqueue, Load, Extract, ListChunks, CallProvider, Die, Redeliver,
        MarkProcessing, SaveReady, SaveFailed, Upload, Delete

LEMMA TaskType ==
  ASSUME Shapes, NEW d \in Docs, DocOK(d),
         Upload(d) \/ Delete(d) \/ \E n \in Deliveries : Writes(d, n)
  PROVE  /\ task' \in [Tasks -> [at : Stages, held : SUBSET Pieces]]
         /\ \A t \in Tasks : IsFiniteSet(task'[t].held)
  <1>0. /\ task \in [Tasks -> [at : Stages, held : SUBSET Pieces]]
        /\ \A t \in Tasks : IsFiniteSet(task[t].held) /\ task[t].held \in SUBSET Pieces
        /\ rows[d] \in SUBSET Pieces /\ IsFiniteSet(rows[d])
        /\ {} \in SUBSET Pieces /\ IsFiniteSet({}) /\ 1 \in Deliveries
    BY FS_EmptySet, KnowledgeAssumption DEF Shapes, Deliveries
  <1>1. ASSUME NEW n \in Deliveries, NEW step \in Stages,
               \/ Goto(d, n, step)
               \/ \E held \in {{}, rows[d]} :
                    task' = [task EXCEPT ![<<d, n>>] = [at |-> step, held |-> held]]
        PROVE  /\ task' \in [Tasks -> [at : Stages, held : SUBSET Pieces]]
               /\ \A t \in Tasks : IsFiniteSet(task'[t].held)
    <2>1. <<d, n>> \in Tasks  BY DEF Tasks
    <2>2. \E held \in {task[<<d, n>>].held, {}, rows[d]} : Moved(d, n, step, held)
      BY <1>0, <1>1, Moves
    <2>3. QED  BY <1>0, <2>1, <2>2 DEF Moved
  <1>2. {"unsent", "queued", "refused", "done", "mark", "extract", "fail", "clear", "insert",
         "list", "call", "store", "ready", "died"} \subseteq Stages
    BY DEF Stages, Loaded
  <1>3. CASE UNCHANGED task  BY <1>0, <1>3
  <1>4. CASE Upload(d)  BY <1>0, <1>1, <1>2, <1>4 DEF Upload, Goto
  <1>5. ASSUME NEW n \in Deliveries, Writes(d, n)
        PROVE  \/ UNCHANGED task
               \/ \E m \in Deliveries, step \in Stages :
                    \/ Goto(d, m, step)
                    \/ \E held \in {{}, rows[d]} :
                         task' = [task EXCEPT ![<<d, m>>] = [at |-> step, held |-> held]]
    <2>1. CASE n = 1 /\ Enqueue(d)  BY <1>2, <2>1 DEF Enqueue
    <2>2. CASE Load(d, n)  BY <1>2, <2>2 DEF Load, Done
    <2>3. CASE MarkProcessing(d, n)  BY <1>2, <2>3 DEF MarkProcessing
    <2>4. CASE Extract(d, n)  BY <1>2, <2>4 DEF Extract
    <2>5. CASE ListChunks(d, n)  BY <1>2, <2>5 DEF ListChunks
    <2>6. CASE CallProvider(d, n)  BY <1>2, <2>6 DEF CallProvider
    <2>7. CASE SaveFailed(d, n)  BY <1>2, <2>7 DEF SaveFailed, Done
    <2>8. CASE Die(d, n)  BY <1>2, <2>8 DEF Die
    <2>9. CASE Redeliver(d, n)  BY <1>2, <2>9 DEF Redeliver
    <2>10. CASE ClearChunks(d, n)  BY <1>2, <2>10 DEF ClearChunks
    <2>11. CASE InsertChunks(d, n)  BY <1>2, <2>11 DEF InsertChunks
    <2>12. CASE StoreVectors(d, n)  BY <1>2, <2>12 DEF StoreVectors
    <2>13. CASE SaveReady(d, n)  BY <1>2, <2>13 DEF SaveReady, Done
    <2>14. QED
      BY <1>5, <2>1, <2>2, <2>3, <2>4, <2>5, <2>6, <2>7, <2>8, <2>9, <2>10, <2>11, <2>12, <2>13
      DEF Writes, OfTask
  <1>6. QED  BY <1>1, <1>3, <1>4, <1>5 DEF Delete

LEMMA DocsNext ==
  ASSUME Shapes, DocsOK, [Next]_vars
  PROVE  Shapes' /\ DocsOK'
  <1>1. CASE UNCHANGED <<doc, rows, task>>
    <2>1. Shapes'  BY <1>1 DEF Shapes
    <2>2. \A d \in Docs : DocOK(d)'  BY <1>1, Elsewhere DEF DocsOK, SameText
    <2>3. QED  BY <2>1, <2>2 DEF DocsOK
  <1>2. ASSUME NEW d \in Docs, Upload(d) \/ Delete(d) \/ \E n \in Deliveries : Writes(d, n)
        PROVE  Shapes' /\ DocsOK'
    <2>1. DocOK(d)  BY DEF DocsOK
    <2>2. Shapes'  BY <1>2, <2>1, DocType, RowsType, TaskType DEF Shapes
    <2>3. DocOK(d)'
      <3>1. CASE Upload(d)  BY <2>1, <3>1, UploadDoc
      <3>2. CASE Delete(d)  BY <2>1, <3>2, DeleteDoc
      <3>3. ASSUME NEW n \in Deliveries, Writes(d, n) PROVE DocOK(d)'
        <4>1. CASE OfTask(d, n)  BY <2>1, <4>1, TaskMoves DEF OfTask
        <4>2. CASE Redeliver(d, n)  BY <2>1, <4>2, RedeliverDoc
        <4>3. CASE ClearChunks(d, n)  BY <2>1, <4>3, ClearDoc
        <4>4. CASE InsertChunks(d, n)  BY <2>1, <4>4, InsertDoc
        <4>5. CASE StoreVectors(d, n)  BY <2>1, <2>2, <4>5, StoreDoc
        <4>6. CASE SaveReady(d, n)  BY <2>1, <4>6, ReadyDoc
        <4>7. QED  BY <3>3, <4>1, <4>2, <4>3, <4>4, <4>5, <4>6 DEF Writes
      <3>4. QED  BY <1>2, <3>1, <3>2, <3>3
    <2>4. ASSUME NEW e \in Docs \ {d} PROVE DocOK(e)'
      <3>1. DocOK(e)  BY DEF DocsOK
      <3>2. 1 \in Deliveries  BY KnowledgeAssumption DEF Deliveries
      <3>3. /\ doc'[e] = doc[e] /\ rows'[e] = rows[e]
            /\ \A m \in Deliveries : task'[<<e, m>>] = task[<<e, m>>]
        BY <1>2, <3>2, Own
      <3>4. QED  BY <3>1, <3>3, Elsewhere DEF SameText
    <2>5. QED  BY <2>2, <2>3, <2>4 DEF DocsOK
  <1>3. CASE Asking  BY <1>1, <1>3 DEF Asking, Ask, Answer, Prompt, Reconfigure
  <1>4. CASE UNCHANGED vars  BY <1>1, <1>4 DEF vars
  <1>5. QED  BY <1>2, <1>3, <1>4, Split

(***************************************************************************)
(* Questions                                                               *)
(***************************************************************************)
AskOK ==
  /\ ask = [at |-> ask.at, doc |-> ask.doc, word |-> ask.word, read |-> ask.read,
            known |-> ask.known, answer |-> ask.answer]
  /\ ask.at \in {"idle", "read", "answered"} /\ Cardinality(ask.answer) <= TopK
  /\ ask.at = "read" /\ ask.known => Matching # {}
  /\ NeverSilent
RestOK ==
  provider \in [on : BOOLEAN, switched : 0..MaxSwitches] /\ deaths \in 0..MaxDeaths

\* A document at rest has its chunks, and they cover its text.
LEMMA Rested ==
  ASSUME Shapes, NEW d \in Docs, DocOK(d), AtRest(d)
  PROVE  Whole(d) /\ doc[d].words \in Nat \ {0} /\ FactsWhole(d)
  <1>1. doc[d].status = "ready" /\ doc[d].words \in Nat \ {0}  BY DEF AtRest, DocOK, Counted
  <1>2. \A n \in Deliveries : task[<<d, n>>].at \notin {"insert", "died"}  BY DEF AtRest
  <1>3. Whole(d)  BY <1>1, <1>2 DEF DocOK, NotLost, AllOrNone
  <1>4. ASSUME NEW first \in 0..(doc[d].words - 1)
        PROVE  \E c \in rows[d] :
                 c.from <= first /\ (c.to >= doc[d].words \/ c.to >= first + Overlap + 1)
    <2>1. PICK w \in ChunkText(doc[d].words) :
            w.from <= first /\ (w.to >= doc[d].words \/ w.to >= first + Overlap + 1)
      BY <1>1, Covered
    <2>2. PICK c \in rows[d] : Span(c) = w  BY <1>3 DEF Whole
    <2>3. c.from = w.from /\ c.to = w.to  BY <2>2 DEF Span
    <2>4. QED  BY <2>1, <2>3
  <1>5. FactsWhole(d)  BY <1>4 DEF FactsWhole
  <1>6. QED  BY <1>1, <1>3, <1>5

LEMMA Aside ==
  ASSUME NEW d \in Docs, Upload(d) \/ Delete(d) \/ \E n \in Deliveries : Writes(d, n)
  PROVE  /\ ask' = ask /\ provider' = provider
         /\ deaths' = deaths \/ \E n \in Deliveries : Die(d, n)
  <1>1. CASE Upload(d)  BY <1>1 DEF Upload
  <1>2. CASE Delete(d)  BY <1>2 DEF Delete
  <1>3. ASSUME NEW n \in Deliveries, Writes(d, n)
        PROVE  ask' = ask /\ provider' = provider /\ (deaths' = deaths \/ Die(d, n))
    <2>1. CASE n = 1 /\ Enqueue(d)  BY <2>1 DEF Enqueue
    <2>2. CASE Load(d, n)  BY <2>2 DEF Load
    <2>3. CASE MarkProcessing(d, n)  BY <2>3 DEF MarkProcessing
    <2>4. CASE Extract(d, n)  BY <2>4 DEF Extract
    <2>5. CASE ListChunks(d, n)  BY <2>5 DEF ListChunks
    <2>6. CASE CallProvider(d, n)  BY <2>6 DEF CallProvider
    <2>7. CASE SaveFailed(d, n)  BY <2>7 DEF SaveFailed
    <2>8. CASE Die(d, n)  BY <2>8 DEF Die
    <2>9. CASE Redeliver(d, n)  BY <2>9 DEF Redeliver
    <2>10. CASE ClearChunks(d, n)  BY <2>10 DEF ClearChunks
    <2>11. CASE InsertChunks(d, n)  BY <2>11 DEF InsertChunks
    <2>12. CASE StoreVectors(d, n)  BY <2>12 DEF StoreVectors
    <2>13. CASE SaveReady(d, n)  BY <2>13 DEF SaveReady
    <2>14. QED
      BY <1>3, <2>1, <2>2, <2>3, <2>4, <2>5, <2>6, <2>7, <2>8, <2>9, <2>10, <2>11, <2>12, <2>13
      DEF Writes, OfTask
  <1>4. QED  BY <1>1, <1>2, <1>3

LEMMA AskNext ==
  ASSUME Shapes, DocsOK, AskOK, RestOK, [Next]_vars
  PROVE  AskOK' /\ RestOK'
  <1>0. TopK \in Nat \ {0} /\ Cardinality({}) = 0  BY KnowledgeAssumption, FS_EmptySet
  <1>1. ASSUME UNCHANGED ask PROVE AskOK'
    <2>1. Matching' = Matching  BY <1>1 DEF Matching
    <2>2. NeverSilent'  BY <1>1 DEF AskOK, NeverSilent
    <2>3. ask' = ask  BY <1>1
    <2>4. ask'.at = "read" /\ ask'.known => Matching' # {}  BY <2>1, <2>3, Zenon DEF AskOK
    <2>5. /\ ask'.at \in {"idle", "read", "answered"} /\ Cardinality(ask'.answer) <= TopK
          /\ ask' = [at |-> ask'.at, doc |-> ask'.doc, word |-> ask'.word, read |-> ask'.read,
                     known |-> ask'.known, answer |-> ask'.answer]
      BY <2>3, Zenon DEF AskOK
    <2>6. QED  BY <2>2, <2>4, <2>5, Zenon DEF AskOK
  <1>2. ASSUME NEW d \in Docs, NEW word \in 0..(doc[d].words - 1), Ask(d, word)
        PROVE  AskOK'
    <2>1. ask' = [at |-> "read", doc |-> {d}, word |-> word, answer |-> {},
                  known |-> AtRest(d),
                  read |-> UNION {{Chunk(e, c) : c \in rows[e]} :
                                    e \in {x \in Docs : doc[x].status = "ready"}}]
      BY <1>2 DEF Ask
    <2>2. /\ ask'.at = "read" /\ ask'.doc = {d} /\ ask'.word = word /\ ask'.answer = {}
          /\ ask'.known = AtRest(d)
          /\ ask' = [at |-> ask'.at, doc |-> ask'.doc, word |-> ask'.word, read |-> ask'.read,
                     known |-> ask'.known, answer |-> ask'.answer]
      BY <2>1, Zenon
    <2>3. \A e \in Docs : doc[e].status = "ready" => \A c \in rows[e] : Chunk(e, c) \in ask'.read
      BY <2>1
    <2>4. ASSUME AtRest(d) PROVE Matching' # {}
      <3>1. DocOK(d) /\ doc[d].status = "ready"  BY <2>4 DEF DocsOK, AtRest
      <3>2. FactsWhole(d) /\ doc[d].words \in Nat \ {0}  BY <2>4, <3>1, Rested
      <3>3. PICK c \in rows[d] :
              c.from <= word /\ (c.to >= doc[d].words \/ c.to >= word + Overlap + 1)
        BY <3>2 DEF FactsWhole
      <3>4. c \in Pieces  BY DEF Shapes
      <3>5. c.from \in Nat /\ c.to \in Nat  BY <3>4 DEF Pieces
      <3>6. word \in c.from..(c.to - 1)
        BY <3>2, <3>3, <3>5, KnowledgeAssumption
      <3>7. PICK x : x = Chunk(d, c)  OBVIOUS
      <3>8. x.doc = d /\ x.from = c.from /\ x.to = c.to  BY <3>7 DEF Chunk
      <3>9. x \in ask'.read  BY <2>3, <3>1, <3>7
      <3>10. x \in Matching'  BY <2>2, <3>6, <3>8, <3>9 DEF Matching
      <3>11. QED  BY <3>10
    <2>5. ask'.known => Matching' # {}  BY <2>2, <2>4, Zenon
    <2>6. QED  BY <1>0, <2>2, <2>5 DEF AskOK, NeverSilent
  <1>3. ASSUME Answer, ask' # NoAsk PROVE AskOK'
    <2>1. PICK S, T : /\ T \in Best(S)
                      /\ ask' = [ask EXCEPT !.at = "answered", !.answer = T, !.read = {}]
                      /\ S = Matching \/ S # {}
      BY <1>3 DEF Answer
    <2>2. /\ ask'.at = "answered" /\ ask'.answer = T /\ ask'.known = ask.known
          /\ ask' = [at |-> ask'.at, doc |-> ask'.doc, word |-> ask'.word, read |-> ask'.read,
                     known |-> ask'.known, answer |-> ask'.answer]
      BY <2>1 DEF AskOK
    <2>3. Cardinality(T) <= TopK /\ (S # {} => T # {})  BY <2>1 DEF Best
    <2>4. ask.at = "read"  BY <1>3 DEF Answer
    <2>5. ask.known => S # {}  BY <2>1, <2>4, Zenon DEF AskOK
    <2>6. NeverSilent'  BY <2>2, <2>3, <2>5, Zenon DEF NeverSilent
    <2>7. ask'.at \in {"idle", "read", "answered"} /\ ask'.at # "read"  BY <2>2
    <2>8. Cardinality(ask'.answer) <= TopK  BY <2>2, <2>3
    <2>9. ask'.at = "read" /\ ask'.known => Matching' # {}  BY <2>7, Zenon
    <2>10. QED  BY <2>2, <2>6, <2>7, <2>8, <2>9, Zenon DEF AskOK
  <1>4. ASSUME ask' = NoAsk PROVE AskOK'
    <2>1. ask'.at = "idle" /\ ask'.answer = {}
          /\ ask' = [at |-> ask'.at, doc |-> ask'.doc, word |-> ask'.word, read |-> ask'.read,
                     known |-> ask'.known, answer |-> ask'.answer]
      BY <1>4 DEF NoAsk
    <2>2. ask'.at \in {"idle", "read", "answered"} /\ ask'.at \notin {"read", "answered"}  BY <2>1
    <2>3. Cardinality(ask'.answer) <= TopK  BY <1>0, <2>1
    <2>4. ask'.at = "read" /\ ask'.known => Matching' # {}  BY <2>2
    <2>5. NeverSilent'  BY <2>2 DEF NeverSilent
    <2>6. QED  BY <2>1, <2>2, <2>3, <2>4, <2>5, Zenon DEF AskOK
  <1>5. RestOK'
    <2>1. CASE Reconfigure
      <3>1. provider.switched \in 0..MaxSwitches /\ provider.switched < MaxSwitches
            /\ MaxSwitches \in Nat
        BY <2>1, KnowledgeAssumption DEF RestOK, Reconfigure
      <3>2. provider.switched + 1 \in 0..MaxSwitches  BY <3>1
      <3>3. (~provider.on) \in BOOLEAN  BY Zenon
      <3>4. [on |-> ~provider.on, switched |-> provider.switched + 1]
              \in [on : BOOLEAN, switched : 0..MaxSwitches]
        BY <3>2, <3>3, Zenon
      <3>5. QED  BY <2>1, <3>4 DEF RestOK, Reconfigure
    <2>2. ASSUME NEW d \in Docs, NEW n \in Deliveries, Die(d, n) PROVE RestOK'
      BY <2>2, KnowledgeAssumption DEF RestOK, Die
    <2>3. CASE UNCHANGED <<provider, deaths>>  BY <2>3 DEF RestOK
    <2>4. CASE Asking
      <3>1. Reconfigure \/ UNCHANGED <<provider, deaths>>
        BY <2>4 DEF Asking, Ask, Answer, Prompt, Reconfigure
      <3>2. QED  BY <2>1, <2>3, <3>1
    <2>5. ASSUME NEW d \in Docs, Upload(d) \/ Delete(d) \/ \E n \in Deliveries : Writes(d, n)
          PROVE  RestOK'
      <3>1. UNCHANGED <<provider, deaths>> \/ \E n \in Deliveries : Die(d, n)  BY <2>5, Aside
      <3>2. QED  BY <2>2, <2>3, <3>1
    <2>6. CASE UNCHANGED vars  BY <2>3, <2>6 DEF vars
    <2>7. QED  BY <2>4, <2>5, <2>6, Split
  <1>6. AskOK'
    <2>1. CASE Asking
      <3>1. Answer \/ Prompt => (Answer /\ ask' # NoAsk) \/ ask' = NoAsk  BY DEF Prompt
      <3>2. Reconfigure => UNCHANGED ask  BY DEF Reconfigure
      <3>3. QED  BY <1>1, <1>2, <1>3, <1>4, <2>1, <3>1, <3>2 DEF Asking
    <2>2. ASSUME NEW d \in Docs, Upload(d) \/ Delete(d) \/ \E n \in Deliveries : Writes(d, n)
          PROVE  AskOK'
      BY <1>1, <2>2, Aside
    <2>3. CASE UNCHANGED vars  BY <1>1, <2>3 DEF vars
    <2>4. QED  BY <2>1, <2>2, <2>3, Split
  <1>7. QED  BY <1>5, <1>6

(***************************************************************************)
(* The invariant and what it says                                          *)
(***************************************************************************)
Inv == Shapes /\ DocsOK /\ AskOK /\ RestOK

LEMMA InvInit == Init => Inv
  <1> SUFFICES ASSUME Init PROVE Inv  OBVIOUS
  <1>0. /\ 1 \in Deliveries /\ IsFiniteSet({}) /\ Cardinality({}) = 0
        /\ TopK \in Nat /\ MaxSwitches \in Nat /\ MaxDeaths \in Nat
    BY KnowledgeAssumption, FS_EmptySet DEF Deliveries
  <1>1. /\ \A d \in Docs : doc[d] = [status |-> "absent", words |-> 0, deleted |-> FALSE,
                                     chunks |-> 0, embedded |-> 0]
        /\ \A d \in Docs : rows[d] = {}
        /\ \A d \in Docs, n \in Deliveries : task[<<d, n>>] = Idle
    BY DEF Init
  <1>2. Shapes
    <2>1. [status |-> "absent", words |-> 0, deleted |-> FALSE, chunks |-> 0, embedded |-> 0]
            \in DocRows
      BY DEF DocRows
    <2>2. doc \in [Docs -> DocRows]  BY <2>1 DEF Init
    <2>3. Idle \in [at : Stages, held : SUBSET Pieces] /\ Idle.held = {}  BY DEF Idle, Stages
    <2>4. task \in [Tasks -> [at : Stages, held : SUBSET Pieces]]
          /\ \A t \in Tasks : task[t].held = {}
      BY <2>3 DEF Init, Tasks
    <2>5. rows \in [Docs -> SUBSET Pieces]  BY DEF Init
    <2>6. QED  BY <1>0, <1>1, <2>2, <2>4, <2>5 DEF Shapes
  <1>3. ASSUME NEW d \in Docs PROVE DocOK(d)
    <2>1. /\ doc[d].status = "absent" /\ rows[d] = {}
          /\ \A n \in Deliveries : task[<<d, n>>].at = "none" /\ task[<<d, n>>].held = {}
      BY <1>1 DEF Idle
    <2>2. Fresh(d) /\ HasText(d) /\ AllOrNone(d) /\ NotLost(d) /\ Counted(d) /\ Holding(d)
      BY <2>1 DEF Fresh, HasText, Cut, AllOrNone, NotLost, Counted, Holding
    <2>3. Alone(d)  BY <1>0, <2>1 DEF Alone
    <2>4. QED  BY <2>2, <2>3 DEF DocOK
  <1>4. AskOK  BY <1>0 DEF Init, AskOK, NoAsk, NeverSilent
  <1>5. RestOK
    <2>1. provider \in [on : BOOLEAN, switched : {0}] /\ {0} \subseteq 0..MaxSwitches
      BY <1>0 DEF Init
    <2>2. provider \in [on : BOOLEAN, switched : 0..MaxSwitches]  BY <2>1
    <2>3. QED  BY <1>0, <2>2 DEF Init, RestOK
  <1>6. QED  BY <1>2, <1>3, <1>4, <1>5 DEF Inv, DocsOK

LEMMA Invariance == Spec => []Inv
  <1>1. Inv /\ [Next]_vars => Inv'  BY DocsNext, AskNext DEF Inv
  <1>2. QED  BY <1>1, InvInit, PTL DEF Spec

\* The types of the rows, tasks and questions; chunks are parts of the text.
THEOREM TypeCorrect == Spec => []TypeOK
  <1>1. Inv => TypeOK
    <2> SUFFICES ASSUME Inv PROVE TypeOK  OBVIOUS
    <2> USE DEF Inv
    <2>1. doc \in [Docs -> DocRows] /\ task \in [Tasks -> [at : Stages, held : SUBSET Pieces]]
      BY DEF Shapes
    <2>2. ASSUME NEW d \in Docs, NEW c \in rows[d]
          PROVE  c.by \in Deliveries /\ 0 <= c.from /\ c.from < c.to /\ c.to <= doc[d].words
      <3>1. Whole(d) /\ doc[d].words \in Nat \ {0}  BY DEF DocsOK, DocOK, AllOrNone, HasText
      <3>2. c \in Pieces  BY DEF Shapes
      <3>3. c.by \in Deliveries /\ c.from \in Nat  BY <3>2 DEF Pieces
      <3>4. Span(c) \in ChunkText(doc[d].words)  BY <3>1 DEF Whole
      <3>5. Span(c).from < Span(c).to /\ Span(c).to <= doc[d].words  BY <3>1, <3>4, Windows
      <3>6. Span(c).from = c.from /\ Span(c).to = c.to  BY DEF Span
      <3>7. QED  BY <3>3, <3>5, <3>6
    <2>3. \A t \in DOMAIN task :
            task[t].at \in Loaded \cup {"none", "unsent", "queued", "refused", "done", "died"}
      BY <2>1 DEF Stages
    <2>4. QED  BY <2>1, <2>2, <2>3 DEF TypeOK, DocRows, AskOK, RestOK
  <1>2. QED  BY <1>1, Invariance, PTL

\* However many runs of process_document have interleaved: when a document is
\* ready and no run is under way, every fact of up to Overlap + 1 words is
\* whole in a chunk and the counts it shows are those of its chunks.
THEOREM Complete == Spec => []ReadyIsComplete
  <1>1. Inv => ReadyIsComplete
    <2> SUFFICES ASSUME Inv, NEW d \in Docs, AtRest(d) PROVE FactsWhole(d) /\ CountsAgree(d)
      BY DEF ReadyIsComplete
    <2>0. Shapes /\ DocOK(d)  BY DEF Inv, DocsOK
    <2>1. Whole(d) /\ doc[d].words \in Nat \ {0} /\ FactsWhole(d)  BY <2>0, Rested
    <2>2. doc[d].status = "ready"  BY DEF AtRest
    <2>3. doc[d].chunks = Cardinality(rows[d])
      <3>1. Cardinality(rows[d]) = Cardinality(ChunkText(doc[d].words))
        BY <2>0, <2>1, AsMany DEF Shapes, Whole
      <3>2. QED  BY <2>0, <2>2, <3>1 DEF DocOK, Counted
    <2>4. ASSUME ~\E n \in Deliveries : n > 1 /\ At(d, n, "done")
          PROVE  doc[d].embedded = Cardinality({c \in rows[d] : c.vector})
      <3>1. \A n \in Deliveries : n > 1 => task[<<d, n>>].at \in {"none", "queued"}
        BY <2>4 DEF AtRest, At
      <3>2. QED  BY <2>0, <2>2, <3>1 DEF DocOK, Alone, Vectors
    <2>5. QED  BY <2>1, <2>3, <2>4 DEF CountsAgree
  <1>2. QED  BY <1>1, Invariance, PTL

\* A question about a word of a document that was ready and at rest is answered
\* with a chunk, with or without a provider.
THEOREM Answers == Spec => []NeverSilent
  <1>1. Inv => NeverSilent  BY DEF Inv, AskOK
  <1>2. QED  BY <1>1, Invariance, PTL

=============================================================================

------------------------------ MODULE Analytics ------------------------------
(***************************************************************************)
(* Figures of the dashboard (apps.analytics) that are not plain counts:    *)
(* how long customers wait for an answer, and what they ask most often.    *)
(*                                                                         *)
(* A log is the sequence of a tenant's messages by created_at, each        *)
(* [conversation, direction, text, at].  The code orders by conversation   *)
(* first; as it keeps a pending question for each of them, one pass in the *)
(* order of time takes the same samples.                                   *)
(***************************************************************************)
EXTENDS Naturals, Sequences, FiniteSets

\* _date_bounded: the places of the messages of a period.
InPeriod(log, start, end) == {i \in DOMAIN log : start <= log[i].at /\ log[i].at <= end}

\* average_response_time: the unanswered message of each conversation (0 for
\* none) and the samples, before the first message ...
NoneRead(log) ==
  [pending |-> [c \in {log[i].conversation : i \in DOMAIN log} |-> 0], samples |-> {}]

\* ... and after another one.  `restarts` says whether a message that is waiting
\* already is waited from anew.
Read(was, m, restarts) ==
  LET first == was.pending[m.conversation]
  IN  IF m.direction = "inbound"
      THEN [was EXCEPT !.pending[m.conversation] = IF first = 0 \/ restarts THEN m.at ELSE first]
      ELSE [pending |-> [was.pending EXCEPT ![m.conversation] = 0],
            samples |-> was.samples \cup
              (IF first = 0 THEN {}
               ELSE {[conversation |-> m.conversation, at |-> m.at, waited |-> m.at - first]})]

ResponsePass(log, seen, restarts) ==
  LET step[n \in 0..Len(log)] ==
        IF n = 0 THEN NoneRead(log)
        ELSE IF n \in seen THEN Read(step[n - 1], log[n], restarts)
        ELSE step[n - 1]
  IN  step[Len(log)]

\* Mutant of ResponseSamples: the wait counts from the last question.
ResponseSamplesFromLast(log, start, end) ==
  ResponsePass(log, InPeriod(log, start, end), TRUE).samples

ResponseSamples(log, start, end) ==
  ResponsePass(log, InPeriod(log, start, end), FALSE).samples

Asked(log, text) == {i \in DOMAIN log : log[i].direction = "inbound" /\ log[i].text = text}
FirstAsked(log, text) == CHOOSE i \in Asked(log, text) : \A j \in Asked(log, text) : i <= j

\* Counter.most_common: more often first, then earlier first.
Ranks(log, a, b) ==
  LET na == Cardinality(Asked(log, a))
      nb == Cardinality(Asked(log, b))
  IN  na > nb \/ (na = nb /\ FirstAsked(log, a) < FirstAsked(log, b))

Texts(log) == {log[i].text : i \in {j \in DOMAIN log : log[j].direction = "inbound"}}

\* top_customer_questions: of the most common ones, those asked again.  The log
\* stands for what its filter leaves: texts that customers sent in the period.
TopQuestions(log, limit) ==
  {t \in Texts(log) :
     /\ Cardinality({u \in Texts(log) : Ranks(log, u, t)}) < limit
     /\ Cardinality(Asked(log, t)) > 1}
=============================================================================

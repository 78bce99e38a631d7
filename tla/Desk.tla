-------------------------------- MODULE Desk --------------------------------
(***************************************************************************)
(* What the staff of a business do beside each other: assign a             *)
(* conversation (apps.conversations), edit it, edit a customer             *)
(* (apps.customers) or a campaign with its segment and template           *)
(* (apps.campaigns), and read the figures of the messages that were        *)
(* exchanged (apps.analytics).                                             *)
(*                                                                         *)
(* No handler locks what it has loaded.  A PATCH saves every column of the *)
(* row as it was loaded; assign_to writes the history and the conversation *)
(* in three statements.  These parts share no state, so a behaviour        *)
(* follows one `kind` of them.                                             *)
(***************************************************************************)
EXTENDS Analytics

CONSTANTS
  Staff,          \* staff members
  NoOne,          \* assigned_to is null
  Businesses, Segments, Templates,  \* of the tenant
  Requests,       \* requests in flight together
  Conversations,  \* conversations of the messages that are counted
  Questions,      \* texts of messages, normalised
  TopLimit,       \* TOP_QUESTIONS_LIMIT
  MaxServed,      \* bound: requests started
  MaxSetup,       \* bound: of those, to segments, templates and campaigns
  MaxMessages,    \* bound: messages exchanged
  MaxDeaths       \* bound: server processes that die during a request

ASSUME DeskAssumption ==
  /\ NoOne \notin Staff /\ IsFiniteSet(Staff) /\ IsFiniteSet(Requests)
  /\ {TopLimit, MaxServed, MaxSetup, MaxMessages, MaxDeaths} \subseteq Nat

VARIABLES
  kind,      \* what is followed
  assigned,  \* Conversation.assigned_to
  history,   \* ConversationAssignment rows of each member: open ones, closed ones
  customer,  \* Customer row: marketing_opt_in and marketing_opt_in_at
  now,       \* the clock of saved customers, and of messages
  owner,     \* the business of each segment and template
  campaign,  \* Campaign row: its business, segment and template
  log,       \* messages of the tenant, oldest first
  req,       \* per request: operation, next statement and what it has loaded
  served,    \* requests started
  deaths,    \* processes that died
  hist       \* what has happened, for the properties

vars == <<kind, assigned, history, customer, now, owner, campaign, log, req,
          served, deaths, hist>>
desk == <<assigned, history>>
setup == <<owner, campaign>>

Kinds == {"assignment", "customer", "setup", "figures"}
Setups == [business : Businesses, segment : Segments, template : Templates]
Messages == [conversation : Conversations, direction : {"inbound", "outbound"}, text : Questions,
             at : Nat]
Consents == [optin : BOOLEAN, at : Nat]
Row == [optin |-> FALSE, at |-> 0]
Request == [op : {"none", "assign", "edit", "give", "withdraw", "leave", "part", "campaign"},
            at : {"done", "close", "save", "create"},
            previous : Staff \cup {NoOne}, target : Staff \cup {NoOne},
            row : Consents, since : Nat,
            part : SUBSET (Segments \cup Templates \cup {"business", "segment", "template"}),
            saves : SUBSET (Businesses \cup Setups)]
Idle == [op |-> "none", at |-> "done", previous |-> NoOne, target |-> NoOne,
         row |-> Row, since |-> 0, part |-> {}, saves |-> {}]
Histories == [by : {"assign", "other"}, strays : SUBSET (Staff \cup {NoOne}),
              given : SUBSET Nat, moved : BOOLEAN]

At(r, op, step) == req[r].op = op /\ req[r].at = step
Goto(r, step) == req' = [req EXCEPT ![r].at = step]
Done(r) == req' = [req EXCEPT ![r] = Idle]

Start(r, new) ==
  /\ req[r].op = "none" /\ served < MaxServed
  /\ req' = [req EXCEPT ![r] = new]
  /\ served' = served + 1

\* CampaignSerializer.validate, over what a PATCH sets and what it leaves.
OneBusiness(c) == owner[c.segment] = c.business /\ owner[c.template] = c.business

\* A conversation is created by the webhook, assigned to nobody, or by POST (or
\* the seed) to anyone, without a word in the history; a customer with or
\* without consent, stamped if it is given.
Init ==
  /\ kind \in Kinds
  /\ assigned \in IF kind = "assignment" THEN Staff \cup {NoOne} ELSE {NoOne}
  /\ history = [u \in Staff |-> [open |-> 0, closed |-> 0]]
  /\ now \in IF kind = "customer" THEN {0, 1} ELSE {0}
  /\ customer = IF now = 0 THEN Row ELSE [optin |-> TRUE, at |-> now]
  /\ log = <<>>
  /\ owner \in [Segments \cup Templates -> Businesses]
  /\ campaign \in {c \in Setups : OneBusiness(c)}
  /\ kind # "setup" => \A x \in DOMAIN owner : owner[x] = campaign.business
  /\ req = [r \in Requests |-> Idle]
  /\ served = 0 /\ deaths = 0
  /\ hist = [by |-> "other", strays |-> {}, moved |-> FALSE,
             given |-> IF customer.optin THEN {now} ELSE {}]

(***************************************************************************)
(* AssignConversationView, Conversation.assign_to                          *)
(***************************************************************************)
Assigning == {r \in Requests : req[r].op = "assign"}
Targets == {req[r].target : r \in Assigning}

\* The conversation is loaded; it is done if that is who has it already, and
\* the rows of whoever had it are closed first.  Members named by assignments
\* that overlap may keep a row that is open.
Assign(r, user) ==
  /\ kind = "assignment" /\ assigned # user
  /\ Start(r, [Idle EXCEPT !.op = "assign", !.previous = assigned, !.target = user,
                           !.at = IF assigned = NoOne THEN "save" ELSE "close"])
  /\ hist' = [hist EXCEPT !.strays = IF Assigning = {} THEN @ ELSE @ \cup Targets \cup {user}]
  /\ UNCHANGED <<kind, desk, customer, now, setup, log, deaths>>

\* Mutant of CloseOpen: the row of the member who gets it is closed.
CloseOwn(r) ==
  LET u == req[r].target
  IN  /\ At(r, "assign", "close")
      /\ history' = IF u = NoOne THEN history
                    ELSE [history EXCEPT ![u] = [open |-> 0, closed |-> @.closed + @.open]]
      /\ hist' = [hist EXCEPT !.strays = @ \ ({u} \ Targets)]
      /\ Goto(r, "save")
      /\ UNCHANGED <<kind, assigned, customer, now, setup, log, served, deaths>>

CloseOpen(r) ==
  LET u == req[r].previous
  IN  /\ At(r, "assign", "close")
      /\ history' = [history EXCEPT ![u] = [open |-> 0, closed |-> @.closed + @.open]]
      /\ hist' = [hist EXCEPT !.strays = @ \ ({u} \ Targets)]
      /\ Goto(r, "save")
      /\ UNCHANGED <<kind, assigned, customer, now, setup, log, served, deaths>>

SaveAssigned(r) ==
  /\ At(r, "assign", "save")
  /\ assigned' = req[r].target
  /\ hist' = [hist EXCEPT !.by = "assign"]
  /\ IF req[r].target = NoOne THEN Done(r) ELSE Goto(r, "create")
  /\ UNCHANGED <<kind, history, customer, now, setup, log, served, deaths>>

CreateAssignment(r) ==
  /\ At(r, "assign", "create")
  /\ history' = [history EXCEPT ![req[r].target].open = @ + 1]
  /\ Done(r)
  /\ UNCHANGED <<kind, assigned, customer, now, setup, log, served, deaths, hist>>

\* PATCH of the conversation: assigned_to may be among the fields it sets ...
EditConversation(r) ==
  /\ kind = "assignment"
  /\ \E u \in Staff \cup {NoOne} :
       Start(r, [Idle EXCEPT !.op = "edit", !.at = "save",
                             !.previous = assigned, !.target = u])
  /\ UNCHANGED <<kind, desk, customer, now, setup, log, deaths, hist>>

\* ... and is saved with all the others, without a word in the history: the row
\* of whoever had it stays open.
SaveConversation(r) ==
  /\ At(r, "edit", "save")
  /\ assigned' = req[r].target
  /\ hist' = IF assigned = req[r].target THEN hist
             ELSE [hist EXCEPT !.by = "other", !.strays = @ \cup {assigned}]
  /\ Done(r)
  /\ UNCHANGED <<kind, history, customer, now, setup, log, served, deaths>>

(***************************************************************************)
(* CustomerDetailView                                                      *)
(***************************************************************************)
\* PATCH: the row is loaded.
EditCustomer(r) ==
  /\ kind = "customer"
  /\ \E consent \in {"give", "withdraw", "leave"} :
       Start(r, [Idle EXCEPT !.op = consent, !.at = "save", !.row = customer, !.since = now])
  /\ UNCHANGED <<kind, desk, customer, now, setup, log, deaths, hist>>

\* Mutant of Stamped: a stamp that is there is kept.
StampedOnce(r) ==
  IF req[r].op = "give"
  THEN [optin |-> TRUE, at |-> IF req[r].row.at = 0 THEN now + 1 ELSE req[r].row.at]
  ELSE IF req[r].op = "withdraw" THEN [req[r].row EXCEPT !.optin = FALSE]
  ELSE req[r].row

\* _stamp_opt_in: consent is stamped whenever it is given.
Stamped(r) ==
  IF req[r].op = "give" THEN [optin |-> TRUE, at |-> now + 1]
  ELSE IF req[r].op = "withdraw" THEN [req[r].row EXCEPT !.optin = FALSE]
  ELSE req[r].row

Customer(r, step) == At(r, req[r].op, step) /\ req[r].op \in {"give", "withdraw", "leave"}
Remember(r) ==
  hist' = [hist EXCEPT !.given = IF req[r].op = "give" THEN @ \cup {now + 1} ELSE @]

\* All columns are saved, those of the consent as it was loaded or set.
SaveCustomer(r) ==
  /\ Customer(r, "save")
  /\ now' = now + 1
  /\ customer' = Stamped(r)
  /\ Remember(r) /\ Done(r)
  /\ UNCHANGED <<kind, desk, setup, log, served, deaths>>

(***************************************************************************)
(* Campaigns, segments and templates of the tenant's businesses            *)
(***************************************************************************)
\* PATCH of a segment or template: it may name another business ...
EditPart(r, parts) ==
  /\ kind = "setup" /\ served < MaxSetup
  /\ \E x \in parts, b \in Businesses :
       Start(r, [Idle EXCEPT !.op = "part", !.at = "save", !.part = {x}, !.saves = {b}])
  /\ UNCHANGED <<kind, desk, customer, now, setup, log, deaths, hist>>

EditSegment(r) == EditPart(r, Segments)
EditTemplate(r) == EditPart(r, Templates)

\* ... whatever campaigns it is used in.
SavePart(r) ==
  \E x \in req[r].part, b \in req[r].saves :
    /\ At(r, "part", "save")
    /\ owner' = [owner EXCEPT ![x] = b]
    /\ hist' = [hist EXCEPT !.moved = @ \/ owner[x] # b]
    /\ Done(r)
    /\ UNCHANGED <<kind, desk, customer, now, campaign, log, served, deaths>>

\* PATCH of the campaign: what it sets, with what was loaded, must be of one
\* business.
EditCampaign(r) ==
  /\ kind = "setup" /\ served < MaxSetup
  /\ \E c \in Setups, sets \in SUBSET DOMAIN campaign :
       /\ \A f \in DOMAIN c \ sets : c[f] = campaign[f]
       /\ OneBusiness(c)
       /\ Start(r, [Idle EXCEPT !.op = "campaign", !.at = "save", !.saves = {c}, !.part = sets])
  /\ UNCHANGED <<kind, desk, customer, now, setup, log, deaths, hist>>

\* Mutant of SaveCampaign: only the columns the PATCH sets are saved.
SaveFields(r) ==
  \E c \in req[r].saves :
    /\ At(r, "campaign", "save")
    /\ campaign' = [f \in DOMAIN c |-> IF f \in req[r].part THEN c[f] ELSE campaign[f]]
    /\ Done(r)
    /\ UNCHANGED <<kind, desk, customer, now, owner, log, served, deaths, hist>>

SaveCampaign(r) ==
  \E c \in req[r].saves :
    /\ At(r, "campaign", "save")
    /\ campaign' = c
    /\ Done(r)
    /\ UNCHANGED <<kind, desk, customer, now, owner, log, served, deaths, hist>>

(***************************************************************************)
(* Messages, as the figures see them, and processes that die               *)
(***************************************************************************)
\* The webhook stores what a customer writes, the API, the assistant and a
\* campaign what is sent.
Exchange ==
  /\ kind = "figures" /\ Len(log) < MaxMessages
  /\ \E c \in Conversations, t \in Questions, way \in {"inbound", "outbound"} :
       log' = Append(log, [conversation |-> c, direction |-> way, text |-> t, at |-> now + 1])
  /\ now' = now + 1
  /\ UNCHANGED <<kind, desk, customer, setup, req, served, deaths, hist>>

Die(r) ==
  /\ req[r].op # "none" /\ deaths < MaxDeaths
  /\ deaths' = deaths + 1
  /\ Done(r)
  /\ UNCHANGED <<kind, desk, customer, now, setup, log, served, hist>>

Next ==
  \/ \E r \in Requests :
       \/ \E user \in Staff \cup {NoOne} : Assign(r, user)
       \/ CloseOpen(r) \/ SaveAssigned(r) \/ CreateAssignment(r)
       \/ EditConversation(r) \/ SaveConversation(r)
       \/ EditCustomer(r) \/ SaveCustomer(r) \/ Die(r)
       \/ EditSegment(r) \/ EditTemplate(r) \/ SavePart(r)
       \/ EditCampaign(r) \/ SaveCampaign(r)
  \/ Exchange

Spec == Init /\ [][Next]_vars

(***************************************************************************)
(* Properties                                                              *)
(***************************************************************************)
\* Type invariant of the rows, the messages and the requests.
TypeOK ==
  /\ kind \in Kinds /\ assigned \in Staff \cup {NoOne}
  /\ history \in [Staff -> [open : Nat, closed : Nat]]
  /\ customer \in Consents /\ now \in Nat /\ log \in Seq(Messages)
  /\ owner \in [Segments \cup Templates -> Businesses] /\ campaign \in Setups
  /\ req \in [Requests -> Request] /\ served \in Nat /\ deaths \in Nat
  /\ hist \in Histories

\* Whoever was assigned the conversation at rest has an open row in its history,
\* unless a process died half-way.
AssignedIsLogged ==
  (\A r \in Requests : req[r].op # "assign") /\ deaths = 0 /\ hist.by = "assign"
  /\ assigned # NoOne => history[assigned].open > 0

\* No row is open but one of the member who has the conversation, whoever dies
\* in whatever statement, unless the member was named by assignments that
\* overlapped or a PATCH took the conversation away, and no row of theirs was
\* closed since.
OpenIsAssigned ==
  \A u \in Staff : history[u].open > (IF u = assigned THEN 1 ELSE 0) => u \in hist.strays

\* The history and the conversation agree, however requests to assign overlap
\* with each other and with PATCHes.
HistoryAgrees == AssignedIsLogged /\ OpenIsAssigned

\* The stamp beside a consent is of a moment when it was given, whatever rows
\* are saved over each other.
EvidenceIsReal == customer.optin => customer.at \in hist.given

\* A consent that is gone comes back with a new stamp, or because a PATCH that
\* had loaded the customer with it is saved over a later one.
ConsentReturns ==
  [][~customer.optin /\ customer'.optin =>
       \/ customer'.at = now'
       \/ \E r \in Requests : Customer(r, "save") /\ req'[r].op = "none"
                              /\ req[r].since < now]_vars

\* Of the messages seen, j answers i: they are of one conversation and nothing
\* was sent in it between them.
Asks(seen, i, j) ==
  /\ i < j /\ log[i].conversation = log[j].conversation
  /\ log[i].direction = "inbound" /\ log[j].direction = "outbound"
  /\ \A k \in seen : i <= k /\ k < j /\ log[k].conversation = log[j].conversation
                    => log[k].direction = "inbound"
AsksFirst(seen, i, j) == Asks(seen, i, j) /\ \A k \in seen : Asks(seen, k, j) => i <= k

ResponseTimes ==
  \A start, end \in 0..now :
    LET seen == InPeriod(log, start, end)
    IN  ResponseSamples(log, start, end) =
          {[conversation |-> log[p[2]].conversation, at |-> log[p[2]].at,
            waited |-> log[p[2]].at - log[p[1]].at] :
             p \in {q \in seen \X seen : AsksFirst(seen, q[1], q[2])}}

TopIsTop ==
  \A t \in Texts(log) \ TopQuestions(log, TopLimit) :
    \/ Cardinality(Asked(log, t)) <= 1
    \/ /\ Cardinality(TopQuestions(log, TopLimit)) = TopLimit
       /\ \A u \in TopQuestions(log, TopLimit) :
            Cardinality(Asked(log, u)) >= Cardinality(Asked(log, t))

\* However PATCHes overlap, a campaign's segment and template are of its own
\* business, unless one of them was moved to another business.
SetupAgrees == ~hist.moved => OneBusiness(campaign)

\* Whoever answers, in whatever order and for whatever period, a wait lasts
\* from the first message since the last answer in the same conversation to the
\* next answer; and a question asked again that is not among the top ones has
\* given way to as many as the list holds, each asked at least as often.
FiguresHold == ResponseTimes /\ TopIsTop
=============================================================================

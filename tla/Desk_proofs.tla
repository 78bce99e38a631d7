----------------------------- MODULE Desk_proofs -----------------------------
(***************************************************************************)
(* Proofs about Desk, for any staff, parts of a campaign and number of     *)
(* requests.                                                               *)
(***************************************************************************)
EXTENDS Desk, FiniteSetTheorems, WellFoundedInduction, TLAPS

\* What a request carries fits what it is about to do.
Routed(q) ==
  /\ q.op = "part" => q.part \subseteq Segments \cup Templates /\ q.saves \subseteq Businesses
  /\ q.op = "campaign" => q.saves \subseteq Setups
  /\ q.op = "assign" => q.previous # q.target
  /\ q.op = "assign" /\ q.at = "close" => q.previous # NoOne
  /\ q.op = "assign" /\ q.at = "create" => q.target # NoOne
RouteOK == \A r \in Requests : Routed(req[r])

\* A request moves on, ends, or one begins.
Moved(r) == \E new \in Request : Routed(new) /\ req' = [req EXCEPT ![r] = new]

LEMMA IdleType == Idle \in Request /\ Routed(Idle)
  BY DEF Idle, Row, Request, Consents, Routed

LEMMA Moves ==
  ASSUME TypeOK, RouteOK, [Next]_vars
  PROVE  UNCHANGED req \/ \E r \in Requests : Moved(r)
  <1>0. /\ req \in [Requests -> Request] /\ assigned \in Staff \cup {NoOne} /\ now \in Nat
        /\ customer \in Consents /\ campaign \in Setups
    BY DEF TypeOK
  <1>1. ASSUME NEW r \in Requests, NEW user \in Staff \cup {NoOne}, Assign(r, user)
        PROVE  Moved(r)
    <2>1. DEFINE new == [Idle EXCEPT !.op = "assign", !.previous = assigned, !.target = user,
                                     !.at = IF assigned = NoOne THEN "save" ELSE "close"]
    <2>2. new \in Request  BY <1>0, IdleType DEF Request
    <2>3. Routed(new)  BY <1>1 DEF Assign, Routed, Idle
    <2>4. QED  BY <1>1, <2>2, <2>3 DEF Assign, Start, Moved
  <1>2. ASSUME NEW r \in Requests, Done(r) PROVE Moved(r)
    BY <1>2, IdleType DEF Done, Moved
  <1>3. ASSUME NEW r \in Requests, CloseOpen(r) PROVE Moved(r)
    <2>1. [req[r] EXCEPT !.at = "save"] \in Request /\ Routed([req[r] EXCEPT !.at = "save"])
      BY <1>0, <1>3 DEF Request, CloseOpen, At, RouteOK, Routed
    <2>2. QED  BY <1>0, <1>3, <2>1 DEF CloseOpen, Goto, Moved
  <1>4. ASSUME NEW r \in Requests, SaveAssigned(r) PROVE Moved(r)
    <2>1. CASE Done(r)  BY <1>2, <2>1
    <2>2. CASE req[r].target # NoOne /\ Goto(r, "create")
      <3>1. /\ [req[r] EXCEPT !.at = "create"] \in Request
            /\ Routed([req[r] EXCEPT !.at = "create"])
        BY <1>0, <1>4, <2>2 DEF Request, SaveAssigned, At, RouteOK, Routed
      <3>2. QED  BY <1>0, <2>2, <3>1 DEF Goto, Moved
    <2>3. QED  BY <1>4, <2>1, <2>2 DEF SaveAssigned
  <1>5. ASSUME NEW r \in Requests, EditConversation(r) PROVE Moved(r)
    <2>1. PICK u \in Staff \cup {NoOne} :
            Start(r, [Idle EXCEPT !.op = "edit", !.at = "save", !.previous = assigned, !.target = u])
      BY <1>5 DEF EditConversation
    <2>2. DEFINE new == [Idle EXCEPT !.op = "edit", !.at = "save", !.previous = assigned, !.target = u]
    <2>3. new \in Request /\ Routed(new)  BY <1>0, IdleType DEF Request, Routed
    <2>4. QED  BY <2>1, <2>3 DEF Start, Moved
  <1>6. ASSUME NEW r \in Requests, EditCustomer(r) PROVE Moved(r)
    <2>1. PICK consent \in {"give", "withdraw", "leave"} :
            Start(r, [Idle EXCEPT !.op = consent, !.at = "save", !.row = customer, !.since = now])
      BY <1>6 DEF EditCustomer
    <2>2. DEFINE new == [Idle EXCEPT !.op = consent, !.at = "save", !.row = customer, !.since = now]
    <2>3. new \in Request /\ Routed(new)  BY <1>0, IdleType DEF Request, Routed
    <2>4. QED  BY <2>1, <2>3 DEF Start, Moved
  <1>7. ASSUME NEW r \in Requests, EditSegment(r) \/ EditTemplate(r) PROVE Moved(r)
    <2>1. PICK x \in Segments \cup Templates, b \in Businesses :
            Start(r, [Idle EXCEPT !.op = "part", !.at = "save", !.part = {x}, !.saves = {b}])
      BY <1>7 DEF EditSegment, EditTemplate, EditPart
    <2>2. DEFINE new == [Idle EXCEPT !.op = "part", !.at = "save", !.part = {x}, !.saves = {b}]
    <2>3. new \in Request /\ Routed(new)  BY IdleType DEF Request, Routed
    <2>4. QED  BY <2>1, <2>3 DEF Start, Moved
  <1>8. ASSUME NEW r \in Requests, EditCampaign(r) PROVE Moved(r)
    <2>1. PICK c \in Setups, sets \in SUBSET DOMAIN campaign :
            Start(r, [Idle EXCEPT !.op = "campaign", !.at = "save", !.saves = {c}, !.part = sets])
      BY <1>8 DEF EditCampaign
    <2>2. DEFINE new == [Idle EXCEPT !.op = "campaign", !.at = "save", !.saves = {c}, !.part = sets]
    <2>3. sets \subseteq {"business", "segment", "template"}  BY <1>0 DEF Setups
    <2>4. new \in Request /\ Routed(new)  BY <2>3, IdleType DEF Request, Routed
    <2>5. QED  BY <2>1, <2>4 DEF Start, Moved
  <1>9. ASSUME NEW r \in Requests,
               \/ CreateAssignment(r) \/ SaveConversation(r) \/ SaveCustomer(r) \/ SavePart(r)
               \/ SaveCampaign(r) \/ Die(r)
        PROVE  Moved(r)
    BY <1>2, <1>9 DEF CreateAssignment, SaveConversation, SaveCustomer, SavePart, SaveCampaign, Die
  <1>10. CASE Exchange \/ UNCHANGED vars  BY <1>10 DEF Exchange, vars
  <1>11. QED
    BY <1>1, <1>3, <1>4, <1>5, <1>6, <1>7, <1>8, <1>9, <1>10 DEF Next

LEMMA RequestType ==
  ASSUME TypeOK, RouteOK, [Next]_vars
  PROVE  req' \in [Requests -> Request] /\ RouteOK'
  <1>0. req \in [Requests -> Request]  BY DEF TypeOK
  <1>1. ASSUME NEW r \in Requests, Moved(r) PROVE req' \in [Requests -> Request] /\ RouteOK'
    <2>1. PICK new \in Request : Routed(new) /\ req' = [req EXCEPT ![r] = new]
      BY <1>1 DEF Moved
    <2>2. req' \in [Requests -> Request]  BY <1>0, <2>1
    <2>3. \A q \in Requests : req'[q] = new \/ req'[q] = req[q]  BY <1>0, <2>1
    <2>4. ASSUME NEW q \in Requests PROVE Routed(req[q])'
      BY <2>1, <2>3 DEF RouteOK, Routed
    <2>5. QED  BY <2>2, <2>4 DEF RouteOK
  <1>2. CASE UNCHANGED req  BY <1>0, <1>2 DEF RouteOK, Routed
  <1>3. QED  BY <1>1, <1>2, Moves

\* What the statements that begin a request leave alone, and those that write.
Begins(r) ==
  \/ \E user \in Staff \cup {NoOne} : Assign(r, user)
  \/ EditConversation(r) \/ EditCustomer(r) \/ EditSegment(r) \/ EditTemplate(r)
  \/ EditCampaign(r)
Writes(r) ==
  \/ CloseOpen(r) \/ SaveAssigned(r) \/ CreateAssignment(r) \/ SaveConversation(r)
  \/ SaveCustomer(r) \/ SavePart(r) \/ SaveCampaign(r)

\* How what has happened is noted.
Strays(S) == hist' = [hist EXCEPT !.strays = S]
Takes(r) == hist' = [hist EXCEPT !.by = "other", !.strays = @ \cup {assigned}]

LEMMA Beginning ==
  ASSUME TypeOK, NEW r \in Requests, Begins(r)
  PROVE  /\ UNCHANGED <<kind, desk, customer, now, setup, log, deaths>>
         /\ req[r].op = "none" /\ served' = served + 1
         /\ hist' = hist \/ \E S \in SUBSET (Staff \cup {NoOne}) : Strays(S)
  <1>1. CASE \E user \in Staff \cup {NoOne} : Assign(r, user)
    <2>1. PICK user \in Staff \cup {NoOne} : Assign(r, user)  BY <1>1
    <2>2. hist.strays \subseteq Staff \cup {NoOne} /\ Targets \subseteq Staff \cup {NoOne}
      BY DEF TypeOK, Histories, Targets, Assigning, Request
    <2>3. \E S \in SUBSET (Staff \cup {NoOne}) : Strays(S)
      <3>1. CASE Assigning = {}
        <4>1. Strays(hist.strays)  BY <2>1, <3>1 DEF Assign, Strays
        <4>2. QED  BY <2>2, <4>1
      <3>2. CASE Assigning # {}
        <4>1. Strays(hist.strays \cup Targets \cup {user})  BY <2>1, <3>2 DEF Assign, Strays
        <4>2. hist.strays \cup Targets \cup {user} \in SUBSET (Staff \cup {NoOne})  BY <2>2
        <4>3. QED  BY <4>1, <4>2
      <3>3. QED  BY <3>1, <3>2
    <2>4. QED  BY <2>1, <2>3 DEF Assign, Start
  <1>2. QED
    BY <1>1
    DEF Begins, EditConversation, EditCustomer, EditSegment, EditTemplate, EditPart,
        EditCampaign, Start

\* Who has been noted, of what the other properties are about.
LEMMA Noted ==
  ASSUME TypeOK, NEW r \in Requests, Begins(r) \/ CloseOpen(r)
  PROVE  hist' \in Histories /\ hist'.by = hist.by /\ hist'.given = hist.given
         /\ hist'.moved = hist.moved
  <1>0. hist \in Histories  BY DEF TypeOK
  <1>1. ASSUME NEW S \in SUBSET (Staff \cup {NoOne}), Strays(S)
        PROVE  hist' \in Histories /\ hist'.by = hist.by /\ hist'.given = hist.given
               /\ hist'.moved = hist.moved
    BY <1>0, <1>1 DEF Histories, Strays
  <1>2. CASE CloseOpen(r)
    <2>1. Strays(hist.strays \ ({req[r].previous} \ Targets))  BY <1>2 DEF CloseOpen, Strays
    <2>2. hist.strays \ ({req[r].previous} \ Targets) \in SUBSET (Staff \cup {NoOne})
      BY <1>0 DEF Histories
    <2>3. QED  BY <1>1, <2>1, <2>2
  <1>3. CASE Begins(r)  BY <1>0, <1>1, <1>3, Beginning
  <1>4. QED  BY <1>2, <1>3

LEMMA Steps ==
  ASSUME [Next]_vars
  PROVE  \/ \E r \in Requests : Begins(r) \/ Writes(r) \/ Die(r)
         \/ Exchange \/ UNCHANGED vars
  BY DEF Next, Begins, Writes

\* Which statements write the rows of each kind.
LEMMA DeskType ==
  ASSUME TypeOK, RouteOK, [Next]_vars
  PROVE  assigned' \in Staff \cup {NoOne} /\ history' \in [Staff -> [open : Nat, closed : Nat]]
  <1>0. /\ req \in [Requests -> Request] /\ assigned \in Staff \cup {NoOne}
        /\ history \in [Staff -> [open : Nat, closed : Nat]]
    BY DEF TypeOK
  <1>1. ASSUME NEW r \in Requests, CloseOpen(r)
        PROVE  assigned' = assigned /\ history' \in [Staff -> [open : Nat, closed : Nat]]
    <2>1. history' = [history EXCEPT ![req[r].previous] =
                        [open |-> 0, closed |-> history[req[r].previous].closed
                                                  + history[req[r].previous].open]]
      BY <1>1 DEF CloseOpen
    <2>2. \A u \in Staff : [open |-> 0, closed |-> history[u].closed + history[u].open]
                             \in [open : Nat, closed : Nat]
      BY <1>0
    <2>3. history' \in [Staff -> [open : Nat, closed : Nat]]  BY <1>0, <2>1, <2>2
    <2>4. assigned' = assigned  BY <1>1 DEF CloseOpen
    <2>5. QED  BY <2>3, <2>4
  <1>2. ASSUME NEW r \in Requests, CreateAssignment(r)
        PROVE  assigned' = assigned /\ history' \in [Staff -> [open : Nat, closed : Nat]]
    <2>1. history' = [history EXCEPT ![req[r].target] =
                        [history[req[r].target] EXCEPT !.open = @ + 1]]
      BY <1>0, <1>2 DEF CreateAssignment
    <2>2. \A u \in Staff : [history[u] EXCEPT !.open = @ + 1] \in [open : Nat, closed : Nat]
      BY <1>0
    <2>3. QED  BY <1>0, <1>2, <2>1, <2>2 DEF CreateAssignment
  <1>3. ASSUME NEW r \in Requests, SaveAssigned(r) \/ SaveConversation(r)
        PROVE  assigned' \in Staff \cup {NoOne} /\ history' = history
    BY <1>0, <1>3 DEF SaveAssigned, SaveConversation, Request
  <1>4. CASE UNCHANGED desk  BY <1>0, <1>4 DEF desk
  <1>5. ASSUME NEW r \in Requests, SaveCustomer(r) \/ SavePart(r) \/ SaveCampaign(r) \/ Die(r)
        PROVE  UNCHANGED desk
    BY <1>5 DEF SaveCustomer, SavePart, SaveCampaign, Die
  <1>6. CASE Exchange \/ UNCHANGED vars  BY <1>4, <1>6 DEF Exchange, vars, desk
  <1>7. QED  BY <1>0, <1>1, <1>2, <1>3, <1>4, <1>5, <1>6, Steps, Beginning DEF Writes

LEMMA SetupType ==
  ASSUME TypeOK, RouteOK, [Next]_vars
  PROVE  owner' \in [Segments \cup Templates -> Businesses] /\ campaign' \in Setups
  <1>0. /\ req \in [Requests -> Request] /\ campaign \in Setups
        /\ owner \in [Segments \cup Templates -> Businesses]
    BY DEF TypeOK
  <1>1. ASSUME NEW r \in Requests, SavePart(r)
        PROVE  owner' \in [Segments \cup Templates -> Businesses] /\ campaign' = campaign
    <2>1. req[r].saves \subseteq Businesses  BY <1>1 DEF SavePart, At, RouteOK, Routed
    <2>2. QED  BY <1>0, <1>1, <2>1 DEF SavePart
  <1>2. ASSUME NEW r \in Requests, SaveCampaign(r) PROVE campaign' \in Setups /\ owner' = owner
    BY <1>2 DEF SaveCampaign, At, RouteOK, Routed
  <1>3. CASE UNCHANGED setup  BY <1>0, <1>3 DEF setup
  <1>4. ASSUME NEW r \in Requests,
               \/ CloseOpen(r) \/ SaveAssigned(r) \/ CreateAssignment(r) \/ SaveConversation(r)
               \/ SaveCustomer(r) \/ Die(r)
        PROVE  UNCHANGED setup
    BY <1>4
    DEF CloseOpen, SaveAssigned, CreateAssignment, SaveConversation, SaveCustomer, Die
  <1>5. CASE Exchange \/ UNCHANGED vars  BY <1>3, <1>5 DEF Exchange, vars, setup
  <1>6. QED  BY <1>0, <1>1, <1>2, <1>3, <1>4, <1>5, Steps, Beginning DEF Writes

LEMMA CustomerType ==
  ASSUME TypeOK, [Next]_vars
  PROVE  customer' \in Consents /\ now' \in Nat /\ log' \in Seq(Messages)
  <1>0. /\ req \in [Requests -> Request] /\ customer \in Consents /\ now \in Nat
        /\ log \in Seq(Messages)
    BY DEF TypeOK
  <1>1. ASSUME NEW r \in Requests, SaveCustomer(r)
        PROVE  customer' \in Consents /\ now' \in Nat /\ log' = log
    <2>1. req[r].row \in Consents  BY <1>0 DEF Request
    <2>2. [optin |-> TRUE, at |-> now + 1] \in Consents  BY <1>0 DEF Consents
    <2>3. [req[r].row EXCEPT !.optin = FALSE] \in Consents  BY <2>1 DEF Consents
    <2>4. QED  BY <1>0, <1>1, <2>1, <2>2, <2>3 DEF SaveCustomer, Stamped
  <1>2. CASE Exchange
    <2>1. PICK c \in Conversations, t \in Questions, way \in {"inbound", "outbound"} :
            log' = Append(log, [conversation |-> c, direction |-> way, text |-> t, at |-> now + 1])
      BY <1>2 DEF Exchange
    <2>2. [conversation |-> c, direction |-> way, text |-> t, at |-> now + 1] \in Messages
      BY <1>0 DEF Messages
    <2>3. QED  BY <1>0, <1>2, <2>1, <2>2 DEF Exchange
  <1> DEFINE Kept == UNCHANGED customer /\ UNCHANGED now /\ UNCHANGED log
  <1>3. CASE Kept  BY <1>0, <1>3
  <1>4. ASSUME NEW r \in Requests,
               \/ CloseOpen(r) \/ SaveAssigned(r) \/ CreateAssignment(r) \/ SaveConversation(r)
               \/ SavePart(r) \/ SaveCampaign(r) \/ Die(r)
        PROVE  Kept
    BY <1>4
    DEF CloseOpen, SaveAssigned, CreateAssignment, SaveConversation, SavePart, SaveCampaign, Die
  <1>5. ASSUME UNCHANGED vars PROVE Kept  BY <1>5 DEF vars
  <1>6. ASSUME NEW r \in Requests, Begins(r) PROVE Kept
    BY <1>6, Beginning
  <1>7. ASSUME NEW r \in Requests, Begins(r) \/ Writes(r) \/ Die(r)
        PROVE  SaveCustomer(r) \/ Kept
    BY <1>4, <1>6, <1>7 DEF Writes
  <1>8. CASE Kept  BY <1>3, <1>8
  <1> HIDE DEF Kept
  <1>9. (\E r \in Requests : SaveCustomer(r)) \/ Exchange \/ Kept  BY <1>5, <1>7, Steps
  <1>10. QED  BY <1>0, <1>1, <1>2, <1>8, <1>9

LEMMA HistoryType ==
  ASSUME TypeOK, [Next]_vars
  PROVE  /\ kind' \in Kinds /\ served' \in Nat /\ deaths' \in Nat
         /\ hist' \in Histories
  <1>0. kind \in Kinds /\ served \in Nat /\ deaths \in Nat /\ hist \in Histories /\ now \in Nat
    BY DEF TypeOK
  <1>1. ASSUME NEW r \in Requests, Writes(r)
        PROVE  UNCHANGED <<kind, served, deaths>>
    BY <1>1
    DEF Writes, CloseOpen, SaveAssigned, CreateAssignment, SaveConversation, SaveCustomer,
        SavePart, SaveCampaign
  <1>2. kind' \in Kinds /\ served' \in Nat /\ deaths' \in Nat
    BY <1>0, <1>1, Steps, Beginning DEF Die, Exchange, vars
  <1>3. ASSUME NEW r \in Requests, SaveAssigned(r) \/ SaveConversation(r) PROVE hist' \in Histories
    <2>1. [hist EXCEPT !.by = "assign"] \in Histories  BY <1>0 DEF Histories
    <2>2. [hist EXCEPT !.by = "other", !.strays = @ \cup {assigned}] \in Histories
      BY <1>0 DEF Histories, TypeOK
    <2>3. CASE SaveAssigned(r)  BY <2>1, <2>3 DEF SaveAssigned
    <2>4. CASE SaveConversation(r)  BY <1>0, <2>2, <2>4 DEF SaveConversation
    <2>5. QED  BY <1>3, <2>3, <2>4
  <1>4. ASSUME NEW r \in Requests, SaveCustomer(r) PROVE hist' \in Histories
    <2>1. \A S \in SUBSET Nat : [hist EXCEPT !.given = S] \in Histories  BY <1>0 DEF Histories
    <2>2. hist.given \in SUBSET Nat /\ hist.given \cup {now + 1} \in SUBSET Nat  BY <1>0 DEF Histories
    <2>3. QED  BY <1>4, <2>1, <2>2 DEF SaveCustomer, Remember
  <1>5. ASSUME NEW r \in Requests, SavePart(r) PROVE hist' \in Histories
    <2>1. \A m \in BOOLEAN : [hist EXCEPT !.moved = m] \in Histories  BY <1>0 DEF Histories
    <2>2. \A x, b : (hist.moved \/ owner[x] # b) \in BOOLEAN  OBVIOUS
    <2>3. QED  BY <1>5, <2>1, <2>2 DEF SavePart
  <1>6. ASSUME UNCHANGED hist PROVE hist' \in Histories  BY <1>0, <1>6
  <1>7. ASSUME NEW r \in Requests,
               CreateAssignment(r) \/ SaveCampaign(r) \/ Die(r)
        PROVE  UNCHANGED hist
    BY <1>7 DEF CreateAssignment, SaveCampaign, Die
  <1>8. ASSUME Exchange \/ UNCHANGED vars PROVE UNCHANGED hist  BY <1>8 DEF Exchange, vars
  <1>9. ASSUME NEW r \in Requests, Begins(r) \/ CloseOpen(r) PROVE hist' \in Histories
    BY <1>9, Noted
  <1>10. hist' \in Histories
    BY <1>3, <1>4, <1>5, <1>6, <1>7, <1>8, <1>9, Steps DEF Writes
  <1>11. QED  BY <1>2, <1>10

LEMMA TypeInit == Init => TypeOK /\ RouteOK
  <1> SUFFICES ASSUME Init PROVE TypeOK /\ RouteOK  OBVIOUS
  <1>1. req \in [Requests -> Request] /\ RouteOK  BY IdleType DEF Init, RouteOK
  <1>2. customer \in Consents /\ log \in Seq(Messages)  BY DEF Init, Row, Consents
  <1>3. history \in [Staff -> [open : Nat, closed : Nat]]  BY DEF Init
  <1>4. hist \in Histories  BY DEF Init, Histories
  <1>5. campaign \in Setups /\ owner \in [Segments \cup Templates -> Businesses]  BY DEF Init
  <1>6. QED  BY <1>1, <1>2, <1>3, <1>4, <1>5 DEF Init, TypeOK

LEMMA TypeRoute == Spec => [](TypeOK /\ RouteOK)
  <1>1. TypeOK /\ RouteOK /\ [Next]_vars => TypeOK' /\ RouteOK'
    BY RequestType, DeskType, SetupType, CustomerType, HistoryType DEF TypeOK
  <1>2. QED  BY <1>1, TypeInit, PTL DEF Spec

\* Every variable keeps its type.
THEOREM TypeCorrect == Spec => []TypeOK
  BY TypeRoute, PTL

(***************************************************************************)
(* Assignment                                                              *)
(***************************************************************************)
\* A request has saved u and will log it, or is about to replace it.
Logging(r, u) == At(r, "assign", "create") /\ req[r].target = u
Replacing(r, u) == At(r, "assign", "save") /\ req[r].previous = u

\* Without deaths and PATCHes, who has the conversation is logged, about to be
\* logged or about to be replaced.
LoggedOK ==
  deaths = 0 /\ hist.by = "assign" /\ assigned # NoOne
  => \/ history[assigned].open > 0
     \/ \E r \in Requests : Logging(r, assigned) \/ Replacing(r, assigned)

LEMMA LoggedNext ==
  ASSUME TypeOK, RouteOK, LoggedOK, [Next]_vars
  PROVE  LoggedOK'
  <1>0. /\ req \in [Requests -> Request] /\ hist \in Histories /\ deaths \in Nat
        /\ history \in [Staff -> [open : Nat, closed : Nat]] /\ assigned \in Staff \cup {NoOne}
    BY DEF TypeOK
  <1>1. ASSUME NEW r \in Requests, CloseOpen(r) PROVE LoggedOK'
    <2>1. /\ assigned' = assigned /\ deaths' = deaths /\ hist'.by = hist.by
          /\ req[r].op = "assign" /\ req[r].at = "close"
          /\ req' = [req EXCEPT ![r].at = "save"]
          /\ history' = [history EXCEPT ![req[r].previous] = [open |-> 0, closed |-> @.closed + @.open]]
      BY <1>1, Noted DEF CloseOpen, At, Goto, desk
    <2>2. /\ req'[r].op = "assign" /\ req'[r].at = "save" /\ req'[r].previous = req[r].previous
          /\ \A q \in Requests \ {r} : req'[q] = req[q]
      BY <1>0, <2>1 DEF Request
    <2>3. CASE assigned = req[r].previous
      <3>1. Replacing(r, assigned)'  BY <2>1, <2>2, <2>3 DEF Replacing, At
      <3>2. QED  BY <3>1 DEF LoggedOK
    <2>4. CASE assigned # req[r].previous
      <3>1. assigned # NoOne => history'[assigned] = history[assigned]  BY <1>0, <2>1, <2>4
      <3>2. ASSUME NEW q \in Requests, Logging(q, assigned) \/ Replacing(q, assigned)
            PROVE  (Logging(q, assigned) \/ Replacing(q, assigned))'
        <4>1. q # r  BY <2>1, <3>2 DEF Logging, Replacing, At
        <4>2. QED  BY <2>1, <2>2, <3>2, <4>1 DEF Logging, Replacing, At
      <3>3. QED  BY <2>1, <3>1, <3>2 DEF LoggedOK
    <2>5. QED  BY <2>3, <2>4
  <1>2. ASSUME NEW r \in Requests, SaveAssigned(r) PROVE LoggedOK'
    <2>1. assigned' = req[r].target /\ req[r].op = "assign"  BY <1>2 DEF SaveAssigned, At
    <2>2. CASE assigned' = NoOne  BY <2>2 DEF LoggedOK
    <2>3. CASE assigned' # NoOne
      <3>1. req' = [req EXCEPT ![r].at = "create"]  BY <1>2, <2>1, <2>3 DEF SaveAssigned, Goto
      <3>2. Logging(r, assigned)'
        BY <1>0, <2>1, <3>1 DEF Logging, At, Request
      <3>3. QED  BY <3>2 DEF LoggedOK
    <2>4. QED  BY <2>2, <2>3
  <1>3. ASSUME NEW r \in Requests, CreateAssignment(r) PROVE LoggedOK'
    <2>1. /\ assigned' = assigned /\ deaths' = deaths /\ hist' = hist
          /\ req[r].op = "assign" /\ req[r].at = "create"
          /\ req' = [req EXCEPT ![r] = Idle]
          /\ history' = [history EXCEPT ![req[r].target].open = @ + 1]
      BY <1>3 DEF CreateAssignment, At, Done
    <2>2. \A q \in Requests \ {r} : req'[q] = req[q]  BY <1>0, <2>1
    <2>3. \A u \in Staff : history'[u].open \in Nat /\ history'[u].open >= history[u].open
      <3>1. ASSUME NEW u \in Staff
            PROVE  history'[u].open \in Nat /\ history'[u].open >= history[u].open
        BY <1>0, <2>1
      <3>2. QED  BY <3>1
    <2>4. CASE assigned = req[r].target /\ assigned \in Staff
      <3>1. history'[assigned].open = history[assigned].open + 1  BY <1>0, <2>1, <2>4
      <3>2. history'[assigned'].open > 0  BY <1>0, <2>1, <2>4, <3>1
      <3>3. QED  BY <3>2 DEF LoggedOK
    <2>5. CASE assigned # req[r].target
      <3>1. assigned # NoOne /\ history[assigned].open > 0 => history'[assigned].open > 0
        BY <1>0, <2>3
      <3>2. ASSUME NEW q \in Requests, Logging(q, assigned) \/ Replacing(q, assigned)
            PROVE  (Logging(q, assigned) \/ Replacing(q, assigned))'
        <4>1. q # r  BY <2>1, <2>5, <3>2 DEF Logging, Replacing, At
        <4>2. QED  BY <2>1, <2>2, <3>2, <4>1 DEF Logging, Replacing, At
      <3>3. QED  BY <2>1, <3>1, <3>2 DEF LoggedOK
    <2>6. CASE assigned = NoOne  BY <2>1, <2>6 DEF LoggedOK
    <2>7. QED  BY <1>0, <2>4, <2>5, <2>6
  <1>4. ASSUME UNCHANGED <<assigned, history>>,
               deaths' = 0 => deaths = 0, hist'.by = "assign" => hist.by = "assign",
               \A q \in Requests : req[q].op = "assign" => req'[q] = req[q]
        PROVE  LoggedOK'
    <2>1. ASSUME NEW q \in Requests, Logging(q, assigned) \/ Replacing(q, assigned)
          PROVE  (Logging(q, assigned) \/ Replacing(q, assigned))'
      BY <1>4, <2>1 DEF Logging, Replacing, At
    <2>2. QED  BY <1>4, <2>1 DEF LoggedOK
  <1>5. ASSUME NEW r \in Requests, SaveConversation(r) PROVE LoggedOK'
    <2>1. /\ history' = history /\ deaths' = deaths /\ assigned' = req[r].target
          /\ req' = [req EXCEPT ![r] = Idle] /\ req[r].op = "edit"
          /\ assigned = req[r].target => hist' = hist
          /\ assigned # req[r].target => Takes(r)
      BY <1>5 DEF SaveConversation, At, Done, Takes
    <2>2. CASE assigned' # assigned
      <3>1. hist'.by = "other"  BY <1>0, <2>1, <2>2 DEF Histories, Takes
      <3>2. QED  BY <3>1 DEF LoggedOK
    <2>3. CASE assigned' = assigned
      <3>1. hist'.by = hist.by  BY <1>0, <2>1, <2>3 DEF Histories
      <3>2. \A q \in Requests : req[q].op = "assign" => req'[q] = req[q]  BY <1>0, <2>1
      <3>3. QED  BY <1>4, <2>1, <2>3, <3>1, <3>2
    <2>4. QED  BY <2>2, <2>3
  <1>6. ASSUME NEW r \in Requests, SaveCustomer(r) \/ SavePart(r) \/ SaveCampaign(r)
        PROVE  LoggedOK'
    <2>1. /\ UNCHANGED <<assigned, history, deaths>> /\ req' = [req EXCEPT ![r] = Idle]
          /\ req[r].op # "assign"
      BY <1>6 DEF SaveCustomer, Customer, SavePart, SaveCampaign, At, Done, desk
    <2>2. hist'.by = hist.by
      <3>1. \/ hist' = hist \/ \E S : hist' = [hist EXCEPT !.given = S]
            \/ \E m : hist' = [hist EXCEPT !.moved = m]
        BY <1>6 DEF SaveCustomer, Remember, SavePart, SaveCampaign
      <3>2. QED  BY <1>0, <3>1 DEF Histories
    <2>3. \A q \in Requests : req[q].op = "assign" => req'[q] = req[q]  BY <1>0, <2>1
    <2>4. QED  BY <1>4, <2>1, <2>2, <2>3
  <1>7. ASSUME NEW r \in Requests, Begins(r) PROVE LoggedOK'
    <2>1. req[r].op = "none" /\ UNCHANGED <<assigned, history, deaths>> /\ hist'.by = hist.by
      BY <1>7, Beginning, Noted DEF desk
    <2>2. PICK new : req' = [req EXCEPT ![r] = new]
      BY <1>7
      DEF Begins, Assign, EditConversation, EditCustomer, EditSegment, EditTemplate, EditPart,
          EditCampaign, Start
    <2>3. \A q \in Requests : req[q].op = "assign" => req'[q] = req[q]  BY <1>0, <2>1, <2>2
    <2>4. QED  BY <1>4, <2>1, <2>3
  <1>8. ASSUME NEW r \in Requests, Die(r) PROVE LoggedOK'
    <2>1. deaths' # 0  BY <1>0, <1>8 DEF Die
    <2>2. QED  BY <2>1 DEF LoggedOK
  <1>9. CASE Exchange \/ UNCHANGED vars
    <2>1. UNCHANGED <<assigned, history, deaths, hist, req>>  BY <1>9 DEF Exchange, vars, desk
    <2>2. QED  BY <1>4, <2>1
  <1>10. QED
    BY <1>1, <1>2, <1>3, <1>5, <1>6, <1>7, <1>8, <1>9, Steps DEF Writes

\* A member without an open row, or one that may keep it.
Fresh(u) == u # NoOne => history[u].open = 0 \/ u \in hist.strays

\* Two assignments at work together have named theirs as members that may keep a
\* row; a target has no row yet; and who is about to be replaced has none that
\* stays.
OverlapOK ==
  \A q, r \in Requests : q # r /\ req[q].op = "assign" /\ req[r].op = "assign"
    => req[q].target \in hist.strays
Awaits(q) ==
  /\ Fresh(q.target)
  /\ q.at = "create" => q.target = assigned \/ q.target \in hist.strays
  /\ q.at \in {"close", "save"} => (q.at = "close" /\ assigned = q.previous) \/ Fresh(assigned)
AwaitOK == \A r \in Requests : req[r].op = "assign" => Awaits(req[r])
StrayOK == OverlapOK /\ AwaitOK /\ OpenIsAssigned

\* A step that neither assigns nor closes, and lets no member's row be missed.
LEMMA StrayKept ==
  ASSUME TypeOK, StrayOK, UNCHANGED <<assigned, history>>, hist.strays \subseteq hist'.strays,
         \A q \in Requests : req'[q].op = "assign" => req'[q] = req[q]
  PROVE  StrayOK'
  <1>1. OverlapOK'  BY DEF StrayOK, OverlapOK
  <1>2. ASSUME NEW q \in Requests, req'[q].op = "assign" PROVE Awaits(req[q])'
    <2>1. Awaits(req[q]) /\ req'[q] = req[q]  BY <1>2 DEF StrayOK, AwaitOK
    <2>2. QED  BY <2>1 DEF Awaits, Fresh
  <1>3. OpenIsAssigned'  BY DEF StrayOK, OpenIsAssigned
  <1>4. QED  BY <1>1, <1>2, <1>3 DEF StrayOK, AwaitOK

LEMMA StrayAssign ==
  ASSUME TypeOK, StrayOK, NEW r \in Requests, NEW user \in Staff \cup {NoOne}, Assign(r, user)
  PROVE  StrayOK'
  <1>0. /\ req \in [Requests -> Request] /\ hist \in Histories /\ assigned # user
        /\ history \in [Staff -> [open : Nat, closed : Nat]] /\ assigned \in Staff \cup {NoOne}
    BY DEF TypeOK, Assign
  <1> DEFINE new == [Idle EXCEPT !.op = "assign", !.previous = assigned, !.target = user,
                                 !.at = IF assigned = NoOne THEN "save" ELSE "close"]
  <1>1. /\ new.target = user /\ new.previous = assigned /\ new.op = "assign"
        /\ new.at = IF assigned = NoOne THEN "save" ELSE "close"
    BY DEF Idle
  <1>2. /\ req' = [req EXCEPT ![r] = new] /\ UNCHANGED <<assigned, history>>
        /\ hist' = [hist EXCEPT !.strays = IF Assigning = {} THEN @ ELSE @ \cup Targets \cup {user}]
    BY DEF Assign, Start, desk
  <1> HIDE DEF new
  <1>3. req'[r] = new /\ \A q \in Requests \ {r} : req'[q] = req[q]  BY <1>0, <1>2
  <1>4. /\ hist.strays \subseteq hist'.strays
        /\ Assigning # {} => Targets \subseteq hist'.strays /\ user \in hist'.strays
    BY <1>0, <1>2 DEF Histories
  <1>5. ASSUME NEW q \in Requests, NEW p \in Requests, q # p,
               req'[q].op = "assign", req'[p].op = "assign"
        PROVE  req'[q].target \in hist'.strays
    <2>1. CASE q = r
      <3>1. p \in Assigning  BY <1>3, <1>5, <2>1 DEF Assigning
      <3>2. QED  BY <1>1, <1>3, <1>4, <2>1, <3>1
    <2>2. CASE q # r
      <3>1. q \in Assigning /\ req'[q].target = req[q].target  BY <1>3, <1>5, <2>2 DEF Assigning
      <3>2. QED  BY <1>4, <3>1 DEF Targets
    <2>3. QED  BY <2>1, <2>2
  <1>6. ASSUME NEW q \in Requests, req'[q].op = "assign" PROVE Awaits(req[q])'
    <2>1. CASE q # r
      <3>1. Awaits(req[q]) /\ req'[q] = req[q]  BY <1>3, <1>6, <2>1 DEF StrayOK, AwaitOK
      <3>2. QED  BY <1>2, <1>4, <3>1 DEF Awaits, Fresh
    <2>2. CASE q = r
      <3>1. user # NoOne => history[user].open = 0 \/ user \in hist.strays
        BY <1>0 DEF StrayOK, OpenIsAssigned
      <3>2. Fresh(user)' /\ assigned' = assigned  BY <1>2, <1>4, <3>1 DEF Fresh
      <3>3. assigned = NoOne => Fresh(assigned)'  BY <1>2 DEF Fresh
      <3>4. req'[q] = new  BY <1>3, <2>2
      <3>5. QED  BY <1>1, <3>2, <3>3, <3>4 DEF Awaits
    <2>3. QED  BY <2>1, <2>2
  <1>7. OpenIsAssigned'  BY <1>2, <1>4 DEF StrayOK, OpenIsAssigned
  <1>8. QED  BY <1>5, <1>6, <1>7 DEF StrayOK, OverlapOK, AwaitOK

LEMMA StrayClose ==
  ASSUME TypeOK, RouteOK, StrayOK, NEW r \in Requests, CloseOpen(r)
  PROVE  StrayOK'
  <1> DEFINE u == req[r].previous
  <1>0. /\ req \in [Requests -> Request] /\ hist \in Histories /\ assigned \in Staff \cup {NoOne}
        /\ history \in [Staff -> [open : Nat, closed : Nat]]
        /\ req[r].op = "assign" /\ req[r].at = "close" /\ u \in Staff
    BY DEF TypeOK, CloseOpen, At, RouteOK, Routed, Request
  <1>1. /\ req' = [req EXCEPT ![r].at = "save"] /\ assigned' = assigned
        /\ history' = [history EXCEPT ![u] = [open |-> 0, closed |-> @.closed + @.open]]
        /\ hist' = [hist EXCEPT !.strays = @ \ ({u} \ Targets)]
    BY DEF CloseOpen, Goto
  <1> HIDE DEF u
  <1>2. /\ history'[u].open = 0 /\ \A v \in Staff \ {u} : history'[v] = history[v]
        /\ \A v \in hist.strays : v # u \/ v \in Targets => v \in hist'.strays
    BY <1>0, <1>1 DEF Histories
  <1>3. /\ req'[r].at = "save" /\ \A q \in Requests \ {r} : req'[q] = req[q]
        /\ \A q \in Requests : req'[q].op = req[q].op /\ req'[q].target = req[q].target
                               /\ req'[q].previous = req[q].previous
    BY <1>0, <1>1 DEF Request
  <1>4. ASSUME NEW v \in Staff \cup {NoOne}, Fresh(v) PROVE Fresh(v)'
    BY <1>0, <1>2, <1>4 DEF Fresh
  <1>5. ASSUME NEW q \in Requests, req[q].op = "assign", req[q].target \in hist.strays
        PROVE  req[q].target \in hist'.strays
    BY <1>2, <1>5 DEF Targets, Assigning
  <1>6. OverlapOK'  BY <1>3, <1>5 DEF StrayOK, OverlapOK
  <1>7. ASSUME NEW q \in Requests, req'[q].op = "assign" PROVE Awaits(req[q])'
    <2>1. Awaits(req[q]) /\ req[q].op = "assign" /\ req[q].target \in Staff \cup {NoOne}
      BY <1>0, <1>3, <1>7 DEF StrayOK, AwaitOK, Request
    <2>2. Fresh(req[q].target)'
      <3>1. Fresh(req[q].target)  BY <2>1 DEF Awaits
      <3>2. PICK v \in Staff \cup {NoOne} : v = req[q].target  BY <2>1
      <3>3. Fresh(v)'  BY <1>4, <3>1, <3>2
      <3>4. req'[q].target = v  BY <1>3, <3>2
      <3>5. QED  BY <3>3, <3>4 DEF Fresh
    <2>3. req'[q].at = "create" => req'[q].target = assigned' \/ req'[q].target \in hist'.strays
      <3>1. req'[q].at = "create" => req[q].at = "create"  BY <1>3
      <3>2. QED  BY <1>1, <1>3, <1>5, <2>1, <3>1 DEF Awaits
    <2>4. req'[q].at \in {"close", "save"} =>
            (req'[q].at = "close" /\ assigned' = req'[q].previous) \/ Fresh(assigned)'
      <3>1. CASE Fresh(assigned)
        <4>1. Fresh(assigned)'  BY <1>0, <1>1, <1>4, <3>1 DEF Fresh
        <4>2. QED  BY <4>1
      <3>2. CASE q # r  BY <1>1, <1>3, <2>1, <3>1, <3>2 DEF Awaits
      <3>3. CASE q = r /\ ~Fresh(assigned)
        <4>1. assigned = u  BY <1>0, <2>1, <3>3 DEF Awaits, u
        <4>2. Fresh(assigned)'  BY <1>1, <1>2, <4>1 DEF Fresh
        <4>3. QED  BY <4>2
      <3>4. QED  BY <3>1, <3>2, <3>3
    <2>5. QED  BY <2>2, <2>3, <2>4 DEF Awaits
  <1>8. OpenIsAssigned'
    <2>1. ASSUME NEW v \in Staff, history'[v].open > (IF v = assigned' THEN 1 ELSE 0)
          PROVE  v \in hist'.strays
      <3>1. v # u  BY <1>2, <2>1
      <3>2. v \in hist.strays  BY <1>1, <1>2, <2>1, <3>1 DEF StrayOK, OpenIsAssigned
      <3>3. QED  BY <1>2, <3>1, <3>2
    <2>2. QED  BY <2>1 DEF OpenIsAssigned
  <1>9. QED  BY <1>6, <1>7, <1>8 DEF StrayOK, AwaitOK

LEMMA StraySave ==
  ASSUME TypeOK, StrayOK, NEW r \in Requests, SaveAssigned(r)
  PROVE  StrayOK'
  <1>0. /\ req \in [Requests -> Request] /\ hist \in Histories /\ assigned \in Staff \cup {NoOne}
        /\ history \in [Staff -> [open : Nat, closed : Nat]]
        /\ req[r].op = "assign" /\ req[r].at = "save"
    BY DEF TypeOK, SaveAssigned, At
  <1>1. /\ assigned' = req[r].target /\ history' = history
        /\ hist' = [hist EXCEPT !.by = "assign"]
        /\ req' = [req EXCEPT ![r] = Idle] \/ req' = [req EXCEPT ![r].at = "create"]
    BY DEF SaveAssigned, Done, Goto
  <1>2. /\ hist'.strays = hist.strays /\ \A q \in Requests \ {r} : req'[q] = req[q]
        /\ req'[r].op = "assign" => req'[r].at = "create" /\ req'[r].target = req[r].target
    BY <1>0, <1>1 DEF Histories, Request, Idle
  <1>3. OverlapOK'
    <2>1. \A q \in Requests : req'[q].op = "assign" =>
            req[q].op = "assign" /\ req'[q].target = req[q].target
      BY <1>0, <1>2
    <2>2. QED  BY <1>2, <2>1 DEF StrayOK, OverlapOK
  <1>4. Awaits(req[r])  BY <1>0 DEF StrayOK, AwaitOK
  <1>5. Fresh(assigned)'
    <2>1. Fresh(req[r].target)  BY <1>4 DEF Awaits
    <2>2. QED  BY <1>1, <1>2, <2>1 DEF Fresh
  <1>6. ASSUME NEW q \in Requests, req'[q].op = "assign" PROVE Awaits(req[q])'
    <2>1. CASE q = r
      <3>1. req'[q].at = "create" /\ req'[q].target = assigned'  BY <1>1, <1>2, <1>6, <2>1
      <3>2. QED  BY <1>5, <3>1 DEF Awaits, Fresh
    <2>2. CASE q # r
      <3>1. req'[q] = req[q] /\ Awaits(req[q]) /\ req[q].target \in hist.strays
        BY <1>0, <1>2, <1>6, <2>2 DEF StrayOK, AwaitOK, OverlapOK
      <3>2. Fresh(req[q].target)'  BY <1>2, <3>1 DEF Fresh
      <3>3. QED  BY <1>2, <1>5, <3>1, <3>2 DEF Awaits
    <2>3. QED  BY <2>1, <2>2
  <1>7. OpenIsAssigned'
    <2>1. assigned # NoOne => history[assigned].open = 0 \/ assigned \in hist.strays
      BY <1>0, <1>4 DEF Awaits, Fresh
    <2>2. ASSUME NEW v \in Staff, history[v].open > (IF v = assigned' THEN 1 ELSE 0)
          PROVE  v \in hist.strays
      <3>1. history[v].open \in Nat  BY <1>0
      <3>2. CASE v = assigned  BY <2>1, <2>2, <3>1, <3>2, DeskAssumption
      <3>3. CASE v # assigned
        <4>1. history[v].open > 0  BY <2>2, <3>1
        <4>2. QED  BY <3>3, <4>1 DEF StrayOK, OpenIsAssigned
      <3>4. QED  BY <3>2, <3>3
    <2>3. QED  BY <1>1, <1>2, <2>2 DEF OpenIsAssigned
  <1>8. QED  BY <1>3, <1>6, <1>7 DEF StrayOK, AwaitOK

LEMMA StrayCreate ==
  ASSUME TypeOK, RouteOK, StrayOK, NEW r \in Requests, CreateAssignment(r)
  PROVE  StrayOK'
  <1> DEFINE u == req[r].target
  <1>0. /\ req \in [Requests -> Request] /\ assigned \in Staff \cup {NoOne}
        /\ history \in [Staff -> [open : Nat, closed : Nat]]
        /\ req[r].op = "assign" /\ req[r].at = "create" /\ u \in Staff
    BY DEF TypeOK, CreateAssignment, At, RouteOK, Routed, Request
  <1>1. /\ req' = [req EXCEPT ![r] = Idle] /\ assigned' = assigned /\ hist' = hist
        /\ history' = [history EXCEPT ![u].open = @ + 1]
    BY DEF CreateAssignment, Done
  <1>2. Awaits(req[r])  BY <1>0 DEF StrayOK, AwaitOK
  <1>3. /\ history[u].open = 0 \/ u \in hist.strays
        /\ u = assigned \/ u \in hist.strays
    BY <1>0, <1>2, DeskAssumption DEF Awaits, Fresh
  <1>4. \A q \in Requests : req'[q].op = "assign" =>
          req[q].op = "assign" /\ req'[q] = req[q] /\ q # r
    BY <1>0, <1>1 DEF Idle
  <1>5. OverlapOK'  BY <1>1, <1>4 DEF StrayOK, OverlapOK
  <1>6. ASSUME NEW q \in Requests, req'[q].op = "assign" PROVE Awaits(req[q])'
    <2>1. req'[q] = req[q] /\ Awaits(req[q]) /\ req[q].target \in hist.strays /\ u \in hist.strays
      BY <1>0, <1>4, <1>6 DEF StrayOK, AwaitOK, OverlapOK
    <2>2. Fresh(req[q].target)'  BY <1>1, <2>1 DEF Fresh
    <2>3. Fresh(assigned) => Fresh(assigned)'
      <3>1. CASE assigned = u  BY <1>1, <2>1, <3>1 DEF Fresh
      <3>2. CASE assigned # u
        <4>1. assigned # NoOne => history'[assigned] = history[assigned]  BY <1>0, <1>1, <3>2
        <4>2. QED  BY <1>1, <4>1 DEF Fresh
      <3>3. QED  BY <3>1, <3>2
    <2>4. QED  BY <1>1, <2>1, <2>2, <2>3 DEF Awaits
  <1>7. OpenIsAssigned'
    <2>1. ASSUME NEW v \in Staff, history'[v].open > (IF v = assigned THEN 1 ELSE 0)
          PROVE  v \in hist.strays
      <3>1. CASE v = u
        <4>1. history'[v].open = history[v].open + 1  BY <1>0, <1>1, <3>1
        <4>2. QED  BY <1>3, <2>1, <3>1, <4>1
      <3>2. CASE v # u
        <4>1. history'[v] = history[v]  BY <1>0, <1>1, <3>2
        <4>2. QED  BY <2>1, <4>1 DEF StrayOK, OpenIsAssigned
      <3>3. QED  BY <3>1, <3>2
    <2>2. QED  BY <1>1, <2>1 DEF OpenIsAssigned
  <1>8. QED  BY <1>5, <1>6, <1>7 DEF StrayOK, AwaitOK

LEMMA StrayPatch ==
  ASSUME TypeOK, StrayOK, NEW r \in Requests, SaveConversation(r)
  PROVE  StrayOK'
  <1>0. /\ req \in [Requests -> Request] /\ hist \in Histories /\ assigned \in Staff \cup {NoOne}
        /\ history \in [Staff -> [open : Nat, closed : Nat]] /\ req[r].op = "edit"
    BY DEF TypeOK, SaveConversation, At
  <1>1. /\ assigned' = req[r].target /\ history' = history /\ req' = [req EXCEPT ![r] = Idle]
        /\ assigned = req[r].target => hist' = hist
        /\ assigned # req[r].target => Takes(r)
    BY DEF SaveConversation, Done, Takes
  <1>2. \A q \in Requests : req'[q].op = "assign" => req[q].op = "assign" /\ req'[q] = req[q]
    BY <1>0, <1>1 DEF Idle
  <1>3. CASE assigned' = assigned  BY <1>1, <1>2, <1>3, StrayKept
  <1>4. CASE assigned' # assigned
    <2>1. hist'.strays = hist.strays \cup {assigned}  BY <1>0, <1>1, <1>4 DEF Takes, Histories
    <2>2. OverlapOK'  BY <1>2, <2>1 DEF StrayOK, OverlapOK
    <2>3. Fresh(assigned)'
      <3>1. assigned' \in Staff \cup {NoOne}  BY <1>0, <1>1 DEF Request
      <3>2. assigned' # NoOne => history[assigned'].open = 0 \/ assigned' \in hist.strays
        BY <1>0, <1>4, <3>1 DEF StrayOK, OpenIsAssigned
      <3>3. QED  BY <1>1, <2>1, <3>2 DEF Fresh
    <2>4. ASSUME NEW q \in Requests, req'[q].op = "assign" PROVE Awaits(req[q])'
      <3>1. req'[q] = req[q] /\ Awaits(req[q])  BY <1>2, <2>4 DEF StrayOK, AwaitOK
      <3>2. Fresh(req[q].target)'  BY <1>1, <2>1, <3>1 DEF Awaits, Fresh
      <3>3. QED  BY <2>1, <2>3, <3>1, <3>2 DEF Awaits
    <2>5. OpenIsAssigned'
      <3>1. ASSUME NEW v \in Staff, history[v].open > (IF v = assigned' THEN 1 ELSE 0)
            PROVE  v \in hist'.strays
        <4>1. CASE v = assigned  BY <2>1, <4>1
        <4>2. CASE v # assigned
          <5>1. history[v].open > 0  BY <1>0, <3>1
          <5>2. QED  BY <2>1, <4>2, <5>1 DEF StrayOK, OpenIsAssigned
        <4>3. QED  BY <4>1, <4>2
      <3>2. QED  BY <1>1, <3>1 DEF OpenIsAssigned
    <2>6. QED  BY <2>2, <2>4, <2>5 DEF StrayOK, AwaitOK
  <1>5. QED  BY <1>3, <1>4

LEMMA StrayNext ==
  ASSUME TypeOK, RouteOK, StrayOK, [Next]_vars
  PROVE  StrayOK'
  <1>0. req \in [Requests -> Request] /\ hist \in Histories  BY DEF TypeOK
  <1>1. ASSUME NEW r \in Requests, Begins(r) PROVE StrayOK'
    <2>1. CASE \E user \in Staff \cup {NoOne} : Assign(r, user)  BY <2>1, StrayAssign
    <2>2. CASE ~\E user \in Staff \cup {NoOne} : Assign(r, user)
      <3>1. UNCHANGED <<assigned, history>>  BY <1>1, Beginning DEF desk
      <3>2. hist' = hist
        BY <1>1, <2>2
        DEF Begins, EditConversation, EditCustomer, EditSegment, EditTemplate, EditPart, EditCampaign
      <3>3. \A q \in Requests : req'[q].op = "assign" => req'[q] = req[q]
        <4>2. CASE EditConversation(r) \/ EditCustomer(r)
          <5>1. req'[r].op \in {"edit", "give", "withdraw", "leave"}
                /\ \A q \in Requests \ {r} : req'[q] = req[q]
            BY <1>0, <4>2 DEF EditConversation, EditCustomer, Start, Idle
          <5>2. QED  BY <5>1
        <4>3. CASE EditSegment(r) \/ EditTemplate(r) \/ EditCampaign(r)
          <5>1. req'[r].op \in {"part", "campaign"} /\ \A q \in Requests \ {r} : req'[q] = req[q]
            BY <1>0, <4>3 DEF EditSegment, EditTemplate, EditPart, EditCampaign, Start, Idle
          <5>2. QED  BY <5>1
        <4>4. QED  BY <1>1, <2>2, <4>2, <4>3 DEF Begins
      <3>4. QED  BY <3>1, <3>2, <3>3, StrayKept
    <2>3. QED  BY <2>1, <2>2
  <1>2. ASSUME NEW r \in Requests, SaveCustomer(r) \/ SavePart(r) \/ SaveCampaign(r) \/ Die(r)
        PROVE  StrayOK'
    <2>1. UNCHANGED <<assigned, history>> /\ req' = [req EXCEPT ![r] = Idle]
      BY <1>2 DEF SaveCustomer, SavePart, SaveCampaign, Die, Done, desk
    <2>2. hist'.strays = hist.strays
      <3>1. \/ hist' = hist \/ \E S : hist' = [hist EXCEPT !.given = S]
            \/ \E m : hist' = [hist EXCEPT !.moved = m]
        BY <1>2 DEF SaveCustomer, Remember, SavePart, SaveCampaign, Die
      <3>2. QED  BY <1>0, <3>1 DEF Histories
    <2>3. \A q \in Requests : req'[q].op = "assign" => req'[q] = req[q]
      BY <1>0, <2>1 DEF Idle
    <2>4. QED  BY <2>1, <2>2, <2>3, StrayKept
  <1>3. CASE Exchange \/ UNCHANGED vars
    <2>1. UNCHANGED <<assigned, history, hist, req>>  BY <1>3 DEF Exchange, vars, desk
    <2>2. QED  BY <2>1, StrayKept
  <1>4. QED
    BY <1>1, <1>2, <1>3, StrayClose, StraySave, StrayCreate, StrayPatch, Steps DEF Writes

\* Whoever was assigned the conversation at rest has an open row, and only who
\* has it, but for members whose rows overlaps and PATCHes have left.
THEOREM Logged == Spec => []HistoryAgrees
  <1>1. Init => LoggedOK /\ StrayOK
    <2>1. Init => LoggedOK  BY DEF Init, LoggedOK
    <2>2. Init => OverlapOK /\ AwaitOK  BY DEF Init, OverlapOK, AwaitOK, Idle
    <2>3. Init => OpenIsAssigned  BY DEF Init, OpenIsAssigned
    <2>4. QED  BY <2>1, <2>2, <2>3 DEF StrayOK
  <1>2. TypeOK /\ RouteOK /\ LoggedOK /\ StrayOK /\ [Next]_vars => LoggedOK' /\ StrayOK'
    BY LoggedNext, StrayNext
  <1>3. LoggedOK /\ StrayOK => HistoryAgrees
    <2>1. LoggedOK => AssignedIsLogged
      BY DEF LoggedOK, AssignedIsLogged, Logging, Replacing, At
    <2>2. QED  BY <2>1 DEF StrayOK, HistoryAgrees
  <1>4. QED  BY <1>1, <1>2, <1>3, TypeRoute, PTL DEF Spec

(***************************************************************************)
(* How requests begin and go on                                            *)
(***************************************************************************)
Consenting(r) == req[r].op \in {"give", "withdraw", "leave"}

\* What a request that begins carries, and how others go on.
Carries(new) ==
  /\ new.op = "campaign" => \E c : new.saves = {c} /\ OneBusiness(c)
  /\ new.op \in {"give", "withdraw", "leave"} => new.row = customer /\ new.since = now

LEMMA Carried ==
  ASSUME NEW r \in Requests, Begins(r)
  PROVE  \E new : Carries(new) /\ req' = [req EXCEPT ![r] = new]
  <1>1. CASE EditCampaign(r)
    <2>1. PICK c \in Setups, sets \in SUBSET DOMAIN campaign :
            OneBusiness(c) /\
            Start(r, [Idle EXCEPT !.op = "campaign", !.at = "save", !.saves = {c}, !.part = sets])
      BY <1>1 DEF EditCampaign
    <2>2. DEFINE new == [Idle EXCEPT !.op = "campaign", !.at = "save", !.saves = {c}, !.part = sets]
    <2>3. new.op = "campaign" /\ new.saves = {c}  BY DEF Idle
    <2>4. Carries(new)  BY <2>1, <2>3 DEF Carries
    <2>5. QED  BY <2>1, <2>4 DEF Start
  <1>2. CASE EditSegment(r) \/ EditTemplate(r)
    <2>1. PICK x \in Segments \cup Templates, b \in Businesses :
            Start(r, [Idle EXCEPT !.op = "part", !.at = "save", !.part = {x}, !.saves = {b}])
      BY <1>2 DEF EditSegment, EditTemplate, EditPart
    <2>2. DEFINE new == [Idle EXCEPT !.op = "part", !.at = "save", !.part = {x}, !.saves = {b}]
    <2>3. new.op = "part"  BY DEF Idle
    <2>4. Carries(new)  BY <2>3 DEF Carries
    <2>5. QED  BY <2>1, <2>4 DEF Start
  <1>3. CASE EditCustomer(r)
    <2>1. PICK consent \in {"give", "withdraw", "leave"} :
            Start(r, [Idle EXCEPT !.op = consent, !.at = "save", !.row = customer, !.since = now])
      BY <1>3 DEF EditCustomer
    <2>2. DEFINE new == [Idle EXCEPT !.op = consent, !.at = "save", !.row = customer, !.since = now]
    <2>3. new.op = consent /\ new.row = customer /\ new.since = now  BY DEF Idle
    <2>4. Carries(new)  BY <2>3 DEF Carries
    <2>5. QED  BY <2>1, <2>4 DEF Start
  <1>4. CASE EditConversation(r)
    <2>1. PICK u \in Staff \cup {NoOne} :
            Start(r, [Idle EXCEPT !.op = "edit", !.at = "save", !.previous = assigned, !.target = u])
      BY <1>4 DEF EditConversation
    <2>2. DEFINE new == [Idle EXCEPT !.op = "edit", !.at = "save", !.previous = assigned, !.target = u]
    <2>3. new.op = "edit"  BY DEF Idle
    <2>4. Carries(new)  BY <2>3 DEF Carries
    <2>5. QED  BY <2>1, <2>4 DEF Start
  <1>5. ASSUME NEW user \in Staff \cup {NoOne}, Assign(r, user)
        PROVE  \E new : Carries(new) /\ req' = [req EXCEPT ![r] = new]
    <2>1. DEFINE new == [Idle EXCEPT !.op = "assign", !.previous = assigned, !.target = user,
                                     !.at = IF assigned = NoOne THEN "save" ELSE "close"]
    <2>2. new.op = "assign"  BY DEF Idle
    <2>3. Carries(new)  BY <2>2 DEF Carries
    <2>4. QED  BY <1>5, <2>3 DEF Assign, Start
  <1>6. QED  BY <1>1, <1>2, <1>3, <1>4, <1>5 DEF Begins

LEMMA GoesOn ==
  ASSUME NEW r \in Requests, Writes(r) \/ Die(r)
  PROVE  Done(r) \/ (req[r].op = "assign" /\ \E step : Goto(r, step))
  <1>1. CASE CloseOpen(r)  BY <1>1 DEF CloseOpen, At
  <1>2. CASE SaveAssigned(r)  BY <1>2 DEF SaveAssigned, At
  <1>3. CASE CreateAssignment(r)  BY <1>3 DEF CreateAssignment
  <1>4. CASE SaveConversation(r)  BY <1>4 DEF SaveConversation
  <1>5. CASE SaveCustomer(r)  BY <1>5 DEF SaveCustomer
  <1>6. CASE SavePart(r)  BY <1>6 DEF SavePart
  <1>7. CASE SaveCampaign(r)  BY <1>7 DEF SaveCampaign
  <1>8. CASE Die(r)  BY <1>8 DEF Die
  <1>9. QED  BY <1>1, <1>2, <1>3, <1>4, <1>5, <1>6, <1>7, <1>8 DEF Writes

(***************************************************************************)
(* Campaigns                                                               *)
(***************************************************************************)
\* The campaign is of one business, and so is any that is about to be saved.
SetupOK ==
  ~hist.moved =>
    /\ OneBusiness(campaign)
    /\ \A r \in Requests : req[r].op = "campaign" => \A c \in req[r].saves : OneBusiness(c)

LEMMA SetupNext ==
  ASSUME TypeOK, RouteOK, SetupOK, [Next]_vars
  PROVE  SetupOK'
  <1>0. req \in [Requests -> Request] /\ hist \in Histories
        /\ owner \in [Segments \cup Templates -> Businesses]
    BY DEF TypeOK
  <1>1. ASSUME UNCHANGED owner, hist'.moved = hist.moved,
               campaign' = campaign \/ \E r \in Requests :
                  req[r].op = "campaign" /\ campaign' \in req[r].saves,
               \A q \in Requests : req'[q].op = "campaign" =>
                  req'[q] = req[q] \/ \E c : req'[q].saves = {c} /\ OneBusiness(c)
        PROVE  SetupOK'
    <2>1. ASSUME ~hist.moved PROVE OneBusiness(campaign)'
      BY <1>1, <2>1 DEF SetupOK, OneBusiness
    <2>2. ASSUME ~hist.moved, NEW q \in Requests, req'[q].op = "campaign",
                 NEW c \in req'[q].saves
          PROVE  owner'[c.segment] = c.business /\ owner'[c.template] = c.business
      BY <1>1, <2>2 DEF SetupOK, OneBusiness
    <2>3. QED  BY <1>1, <2>1, <2>2 DEF SetupOK, OneBusiness
  <1>2. ASSUME NEW r \in Requests, SavePart(r) PROVE SetupOK'
    <2>1. PICK x \in req[r].part, b \in req[r].saves :
            /\ owner' = [owner EXCEPT ![x] = b]
            /\ hist' = [hist EXCEPT !.moved = @ \/ owner[x] # b]
            /\ campaign' = campaign /\ req' = [req EXCEPT ![r] = Idle]
      BY <1>2 DEF SavePart, Done
    <2>2. ASSUME ~hist'.moved PROVE ~hist.moved /\ owner' = owner
      <3>1. ~(hist.moved \/ owner[x] # b)
        <4>1. hist'.moved = (hist.moved \/ owner[x] # b)  BY <1>0, <2>1 DEF Histories
        <4>2. QED  BY <2>2, <4>1, Zenon
      <3>2. QED  BY <1>0, <2>1, <3>1
    <2>3. \A q \in Requests : req'[q].op = "campaign" => req'[q] = req[q]
      BY <1>0, <2>1 DEF Idle
    <2>4. QED  BY <2>1, <2>2, <2>3 DEF SetupOK, OneBusiness
  <1>3. ASSUME NEW r \in Requests, SaveCampaign(r) PROVE SetupOK'
    <2>1. /\ owner' = owner /\ hist' = hist /\ req[r].op = "campaign" /\ campaign' \in req[r].saves
          /\ req' = [req EXCEPT ![r] = Idle]
      BY <1>3 DEF SaveCampaign, At, Done
    <2>2. \A q \in Requests : req'[q].op = "campaign" => req'[q] = req[q]
      BY <1>0, <2>1 DEF Idle
    <2>3. QED  BY <1>1, <2>1, <2>2
  <1>4. ASSUME NEW r \in Requests, Begins(r) PROVE SetupOK'
    <2>1. UNCHANGED <<owner, campaign>> /\ hist'.moved = hist.moved
      BY <1>4, Beginning, Noted DEF setup
    <2>2. PICK new : Carries(new) /\ req' = [req EXCEPT ![r] = new]  BY <1>4, Carried
    <2>3. \A q \in Requests : req'[q].op = "campaign" =>
             req'[q] = req[q] \/ \E c : req'[q].saves = {c} /\ OneBusiness(c)
      BY <1>0, <2>2 DEF Carries
    <2>4. QED  BY <1>1, <2>1, <2>3
  <1>5. ASSUME NEW r \in Requests,
               \/ CloseOpen(r) \/ SaveAssigned(r) \/ CreateAssignment(r) \/ SaveConversation(r)
               \/ SaveCustomer(r) \/ Die(r)
        PROVE  SetupOK'
    <2>1. UNCHANGED <<owner, campaign>>
      BY <1>5
      DEF CloseOpen, SaveAssigned, CreateAssignment, SaveConversation, SaveCustomer, Die, setup
    <2>2. hist'.moved = hist.moved
      <3>1. \/ CloseOpen(r) \/ Takes(r)
            \/ hist' = hist \/ \E S : hist' = [hist EXCEPT !.given = S]
            \/ hist' = [hist EXCEPT !.by = "assign"]
        BY <1>5 DEF SaveAssigned, CreateAssignment, SaveConversation, SaveCustomer, Remember, Die,
                    Takes
      <3>2. QED  BY <1>0, <3>1, Noted DEF Histories, Takes
    <2>3. Done(r) \/ (req[r].op = "assign" /\ \E step : Goto(r, step))
      BY <1>5, GoesOn DEF Writes
    <2>4. \A q \in Requests : req'[q].op = "campaign" => req'[q] = req[q]
      BY <1>0, <2>3 DEF Done, Goto, Idle, Request
    <2>5. QED  BY <1>1, <2>1, <2>2, <2>4
  <1>6. CASE Exchange \/ UNCHANGED vars
    <2>1. UNCHANGED <<owner, campaign, hist, req>>  BY <1>6 DEF Exchange, vars, setup
    <2>2. QED  BY <1>1, <2>1
  <1>7. QED  BY <1>2, <1>3, <1>4, <1>5, <1>6, Steps DEF Writes

\* Unless a segment or template has moved, the campaign is of one business.
THEOREM Agrees == Spec => []SetupAgrees
  <1>1. Init => SetupOK  BY DEF Init, SetupOK, Idle
  <1>2. TypeOK /\ RouteOK /\ SetupOK /\ [Next]_vars => SetupOK'  BY SetupNext
  <1>3. SetupOK => SetupAgrees  BY DEF SetupOK, SetupAgrees
  <1>4. QED  BY <1>1, <1>2, <1>3, TypeRoute, PTL DEF Spec

(***************************************************************************)
(* Consent                                                                 *)
(***************************************************************************)
\* A stamp beside a consent is one that was given, and so in each copy that may
\* be saved; a copy from now is the customer as it is.
ConsentOK ==
  /\ customer.optin => customer.at \in hist.given
  /\ \A r \in Requests : Consenting(r) =>
       /\ req[r].row.optin => req[r].row.at \in hist.given
       /\ req[r].since <= now /\ (req[r].since = now => req[r].row = customer)

LEMMA ConsentNext ==
  ASSUME TypeOK, RouteOK, ConsentOK, [Next]_vars
  PROVE  ConsentOK'
  <1>0. /\ req \in [Requests -> Request] /\ hist \in Histories /\ now \in Nat
        /\ customer \in Consents /\ \A q \in Requests : req[q].since \in Nat
    BY DEF TypeOK, Request
  <1>1. ASSUME UNCHANGED customer, hist'.given = hist.given, now' \in {now, now + 1},
               \A q \in Requests : Consenting(q)' =>
                 \/ req'[q] = req[q] /\ Consenting(q)
                 \/ req'[q].row = customer /\ req'[q].since = now
        PROVE  ConsentOK'
    <2>1. ASSUME NEW q \in Requests, Consenting(q)'
          PROVE  /\ req'[q].row.optin => req'[q].row.at \in hist'.given
                 /\ req'[q].since <= now' /\ (req'[q].since = now' => req'[q].row = customer')
      BY <1>0, <1>1, <2>1 DEF ConsentOK
    <2>2. QED  BY <1>1, <2>1 DEF ConsentOK
  <1>2. ASSUME NEW r \in Requests, SaveCustomer(r) PROVE ConsentOK'
    <2>1. /\ Consenting(r) /\ now' = now + 1 /\ req' = [req EXCEPT ![r] = Idle]
          /\ customer' = Stamped(r)
          /\ hist' = [hist EXCEPT !.given = IF req[r].op = "give" THEN @ \cup {now + 1} ELSE @]
      BY <1>2 DEF SaveCustomer, Customer, Done, Remember, Consenting
    <2>2. hist'.given = IF req[r].op = "give" THEN hist.given \cup {now + 1} ELSE hist.given
      BY <1>0, <2>1 DEF Histories
    <2>3. customer'.optin => customer'.at \in hist'.given
      <3>1. CASE req[r].op = "give"  BY <2>1, <2>2, <3>1 DEF Stamped
      <3>2. CASE req[r].op = "withdraw"
        <4>1. req[r].row \in Consents  BY <1>0 DEF Request
        <4>2. customer'.optin = FALSE  BY <2>1, <3>2, <4>1 DEF Stamped, Consents
        <4>3. QED  BY <4>2
      <3>3. CASE req[r].op = "leave"
        BY <2>1, <2>2, <3>3 DEF Stamped, ConsentOK
      <3>4. QED  BY <2>1, <3>1, <3>2, <3>3 DEF Consenting
    <2>4. ASSUME NEW q \in Requests, Consenting(q)'
          PROVE  /\ req'[q].row.optin => req'[q].row.at \in hist'.given
                 /\ req'[q].since <= now' /\ req'[q].since # now'
      <3>1. q # r /\ req'[q] = req[q] /\ Consenting(q)
        BY <1>0, <2>1, <2>4 DEF Consenting, Idle
      <3>2. QED  BY <1>0, <2>1, <2>2, <3>1 DEF ConsentOK
    <2>5. QED  BY <2>3, <2>4 DEF ConsentOK
  <1>3. ASSUME NEW r \in Requests, Begins(r) PROVE ConsentOK'
    <2>1. UNCHANGED <<customer, now>> /\ hist'.given = hist.given
      BY <1>3, Beginning, Noted
    <2>2. PICK new : Carries(new) /\ req' = [req EXCEPT ![r] = new]  BY <1>3, Carried
    <2>3. \A q \in Requests : Consenting(q)' =>
             \/ req'[q] = req[q] /\ Consenting(q)
             \/ req'[q].row = customer /\ req'[q].since = now
      BY <1>0, <2>2 DEF Consenting, Carries
    <2>4. QED  BY <1>0, <1>1, <2>1, <2>3
  <1>4. ASSUME NEW r \in Requests,
               \/ CloseOpen(r) \/ SaveAssigned(r) \/ CreateAssignment(r) \/ SaveConversation(r)
               \/ SavePart(r) \/ SaveCampaign(r) \/ Die(r)
        PROVE  ConsentOK'
    <2>1. UNCHANGED <<customer, now>>
      BY <1>4
      DEF CloseOpen, SaveAssigned, CreateAssignment, SaveConversation, SavePart, SaveCampaign, Die
    <2>2. hist'.given = hist.given
      <3>1. \/ CloseOpen(r) \/ Takes(r)
            \/ hist' = hist \/ \E m : hist' = [hist EXCEPT !.moved = m]
            \/ hist' = [hist EXCEPT !.by = "assign"]
        BY <1>4 DEF SaveAssigned, CreateAssignment, SaveConversation, SavePart, SaveCampaign, Die,
                    Takes
      <3>2. QED  BY <1>0, <3>1, Noted DEF Histories, Takes
    <2>3. Done(r) \/ (req[r].op = "assign" /\ \E step : Goto(r, step))
      BY <1>4, GoesOn DEF Writes
    <2>4. \A q \in Requests : Consenting(q)' => req'[q] = req[q] /\ Consenting(q)
      BY <1>0, <2>3 DEF Done, Goto, Idle, Request, Consenting
    <2>5. QED  BY <1>0, <1>1, <2>1, <2>2, <2>4
  <1>5. CASE Exchange \/ UNCHANGED vars
    <2>1. UNCHANGED <<customer, hist, req>> /\ now' \in {now, now + 1}
      BY <1>5 DEF Exchange, vars
    <2>2. QED  BY <1>1, <2>1 DEF Consenting
  <1>6. QED  BY <1>2, <1>3, <1>4, <1>5, Steps DEF Writes

LEMMA ConsentInv == Spec => [](TypeOK /\ RouteOK /\ ConsentOK)
  <1>1. Init => ConsentOK  BY DEF Init, ConsentOK, Consenting, Idle, Row
  <1>2. TypeOK /\ RouteOK /\ ConsentOK /\ [Next]_vars => ConsentOK'  BY ConsentNext
  <1>3. QED  BY <1>1, <1>2, TypeRoute, PTL DEF Spec

\* The stamp beside a consent is of a moment when it was given.
THEOREM Evidence == Spec => []EvidenceIsReal
  <1>1. ConsentOK => EvidenceIsReal  BY DEF ConsentOK, EvidenceIsReal
  <1>2. QED  BY <1>1, ConsentInv, PTL

\* A consent that is gone comes back with a new stamp, or with an older copy.
THEOREM Returns == Spec => ConsentReturns
  <1>1. ASSUME TypeOK, ConsentOK, [Next]_vars, ~customer.optin, customer'.optin
        PROVE  \/ customer'.at = now'
               \/ \E r \in Requests : Customer(r, "save") /\ req'[r].op = "none" /\ req[r].since < now
    <2>0. req \in [Requests -> Request] /\ now \in Nat  BY <1>1 DEF TypeOK
    <2>1. customer' # customer  BY <1>1
    <2>2. PICK r \in Requests : SaveCustomer(r)
      <3>1. ASSUME NEW r \in Requests, Writes(r), ~SaveCustomer(r) PROVE UNCHANGED customer
        BY <3>1 DEF Writes, CloseOpen, SaveAssigned, CreateAssignment, SaveConversation, SavePart,
                    SaveCampaign
      <3>2. QED  BY <1>1, <2>1, <3>1, Steps, Beginning DEF Die, Exchange, vars
    <2>3. /\ Customer(r, "save") /\ Consenting(r) /\ now' = now + 1 /\ customer' = Stamped(r)
          /\ req' = [req EXCEPT ![r] = Idle] /\ req[r].row \in Consents /\ req[r].since \in Nat
      BY <2>0, <2>2 DEF SaveCustomer, Customer, Consenting, Done, Request
    <2>4. CASE req[r].op = "give"  BY <2>3, <2>4 DEF Stamped
    <2>5. CASE req[r].op = "withdraw"
      <3>1. customer'.optin = FALSE  BY <2>3, <2>5 DEF Stamped, Consents
      <3>2. QED  BY <1>1, <3>1
    <2>6. CASE req[r].op = "leave"
      <3>1. req[r].row # customer  BY <1>1, <2>3, <2>6 DEF Stamped
      <3>2. req[r].since < now  BY <1>1, <2>0, <2>3, <3>1 DEF ConsentOK
      <3>3. req'[r].op = "none"  BY <2>0, <2>3 DEF Idle
      <3>4. QED  BY <2>3, <3>2, <3>3
    <2>7. QED  BY <2>3, <2>4, <2>5, <2>6 DEF Consenting
  <1>2. TypeOK /\ ConsentOK /\ [Next]_vars
        => [~customer.optin /\ customer'.optin =>
             \/ customer'.at = now'
             \/ \E r \in Requests : Customer(r, "save") /\ req'[r].op = "none"
                                    /\ req[r].since < now]_vars
    BY <1>1
  <1>3. QED  BY <1>2, ConsentInv, PTL DEF Spec, ConsentReturns

(***************************************************************************)
(* The figures                                                             *)
(*                                                                         *)
(* They are functions of the log, so what is to be shown holds of every    *)
(* log of messages sent after the clock started; induction is over the     *)
(* places of the log.                                                      *)
(***************************************************************************)
LEMMA Least ==
  ASSUME NEW T, T \subseteq Nat, T # {}
  PROVE  \E x \in T : \A y \in T : x <= y
  <1>1. IsWellFoundedOn(OpToRel(<, Nat), Nat)  BY NatLessThanWellFounded
  <1>2. PICK x \in T : \A y \in T : <<y, x>> \notin OpToRel(<, Nat)  BY <1>1, WFMin
  <1>3. ASSUME NEW y \in T PROVE x <= y
    <2>1. ~ (y < x)  BY <1>2 DEF OpToRel
    <2>2. QED  BY <2>1
  <1>4. QED  BY <1>3

LEMMA Upward ==
  ASSUME NEW S, 0 \in S, \A n \in Nat : n \in S => n + 1 \in S
  PROVE  Nat \subseteq S
  <1>1. SUFFICES ASSUME Nat \ S # {} PROVE FALSE  OBVIOUS
  <1>2. PICK x \in Nat \ S : \A y \in Nat \ S : x <= y  BY <1>1, Least
  <1>3. x # 0 /\ x - 1 \in Nat  BY <1>2
  <1>4. x - 1 \in S  BY <1>2, <1>3
  <1>5. QED  BY <1>2, <1>3, <1>4

\* ResponsePass is defined by recursion over the log.  A function that fits the
\* definition exists: one that does up to n goes on to n + 1.
Passed(seen, h, n) ==
  IF n = 0 THEN NoneRead(log)
  ELSE IF n \in seen THEN Read(h[n - 1], log[n], FALSE)
  ELSE h[n - 1]
Passes(seen, h, n) == \A k \in 0..n : h[k] = Passed(seen, h, k)

LEMMA PassGoesOn ==
  ASSUME NEW seen, NEW n \in Nat, NEW h, Passes(seen, h, n)
  PROVE  \E g : Passes(seen, g, n + 1)
  <1>1. PICK v : v = IF n + 1 \in seen THEN Read(h[n], log[n + 1], FALSE) ELSE h[n]  OBVIOUS
  <1>2. PICK g : g = [k \in 0..(n + 1) |-> IF k = n + 1 THEN v ELSE h[k]]  OBVIOUS
  <1>3. g[n + 1] = v /\ \A k \in 0..n : g[k] = h[k]  BY <1>2
  <1>4. g[n + 1] = Passed(seen, g, n + 1)
    <2>1. n + 1 # 0 /\ (n + 1) - 1 = n /\ g[n] = h[n]  BY <1>3
    <2>2. QED  BY <1>1, <1>3, <2>1 DEF Passed
  <1>5. ASSUME NEW k \in 0..n PROVE g[k] = Passed(seen, g, k)
    <2>1. k = 0 \/ g[k - 1] = h[k - 1]  BY <1>3
    <2>2. Passed(seen, g, k) = Passed(seen, h, k)  BY <2>1, Zenon DEF Passed
    <2>3. QED  BY <1>3, <2>2 DEF Passes
  <1>6. QED  BY <1>4, <1>5 DEF Passes

LEMMA PassExists ==
  ASSUME NEW seen, NEW n \in Nat
  PROVE  \E h : Passes(seen, h, n)
  <1> DEFINE S == {k \in Nat : \E h : Passes(seen, h, k)}
  <1>1. 0 \in S
    <2>1. PICK h : h = [k \in {0} |-> NoneRead(log)]  OBVIOUS
    <2>2. h[0] = NoneRead(log)  BY <2>1
    <2>3. Passes(seen, h, 0)  BY <2>2 DEF Passes, Passed
    <2>4. QED  BY <2>3
  <1>2. \A k \in Nat : k \in S => k + 1 \in S  BY PassGoesOn
  <1> HIDE DEF S
  <1>3. n \in S  BY <1>1, <1>2, Upward
  <1>4. QED  BY <1>3 DEF S

LEMMA PassFits ==
  ASSUME NEW seen, Len(log) \in Nat
  PROVE  \E h : Passes(seen, h, Len(log)) /\ ResponsePass(log, seen, FALSE) = h[Len(log)]
  <1> DEFINE body(g) ==
        [n \in 0..Len(log) |-> IF n = 0 THEN NoneRead(log)
                               ELSE IF n \in seen THEN Read(g[n - 1], log[n], FALSE)
                               ELSE g[n - 1]]
  <1>1. PICK f : Passes(seen, f, Len(log))  BY PassExists
  <1>2. PICK g : g = [n \in 0..Len(log) |-> f[n]]  OBVIOUS
  <1>3. g = body(g)
    <2>1. \A n \in 0..Len(log) : n = 0 \/ g[n - 1] = f[n - 1]  BY <1>2
    <2>2. ASSUME NEW n \in 0..Len(log) PROVE g[n] = body(g)[n]
      <3>1. f[n] = Passed(seen, f, n)  BY <1>1 DEF Passes
      <3>2. Passed(seen, f, n) = Passed(seen, g, n)  BY <2>1, Zenon DEF Passed
      <3>3. QED  BY <1>2, <3>1, <3>2 DEF Passed
    <2>3. QED  BY <1>2, <2>2
  <1>4. PICK h : h = CHOOSE x : x = body(x)  OBVIOUS
  <1>5. h = body(h)  BY <1>3, <1>4, Zenon
  <1>6. ResponsePass(log, seen, FALSE) = h[Len(log)]  BY <1>4, Zenon DEF ResponsePass
  <1>7. Passes(seen, h, Len(log))  BY <1>5 DEF Passes, Passed
  <1>8. QED  BY <1>6, <1>7

\* What the pass knows after n messages.  Of a conversation c, i is unanswered.
Open(seen, i, n, c) ==
  /\ i \in seen /\ i <= n /\ log[i].conversation = c /\ log[i].direction = "inbound"
  /\ \A k \in seen : i <= k /\ k <= n /\ log[k].conversation = c => log[k].direction = "inbound"
FirstOpen(seen, i, n, c) == Open(seen, i, n, c) /\ \A k \in seen : Open(seen, k, n, c) => i <= k

InLog == {log[i].conversation : i \in DOMAIN log}
Wait(p) == [conversation |-> log[p[2]].conversation, at |-> log[p[2]].at,
            waited |-> log[p[2]].at - log[p[1]].at]
Answered(seen, n) == {q \in seen \X seen : q[2] <= n /\ AsksFirst(seen, q[1], q[2])}

LogOK == log \in Seq(Messages) /\ \A i \in DOMAIN log : log[i].at # 0
Waiting(seen, at, n, c) ==
  \/ at = 0 /\ \A i \in seen : ~Open(seen, i, n, c)
  \/ \E i \in seen : FirstOpen(seen, i, n, c) /\ at = log[i].at
PassOK(seen, s, n) ==
  /\ s = [pending |-> s.pending, samples |-> s.samples]
  /\ s.pending \in [InLog -> Nat]
  /\ \A c \in InLog : Waiting(seen, s.pending[c], n, c)
  /\ s.samples = {Wait(p) : p \in Answered(seen, n)}

\* The next message opens, answers or leaves alone.
LEMMA Opened ==
  ASSUME LogOK, NEW seen \in SUBSET DOMAIN log, NEW n \in Nat
  PROVE  /\ \A i \in seen : \A c : n + 1 \notin seen \/ log[n + 1].conversation # c =>
              (Open(seen, i, n + 1, c) <=> Open(seen, i, n, c))
         /\ \A i \in seen : \A c : n + 1 \in seen /\ log[n + 1].conversation = c =>
              /\ log[n + 1].direction = "inbound" =>
                   (Open(seen, i, n + 1, c) <=> Open(seen, i, n, c) \/ i = n + 1)
              /\ log[n + 1].direction # "inbound" => ~Open(seen, i, n + 1, c)
         /\ \A i \in seen : n + 1 \in seen =>
              (AsksFirst(seen, i, n + 1) <=>
                 /\ log[n + 1].direction = "outbound"
                 /\ FirstOpen(seen, i, n, log[n + 1].conversation))
  <1>0. /\ seen \subseteq Nat /\ DOMAIN log \subseteq Nat
        /\ \A k \in seen : k <= n + 1 <=> (k <= n \/ k = n + 1)
        /\ \A k \in seen : k < n + 1 <=> k <= n
    BY DEF LogOK
  <1>1. \A i \in seen : log[i].direction \in {"inbound", "outbound"}
    <2>1. \A i \in DOMAIN log : log[i] \in Messages  BY DEF LogOK
    <2>2. QED  BY <2>1 DEF Messages
  <1>2. ASSUME NEW i \in seen, NEW c, n + 1 \notin seen \/ log[n + 1].conversation # c
        PROVE  Open(seen, i, n + 1, c) <=> Open(seen, i, n, c)
    BY <1>0, <1>2 DEF Open
  <1>3. ASSUME n + 1 \in seen, log[n + 1].direction = "inbound", NEW i \in seen
        PROVE  LET c == log[n + 1].conversation
               IN  Open(seen, i, n + 1, c) <=> Open(seen, i, n, c) \/ i = n + 1
    BY <1>0, <1>3 DEF Open
  <1>4. ASSUME n + 1 \in seen, log[n + 1].direction # "inbound", NEW i \in seen
        PROVE  ~Open(seen, i, n + 1, log[n + 1].conversation)
    BY <1>0, <1>4 DEF Open
  <1>5. ASSUME n + 1 \in seen, NEW i \in seen
        PROVE  Asks(seen, i, n + 1) <=> /\ log[n + 1].direction = "outbound"
                                        /\ Open(seen, i, n, log[n + 1].conversation)
    BY <1>0, <1>5 DEF Open, Asks
  <1>6. ASSUME n + 1 \in seen, NEW i \in seen
        PROVE  AsksFirst(seen, i, n + 1) <=>
                 /\ log[n + 1].direction = "outbound"
                 /\ FirstOpen(seen, i, n, log[n + 1].conversation)
    BY <1>5, <1>6 DEF AsksFirst, FirstOpen
  <1>7. QED  BY <1>1, <1>2, <1>3, <1>4, <1>6

LEMMA PassSame ==
  ASSUME LogOK, NEW seen \in SUBSET DOMAIN log, NEW n \in Nat, n + 1 \notin seen, NEW s,
         PassOK(seen, s, n)
  PROVE  PassOK(seen, s, n + 1)
  <1>0. /\ seen \subseteq Nat
        /\ \A k \in seen : k <= n + 1 <=> k <= n
    BY DEF LogOK
  <1>1. \A i \in seen : \A c : Open(seen, i, n + 1, c) <=> Open(seen, i, n, c)  BY Opened
  <1>2. \A i \in seen : \A c : FirstOpen(seen, i, n + 1, c) <=> FirstOpen(seen, i, n, c)
    BY <1>1 DEF FirstOpen
  <1>3. \A c \in InLog : Waiting(seen, s.pending[c], n + 1, c)
    BY <1>1, <1>2, Zenon DEF PassOK, Waiting
  <1>4. Answered(seen, n + 1) = Answered(seen, n)  BY <1>0 DEF Answered
  <1>5. QED  BY <1>3, <1>4, Zenon DEF PassOK

LEMMA PassAsked ==
  ASSUME LogOK, NEW seen \in SUBSET DOMAIN log, NEW n \in Nat, n + 1 \in seen, NEW s,
         PassOK(seen, s, n), log[n + 1].direction = "inbound"
  PROVE  PassOK(seen, Read(s, log[n + 1], FALSE), n + 1)
  <1>0. /\ seen \subseteq Nat /\ log[n + 1] \in Messages
        /\ \A k \in seen : k <= n + 1 <=> (k <= n \/ k = n + 1)
    BY DEF LogOK
  <1>1. PICK d, new : /\ d = log[n + 1].conversation
                      /\ new = IF s.pending[d] = 0 THEN log[n + 1].at ELSE s.pending[d]
    OBVIOUS
  <1>2. PICK r : r = Read(s, log[n + 1], FALSE)  OBVIOUS
  <1>3. d \in InLog /\ log[n + 1].at \in Nat  BY <1>0, <1>1 DEF InLog, LogOK, Messages
  <1>4. new \in Nat  BY <1>1, <1>3 DEF PassOK
  <1>5. r = [pending |-> [s.pending EXCEPT ![d] = new], samples |-> s.samples]
    BY <1>1, <1>2, <1>3 DEF PassOK, Read
  <1>6. /\ r.pending = [s.pending EXCEPT ![d] = new] /\ r.samples = s.samples
        /\ r = [pending |-> r.pending, samples |-> r.samples]
    BY <1>5
  <1>7. /\ r.pending \in [InLog -> Nat] /\ r.pending[d] = new
        /\ \A c \in InLog \ {d} : r.pending[c] = s.pending[c]
    BY <1>3, <1>4, <1>6 DEF PassOK
  <1>8. Waiting(seen, r.pending[d], n + 1, d)
    <2>1. Waiting(seen, s.pending[d], n, d)  BY <1>3 DEF PassOK
    <2>2. \A i \in seen : Open(seen, i, n + 1, d) <=> Open(seen, i, n, d) \/ i = n + 1
      BY <1>1, Opened
    <2>3. CASE s.pending[d] = 0
      <3>1. \A i \in seen : ~Open(seen, i, n, d)
        BY <2>1, <2>3 DEF Waiting, LogOK, FirstOpen, Open
      <3>2. FirstOpen(seen, n + 1, n + 1, d)  BY <1>0, <2>2, <3>1 DEF FirstOpen
      <3>3. QED  BY <1>1, <1>7, <2>3, <3>2 DEF Waiting
    <2>4. CASE s.pending[d] # 0
      <3>1. PICK i \in seen : FirstOpen(seen, i, n, d) /\ s.pending[d] = log[i].at
        BY <2>1, <2>4 DEF Waiting
      <3>2. i <= n /\ n <= n + 1 /\ i <= n + 1  BY <1>0, <3>1 DEF FirstOpen, Open
      <3>3. FirstOpen(seen, i, n + 1, d)  BY <2>2, <3>1, <3>2 DEF FirstOpen
      <3>4. QED  BY <1>1, <1>7, <2>4, <3>1, <3>3 DEF Waiting
    <2>5. QED  BY <2>3, <2>4
  <1>9. ASSUME NEW c \in InLog \ {d} PROVE Waiting(seen, r.pending[c], n + 1, c)
    <2>1. \A i \in seen : Open(seen, i, n + 1, c) <=> Open(seen, i, n, c)  BY <1>1, Opened
    <2>2. \A i \in seen : FirstOpen(seen, i, n + 1, c) <=> FirstOpen(seen, i, n, c)
      BY <2>1 DEF FirstOpen
    <2>3. Waiting(seen, s.pending[c], n, c)  BY DEF PassOK
    <2>4. QED  BY <1>7, <2>1, <2>2, <2>3, Zenon DEF Waiting
  <1>10. Answered(seen, n + 1) = Answered(seen, n)
    <2>1. \A i \in seen : ~AsksFirst(seen, i, n + 1)  BY Opened
    <2>2. QED  BY <1>0, <2>1 DEF Answered
  <1>11. QED  BY <1>2, <1>6, <1>7, <1>8, <1>9, <1>10, Zenon DEF PassOK

LEMMA PassAnswered ==
  ASSUME LogOK, NEW seen \in SUBSET DOMAIN log, NEW n \in Nat, n + 1 \in seen, NEW s,
         PassOK(seen, s, n), log[n + 1].direction # "inbound"
  PROVE  PassOK(seen, Read(s, log[n + 1], FALSE), n + 1)
  <1>0. /\ seen \subseteq Nat /\ log[n + 1] \in Messages
        /\ \A k \in seen : k <= n + 1 <=> (k <= n \/ k = n + 1)
    BY DEF LogOK
  <1>1. PICK d : d = log[n + 1].conversation  OBVIOUS
  <1>2. PICK r : r = Read(s, log[n + 1], FALSE)  OBVIOUS
  <1>3. d \in InLog /\ log[n + 1].direction = "outbound"
    BY <1>0, <1>1 DEF InLog, LogOK, Messages
  <1>4. PICK more : more = IF s.pending[d] = 0 THEN {}
                           ELSE {[conversation |-> d, at |-> log[n + 1].at,
                                  waited |-> log[n + 1].at - s.pending[d]]}
    OBVIOUS
  <1>5. r = [pending |-> [s.pending EXCEPT ![d] = 0], samples |-> s.samples \cup more]
    BY <1>1, <1>2, <1>3, <1>4 DEF Read
  <1>6. /\ r.pending = [s.pending EXCEPT ![d] = 0] /\ r.samples = s.samples \cup more
        /\ r = [pending |-> r.pending, samples |-> r.samples]
    BY <1>5
  <1>7. /\ r.pending \in [InLog -> Nat] /\ r.pending[d] = 0
        /\ \A c \in InLog \ {d} : r.pending[c] = s.pending[c]
    BY <1>3, <1>6 DEF PassOK
  <1>8. Waiting(seen, r.pending[d], n + 1, d)
    <2>1. ASSUME NEW i \in seen PROVE ~Open(seen, i, n + 1, d)
      <3>1. n + 1 \in seen /\ log[n + 1].conversation = d /\ log[n + 1].direction # "inbound"
        BY <1>1
      <3>2. n + 1 \in seen /\ log[n + 1].conversation = d =>
              /\ log[n + 1].direction = "inbound" =>
                   (Open(seen, i, n + 1, d) <=> Open(seen, i, n, d) \/ i = n + 1)
              /\ log[n + 1].direction # "inbound" => ~Open(seen, i, n + 1, d)
        BY Opened
      <3>3. QED  BY <3>1, <3>2
    <2>2. QED  BY <1>7, <2>1 DEF Waiting
  <1>9. ASSUME NEW c \in InLog \ {d} PROVE Waiting(seen, r.pending[c], n + 1, c)
    <2>1. \A i \in seen : Open(seen, i, n + 1, c) <=> Open(seen, i, n, c)  BY <1>1, Opened
    <2>2. \A i \in seen : FirstOpen(seen, i, n + 1, c) <=> FirstOpen(seen, i, n, c)
      BY <2>1 DEF FirstOpen
    <2>3. Waiting(seen, s.pending[c], n, c)  BY DEF PassOK
    <2>4. QED  BY <1>7, <2>1, <2>2, <2>3, Zenon DEF Waiting
  <1>10. r.samples = {Wait(p) : p \in Answered(seen, n + 1)}
    <2>1. \A i \in seen : AsksFirst(seen, i, n + 1) <=> FirstOpen(seen, i, n, d)
      BY <1>1, <1>3, Opened
    <2>2. Waiting(seen, s.pending[d], n, d)  BY <1>3 DEF PassOK
    <2>3. \A q \in seen \X seen : q \in Answered(seen, n + 1) <=>
            q \in Answered(seen, n) \/ (q[2] = n + 1 /\ FirstOpen(seen, q[1], n, d))
      BY <1>0, <2>1 DEF Answered
    <2>4. Answered(seen, n + 1) \subseteq seen \X seen /\ Answered(seen, n) \subseteq seen \X seen
      BY DEF Answered
    <2>5. CASE s.pending[d] = 0
      <3>1. \A i \in seen : ~FirstOpen(seen, i, n, d)
        BY <2>2, <2>5 DEF Waiting, LogOK, FirstOpen
      <3>2. Answered(seen, n + 1) = Answered(seen, n)  BY <2>3, <2>4, <3>1
      <3>3. QED  BY <1>4, <1>6, <2>5, <3>2 DEF PassOK
    <2>6. CASE s.pending[d] # 0
      <3>1. PICK i \in seen : FirstOpen(seen, i, n, d) /\ s.pending[d] = log[i].at
        BY <2>2, <2>6 DEF Waiting
      <3>2. \A j \in seen : FirstOpen(seen, j, n, d) <=> j = i
        BY <1>0, <3>1 DEF FirstOpen
      <3>3. Answered(seen, n + 1) = Answered(seen, n) \cup {<<i, n + 1>>}
        BY <2>3, <2>4, <3>2
      <3>4. more = {Wait(<<i, n + 1>>)}  BY <1>1, <1>4, <2>6, <3>1 DEF Wait
      <3>5. {Wait(p) : p \in Answered(seen, n + 1)} =
              {Wait(p) : p \in Answered(seen, n)} \cup {Wait(<<i, n + 1>>)}
        BY <3>3
      <3>6. QED  BY <1>6, <3>4, <3>5 DEF PassOK
    <2>7. QED  BY <2>5, <2>6
  <1>11. QED  BY <1>2, <1>6, <1>7, <1>8, <1>9, <1>10, Zenon DEF PassOK

LEMMA PassAll ==
  ASSUME LogOK, NEW seen \in SUBSET DOMAIN log, NEW h, Passes(seen, h, Len(log))
  PROVE  PassOK(seen, h[Len(log)], Len(log))
  <1>0. Len(log) \in Nat /\ DOMAIN log = 1..Len(log)  BY DEF LogOK
  <1> DEFINE S == {n \in Nat : n <= Len(log) => PassOK(seen, h[n], n)}
  <1>1. 0 \in S
    <2>1. h[0] = NoneRead(log)
      <3>1. 0 \in 0..Len(log)  BY <1>0
      <3>2. h[0] = Passed(seen, h, 0)  BY <3>1 DEF Passes
      <3>3. QED  BY <3>2, Zenon DEF Passed
    <2>2. PICK s : s = NoneRead(log)  OBVIOUS
    <2>3. /\ s = [pending |-> s.pending, samples |-> s.samples] /\ s.samples = {}
          /\ s.pending = [c \in InLog |-> 0]
      BY <2>2 DEF NoneRead, InLog
    <2>4. \A i \in seen : i \in Nat /\ ~(i <= 0)  BY <1>0
    <2>5. \A i \in seen : \A c : ~Open(seen, i, 0, c)  BY <2>4 DEF Open
    <2>6. Answered(seen, 0) = {}  BY <2>4 DEF Answered
    <2>7. s.pending \in [InLog -> Nat] /\ \A c \in InLog : s.pending[c] = 0  BY <2>3
    <2>8. PassOK(seen, s, 0)  BY <2>3, <2>5, <2>6, <2>7 DEF PassOK, Waiting
    <2>9. QED  BY <2>1, <2>2, <2>8
  <1>2. ASSUME NEW n \in Nat, n \in S PROVE n + 1 \in S
    <2>1. SUFFICES ASSUME n + 1 <= Len(log) PROVE PassOK(seen, h[n + 1], n + 1)
      OBVIOUS
    <2>2. PassOK(seen, h[n], n)  BY <1>0, <1>2, <2>1
    <2>3. h[n + 1] = IF n + 1 \in seen THEN Read(h[n], log[n + 1], FALSE) ELSE h[n]
      <3>1. n + 1 \in 0..Len(log) /\ n + 1 # 0 /\ (n + 1) - 1 = n  BY <1>0, <2>1
      <3>2. h[n + 1] = Passed(seen, h, n + 1)  BY <3>1 DEF Passes
      <3>3. QED  BY <3>1, <3>2, Zenon DEF Passed
    <2>4. QED  BY <2>2, <2>3, PassSame, PassAsked, PassAnswered
  <1> HIDE DEF S
  <1>3. Len(log) \in S  BY <1>0, <1>1, <1>2, Upward
  <1>4. QED  BY <1>0, <1>3 DEF S

LEMMA TimesRight ==
  ASSUME LogOK
  PROVE  ResponseTimes
  <1>1. SUFFICES ASSUME NEW start \in 0..now, NEW end \in 0..now,
                        NEW seen, seen = InPeriod(log, start, end)
                 PROVE  ResponsePass(log, seen, FALSE).samples =
                          {Wait(p) : p \in {q \in seen \X seen : AsksFirst(seen, q[1], q[2])}}
    <2>1. ASSUME NEW start \in 0..now, NEW end \in 0..now
          PROVE  ResponseSamples(log, start, end) =
                   {[conversation |-> log[p[2]].conversation, at |-> log[p[2]].at,
                     waited |-> log[p[2]].at - log[p[1]].at] :
                       p \in {q \in InPeriod(log, start, end) \X InPeriod(log, start, end) :
                                 AsksFirst(InPeriod(log, start, end), q[1], q[2])}}
      <3>1. ResponsePass(log, InPeriod(log, start, end), FALSE).samples =
              {Wait(p) : p \in {q \in InPeriod(log, start, end) \X InPeriod(log, start, end) :
                                  AsksFirst(InPeriod(log, start, end), q[1], q[2])}}
        BY <1>1, ZenonT(30)
      <3>2. QED  BY <3>1, Zenon DEF Wait, ResponseSamples
    <2>2. QED  BY <2>1, Zenon DEF ResponseTimes
  <1>2. Len(log) \in Nat /\ DOMAIN log = 1..Len(log)  BY DEF LogOK
  <1>3. seen \in SUBSET DOMAIN log  BY <1>1 DEF InPeriod
  <1>4. PICK h : Passes(seen, h, Len(log)) /\ ResponsePass(log, seen, FALSE) = h[Len(log)]
    BY <1>2, PassFits
  <1>5. PassOK(seen, h[Len(log)], Len(log))  BY <1>3, <1>4, PassAll
  <1>6. Answered(seen, Len(log)) = {q \in seen \X seen : AsksFirst(seen, q[1], q[2])}
    BY <1>2, <1>3 DEF Answered
  <1>7. QED  BY <1>4, <1>5, <1>6 DEF PassOK

\* In a finite set in strict order, each member has the rank of how many come
\* before it ...
Ranked(T, Lt, rank) ==
  /\ IsFiniteSet(T) /\ rank \in [T -> Nat]
  /\ \A t \in T : <<t, t>> \notin Lt
  /\ \A t, u, v \in T : <<t, u>> \in Lt /\ <<u, v>> \in Lt => <<t, v>> \in Lt
  /\ \A t, u \in T : t = u \/ <<t, u>> \in Lt \/ <<u, t>> \in Lt
  /\ \E before \in [T -> SUBSET T] :
       \A t \in T : rank[t] = Cardinality(before[t])
                   /\ \A u \in T : u \in before[t] <=> <<u, t>> \in Lt

\* ... and if not all ranks are below L, L members have one that is.
LEMMA TopCount ==
  ASSUME NEW T, NEW Lt, NEW rank, Ranked(T, Lt, rank), NEW L \in Nat,
         NEW x \in T, ~(rank[x] < L), NEW top, top = {t \in T : rank[t] < L}
  PROVE  Cardinality(top) = L /\ \A t \in top : <<t, x>> \in Lt
  <1>0. /\ IsFiniteSet(T) /\ rank \in [T -> Nat]
        /\ \A t \in T : <<t, t>> \notin Lt
        /\ \A t, u, v \in T : <<t, u>> \in Lt /\ <<u, v>> \in Lt => <<t, v>> \in Lt
        /\ \A t, u \in T : t = u \/ <<t, u>> \in Lt \/ <<u, t>> \in Lt
    BY DEF Ranked
  <1>1. PICK before \in [T -> SUBSET T] :
          \A t \in T : rank[t] = Cardinality(before[t])
                      /\ \A u \in T : u \in before[t] <=> <<u, t>> \in Lt
    BY DEF Ranked
  <1>2. \A t \in T : /\ before[t] \subseteq T \ {t} /\ IsFiniteSet(before[t])
                     /\ rank[t] = Cardinality(before[t]) /\ rank[t] \in Nat
    <2>1. ASSUME NEW t \in T
          PROVE  before[t] \subseteq T \ {t} /\ rank[t] = Cardinality(before[t])
      BY <1>0, <1>1
    <2>2. ASSUME NEW t \in T PROVE IsFiniteSet(before[t])
      BY <1>0, <2>1, FS_Subset
    <2>3. QED  BY <2>1, <2>2, FS_CardinalityType
  <1>3. ASSUME NEW t \in T, NEW u \in T, <<u, t>> \in Lt PROVE rank[u] < rank[t]
    <2>1. before[u] \subseteq before[t] /\ u \in before[t] /\ u \notin before[u]
      BY <1>0, <1>1, <1>3
    <2>2. /\ Cardinality(before[u]) <= Cardinality(before[t])
          /\ Cardinality(before[u]) = Cardinality(before[t]) => before[t] = before[u]
      BY <1>2, <2>1, FS_Subset
    <2>3. rank[u] <= rank[t] /\ rank[u] # rank[t]  BY <1>2, <2>1, <2>2
    <2>4. PICK a \in Nat, b \in Nat : a = rank[u] /\ b = rank[t]  BY <1>2
    <2>5. a <= b /\ a # b  BY <2>3, <2>4
    <2>6. a < b  BY <2>5
    <2>7. QED  BY <2>4, <2>6
  <1>4. PICK n \in Nat : n = Cardinality(T)  BY <1>0, FS_CardinalityType
  <1>5. \A t \in T : rank[t] \in 0..(n - 1)
    <2>1. ASSUME NEW t \in T PROVE rank[t] < n
      <3>1. before[t] \subseteq T /\ before[t] # T
        <4>1. before[t] \subseteq T \ {t}  BY <1>2
        <4>2. QED  BY <4>1
      <3>2. Cardinality(before[t]) <= Cardinality(T) /\ Cardinality(before[t]) # Cardinality(T)
        BY <1>0, <3>1, FS_Subset
      <3>3. PICK a \in Nat : a = rank[t]  BY <1>2
      <3>4. a <= n /\ a # n  BY <1>2, <1>4, <3>2, <3>3
      <3>5. a < n  BY <3>4
      <3>6. QED  BY <3>3, <3>5
    <2>2. QED  BY <1>2, <1>4, <2>1
  <1>6. ASSUME NEW t \in T, NEW u \in T, rank[t] = rank[u] PROVE t = u
    <2>1. PICK a \in Nat : a = rank[u] /\ a = rank[t]  BY <1>2, <1>6
    <2>2. ~(a < a)  OBVIOUS
    <2>3. ASSUME <<t, u>> \in Lt PROVE FALSE
      <3>1. rank[t] < rank[u]  BY <1>3, <2>3
      <3>2. QED  BY <2>1, <2>2, <3>1
    <2>4. ASSUME <<u, t>> \in Lt PROVE FALSE
      <3>1. rank[u] < rank[t]  BY <1>3, <2>4
      <3>2. QED  BY <2>1, <2>2, <3>1
    <2>5. QED  BY <1>0, <2>3, <2>4
  <1>7. rank \in Injection(T, 0..(n - 1))
    <2>1. rank \in [T -> 0..(n - 1)]  BY <1>0, <1>5
    <2>2. \A a, b \in T : rank[a] = rank[b] => a = b  BY <1>6
    <2>3. QED  BY <2>1, <2>2 DEF Injection, IsInjective
  <1>8. \A k \in 0..(n - 1) : \E t \in T : rank[t] = k
    <2>1. IsFiniteSet(0..(n - 1)) /\ Cardinality(0..(n - 1)) = n
      <3>1. PICK m \in Int : m = n - 1  BY <1>4
      <3>2. IsFiniteSet(0..m) /\ Cardinality(0..m) = IF 0 > m THEN 0 ELSE m - 0 + 1
        BY FS_Interval
      <3>3. QED  BY <1>4, <3>1, <3>2
    <2>2. rank \in Surjection(T, 0..(n - 1))  BY <1>4, <1>7, <2>1, FS_Injection
    <2>3. QED  BY <2>2 DEF Surjection
  <1>9. L <= rank[x] /\ rank[x] < n  BY <1>2, <1>5
  <1>10. Cardinality(top) = L
    <2>1. PICK f : f = [t \in top |-> rank[t]]  OBVIOUS
    <2>2. f \in Bijection(top, 0..(L - 1))
      <3>1. \A t \in top : t \in T /\ f[t] = rank[t] /\ rank[t] \in Nat /\ rank[t] < L
        BY <1>2, <2>1
      <3>2. f \in [top -> 0..(L - 1)]  BY <2>1, <3>1
      <3>3. \A t, u \in top : f[t] = f[u] => t = u  BY <1>6, <3>1
      <3>4. ASSUME NEW k \in 0..(L - 1) PROVE \E t \in top : f[t] = k
        <4>1. k \in 0..(n - 1) /\ k < L  BY <1>2, <1>4, <1>9
        <4>2. PICK t \in T : rank[t] = k  BY <1>8, <4>1
        <4>3. t \in top  BY <4>1, <4>2
        <4>4. QED  BY <2>1, <4>2, <4>3
      <3>5. f \in Injection(top, 0..(L - 1))  BY <3>2, <3>3 DEF Injection, IsInjective
      <3>6. f \in Surjection(top, 0..(L - 1))  BY <3>2, <3>4, Zenon DEF Surjection
      <3>7. QED  BY <3>5, <3>6 DEF Bijection
    <2>3. IsFiniteSet(top)  BY <1>0, FS_Subset
    <2>4. Cardinality(0..(L - 1)) = Cardinality(top)
      BY <2>2, <2>3, FS_Bijection DEF ExistsBijection
    <2>5. Cardinality(0..(L - 1)) = L  BY FS_Interval
    <2>6. QED  BY <2>4, <2>5
  <1>11. ASSUME NEW t \in top PROVE <<t, x>> \in Lt
    <2>1. t \in T /\ rank[t] < rank[x]  BY <1>2, <1>9
    <2>2. PICK a \in Nat, b \in Nat : a = rank[t] /\ b = rank[x]  BY <1>2, <2>1
    <2>3. a < b /\ ~(b < a) /\ a # b  BY <2>1, <2>2
    <2>4. t # x /\ <<x, t>> \notin Lt  BY <1>3, <2>1, <2>2, <2>3
    <2>5. QED  BY <1>0, <2>1, <2>4
  <1>12. QED  BY <1>10, <1>11

\* Each text that was asked has been asked a first time, and no two together.
LEMMA AskedFacts ==
  ASSUME LogOK
  PROVE  /\ IsFiniteSet(Texts(log))
         /\ \A t \in Texts(log) :
              /\ Cardinality(Asked(log, t)) \in Nat
              /\ FirstAsked(log, t) \in Nat
              /\ \A u \in Texts(log) : FirstAsked(log, t) = FirstAsked(log, u) => t = u
  <1>1. Len(log) \in Nat /\ DOMAIN log = 1..Len(log)  BY DEF LogOK
  <1>2. IsFiniteSet(DOMAIN log)  BY <1>1, FS_Interval
  <1>3. IsFiniteSet(Texts(log))
    <2>1. PICK I : I = {j \in DOMAIN log : log[j].direction = "inbound"}  OBVIOUS
    <2>2. IsFiniteSet(I)  BY <1>2, <2>1, FS_Subset
    <2>3. PICK f : f = [i \in I |-> log[i].text]  OBVIOUS
    <2>4. f \in Surjection(I, Texts(log))  BY <2>1, <2>3 DEF Surjection, Texts
    <2>5. QED  BY <2>2, <2>4, FS_Surjection
  <1>4. ASSUME NEW t \in Texts(log)
        PROVE  /\ Cardinality(Asked(log, t)) \in Nat
               /\ FirstAsked(log, t) \in Asked(log, t)
    <2>1. Asked(log, t) \subseteq DOMAIN log /\ Asked(log, t) # {}  BY DEF Asked, Texts
    <2>2. IsFiniteSet(Asked(log, t))  BY <1>2, <2>1, FS_Subset
    <2>3. PICK i \in Asked(log, t) : \A j \in Asked(log, t) : i <= j
      BY <1>1, <2>1, Least
    <2>4. FirstAsked(log, t) \in Asked(log, t)  BY <2>3, Zenon DEF FirstAsked
    <2>5. QED  BY <2>2, <2>4, FS_CardinalityType
  <1>5. \A t \in Texts(log) : FirstAsked(log, t) \in DOMAIN log /\ log[FirstAsked(log, t)].text = t
    BY <1>4 DEF Asked
  <1>6. QED  BY <1>1, <1>3, <1>4, <1>5

LEMMA TopRight ==
  ASSUME LogOK
  PROVE  TopIsTop
  <1>1. PICK T, na, fa : /\ T = Texts(log)
                         /\ na = [t \in T |-> Cardinality(Asked(log, t))]
                         /\ fa = [t \in T |-> FirstAsked(log, t)]
    OBVIOUS
  <1>2. /\ IsFiniteSet(T)
        /\ \A t \in T : na[t] \in Nat /\ fa[t] \in Nat
        /\ \A t, u \in T : fa[t] = fa[u] => t = u
    BY <1>1, AskedFacts
  <1>3. \A t, u \in T : Ranks(log, t, u) <=> na[t] > na[u] \/ (na[t] = na[u] /\ fa[t] < fa[u])
    BY <1>1 DEF Ranks
  <1>4. PICK Lt : Lt = {p \in T \X T : Ranks(log, p[1], p[2])}  OBVIOUS
  <1>5. \A t, u \in T : <<t, u>> \in Lt <=> na[t] > na[u] \/ (na[t] = na[u] /\ fa[t] < fa[u])
    BY <1>3, <1>4
  <1>6. /\ \A t \in T : <<t, t>> \notin Lt
        /\ \A t, u, v \in T : <<t, u>> \in Lt /\ <<u, v>> \in Lt => <<t, v>> \in Lt
        /\ \A t, u \in T : t = u \/ <<t, u>> \in Lt \/ <<u, t>> \in Lt
    <2>1. \A t \in T : <<t, t>> \notin Lt  BY <1>2, <1>5
    <2>2. ASSUME NEW t \in T, NEW u \in T, NEW v \in T, <<t, u>> \in Lt, <<u, v>> \in Lt
          PROVE  <<t, v>> \in Lt
      <3>1. /\ na[t] \in Nat /\ na[u] \in Nat /\ na[v] \in Nat
            /\ fa[t] \in Nat /\ fa[u] \in Nat /\ fa[v] \in Nat
        BY <1>2
      <3>2. QED  BY <1>5, <2>2, <3>1
    <2>3. ASSUME NEW t \in T, NEW u \in T, t # u PROVE <<t, u>> \in Lt \/ <<u, t>> \in Lt
      <3>1. na[t] \in Nat /\ na[u] \in Nat /\ fa[t] \in Nat /\ fa[u] \in Nat /\ fa[t] # fa[u]
        BY <1>2, <2>3
      <3>2. QED  BY <1>5, <3>1
    <2>4. QED  BY <2>1, <2>2, <2>3
  <1>7. PICK before, rank : /\ before = [t \in T |-> {u \in T : Ranks(log, u, t)}]
                            /\ rank = [t \in T |-> Cardinality(before[t])]
    OBVIOUS
  <1>8. before \in [T -> SUBSET T] /\ \A t, u \in T : u \in before[t] <=> <<u, t>> \in Lt
    BY <1>3, <1>5, <1>7
  <1>9. \A t \in T : rank[t] = Cardinality({u \in T : Ranks(log, u, t)})
    BY <1>7
  <1>10. TopLimit \in Nat  BY DeskAssumption
  <1>11. PICK top : top = {t \in T : rank[t] < TopLimit}  OBVIOUS
  <1>12. TopQuestions(log, TopLimit) = {t \in top : na[t] > 1}
    BY <1>1, <1>9, <1>11 DEF TopQuestions
  <1>13. ASSUME NEW x \in T, x \notin TopQuestions(log, TopLimit), ~(na[x] <= 1)
         PROVE  /\ Cardinality(TopQuestions(log, TopLimit)) = TopLimit
                /\ \A u \in TopQuestions(log, TopLimit) : na[u] >= na[x]
    <2>1. na[x] \in Nat /\ na[x] > 1  BY <1>2, <1>13
    <2>2. ~(rank[x] < TopLimit)  BY <1>11, <1>12, <1>13, <2>1
    <2>3. Cardinality(top) = TopLimit /\ \A t \in top : <<t, x>> \in Lt
      <3>1. IsFiniteSet(T) /\ TopLimit \in Nat  BY <1>2, <1>10
      <3>2. \A t \in T : rank[t] = Cardinality(before[t])  BY <1>7
      <3>3. \A t \in T : IsFiniteSet(before[t])  BY <1>8, <3>1, FS_Subset
      <3>4. rank \in [T -> Nat]  BY <1>7, <3>2, <3>3, FS_CardinalityType
      <3>5. Ranked(T, Lt, rank)  BY <1>6, <1>8, <3>1, <3>2, <3>4 DEF Ranked
      <3>6. QED  BY <1>11, <2>2, <3>1, <3>5, TopCount
    <2>4. ASSUME NEW t \in top PROVE t \in T /\ na[t] >= na[x]
      <3>1. t \in T /\ <<t, x>> \in Lt  BY <1>11, <2>3
      <3>2. PICK a \in Nat, b \in Nat : a = na[t] /\ b = na[x]  BY <1>2, <3>1
      <3>3. a > b \/ a = b  BY <1>5, <3>1, <3>2
      <3>4. a >= b  BY <3>3
      <3>5. QED  BY <3>1, <3>2, <3>4
    <2>5. \A t \in top : na[t] > 1  BY <1>2, <2>1, <2>4
    <2>6. TopQuestions(log, TopLimit) = top  BY <1>12, <2>5
    <2>7. QED  BY <2>3, <2>4, <2>6
  <1>14. QED
    <2>1. \A t \in T : na[t] = Cardinality(Asked(log, t))  BY <1>1
    <2>2. TopQuestions(log, TopLimit) \subseteq T  BY <1>11, <1>12
    <2>3. SUFFICES ASSUME NEW x \in T, x \notin TopQuestions(log, TopLimit)
                   PROVE  \/ na[x] <= 1
                          \/ /\ Cardinality(TopQuestions(log, TopLimit)) = TopLimit
                             /\ \A u \in TopQuestions(log, TopLimit) : na[u] >= na[x]
      BY <1>1, <2>1, <2>2 DEF TopIsTop
    <2>4. QED  BY <1>13, <2>3

LEMMA LogNext ==
  ASSUME TypeOK, LogOK, [Next]_vars
  PROVE  LogOK'
  <1>0. log \in Seq(Messages) /\ now \in Nat /\ \A i \in DOMAIN log : log[i].at # 0
    BY DEF TypeOK, LogOK
  <1>1. ASSUME log' = log PROVE LogOK'  BY <1>0, <1>1 DEF LogOK
  <1>2. ASSUME Exchange PROVE LogOK'
    <2>1. PICK c \in Conversations, t \in Questions, way \in {"inbound", "outbound"} :
            log' = Append(log, [conversation |-> c, direction |-> way, text |-> t, at |-> now + 1])
      BY <1>2 DEF Exchange
    <2>2. PICK m : m = [conversation |-> c, direction |-> way, text |-> t, at |-> now + 1]
      OBVIOUS
    <2>3. m \in Messages /\ m.at # 0  BY <1>0, <2>2 DEF Messages
    <2>4. log' = Append(log, m)  BY <2>1, <2>2
    <2>5. QED  BY <1>0, <2>3, <2>4 DEF LogOK
  <1>3. ASSUME NEW r \in Requests, Writes(r) \/ Die(r) PROVE log' = log
    BY <1>3
    DEF Writes, CloseOpen, SaveAssigned, CreateAssignment, SaveConversation, SaveCustomer,
        SavePart, SaveCampaign, Die
  <1>4. QED  BY <1>1, <1>2, <1>3, Steps, Beginning DEF vars

\* Whoever has written what, in whatever order and conversations, for any period
\* and any length of the list: waits last from the first message since the last
\* answer to the next one, and the questions listed are those asked most.
THEOREM Figures == Spec => []FiguresHold
  <1>1. Init => LogOK  BY DEF Init, LogOK
  <1>2. TypeOK /\ LogOK /\ [Next]_vars => LogOK'  BY LogNext
  <1>3. LogOK => FiguresHold  BY TimesRight, TopRight DEF FiguresHold
  <1>4. QED  BY <1>1, <1>2, <1>3, TypeCorrect, PTL DEF Spec
=============================================================================

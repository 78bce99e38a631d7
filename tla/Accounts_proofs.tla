--------------------------- MODULE Accounts_proofs ---------------------------
(***************************************************************************)
(* Proofs about Accounts, for any number of requests and of failures that  *)
(* lock.                                                                   *)
(***************************************************************************)
EXTENDS Accounts, FiniteSetTheorems, WellFoundedInduction, TLAPS

\* The statements that save columns of the user row.
Saving(r) ==
  \/ IncrementFailedLogin(r) \/ ResetFailedLogin(r) \/ SaveSecret(r) \/ Enable(r)
  \/ Disable(r) \/ SavePassword(r) \/ SaveStaff(r)

Handled(r) == SignIn(r) \/ Enrolment(r) \/ Passwords(r) \/ Staff(r) \/ Sessions(r)

\* A request starts only when there is room for it, and with what it has
\* looked up.
Entries == {<<"login", "clear">>, <<"login", "count">>, <<"verify", "clear">>, <<"verify", "count">>,
            <<"verify", "consume">>, <<"setup", "secret">>, <<"confirm", "clear">>,
            <<"confirm", "count">>, <<"unenrol", "disable">>, <<"password", "clear">>,
            <<"patch", "save">>, <<"refresh", "rotate">>}
Started(r) ==
  \E e \in Entries, arg \in 0..MaxServed :
    /\ Free(r) /\ Start(r, e[1], e[2], arg)
    /\ UNCHANGED user /\ (e[1] = "confirm" => user.secret # 0)
    /\ e[2] = "consume" => arg \in Serial /\ codes[arg] = "unused"
    /\ e[1] = "password" => arg \in Serial /\ resets[arg] = "valid"
    /\ e[1] = "refresh" => arg \in Serial /\ sessions[arg].token = "live"

\* A request that resets the failures has checked a password, a code or a
\* reset token, and goes on from there.
Routed(q) ==
  /\ q.at = "clear" => q.op \in DOMAIN Following
  /\ q.at = "consume" => q.op = "verify"
  /\ q.at = "enable" => q.op = "confirm"
  /\ q.at = "disable" => q.op = "unenrol"
RouteOK == \A r \in Requests : Routed(req[r])

\* The first statement of most requests loads the row and changes no other.
Starting(r) ==
  \/ Login(r) \/ MFAVerify(r) \/ LookUpCode(r) \/ MFASetup(r) \/ MFASetupConfirm(r)
  \/ MFAReset(r) \/ ResetMfaCommand(r) \/ ResetPassword(r) \/ PatchStaff(r)
  \/ Refresh(r) /\ browser' = browser

LEMMA Starts ==
  ASSUME TypeOK, NEW r \in Requests, Starting(r)
  PROVE  Started(r) /\ UNCHANGED <<user, app, codes, tokens, resets, sessions, browser>>
  <1>0. Serial \subseteq 0..MaxServed /\ 0 \in 0..MaxServed /\ browser \in 0..MaxServed
    BY AccountsAssumption DEF Serial, TypeOK
  <1>1. CASE Login(r)
    <2>1. Free(r) /\ (Start(r, "login", "clear", 0) \/ Start(r, "login", "count", 0))
      BY <1>1 DEF Login
    <2>2. QED  BY <1>0, <1>1, <2>1 DEF Started, Entries, Login
  <1>2. CASE MFAVerify(r)
    <2>1. Free(r) /\ (Start(r, "verify", "clear", 0) \/ Start(r, "verify", "count", 0))
      BY <1>2 DEF MFAVerify, Pending
    <2>2. QED  BY <1>0, <1>2, <2>1 DEF Started, Entries, MFAVerify
  <1>3. CASE LookUpCode(r)
    <2>1. Free(r) /\ \E c \in Serial : codes[c] = "unused" /\ Start(r, "verify", "consume", c)
      BY <1>3 DEF LookUpCode, Pending
    <2>2. QED  BY <1>0, <1>3, <2>1 DEF Started, Entries, LookUpCode
  <1>4. CASE MFASetup(r)
    <2>1. Free(r) /\ Start(r, "setup", "secret", 0)  BY <1>4 DEF MFASetup, Pending
    <2>2. QED  BY <1>0, <1>4, <2>1 DEF Started, Entries, MFASetup
  <1>5. CASE MFASetupConfirm(r)
    <2>1. Free(r) /\ user.secret # 0
          /\ (Start(r, "confirm", "clear", 0) \/ Start(r, "confirm", "count", 0))
      BY <1>5 DEF MFASetupConfirm, Pending
    <2>2. QED  BY <1>0, <1>5, <2>1 DEF Started, Entries, MFASetupConfirm
  <1>6. CASE MFAReset(r) \/ ResetMfaCommand(r)
    <2>1. MFAReset(r)  BY <1>6 DEF ResetMfaCommand
    <2>2. Free(r) /\ Start(r, "unenrol", "disable", 0)  BY <2>1 DEF MFAReset
    <2>3. QED  BY <1>0, <2>1, <2>2 DEF Started, Entries, MFAReset
  <1>7. CASE ResetPassword(r)
    <2>1. Free(r) /\ \E t \in Serial : resets[t] = "valid" /\ Start(r, "password", "clear", t)
      BY <1>7 DEF ResetPassword
    <2>2. QED  BY <1>0, <1>7, <2>1 DEF Started, Entries, ResetPassword
  <1>8. CASE PatchStaff(r)
    <2>1. Free(r) /\ Start(r, "patch", "save", 0)  BY <1>8 DEF PatchStaff
    <2>2. QED  BY <1>0, <1>8, <2>1 DEF Started, Entries, PatchStaff
  <1>9. CASE Refresh(r) /\ browser' = browser
    <2>1. /\ Free(r) /\ Start(r, "refresh", "rotate", browser)
          /\ browser \in Serial /\ sessions[browser].token = "live"
      BY <1>0, <1>9 DEF Refresh, Serial
    <2>2. QED  BY <1>0, <1>9, <2>1 DEF Started, Entries, Refresh
  <1>10. QED  BY <1>1, <1>2, <1>3, <1>4, <1>5, <1>6, <1>7, <1>8, <1>9 DEF Starting

\* Requests that are answered in one statement.
AtOnce(r) ==
  ForgotPassword(r) \/ Logout(r) \/ RevokeSession(r) \/ (Refresh(r) /\ browser' # browser)

\* Statements in the middle of a request that leave the user row alone.
Passing(r) ==
  \/ StepUpToken(r) \/ ConsumeCode(r) \/ IssueTokens(r) \/ WipeCodes(r) \/ StoreCodes(r)
  \/ SpendToken(r) \/ Rotate(r)

LEMMA Split ==
  ASSUME NEW r \in Requests, Handled(r)
  PROVE  Starting(r) \/ AtOnce(r) \/ Saving(r) \/ Passing(r)
  BY DEF Handled, SignIn, Enrolment, Passwords, Staff, Sessions, Starting, AtOnce, Saving, Passing

Proceeds(r) ==
  \/ Done(r) \/ \E s \in {"wipe", "store", "issue", "spend"} : Goto(r, s)
  \/ At(r, "consume") /\ Goto(r, "clear")

\* What a step may do to a request ...
LEMMA Moves ==
  ASSUME TypeOK, NEW r \in Requests, Handled(r)
  PROVE  \/ Started(r) \/ ResetFailedLogin(r)
         \/ UNCHANGED req /\ Free(r) /\ served' = served + 1
         \/ UNCHANGED served /\ Proceeds(r)
  <1>1. CASE Starting(r)  BY <1>1, Starts
  <1>2. CASE AtOnce(r)
    BY <1>2 DEF AtOnce, ForgotPassword, Logout, RevokeSession, Refresh
  <1>3. CASE Saving(r)
    <2>1. CASE IncrementFailedLogin(r)  BY <2>1 DEF IncrementFailedLogin, Proceeds
    <2>2. CASE SaveSecret(r)  BY <2>2 DEF SaveSecret, Proceeds
    <2>3. CASE Enable(r)  BY <2>3 DEF Enable, Proceeds
    <2>4. CASE Disable(r)  BY <2>4 DEF Disable, Proceeds
    <2>5. CASE SavePassword(r)  BY <2>5 DEF SavePassword, Proceeds
    <2>6. CASE SaveStaff(r)  BY <2>6 DEF SaveStaff, Proceeds
    <2>7. QED  BY <1>3, <2>1, <2>2, <2>3, <2>4, <2>5, <2>6 DEF Saving
  <1>4. CASE Passing(r)
    <2>1. CASE StepUpToken(r)  BY <2>1 DEF StepUpToken, Proceeds
    <2>2. CASE ConsumeCode(r)  BY <2>2 DEF ConsumeCode, Proceeds
    <2>3. CASE IssueTokens(r)  BY <2>3 DEF IssueTokens, Proceeds
    <2>4. CASE WipeCodes(r)  BY <2>4 DEF WipeCodes, Proceeds
    <2>5. CASE StoreCodes(r)  BY <2>5 DEF StoreCodes, Proceeds
    <2>6. CASE SpendToken(r)  BY <2>6 DEF SpendToken, Proceeds
    <2>7. CASE Rotate(r)  BY <2>7 DEF Rotate, Proceeds
    <2>8. QED  BY <1>4, <2>1, <2>2, <2>3, <2>4, <2>5, <2>6, <2>7 DEF Passing
  <1>5. QED  BY <1>1, <1>2, <1>3, <1>4, Split

\* ... and, unless it saves columns of it, to the user row and the history.
LEMMA Others ==
  ASSUME TypeOK, NEW r \in Requests, Handled(r), ~Saving(r)
  PROVE  UNCHANGED user /\ (UNCHANGED hist \/ Started(r) \/ ConsumeCode(r))
  <1>1. CASE Starting(r)  BY <1>1, Starts
  <1>2. CASE AtOnce(r)
    BY <1>2 DEF AtOnce, ForgotPassword, Logout, RevokeSession, Refresh, Start
  <1>3. CASE Passing(r)
    BY <1>3
    DEF Passing, StepUpToken, ConsumeCode, IssueTokens, WipeCodes, StoreCodes, SpendToken, Rotate
  <1>4. QED  BY <1>1, <1>2, <1>3, Split

(***************************************************************************)
(* Types                                                                   *)
(***************************************************************************)
LEMMA ServedType ==
  ASSUME TypeOK, [Next]_vars
  PROVE  served' \in Serial
  <1>0. served \in Serial /\ MaxServed \in Nat  BY AccountsAssumption DEF TypeOK
  <1>1. ASSUME NEW r \in Requests, Handled(r) PROVE served' \in Serial
    <2>1. UNCHANGED served \/ (served < MaxServed /\ served' = served + 1)
      BY <1>1, Moves DEF Started, Free, Start, ResetFailedLogin
    <2>2. QED  BY <1>0, <2>1 DEF Serial
  <1>2. CASE Time \/ UNCHANGED vars
    BY <1>0, <1>2 DEF Time, LockEnds, TokensExpire, ResetExpires, vars
  <1>3. QED  BY <1>1, <1>2 DEF Next, Handled

LEMMA RequestType ==
  ASSUME TypeOK, RouteOK, [Next]_vars
  PROVE  req' \in [Requests -> Request] /\ RouteOK'
  <1>0. req \in [Requests -> Request] /\ user \in Row  BY DEF TypeOK
  <1> USE DEF Routed
  <1>1. Idle \in Request /\ Routed(Idle)
    BY AccountsAssumption DEF Idle, Request, NewRow, Row, Serial, Operations, Steps
  <1>2. ASSUME NEW r \in Requests, NEW new \in Request, Routed(new),
               req' = [req EXCEPT ![r] = new]
        PROVE  req' \in [Requests -> Request] /\ RouteOK'
    BY <1>0, <1>2 DEF RouteOK, At
  <1>3. ASSUME NEW r \in Requests, Handled(r)
        PROVE  req' \in [Requests -> Request] /\ RouteOK'
    <2>1. CASE Started(r)
      <3>1. PICK e \in Entries, arg \in 0..MaxServed : Free(r) /\ Start(r, e[1], e[2], arg)
        BY <2>1 DEF Started
      <3>2. served + 1 \in Serial
        BY <3>1, AccountsAssumption DEF Free, TypeOK, Serial
      <3>3. e[1] \in Operations /\ e[2] \in Steps
            /\ (e[2] = "clear" => e[1] \in DOMAIN Following) /\ (e[2] = "consume" => e[1] = "verify")
            /\ e[2] # "enable" /\ (e[2] = "disable" => e[1] = "unenrol")
        BY DEF Entries, Operations, Steps, Following
      <3>4. DEFINE new == [op |-> e[1], at |-> e[2], n |-> served + 1, arg |-> arg, row |-> user]
      <3>5. new \in Request /\ Routed(new)  BY <1>0, <3>2, <3>3 DEF Request
      <3>6. req' = [req EXCEPT ![r] = new]  BY <3>1 DEF Start
      <3>7. QED  BY <1>2, <3>5, <3>6
    <2>2. CASE ResetFailedLogin(r)
      <3>1. DEFINE new == [req[r] EXCEPT !.at = Following[req[r].op], !.row.attempts = 0,
                                         !.row.lock = "none"]
      <3>2. new \in Request /\ Routed(new)
        <4>1. req[r] \in Request /\ req[r].row \in Row  BY <1>0 DEF Request
        <4>2. [req[r].row EXCEPT !.attempts = 0, !.lock = "none"] \in Row
          BY <4>1 DEF Row
        <4>3. req[r].op \in DOMAIN Following  BY <2>2 DEF ResetFailedLogin, RouteOK, At
        <4>4. /\ Following[req[r].op] \in Steps \ {"clear", "consume", "disable"}
              /\ Following[req[r].op] = "enable" => req[r].op = "confirm"
          BY <4>3 DEF Following, Steps
        <4>5. QED  BY <4>1, <4>2, <4>4 DEF Request
      <3>3. req' = [req EXCEPT ![r] = new]
        BY <1>0, <2>2 DEF ResetFailedLogin
      <3>4. QED  BY <1>2, <3>2, <3>3
    <2>3. CASE Proceeds(r)
      <3>1. \A s \in {"wipe", "store", "issue", "spend"} :
              [req[r] EXCEPT !.at = s] \in Request /\ Routed([req[r] EXCEPT !.at = s])
        BY <1>0 DEF Request, Steps
      <3>2. CASE Done(r)  BY <1>1, <1>2, <3>2 DEF Done
      <3>3. CASE At(r, "consume") /\ Goto(r, "clear")
        <4>1. [req[r] EXCEPT !.at = "clear"] \in Request  BY <1>0 DEF Request, Steps
        <4>2. req[r].op \in DOMAIN Following  BY <3>3 DEF RouteOK, At, Following
        <4>3. Routed([req[r] EXCEPT !.at = "clear"])  BY <1>0, <4>2 DEF Request
        <4>4. QED  BY <1>0, <1>2, <3>3, <4>1, <4>3 DEF Goto
      <3>4. CASE \E s \in {"wipe", "store", "issue", "spend"} : Goto(r, s)
        BY <1>0, <1>2, <3>1, <3>4 DEF Goto
      <3>5. QED  BY <2>3, <3>2, <3>3, <3>4 DEF Proceeds
    <2>4. CASE UNCHANGED req  BY <1>0, <2>4 DEF RouteOK, At
    <2>5. QED  BY <1>3, <2>1, <2>2, <2>3, <2>4, Moves
  <1>4. CASE LockEnds
    <2>1. \A q \in Requests : /\ [req[q] EXCEPT !.row.lock = "over"] \in Request
                              /\ Routed([req[q] EXCEPT !.row.lock = "over"])
      <3>1. ASSUME NEW q \in Requests
            PROVE  /\ [req[q] EXCEPT !.row.lock = "over"] \in Request
                   /\ Routed([req[q] EXCEPT !.row.lock = "over"])
        <4>1. req[q] \in Request /\ req[q].row \in Row  BY <1>0 DEF Request
        <4>2. [req[q].row EXCEPT !.lock = "over"] \in Row  BY <4>1 DEF Row
        <4>3. [req[q] EXCEPT !.row.lock = "over"] \in Request  BY <4>1, <4>2 DEF Request
        <4>4. Routed([req[q] EXCEPT !.row.lock = "over"])  BY <4>1 DEF Request, RouteOK
        <4>5. QED  BY <4>3, <4>4
      <3>2. QED  BY <3>1
    <2>2. QED  BY <1>0, <1>4, <2>1 DEF LockEnds, RouteOK, At
  <1>5. CASE UNCHANGED req  BY <1>0, <1>5 DEF RouteOK, At
  <1>6. QED  BY <1>3, <1>4, <1>5 DEF Next, Handled, Time, TokensExpire, ResetExpires, vars

LEMMA UserType ==
  ASSUME TypeOK, [Next]_vars
  PROVE  user' \in Row
  <1>0. user \in Row /\ req \in [Requests -> Request] /\ MaxServed \in Nat
    BY AccountsAssumption DEF TypeOK
  <1>1. ASSUME NEW r \in Requests, Saving(r) PROVE user' \in Row
    <2>0. req[r].row \in Row /\ req[r].n \in Serial  BY <1>0 DEF Request
    <2>1. CASE IncrementFailedLogin(r)
      <3>1. req[r].row.attempts + 1 \in Nat /\ req[r].row.lock \in {"none", "running", "over"}
        BY <2>0 DEF Row
      <3>2. \A n \in Nat, lock \in {"none", "running", "over"} :
              [user EXCEPT !.attempts = n, !.lock = lock] \in Row
        BY <1>0 DEF Row
      <3>3. QED  BY <2>1, <3>1, <3>2 DEF IncrementFailedLogin
    <2>2. CASE ResetFailedLogin(r)
      BY <1>0, <2>2 DEF ResetFailedLogin, Row
    <2>3. CASE SaveSecret(r)
      <3>1. req[r].n \in 0..MaxServed  BY <1>0, <2>0 DEF Serial
      <3>2. QED  BY <1>0, <2>3, <3>1 DEF SaveSecret, Row
    <2>4. CASE Enable(r)  BY <1>0, <2>4 DEF Enable, Row
    <2>5. CASE Disable(r)
      <3>1. 0 \in 0..MaxServed  BY <1>0
      <3>2. [user EXCEPT !.mfa = FALSE, !.secret = 0] \in Row  BY <1>0, <3>1 DEF Row
      <3>3. QED  BY <2>5, <3>2 DEF Disable
    <2>6. CASE SavePassword(r)  BY <2>0, <2>6 DEF SavePassword, Row
    <2>7. CASE SaveStaff(r)
      <3>1. \A active \in BOOLEAN : [req[r].row EXCEPT !.active = active] \in Row
        BY <2>0 DEF Row
      <3>2. QED  BY <2>0, <2>7, <3>1 DEF SaveStaff
    <2>8. QED  BY <1>1, <2>1, <2>2, <2>3, <2>4, <2>5, <2>6, <2>7 DEF Saving
  <1>2. CASE LockEnds  BY <1>0, <1>2 DEF LockEnds, Row
  <1>3. CASE UNCHANGED user  BY <1>0, <1>3
  <1>4. QED  BY <1>1, <1>2, <1>3, Others DEF Next, Handled, Time, TokensExpire, ResetExpires, vars

LEMMA HistoryType ==
  ASSUME TypeOK, [Next]_vars
  PROVE  hist' \in History
  <1>0. hist \in History /\ req \in [Requests -> Request]  BY DEF TypeOK
  <1>1. ASSUME NEW r \in Requests, Saving(r) PROVE hist' \in History
    <2>0. req[r].n \in Serial  BY <1>0 DEF Request
    <2>1. CASE IncrementFailedLogin(r)
      <3>1. \A locks \in BOOLEAN :
              [hist EXCEPT !.wrong = @ + 1, !.failures = @ + 1, !.locked = @ \/ locks] \in History
        <4>1. hist.wrong + 1 \in Nat /\ hist.failures + 1 \in Nat  BY <1>0 DEF History
        <4>2. \A locks \in BOOLEAN : (hist.locked \/ locks) \in BOOLEAN  OBVIOUS
        <4>3. \A w, f \in Nat, l \in BOOLEAN :
                [hist EXCEPT !.wrong = w, !.failures = f, !.locked = l] \in History
          BY <1>0 DEF History
        <4>4. QED  BY <4>1, <4>2, <4>3, Zenon
      <3>2. (req[r].row.attempts + 1 >= MaxAttempts) \in BOOLEAN  OBVIOUS
      <3>3. QED  BY <2>1, <3>1, <3>2 DEF IncrementFailedLogin
    <2>2. CASE ResetFailedLogin(r)
      BY <1>0, <2>2 DEF ResetFailedLogin, History
    <2>3. CASE SaveSecret(r)  BY <1>0, <2>3 DEF SaveSecret
    <2>4. CASE Enable(r)  BY <1>0, <2>4 DEF Enable
    <2>5. CASE Disable(r)  BY <1>0, <2>5 DEF Disable
    <2>6. CASE SavePassword(r)
      <3>1. [hist EXCEPT !.password = req[r].n, !.spent[req[r].arg] = @ + 1,
                         !.failures = 0, !.locked = FALSE] \in History
        <4>0. ASSUME NEW f \in [Serial -> Nat], NEW a
              PROVE  [f EXCEPT ![a] = @ + 1] \in [Serial -> Nat]
          <5>1. ASSUME NEW x \in Serial PROVE [f EXCEPT ![a] = @ + 1][x] \in Nat  OBVIOUS
          <5>2. QED  BY <5>1
        <4>1. [hist.spent EXCEPT ![req[r].arg] = @ + 1] \in [Serial -> Nat]
          <5>1. hist.spent \in [Serial -> Nat]  BY <1>0 DEF History
          <5>2. QED  BY <4>0, <5>1
        <4>2. \A p \in Serial, f \in [Serial -> Nat] :
                [hist EXCEPT !.password = p, !.spent = f, !.failures = 0, !.locked = FALSE] \in History
          BY <1>0 DEF History
        <4>3. [hist EXCEPT !.password = req[r].n, !.spent = [hist.spent EXCEPT ![req[r].arg] = @ + 1],
                           !.failures = 0, !.locked = FALSE] \in History
          BY <2>0, <4>1, <4>2
        <4>4. QED  BY <4>3
      <3>2. QED  BY <2>6, <3>1 DEF SavePassword
    <2>7. CASE SaveStaff(r)
      <3>1. [hist EXCEPT !.failures = 0, !.locked = FALSE] \in History
        BY <1>0 DEF History
      <3>2. \A active \in BOOLEAN :
              [hist EXCEPT !.active = active, !.failures = 0, !.locked = FALSE] \in History
        BY <1>0 DEF History
      <3>3. QED  BY <2>7, <3>1, <3>2 DEF SaveStaff
    <2>8. QED  BY <1>1, <2>1, <2>2, <2>3, <2>4, <2>5, <2>6, <2>7 DEF Saving
  <1>2. ASSUME NEW r \in Requests, Started(r) PROVE hist' \in History
    <2>1. PICK e \in Entries, arg \in 0..MaxServed : Start(r, e[1], e[2], arg)
      BY <1>2 DEF Started
    <2>2. {{e[1], other} : other \in {o \in Savers : Busy(o) /\ e[1] \in Savers}}
            \subseteq SUBSET Savers
      OBVIOUS
    <2>3. QED  BY <1>0, <2>1, <2>2 DEF Start, History
  <1>3. ASSUME NEW r \in Requests, ConsumeCode(r) PROVE hist' \in History
    BY <1>0, <1>3 DEF ConsumeCode, History
  <1>4. CASE UNCHANGED hist  BY <1>0, <1>4
  <1>5. QED
    BY <1>1, <1>2, <1>3, <1>4, Others
    DEF Next, Handled, Time, LockEnds, TokensExpire, ResetExpires, vars

\* The tokens, codes and sessions.
SignIns == [token : {"absent", "live", "rotated", "revoked"}, rotated : Nat]
Tokens ==
  /\ app \in 0..MaxServed
  /\ codes \in [Serial -> {"absent", "unused", "used"}]
  /\ tokens \subseteq {"mfa_setup", "mfa_challenge"}
  /\ resets \in [Serial -> {"absent", "valid", "used", "expired"}]
  /\ sessions \in [Serial -> [token : {"absent", "live", "rotated", "revoked"}, rotated : Nat]]
  /\ browser \in 0..MaxServed

LEMMA TokensType ==
  ASSUME TypeOK, [Next]_vars
  PROVE  Tokens'
  <1>0. Tokens /\ MaxServed \in Nat  BY AccountsAssumption DEF TypeOK, Tokens
  <1>1. ASSUME NEW r \in Requests, Starting(r) PROVE Tokens'
    BY <1>0, <1>1, Starts DEF Tokens
  <1>2. ASSUME NEW r \in Requests, Saving(r) PROVE Tokens'
    <2>1. req[r].n \in 0..MaxServed
      BY <1>0 DEF TypeOK, Request, Serial
    <2>2. QED
      BY <1>0, <1>2, <2>1
      DEF Tokens, Saving, IncrementFailedLogin, ResetFailedLogin, SaveSecret, Enable, Disable,
          SavePassword, SaveStaff
  <1>3. ASSUME NEW r \in Requests, Passing(r) PROVE Tokens'
    <2>0. req[r].n \in 0..MaxServed
      BY <1>0 DEF TypeOK, Request, Serial
    <2>1. CASE StepUpToken(r)  BY <1>0, <2>1 DEF StepUpToken, Tokens
    <2>2. CASE ConsumeCode(r)  BY <1>0, <2>2 DEF ConsumeCode, Tokens
    <2>3. CASE IssueTokens(r)  BY <1>0, <2>0, <2>3 DEF IssueTokens, Tokens
    <2>4. CASE WipeCodes(r)  BY <1>0, <2>4 DEF WipeCodes, Tokens
    <2>5. CASE StoreCodes(r)  BY <1>0, <2>5 DEF StoreCodes, Tokens
    <2>6. CASE SpendToken(r)  BY <1>0, <2>6 DEF SpendToken, Tokens
    <2>7. CASE Rotate(r)
      <3>1. \A s \in Serial :
              [token |-> "rotated", rotated |-> sessions[s].rotated + 1] \in SignIns
        BY <1>0 DEF Tokens, SignIns
      <3>2. sessions \in [Serial -> SignIns]  BY <1>0 DEF Tokens, SignIns
      <3>3. sessions' \in [Serial -> SignIns]
        BY <2>7, <3>1, <3>2 DEF Rotate
      <3>4. QED  BY <1>0, <2>7, <3>3 DEF Rotate, Tokens, SignIns
    <2>8. QED  BY <1>3, <2>1, <2>2, <2>3, <2>4, <2>5, <2>6, <2>7 DEF Passing
  <1>4. ASSUME NEW r \in Requests, AtOnce(r) PROVE Tokens'
    <2>1. CASE ForgotPassword(r)  BY <1>0, <2>1 DEF ForgotPassword, Tokens
    <2>2. CASE Logout(r)
      <3>1. sessions' \in [Serial -> SignIns]
        BY <1>0, <2>2 DEF Logout, Tokens, SignIns
      <3>2. QED  BY <1>0, <2>2, <3>1 DEF Logout, Tokens, SignIns
    <2>3. CASE RevokeSession(r)
      <3>1. PICK s \in Serial :
              \/ sessions' = [sessions EXCEPT ![s].token = "revoked"]
              \/ sessions[s].rotated > 0 /\ sessions' = [sessions EXCEPT ![s].rotated = @ - 1]
        BY <2>3 DEF RevokeSession
      <3>2. sessions' \in [Serial -> SignIns]
        <4>1. sessions[s] \in SignIns  BY <1>0 DEF Tokens, SignIns
        <4>2. [sessions[s] EXCEPT !.token = "revoked"] \in SignIns  BY <4>1 DEF SignIns
        <4>3. sessions[s].rotated > 0 => [sessions[s] EXCEPT !.rotated = @ - 1] \in SignIns
          BY <4>1 DEF SignIns
        <4>4. QED  BY <1>0, <3>1, <4>2, <4>3 DEF Tokens, SignIns
      <3>3. QED  BY <1>0, <2>3, <3>2 DEF RevokeSession, Tokens, SignIns
    <2>4. CASE Refresh(r) /\ browser' # browser  BY <1>0, <2>4 DEF Refresh, Tokens
    <2>5. QED  BY <1>4, <2>1, <2>2, <2>3, <2>4 DEF AtOnce
  <1>5. CASE LockEnds  BY <1>0, <1>5 DEF LockEnds, Tokens
  <1>6. CASE TokensExpire  BY <1>0, <1>6 DEF TokensExpire, Tokens
  <1>7. CASE ResetExpires  BY <1>0, <1>7 DEF ResetExpires, Tokens
  <1>8. CASE UNCHANGED vars  BY <1>0, <1>8 DEF vars, Tokens
  <1>9. QED
    BY <1>1, <1>2, <1>3, <1>4, <1>5, <1>6, <1>7, <1>8, Split DEF Next, Handled, Time

LEMMA TypeInit == Init => TypeOK /\ RouteOK
  <1> SUFFICES ASSUME Init PROVE TypeOK /\ RouteOK  OBVIOUS
  <1>0. MaxServed \in Nat \ {0} /\ 1 \in Serial /\ {0, 1} \subseteq 0..MaxServed
    BY AccountsAssumption DEF Serial
  <1>1. NewRow \in Row  BY <1>0 DEF NewRow, Row
  <1>2. user \in Row /\ app \in 0..MaxServed
        /\ codes \in [Serial -> {"absent", "unused", "used"}]
    <2>1. PICK enrolled \in {0, 1} :
            /\ user = [NewRow EXCEPT !.mfa = (enrolled = 1), !.secret = enrolled]
            /\ app = enrolled
            /\ codes = [c \in Serial |-> IF c = enrolled THEN "unused" ELSE "absent"]
      BY DEF Init
    <2>2. (enrolled = 1) \in BOOLEAN  OBVIOUS
    <2>3. user \in Row  BY <1>0, <1>1, <2>1, <2>2 DEF Row
    <2>4. QED  BY <1>0, <2>1, <2>3
  <1>3. Idle \in Request  BY <1>0, <1>1 DEF Idle, Request, Operations, Steps
  <1>4. req \in [Requests -> Request] /\ RouteOK  BY <1>3 DEF Init, RouteOK, Routed, Idle
  <1>5. hist \in History  BY <1>0 DEF Init, History
  <1>6. Tokens /\ served \in Serial
    BY <1>0, <1>2 DEF Init, Tokens
  <1>7. QED  BY <1>2, <1>4, <1>5, <1>6 DEF TypeOK, Tokens

LEMMA TypeRoute == Spec => [](TypeOK /\ RouteOK)
  <1>1. TypeOK /\ RouteOK /\ [Next]_vars => TypeOK' /\ RouteOK'
    BY ServedType, RequestType, UserType, HistoryType, TokensType DEF TypeOK, Tokens
  <1>2. QED  BY <1>1, TypeInit, PTL DEF Spec

\* Every variable keeps its type.
THEOREM TypeCorrect == Spec => []TypeOK
  BY TypeRoute, PTL

(***************************************************************************)
(* Copies of the row                                                       *)
(***************************************************************************)
\* A request's copy of the row changes in the two columns of the lockout only.
SameBut(new, old) ==
  /\ new.active = old.active /\ new.mfa = old.mfa
  /\ new.secret = old.secret /\ new.password = old.password
  /\ new.attempts \in {0, old.attempts}
  /\ new.lock # "none" => new.attempts = old.attempts /\ old.lock # "none"

Copied(q) ==
  \/ req'[q] = Idle
  \/ /\ UNCHANGED user /\ req[q].op = "none" /\ req'[q].row = user
     /\ req'[q].op \in {e[1] : e \in Entries}
     /\ req'[q].op = "confirm" => user.secret # 0
     /\ \A p \in Requests \ {q} :
          req'[p] = req[p] /\ (req[p].op \in Savers /\ req'[q].op \in Savers
                               => {req'[q].op, req[p].op} \in hist'.met)
  \/ req'[q].op = req[q].op /\ SameBut(req'[q].row, req[q].row)

LEMMA Copies ==
  ASSUME TypeOK, RouteOK, [Next]_vars, NEW q \in Requests
  PROVE  Copied(q)
  <1>0. req \in [Requests -> Request] /\ hist \in History  BY DEF TypeOK
  <1>1. SameBut(req[q].row, req[q].row)
    BY DEF SameBut
  <1>2. ASSUME NEW r \in Requests, Handled(r) PROVE Copied(q)
    <2>1. CASE Started(r)
      <3>1. PICK e \in Entries, arg \in 0..MaxServed :
              Free(r) /\ Start(r, e[1], e[2], arg) /\ (e[1] = "confirm" => user.secret # 0)
        BY <2>1 DEF Started
      <3>2. req' = [req EXCEPT ![r] = [op |-> e[1], at |-> e[2], n |-> served + 1, arg |-> arg,
                                       row |-> user]]
        BY <3>1 DEF Start
      <3>3. hist'.met = hist.met \cup
              {{e[1], other} : other \in {o \in Savers : Busy(o) /\ e[1] \in Savers}}
        BY <1>0, <3>1 DEF Start, History
      <3>4. CASE q # r
        <4>1. req'[q] = req[q]  BY <1>0, <3>2, <3>4
        <4>2. QED  BY <1>1, <4>1 DEF Copied
      <3>5. CASE q = r
        <4>1. req'[q].op = e[1] /\ req'[q].row = user /\ \A p \in Requests \ {q} : req'[p] = req[p]
          BY <1>0, <3>2, <3>5
        <4>2. ASSUME NEW p \in Requests \ {q}, req[p].op \in Savers, e[1] \in Savers
              PROVE  {e[1], req[p].op} \in hist'.met
          <5>1. Busy(req[p].op)  BY DEF Busy
          <5>2. QED  BY <3>3, <4>2, <5>1
        <4>3. UNCHANGED user  BY <2>1 DEF Started
        <4>4. req[q].op = "none"  BY <3>1, <3>5 DEF Free
        <4>5. QED  BY <3>1, <4>1, <4>2, <4>3, <4>4 DEF Copied
      <3>6. QED  BY <3>4, <3>5
    <2>2. CASE ResetFailedLogin(r)
      <3>1. CASE q # r
        <4>1. req'[q] = req[q]  BY <1>0, <2>2, <3>1 DEF ResetFailedLogin
        <4>2. QED  BY <1>1, <4>1 DEF Copied
      <3>2. CASE q = r
        <4>1. req'[q] = [req[q] EXCEPT !.at = Following[req[q].op], !.row.attempts = 0,
                                       !.row.lock = "none"]
          BY <1>0, <2>2, <3>2 DEF ResetFailedLogin
        <4>2. req'[q].op = req[q].op  BY <1>0, <4>1 DEF Request
        <4>3. SameBut(req'[q].row, req[q].row)
          <5>1. req[q] \in Request /\ req[q].row \in Row  BY <1>0 DEF Request
          <5>2. req'[q].row = [req[q].row EXCEPT !.attempts = 0, !.lock = "none"]
            BY <4>1, <5>1 DEF Request
          <5>3. QED  BY <5>1, <5>2 DEF Row, SameBut
        <4>4. QED  BY <4>2, <4>3 DEF Copied
      <3>3. QED  BY <3>1, <3>2
    <2>3. CASE Proceeds(r)
      <3>1. CASE Done(r)
        <4>1. req'[q] = Idle \/ req'[q] = req[q]  BY <1>0, <3>1 DEF Done
        <4>2. QED  BY <1>1, <4>1 DEF Copied
      <3>2. ASSUME NEW s, Goto(r, s) PROVE Copied(q)
        <4>1. req'[q].op = req[q].op /\ req'[q].row = req[q].row
          BY <1>0, <3>2 DEF Goto, Request
        <4>2. QED  BY <1>1, <4>1 DEF Copied
      <3>3. QED  BY <2>3, <3>1, <3>2 DEF Proceeds
    <2>4. CASE UNCHANGED req  BY <1>1, <2>4 DEF Copied
    <2>5. QED  BY <1>2, <2>1, <2>2, <2>3, <2>4, Moves
  <1>3. CASE LockEnds
    <2>1. CASE req[q].row.lock = "running"
      <3>1. req[q] \in Request /\ req[q].row \in Row  BY <1>0 DEF Request
      <3>2. req'[q] = [req[q] EXCEPT !.row.lock = "over"]
        BY <1>3, <2>1 DEF LockEnds
      <3>3. req'[q].op = req[q].op /\ req'[q].row = [req[q].row EXCEPT !.lock = "over"]
        BY <3>1, <3>2 DEF Request
      <3>4. SameBut(req'[q].row, req[q].row)  BY <2>1, <3>1, <3>3 DEF Row, SameBut
      <3>5. QED  BY <3>3, <3>4 DEF Copied
    <2>2. CASE req[q].row.lock # "running"
      <3>1. req'[q] = req[q]  BY <1>3, <2>2 DEF LockEnds
      <3>2. QED  BY <1>1, <3>1 DEF Copied
    <2>3. QED  BY <2>1, <2>2
  <1>4. CASE UNCHANGED req  BY <1>1, <1>4 DEF Copied
  <1>5. QED  BY <1>2, <1>3, <1>4 DEF Next, Handled, Time, TokensExpire, ResetExpires, vars

(***************************************************************************)
(* The lock                                                                *)
(***************************************************************************)
\* Each copy of the row tells of no more failures than there were.
Evidence(row, wrong) == row.attempts <= wrong /\ (row.lock # "none" => wrong >= MaxAttempts)
EvidenceOK ==
  Evidence(user, hist.wrong) /\ \A r \in Requests : Evidence(req[r].row, hist.wrong)

LEMMA EvidenceNext ==
  ASSUME TypeOK, RouteOK, EvidenceOK, [Next]_vars, TypeOK'
  PROVE  EvidenceOK'
  <1>0. /\ hist.wrong \in Nat /\ hist'.wrong \in Nat /\ MaxAttempts \in Nat \ {0}
        /\ hist \in History /\ user \in Row /\ \A q \in Requests : req[q].row \in Row
    BY AccountsAssumption DEF TypeOK, History, Request
  <1>1. hist'.wrong >= hist.wrong
    <2>1. ASSUME NEW r \in Requests, Handled(r) PROVE hist'.wrong >= hist.wrong
      <3>1. CASE Started(r)
        BY <1>0, <3>1 DEF Started, Start, History
      <3>2. CASE Saving(r)
        <4>1. CASE IncrementFailedLogin(r)
          BY <1>0, <4>1 DEF IncrementFailedLogin, History
        <4>2. CASE ResetFailedLogin(r)  BY <1>0, <4>2 DEF ResetFailedLogin, History
        <4>3. CASE SaveSecret(r) \/ Enable(r) \/ Disable(r)
          BY <1>0, <4>3 DEF SaveSecret, Enable, Disable
        <4>4. CASE SavePassword(r)  BY <1>0, <4>4 DEF SavePassword, History
        <4>5. CASE SaveStaff(r)
          <5>1. \/ hist' = [hist EXCEPT !.failures = 0, !.locked = FALSE]
                \/ \E a \in BOOLEAN :
                     hist' = [hist EXCEPT !.active = a, !.failures = 0, !.locked = FALSE]
            BY <4>5 DEF SaveStaff
          <5>2. hist'.wrong = hist.wrong  BY <1>0, <5>1 DEF History
          <5>3. QED  BY <1>0, <5>2
        <4>6. QED  BY <3>2, <4>1, <4>2, <4>3, <4>4, <4>5 DEF Saving
      <3>3. CASE ConsumeCode(r)  BY <1>0, <3>3 DEF ConsumeCode, History
      <3>4. CASE UNCHANGED hist  BY <1>0, <3>4
      <3>5. QED  BY <2>1, <3>1, <3>2, <3>3, <3>4, Others
    <2>2. CASE UNCHANGED hist  BY <1>0, <2>2
    <2>3. QED  BY <2>1, <2>2 DEF Next, Handled, Time, LockEnds, TokensExpire, ResetExpires, vars
  <1>2. ASSUME NEW row \in Row, Evidence(row, hist.wrong) PROVE Evidence(row, hist'.wrong)
    BY <1>0, <1>1, <1>2 DEF Evidence, Row
  <1>3. ASSUME NEW q \in Requests PROVE Evidence(req'[q].row, hist'.wrong)
    <2>0. Evidence(req[q].row, hist.wrong) /\ Evidence(user, hist.wrong)  BY DEF EvidenceOK
    <2>1. CASE req'[q] = Idle  BY <1>0, <2>1 DEF Idle, NewRow, Evidence
    <2>2. CASE req'[q].row = user  BY <1>0, <1>2, <2>0, <2>2
    <2>3. CASE SameBut(req'[q].row, req[q].row)
      <3>1. Evidence(req[q].row, hist'.wrong) /\ req[q].row.attempts \in Nat
        BY <1>0, <1>2, <2>0 DEF Row
      <3>2. QED  BY <1>0, <2>3, <3>1 DEF SameBut, Evidence
    <2>4. QED  BY <2>1, <2>2, <2>3, Copies DEF Copied
  <1>4. Evidence(user', hist'.wrong)
    <2>0. Evidence(user, hist'.wrong) /\ \A q \in Requests : Evidence(req[q].row, hist'.wrong)
      BY <1>0, <1>2 DEF EvidenceOK
    <2>1. ASSUME NEW r \in Requests, Saving(r) PROVE Evidence(user', hist'.wrong)
      <3>1. CASE IncrementFailedLogin(r)
        <4>1. hist'.wrong = hist.wrong + 1  BY <1>0, <3>1 DEF IncrementFailedLogin, History
        <4>2. /\ user'.attempts = req[r].row.attempts + 1
              /\ user'.lock = IF req[r].row.attempts + 1 >= MaxAttempts THEN "running"
                              ELSE req[r].row.lock
          BY <1>0, <3>1 DEF IncrementFailedLogin, Row
        <4>3. Evidence(req[r].row, hist.wrong) /\ req[r].row.attempts \in Nat
          BY <1>0 DEF EvidenceOK, Row
        <4>4. QED  BY <1>0, <4>1, <4>2, <4>3 DEF Evidence
      <3>2. CASE ResetFailedLogin(r)
        BY <1>0, <2>0, <3>2 DEF ResetFailedLogin, Evidence, Row
      <3>3. CASE SaveSecret(r) \/ Enable(r) \/ Disable(r)
        BY <1>0, <2>0, <3>3 DEF SaveSecret, Enable, Disable, Evidence, Row
      <3>4. CASE SavePassword(r)
        <4>1. user' = [req[r].row EXCEPT !.password = req[r].n]  BY <3>4 DEF SavePassword
        <4>2. QED  BY <1>0, <2>0, <4>1 DEF Evidence, Row
      <3>5. CASE SaveStaff(r)
        <4>1. user' = req[r].row \/ \E a \in BOOLEAN : user' = [req[r].row EXCEPT !.active = a]
          BY <3>5 DEF SaveStaff
        <4>2. user'.attempts = req[r].row.attempts /\ user'.lock = req[r].row.lock
          BY <1>0, <4>1 DEF Row
        <4>3. QED  BY <2>0, <4>2 DEF Evidence
      <3>6. QED  BY <2>1, <3>1, <3>2, <3>3, <3>4, <3>5 DEF Saving
    <2>2. CASE LockEnds
      BY <1>0, <2>0, <2>2 DEF LockEnds, Evidence, Row
    <2>3. CASE UNCHANGED user  BY <2>0, <2>3
    <2>4. QED
      BY <2>1, <2>2, <2>3, Others DEF Next, Handled, Time, TokensExpire, ResetExpires, vars
  <1>5. QED  BY <1>3, <1>4 DEF EvidenceOK

\* An account is locked only after MaxAttempts attempts have failed.
THEOREM Explained == Spec => []LockExplained
  <1>1. Init => EvidenceOK
    BY AccountsAssumption DEF Init, EvidenceOK, Evidence, Idle, NewRow
  <1>2. TypeOK /\ RouteOK /\ EvidenceOK /\ [Next]_vars /\ TypeOK' => EvidenceOK'
    BY EvidenceNext
  <1>3. EvidenceOK => LockExplained
    BY DEF EvidenceOK, Evidence, LockExplained
  <1>4. QED  BY <1>1, <1>2, <1>3, TypeRoute, PTL DEF Spec

(***************************************************************************)
(* The last word                                                           *)
(***************************************************************************)
\* Two requests that save columns another may have loaded are remembered to
\* have overlapped, as long as both are in flight.
Overlap ==
  \A q, r \in Requests :
    q # r /\ req[q].op \in Savers /\ req[r].op \in Savers => Met(req[q].op, req[r].op)

PasswordKept(row) == row.password = hist.password \/ Met("password", "patch")
ActiveKept(row) == row.active = hist.active \/ Met("password", "patch") \/ Met("patch", "patch")
Clash == \E op \in {"unenrol", "password", "patch"} : Met("confirm", op)
Secured(row) == row.mfa /\ row.secret = 0 => Clash

\* What holds of the row holds of each copy that is to be saved whole, and the
\* secret that a request has confirmed stays.
WordOK ==
  /\ Overlap
  /\ PasswordKept(user) /\ ActiveKept(user) /\ Secured(user)
  /\ \A r \in Requests :
       /\ req[r].op = "patch" => PasswordKept(req[r].row)
       /\ req[r].op \in {"password", "patch"} => ActiveKept(req[r].row) /\ Secured(req[r].row)
       /\ req[r].op = "confirm" => user.secret # 0 \/ Clash

\* What a step may do to the last password and activity, and what has met.
LEMMA Remembered ==
  ASSUME TypeOK, [Next]_vars
  PROVE  /\ hist.met \subseteq hist'.met
         /\ \/ hist'.password = hist.password /\ hist'.active = hist.active
            \/ \E r \in Requests : SavePassword(r) \/ SaveStaff(r)
  <1>0. hist \in History  BY DEF TypeOK
  <1>1. ASSUME NEW r \in Requests, Handled(r)
        PROVE  /\ hist.met \subseteq hist'.met
               /\ \/ hist'.password = hist.password /\ hist'.active = hist.active
                  \/ SavePassword(r) \/ SaveStaff(r)
    <2>1. CASE Started(r)  BY <1>0, <2>1 DEF Started, Start, History
    <2>2. CASE ConsumeCode(r)  BY <1>0, <2>2 DEF ConsumeCode, History
    <2>3. CASE UNCHANGED hist  BY <2>3
    <2>4. CASE IncrementFailedLogin(r) \/ ResetFailedLogin(r)
      <3>1. \/ hist' = hist \/ hist' = [hist EXCEPT !.failures = 0, !.locked = FALSE]
            \/ \E locks :
                 hist' = [hist EXCEPT !.wrong = @ + 1, !.failures = @ + 1, !.locked = @ \/ locks]
        BY <2>4 DEF IncrementFailedLogin, ResetFailedLogin
      <3>2. QED  BY <1>0, <3>1 DEF History
    <2>5. CASE SaveSecret(r) \/ Enable(r) \/ Disable(r)
      BY <2>5 DEF SaveSecret, Enable, Disable
    <2>6. CASE SavePassword(r)  BY <1>0, <2>6 DEF SavePassword, History
    <2>7. CASE SaveStaff(r)
      <3>1. \/ hist' = [hist EXCEPT !.failures = 0, !.locked = FALSE]
            \/ \E a \in BOOLEAN :
                 hist' = [hist EXCEPT !.active = a, !.failures = 0, !.locked = FALSE]
        BY <2>7 DEF SaveStaff
      <3>2. hist'.met = hist.met  BY <1>0, <3>1 DEF History
      <3>3. QED  BY <2>7, <3>2
    <2>8. QED  BY <1>1, <2>1, <2>2, <2>3, <2>4, <2>5, <2>6, <2>7, Others DEF Saving
  <1>2. CASE UNCHANGED hist  BY <1>2
  <1>3. QED
    BY <1>1, <1>2 DEF Next, Handled, Time, LockEnds, TokensExpire, ResetExpires, vars

LEMMA OverlapNext ==
  ASSUME TypeOK, RouteOK, Overlap, [Next]_vars
  PROVE  Overlap'
  <1>1. SUFFICES ASSUME NEW q \in Requests, NEW r \in Requests, q # r,
                        req'[q].op \in Savers, req'[r].op \in Savers
                 PROVE  {req'[q].op, req'[r].op} \in hist'.met
    BY DEF Overlap, Met
  <1>2. "none" \notin Savers /\ Idle.op = "none"  BY DEF Savers, Idle
  <1>3. Copied(q) /\ Copied(r)  BY Copies
  <1>4. {req'[q].op, req'[r].op} = {req'[r].op, req'[q].op}  OBVIOUS
  <1>5. CASE req'[q].op = req[q].op /\ req'[r].op = req[r].op
    <2>1. {req'[q].op, req'[r].op} \in hist.met  BY <1>1, <1>5 DEF Overlap, Met
    <2>2. QED  BY <2>1, Remembered
  <1>6. ASSUME NEW x \in Requests, NEW y \in Requests, x # y, req[x].op = "none",
               req'[y].op \in Savers,
               \A p \in Requests \ {x} :
                 req'[p] = req[p] /\ (req[p].op \in Savers /\ req'[x].op \in Savers
                                      => {req'[x].op, req[p].op} \in hist'.met),
               req'[x].op \in Savers
        PROVE  {req'[x].op, req'[y].op} \in hist'.met
    BY <1>6
  <1>7. CASE req'[q].op # req[q].op
    <2>1. {req'[q].op, req'[r].op} \in hist'.met
      BY <1>1, <1>2, <1>3, <1>6, <1>7 DEF Copied
    <2>2. QED  BY <2>1
  <1>8. CASE req'[r].op # req[r].op
    <2>1. {req'[r].op, req'[q].op} \in hist'.met
      BY <1>1, <1>2, <1>3, <1>6, <1>8 DEF Copied
    <2>2. QED  BY <1>4, <2>1
  <1>9. QED  BY <1>5, <1>7, <1>8

\* A save of the whole row undoes others only if they have overlapped.
LEMMA PasswordWord ==
  ASSUME TypeOK, WordOK, NEW r \in Requests, SavePassword(r), Overlap'
  PROVE  WordOK'
  <1>0. /\ hist \in History /\ req \in [Requests -> Request] /\ req[r].row \in Row
        /\ req[r].op = "password" /\ "password" \in Savers
    BY DEF TypeOK, Request, SavePassword, Savers
  <1>1. /\ hist'.password = req[r].n /\ hist'.active = hist.active /\ hist'.met = hist.met
    BY <1>0 DEF SavePassword, History
  <1>2. /\ user'.password = req[r].n /\ user'.active = req[r].row.active
        /\ user'.mfa = req[r].row.mfa /\ user'.secret = req[r].row.secret
    BY <1>0 DEF SavePassword, Row
  <1>3. \A q \in Requests : req'[q].op = req[q].op /\ req'[q].row = req[q].row
    BY <1>0 DEF SavePassword, Goto, Request
  <1>4. ActiveKept(req[r].row) /\ Secured(req[r].row)  BY <1>0 DEF WordOK
  <1>5. PasswordKept(user)' /\ ActiveKept(user)' /\ Secured(user)'
    BY <1>1, <1>2, <1>4 DEF PasswordKept, ActiveKept, Secured, Clash, Met
  <1>6. ASSUME NEW q \in Requests
        PROVE  /\ req'[q].op = "patch" => PasswordKept(req[q].row)'
               /\ req'[q].op \in {"password", "patch"} => ActiveKept(req[q].row)' /\ Secured(req[q].row)'
               /\ req'[q].op = "confirm" => user'.secret # 0 \/ Clash'
    <2>1. CASE req[q].op = "patch"
      <3>1. Met("patch", "password")  BY <1>0, <2>1 DEF WordOK, Overlap, Savers
      <3>2. {"password", "patch"} \in hist'.met
        <4>1. {"patch", "password"} = {"password", "patch"}  OBVIOUS
        <4>2. QED  BY <1>1, <3>1, <4>1 DEF Met
      <3>3. ActiveKept(req[q].row) /\ Secured(req[q].row)  BY <2>1 DEF WordOK
      <3>4. QED
        BY <1>1, <1>3, <2>1, <3>2, <3>3 DEF PasswordKept, ActiveKept, Secured, Clash, Met
    <2>2. CASE req[q].op = "confirm"
      <3>1. Met("confirm", "password")  BY <1>0, <2>2 DEF WordOK, Overlap, Savers
      <3>2. QED  BY <1>1, <1>3, <2>2, <3>1 DEF Clash, Met
    <2>3. CASE req[q].op = "password"
      <3>1. ActiveKept(req[q].row) /\ Secured(req[q].row)  BY <2>3 DEF WordOK
      <3>2. QED  BY <1>1, <1>3, <2>3, <3>1 DEF ActiveKept, Secured, Clash, Met
    <2>4. QED  BY <1>3, <2>1, <2>2, <2>3
  <1>7. QED  BY <1>5, <1>6 DEF WordOK

LEMMA StaffWord ==
  ASSUME TypeOK, WordOK, NEW r \in Requests, SaveStaff(r), Overlap'
  PROVE  WordOK'
  <1>0. /\ hist \in History /\ req \in [Requests -> Request] /\ req[r].row \in Row
        /\ req[r].op = "patch" /\ "patch" \in Savers
    BY DEF TypeOK, Request, SaveStaff, Savers
  <1>1. \/ user' = req[r].row /\ hist' = [hist EXCEPT !.failures = 0, !.locked = FALSE]
        \/ \E a \in BOOLEAN :
             /\ user' = [req[r].row EXCEPT !.active = a]
             /\ hist' = [hist EXCEPT !.active = a, !.failures = 0, !.locked = FALSE]
    BY DEF SaveStaff
  <1>2. hist'.password = hist.password /\ hist'.met = hist.met
    BY <1>0, <1>1 DEF History
  <1>3. /\ user'.password = req[r].row.password
        /\ user'.mfa = req[r].row.mfa /\ user'.secret = req[r].row.secret
    BY <1>0, <1>1 DEF Row
  <1>4. user'.active = hist'.active \/ (user'.active = req[r].row.active /\ hist'.active = hist.active)
    <2>1. CASE user' = req[r].row /\ hist' = [hist EXCEPT !.failures = 0, !.locked = FALSE]
      BY <1>0, <2>1 DEF History
    <2>2. ASSUME NEW a \in BOOLEAN,
                 user' = [req[r].row EXCEPT !.active = a],
                 hist' = [hist EXCEPT !.active = a, !.failures = 0, !.locked = FALSE]
          PROVE  user'.active = hist'.active
      <3>1. user'.active = a  BY <1>0, <2>2 DEF Row
      <3>2. hist'.active = a  BY <1>0, <2>2 DEF History
      <3>3. QED  BY <3>1, <3>2
    <2>3. QED  BY <1>1, <2>1, <2>2
  <1>5. req' = [req EXCEPT ![r] = Idle]  BY DEF SaveStaff, Done
  <1>6. PasswordKept(req[r].row) /\ ActiveKept(req[r].row) /\ Secured(req[r].row)
    BY <1>0 DEF WordOK
  <1>7. PasswordKept(user)' /\ ActiveKept(user)' /\ Secured(user)'
    BY <1>2, <1>3, <1>4, <1>6 DEF PasswordKept, ActiveKept, Secured, Clash, Met
  <1>8. ASSUME NEW q \in Requests
        PROVE  /\ req'[q].op = "patch" => PasswordKept(req[q].row)'
               /\ req'[q].op \in {"password", "patch"} => ActiveKept(req[q].row)' /\ Secured(req[q].row)'
               /\ req'[q].op = "confirm" => user'.secret # 0 \/ Clash'
    <2>1. CASE q = r  BY <1>0, <1>5, <2>1 DEF Idle
    <2>2. CASE q # r
      <3>0. req'[q] = req[q]  BY <1>0, <1>5, <2>2
      <3>1. CASE req[q].op = "patch"
        <4>1. {"patch", "patch"} \in hist'.met
          BY <1>0, <1>2, <2>2, <3>1 DEF WordOK, Overlap, Met
        <4>2. PasswordKept(req[q].row) /\ Secured(req[q].row)  BY <3>1 DEF WordOK
        <4>3. QED
          BY <1>2, <3>0, <3>1, <4>1, <4>2 DEF PasswordKept, ActiveKept, Secured, Clash, Met
      <3>2. CASE req[q].op = "password"
        <4>1. {"password", "patch"} \in hist'.met
          BY <1>0, <1>2, <2>2, <3>2 DEF WordOK, Overlap, Met, Savers
        <4>2. Secured(req[q].row)  BY <3>2 DEF WordOK
        <4>3. QED  BY <1>2, <3>0, <3>2, <4>1, <4>2 DEF ActiveKept, Secured, Clash, Met
      <3>3. CASE req[q].op = "confirm"
        <4>1. Met("confirm", "patch")  BY <1>0, <2>2, <3>3 DEF WordOK, Overlap, Savers
        <4>2. QED  BY <1>2, <3>0, <3>3, <4>1 DEF Clash, Met
      <3>4. QED  BY <3>0, <3>1, <3>2, <3>3
    <2>3. QED  BY <2>1, <2>2
  <1>9. QED  BY <1>7, <1>8 DEF WordOK

\* What other steps may do to the columns of the row.
LEMMA Columns ==
  ASSUME TypeOK, RouteOK, WordOK, [Next]_vars,
         \A r \in Requests : ~SavePassword(r) /\ ~SaveStaff(r)
  PROVE  /\ user'.password = user.password /\ user'.active = user.active
         /\ user'.mfa /\ user'.secret = 0 => (user.mfa /\ user.secret = 0) \/ Clash
         /\ \/ user'.secret # 0 \/ user'.secret = user.secret
            \/ \E r \in Requests : req[r].op = "unenrol" /\ req'[r].op = "unenrol"
  <1>0. user \in Row /\ req \in [Requests -> Request]  BY DEF TypeOK
  <1>1. ASSUME NEW r \in Requests, Saving(r)
        PROVE  /\ user'.password = user.password /\ user'.active = user.active
               /\ user'.mfa /\ user'.secret = 0 => (user.mfa /\ user.secret = 0) \/ Clash
               /\ \/ user'.secret # 0 \/ user'.secret = user.secret
                  \/ req[r].op = "unenrol" /\ req'[r].op = "unenrol"
    <2>1. CASE IncrementFailedLogin(r)
      BY <1>0, <2>1 DEF IncrementFailedLogin, Row
    <2>2. CASE ResetFailedLogin(r)
      BY <1>0, <2>2 DEF ResetFailedLogin, Row
    <2>3. CASE SaveSecret(r)
      <3>1. req[r].n # 0  BY <1>0 DEF Request, Serial
      <3>2. QED  BY <1>0, <2>3, <3>1 DEF SaveSecret, Row
    <2>4. CASE Enable(r)
      <3>1. user.secret # 0 \/ Clash  BY <2>4 DEF Enable, At, RouteOK, Routed, WordOK
      <3>2. QED  BY <1>0, <2>4, <3>1 DEF Enable, Row
    <2>5. CASE Disable(r)
      <3>1. req[r].op = "unenrol"  BY <2>5 DEF Disable, At, RouteOK, Routed
      <3>2. req'[r].op = "unenrol"  BY <1>0, <2>5, <3>1 DEF Disable, Goto, Request
      <3>3. QED  BY <1>0, <2>5, <3>1, <3>2 DEF Disable, Row
    <2>6. QED  BY <1>1, <2>1, <2>2, <2>3, <2>4, <2>5 DEF Saving
  <1>2. CASE LockEnds  BY <1>0, <1>2 DEF LockEnds, Row
  <1>3. CASE UNCHANGED user  BY <1>3
  <1>4. QED
    BY <1>1, <1>2, <1>3, Others DEF Next, Handled, Time, TokensExpire, ResetExpires, vars

LEMMA OtherWord ==
  ASSUME TypeOK, RouteOK, WordOK, [Next]_vars, Overlap',
         \A r \in Requests : ~SavePassword(r) /\ ~SaveStaff(r)
  PROVE  WordOK'
  <1>1. /\ hist.met \subseteq hist'.met
        /\ hist'.password = hist.password /\ hist'.active = hist.active
    BY Remembered
  <1>2. ASSUME NEW row, NEW row_, row_.password = row.password, PasswordKept(row)
        PROVE  row_.password = hist'.password \/ Met("password", "patch")'
    BY <1>1, <1>2 DEF PasswordKept, Met
  <1>3. ASSUME NEW row, NEW row_, row_.active = row.active, ActiveKept(row)
        PROVE  row_.active = hist'.active \/ Met("password", "patch")' \/ Met("patch", "patch")'
    BY <1>1, <1>3 DEF ActiveKept, Met
  <1>4. Clash => Clash'  BY <1>1 DEF Clash, Met
  <1>5. ASSUME NEW row, NEW row_, row_.mfa = row.mfa, row_.secret = row.secret, Secured(row)
        PROVE  row_.mfa /\ row_.secret = 0 => Clash'
    BY <1>4, <1>5 DEF Secured
  <1>6. PasswordKept(user)' /\ ActiveKept(user)' /\ Secured(user)'
    BY <1>2, <1>3, <1>4, Columns DEF WordOK, PasswordKept, ActiveKept, Secured
  <1>7. ASSUME NEW q \in Requests
        PROVE  /\ req'[q].op = "patch" => PasswordKept(req[q].row)'
               /\ req'[q].op \in {"password", "patch"} => ActiveKept(req[q].row)' /\ Secured(req[q].row)'
               /\ req'[q].op = "confirm" => user'.secret # 0 \/ Clash'
    <2>1. CASE req'[q] = Idle  BY <2>1 DEF Idle
    <2>2. CASE UNCHANGED user /\ req'[q].row = user /\ (req'[q].op = "confirm" => user.secret # 0)
      <3>1. PasswordKept(req[q].row)' /\ ActiveKept(req[q].row)' /\ Secured(req[q].row)'
        BY <1>6, <2>2 DEF PasswordKept, ActiveKept, Secured
      <3>2. QED  BY <2>2, <3>1
    <2>3. CASE req'[q].op = req[q].op /\ SameBut(req'[q].row, req[q].row)
      <3>1. req[q].op = "patch" => PasswordKept(req[q].row)'
        BY <1>2, <2>3 DEF WordOK, PasswordKept, SameBut
      <3>2. req[q].op \in {"password", "patch"} => ActiveKept(req[q].row)' /\ Secured(req[q].row)'
        BY <1>3, <1>5, <2>3 DEF WordOK, ActiveKept, Secured, SameBut
      <3>3. ASSUME req[q].op = "confirm" PROVE user'.secret # 0 \/ Clash'
        <4>1. user.secret # 0 \/ Clash  BY <3>3 DEF WordOK
        <4>2. ASSUME NEW r \in Requests, req[r].op = "unenrol" PROVE Clash
          BY <3>3, <4>2 DEF WordOK, Overlap, Savers, Clash
        <4>3. QED  BY <1>4, <4>1, <4>2, Columns
      <3>4. QED  BY <2>3, <3>1, <3>2, <3>3
    <2>4. QED  BY <2>1, <2>2, <2>3, Copies DEF Copied
  <1>8. QED  BY <1>6, <1>7 DEF WordOK

\* The password is the one last set, an account is active or not as was last
\* said, a second factor that is on has its secret, unless saves overlapped.
THEOREM LastWord == Spec => []LastWordHolds
  <1>1. Init => WordOK
    <2> SUFFICES ASSUME Init PROVE WordOK  OBVIOUS
    <2>2. \A r \in Requests : req[r] = Idle  BY DEF Init
    <2>3. \E enrolled \in {0, 1} :
            user = [NewRow EXCEPT !.mfa = (enrolled = 1), !.secret = enrolled]
      BY DEF Init
    <2>4. user.password = 1 /\ user.active = TRUE /\ (user.mfa => user.secret # 0)
      <3>1. user.password = 1 /\ user.active = TRUE  BY <2>3 DEF NewRow
      <3>2. PICK enrolled \in {0, 1} :
              user = [NewRow EXCEPT !.mfa = (enrolled = 1), !.secret = enrolled]
        BY <2>3
      <3>3. user.secret = enrolled  BY <3>2 DEF NewRow
      <3>4. user.mfa => enrolled = 1
        <4>1. user.mfa = (enrolled = 1)  BY <3>2 DEF NewRow
        <4>2. QED  BY <4>1, Zenon
      <3>5. QED  BY <3>1, <3>3, <3>4
    <2>5. hist.password = 1 /\ hist.active = TRUE  BY DEF Init
    <2>6. \A r \in Requests : req[r].op = "none"  BY <2>2 DEF Idle
    <2>7. Overlap  BY <2>6 DEF Overlap, Savers
    <2>8. PasswordKept(user) /\ ActiveKept(user) /\ Secured(user)
      BY <2>4, <2>5 DEF PasswordKept, ActiveKept, Secured
    <2>9. QED  BY <2>6, <2>7, <2>8 DEF WordOK
  <1>2. TypeOK /\ RouteOK /\ WordOK /\ [Next]_vars => WordOK'
    <2>1. SUFFICES ASSUME TypeOK, RouteOK, WordOK, [Next]_vars PROVE WordOK'  OBVIOUS
    <2>2. Overlap'  BY <2>1, OverlapNext DEF WordOK
    <2>3. QED  BY <2>1, <2>2, PasswordWord, StaffWord, OtherWord
  <1>3. WordOK => LastWordHolds
    BY DEF WordOK, PasswordKept, ActiveKept, Secured, Clash, LastWordHolds
  <1>4. QED  BY <1>1, <1>2, <1>3, TypeRoute, PTL DEF Spec

(***************************************************************************)
(* Codes, reset tokens and refresh tokens are used up                      *)
(***************************************************************************)
\* The ways of the requests: operation, statement, the statement after it.
Tracks == {<<"login", "clear", "token">>, <<"confirm", "clear", "enable">>,
           <<"confirm", "enable", "wipe">>, <<"confirm", "wipe", "store">>,
           <<"confirm", "store", "issue">>, <<"verify", "consume", "clear">>,
           <<"verify", "clear", "issue">>, <<"unenrol", "disable", "wipe">>,
           <<"password", "clear", "save">>, <<"password", "save", "spend">>}
Stops == Entries \cup {<<t[1], t[3]>> : t \in Tracks} \cup {<<"none", "done">>}
OnTrack == \A r \in Requests : <<req[r].op, req[r].at>> \in Stops

\* What a request may use when it gets to it: it has looked it up already.
Looked(c)   == {r \in Requests : req[r].at = "consume" /\ req[r].arg = c}
Ready(t)    == {r \in Requests : req[r].op = "password" /\ req[r].at # "spend" /\ req[r].arg = t}
Saved(t)    == {r \in Requests : req[r].at = "spend" /\ req[r].arg = t}
Rotating(s) == {r \in Requests : req[r].at = "rotate" /\ req[r].arg = s}

\* Requests in flight have numbers of their own ...
Numbered ==
  \A r \in Requests : req[r].op # "none" =>
    /\ req[r].n <= served
    /\ \A q \in Requests : q # r /\ req[q].op # "none" => req[q].n # req[r].n

\* ... what they will make is not there yet, what they were started with is ...
NoSession == [token |-> "absent", rotated |-> 0]
Prepared(q) ==
  /\ q.op = "confirm" /\ q.at # "issue" => codes[q.n] = "absent" /\ hist.used[q.n] = 0
  /\ q.op \in {"confirm", "verify"} => sessions[q.n] = NoSession
  /\ q.op = "password" => q.arg \in Serial /\ resets[q.arg] # "absent"
  /\ q.op = "refresh" => q.arg \in Serial /\ sessions[q.arg].token # "absent"

\* ... and nothing has been made under a number to come.
Unmade(n) ==
  /\ codes[n] = "absent" /\ hist.used[n] = 0
  /\ resets[n] = "absent" /\ hist.spent[n] = 0
  /\ sessions[n] = NoSession

NumberOK ==
  /\ Numbered
  /\ \A r \in Requests : Prepared(req[r])
  /\ \A n \in Serial : n > served => Unmade(n)
  /\ browser # 0 => sessions[browser].token # "absent"

\* Nothing serves more requests than have looked it up; what may still be
\* looked up has served nobody, or only those about to mark it.
CodeUse(c) ==
  /\ codes[c] = "unused" => hist.used[c] = 0
  /\ hist.used[c] + Cardinality(Looked(c)) <= Cardinality(Requests)
ResetUse(t) ==
  /\ resets[t] = "valid" => hist.spent[t] = Cardinality(Saved(t))
  /\ hist.spent[t] + Cardinality(Ready(t)) <= Cardinality(Requests)
SessionUse(s) ==
  /\ sessions[s].token = "live" => sessions[s].rotated = 0
  /\ sessions[s].rotated + Cardinality(Rotating(s)) <= Cardinality(Requests)
UseOK == \A n \in Serial : CodeUse(n) /\ ResetUse(n) /\ SessionUse(n)

\* What the statement of a request does to where it stands, and to no other.
Advances(r) ==
  \E t \in Tracks :
    /\ req[r].op = t[1] /\ req[r].at = t[2]
    /\ req'[r].op = t[1] /\ req'[r].at = t[3]
    /\ req'[r].n = req[r].n /\ req'[r].arg = req[r].arg
Ends(r) == req[r].op # "none" /\ req'[r] = Idle
Course(r) ==
  /\ \A q \in Requests \ {r} : req'[q] = req[q]
  /\ \/ Started(r)
     \/ UNCHANGED served /\ (Advances(r) \/ Ends(r))
     \/ AtOnce(r) /\ UNCHANGED req /\ Free(r) /\ served' = served + 1

LEMMA Courses ==
  ASSUME TypeOK, OnTrack, NEW r \in Requests, Handled(r)
  PROVE  Course(r)
  <1>0. /\ req \in [Requests -> Request] /\ <<req[r].op, req[r].at>> \in Stops
        /\ req[r].at # "done" => req[r].op # "none"
    BY DEF TypeOK, OnTrack, Stops, Entries, Tracks
  <1>1. CASE Starting(r)
    <2>1. Started(r)  BY <1>1, Starts
    <2>2. \A q \in Requests \ {r} : req'[q] = req[q]
      BY <1>0, <2>1 DEF Started, Start
    <2>3. QED  BY <2>1, <2>2 DEF Course
  <1>2. CASE AtOnce(r)
    BY <1>2 DEF AtOnce, ForgotPassword, Logout, RevokeSession, Refresh, Course
  <1>3. ASSUME NEW from, NEW to, At(r, from), Goto(r, to), UNCHANGED served,
               <<req[r].op, from, to>> \in Tracks
        PROVE  Course(r)
    <2>1. /\ req'[r] = [req[r] EXCEPT !.at = to]
          /\ \A q \in Requests \ {r} : req'[q] = req[q]
      BY <1>0, <1>3 DEF Goto
    <2>2. /\ req'[r].op = req[r].op /\ req'[r].at = to
          /\ req'[r].n = req[r].n /\ req'[r].arg = req[r].arg
      BY <1>0, <2>1 DEF Request
    <2>3. Advances(r)
      <3>1. \E t \in Tracks : t = <<req[r].op, from, to>>  BY <1>3
      <3>2. QED  BY <1>3, <2>2, <3>1 DEF Advances, At
    <2>4. QED  BY <1>3, <2>1, <2>3 DEF Course
  <1>4. ASSUME Done(r), req[r].at # "done", UNCHANGED served PROVE Course(r)
    BY <1>0, <1>4 DEF Done, Course, Ends
  <1> USE DEF At
  <1>5. CASE Saving(r)
    <2>1. CASE IncrementFailedLogin(r)  BY <1>4, <2>1 DEF IncrementFailedLogin
    <2>2. CASE ResetFailedLogin(r)
      <3>1. req[r].op \in DOMAIN Following /\ req[r].at = "clear" /\ UNCHANGED served
        BY <1>0, <2>2 DEF ResetFailedLogin, Stops, Entries, Tracks, Following
      <3>2. /\ req'[r] = [req[r] EXCEPT !.at = Following[req[r].op], !.row.attempts = 0,
                                        !.row.lock = "none"]
            /\ \A q \in Requests \ {r} : req'[q] = req[q]
        BY <1>0, <2>2 DEF ResetFailedLogin
      <3>3. /\ req'[r].op = req[r].op /\ req'[r].at = Following[req[r].op]
            /\ req'[r].n = req[r].n /\ req'[r].arg = req[r].arg
        BY <1>0, <3>2 DEF Request
      <3>4. <<req[r].op, "clear", Following[req[r].op]>> \in Tracks
        BY <3>1 DEF Following, Tracks
      <3>5. Advances(r)
        <4>1. \E t \in Tracks : t = <<req[r].op, "clear", Following[req[r].op]>>  BY <3>4
        <4>2. QED  BY <3>1, <3>3, <4>1 DEF Advances
      <3>6. QED  BY <3>1, <3>2, <3>5 DEF Course
    <2>3. CASE SaveSecret(r)  BY <1>4, <2>3 DEF SaveSecret
    <2>4. CASE Enable(r)
      <3>1. req[r].op = "confirm"  BY <1>0, <2>4 DEF Enable, Stops, Entries, Tracks
      <3>2. QED  BY <1>3, <2>4, <3>1 DEF Enable, Tracks
    <2>5. CASE Disable(r)
      <3>1. req[r].op = "unenrol"  BY <1>0, <2>5 DEF Disable, Stops, Entries, Tracks
      <3>2. QED  BY <1>3, <2>5, <3>1 DEF Disable, Tracks
    <2>6. CASE SavePassword(r)  BY <1>3, <2>6 DEF SavePassword, Tracks
    <2>7. CASE SaveStaff(r)  BY <1>4, <2>7 DEF SaveStaff
    <2>8. QED  BY <1>5, <2>1, <2>2, <2>3, <2>4, <2>5, <2>6, <2>7 DEF Saving
  <1>6. CASE Passing(r)
    <2>1. CASE StepUpToken(r)  BY <1>4, <2>1 DEF StepUpToken
    <2>2. CASE ConsumeCode(r)
      <3>1. req[r].op = "verify"  BY <1>0, <2>2 DEF ConsumeCode, Stops, Entries, Tracks
      <3>2. QED  BY <1>3, <1>4, <2>2, <3>1 DEF ConsumeCode, Tracks
    <2>3. CASE IssueTokens(r)  BY <1>4, <2>3 DEF IssueTokens
    <2>4. CASE WipeCodes(r)  BY <1>3, <1>4, <2>4 DEF WipeCodes, Tracks
    <2>5. CASE StoreCodes(r)
      <3>1. req[r].op = "confirm"  BY <1>0, <2>5 DEF StoreCodes, Stops, Entries, Tracks
      <3>2. QED  BY <1>3, <2>5, <3>1 DEF StoreCodes, Tracks
    <2>6. CASE SpendToken(r)  BY <1>4, <2>6 DEF SpendToken
    <2>7. CASE Rotate(r)  BY <1>4, <2>7 DEF Rotate
    <2>8. QED  BY <1>6, <2>1, <2>2, <2>3, <2>4, <2>5, <2>6, <2>7 DEF Passing
  <1>7. QED  BY <1>1, <1>2, <1>5, <1>6, Split

\* Time passes requests by: only their copies of the row change.
LEMMA Waits ==
  ASSUME TypeOK, Time \/ UNCHANGED vars
  PROVE  /\ \A q \in Requests : /\ req'[q].op = req[q].op /\ req'[q].at = req[q].at
                                /\ req'[q].n = req[q].n /\ req'[q].arg = req[q].arg
         /\ UNCHANGED <<codes, sessions, browser, served, hist>>
         /\ \A t \in Serial : resets'[t] = resets[t] \/ (resets[t] = "valid" /\ resets'[t] = "expired")
  <1>0. resets \in [Serial -> {"absent", "valid", "used", "expired"}]
    BY DEF TypeOK
  <1>1. ASSUME NEW q \in Requests
        PROVE  /\ req'[q].op = req[q].op /\ req'[q].at = req[q].at
               /\ req'[q].n = req[q].n /\ req'[q].arg = req[q].arg
    <2>0. req[q] \in Request  BY DEF TypeOK
    <2>1. CASE LockEnds
      <3>1. req'[q] = req[q] \/ req'[q] = [req[q] EXCEPT !.row.lock = "over"]
        BY <2>1 DEF LockEnds
      <3>2. QED  BY <2>0, <3>1 DEF Request
    <2>2. CASE UNCHANGED req  BY <2>2
    <2>3. QED  BY <2>1, <2>2 DEF Time, TokensExpire, ResetExpires, vars
  <1>2. CASE LockEnds  BY <1>1, <1>2 DEF LockEnds
  <1>3. CASE TokensExpire  BY <1>1, <1>3 DEF TokensExpire
  <1>4. CASE ResetExpires  BY <1>0, <1>1, <1>4 DEF ResetExpires
  <1>5. CASE UNCHANGED vars  BY <1>5 DEF vars
  <1>6. QED  BY <1>2, <1>3, <1>4, <1>5 DEF Time

\* Requests stay on their tracks.
LEMMA OnTrackNext ==
  ASSUME TypeOK, OnTrack, [Next]_vars
  PROVE  OnTrack'
  <1>0. req \in [Requests -> Request]  BY DEF TypeOK
  <1>1. ASSUME NEW r \in Requests, Handled(r), NEW q \in Requests
        PROVE  <<req'[q].op, req'[q].at>> \in Stops
    <2>1. Course(r)  BY <1>1, Courses
    <2>2. <<req[q].op, req[q].at>> \in Stops  BY DEF OnTrack
    <2>3. CASE q # r  BY <2>1, <2>2, <2>3 DEF Course
    <2>4. CASE Started(r) /\ q = r
      <3>1. PICK e \in Entries, arg \in 0..MaxServed : Start(r, e[1], e[2], arg)
        BY <2>4 DEF Started
      <3>2. req'[q].op = e[1] /\ req'[q].at = e[2]  BY <1>0, <2>4, <3>1 DEF Start
      <3>3. <<e[1], e[2]>> = e  BY DEF Entries
      <3>4. QED  BY <3>2, <3>3 DEF Stops
    <2>5. CASE Advances(r) /\ q = r  BY <2>5 DEF Advances, Stops
    <2>6. CASE Ends(r) /\ q = r  BY <2>6 DEF Ends, Idle, Stops
    <2>7. CASE UNCHANGED req  BY <2>2, <2>7
    <2>8. QED  BY <2>1, <2>3, <2>4, <2>5, <2>6, <2>7 DEF Course
  <1>2. ASSUME Time \/ UNCHANGED vars, NEW q \in Requests
        PROVE  <<req'[q].op, req'[q].at>> \in Stops
    BY <1>2, Waits DEF OnTrack
  <1>3. QED  BY <1>1, <1>2 DEF Next, Handled, OnTrack

\* Which statements change codes, reset tokens and sessions.
LEMMA CodesFrame ==
  ASSUME TypeOK, NEW r \in Requests, Handled(r),
         ~WipeCodes(r), ~StoreCodes(r), ~ConsumeCode(r)
  PROVE  codes' = codes /\ hist'.used = hist.used
  <1>0. hist \in History  BY DEF TypeOK
  <1>1. CASE Starting(r)
    BY <1>0, <1>1, Starts DEF Started, Start, History
  <1>2. CASE AtOnce(r)
    BY <1>2 DEF AtOnce, ForgotPassword, Logout, RevokeSession, Refresh, Start
  <1>3. CASE Saving(r)
    BY <1>0, <1>3
    DEF Saving, IncrementFailedLogin, ResetFailedLogin, SaveSecret, Enable, Disable, SavePassword,
        SaveStaff, History
  <1>4. CASE Passing(r)
    BY <1>4 DEF Passing, StepUpToken, IssueTokens, SpendToken, Rotate
  <1>5. QED  BY <1>1, <1>2, <1>3, <1>4, Split

LEMMA ResetsFrame ==
  ASSUME TypeOK, NEW r \in Requests, Handled(r),
         ~ForgotPassword(r), ~SavePassword(r), ~SpendToken(r)
  PROVE  resets' = resets /\ hist'.spent = hist.spent
  <1>0. hist \in History  BY DEF TypeOK
  <1>1. CASE Starting(r)
    BY <1>0, <1>1, Starts DEF Started, Start, History
  <1>2. CASE AtOnce(r)
    BY <1>2 DEF AtOnce, Logout, RevokeSession, Refresh, Start
  <1>3. CASE Saving(r)
    BY <1>0, <1>3
    DEF Saving, IncrementFailedLogin, ResetFailedLogin, SaveSecret, Enable, Disable, SaveStaff,
        History
  <1>4. CASE Passing(r)
    BY <1>0, <1>4
    DEF Passing, StepUpToken, ConsumeCode, IssueTokens, WipeCodes, StoreCodes, Rotate, History
  <1>5. QED  BY <1>1, <1>2, <1>3, <1>4, Split

LEMMA SessionsFrame ==
  ASSUME TypeOK, NEW r \in Requests, Handled(r),
         ~IssueTokens(r), ~Rotate(r), ~Logout(r), ~RevokeSession(r)
  PROVE  sessions' = sessions
  <1>1. CASE Starting(r)  BY <1>1, Starts
  <1>2. CASE AtOnce(r)
    BY <1>2 DEF AtOnce, ForgotPassword, Refresh
  <1>3. CASE Saving(r)
    BY <1>3
    DEF Saving, IncrementFailedLogin, ResetFailedLogin, SaveSecret, Enable, Disable, SavePassword,
        SaveStaff
  <1>4. CASE Passing(r)
    BY <1>4 DEF Passing, StepUpToken, ConsumeCode, WipeCodes, StoreCodes, SpendToken
  <1>5. QED  BY <1>1, <1>2, <1>3, <1>4, Split

\* What a request may do to a code, to a reset token and to a session.
LEMMA CodeSteps ==
  ASSUME TypeOK, TypeOK', NEW r \in Requests, Handled(r), NEW c \in Serial
  PROVE  \/ codes'[c] \in {codes[c], "absent"} /\ hist'.used[c] = hist.used[c]
         \/ /\ StoreCodes(r) /\ c = req[r].n /\ codes'[c] = "unused"
            /\ hist'.used[c] = hist.used[c]
         \/ /\ ConsumeCode(r) /\ c = req[r].arg /\ codes[c] # "absent" /\ codes'[c] = "used"
            /\ hist'.used[c] = hist.used[c] + 1 /\ req'[r].at = "clear"
  <1>0. /\ hist \in History /\ codes \in [Serial -> {"absent", "unused", "used"}]
        /\ hist.used \in [Serial -> Nat] /\ req \in [Requests -> Request]
    BY DEF TypeOK, History
  <1>1. CASE WipeCodes(r)  BY <1>1 DEF WipeCodes
  <1>2. CASE StoreCodes(r)  BY <1>0, <1>2 DEF StoreCodes
  <1>3. CASE ConsumeCode(r)
    <2>1. CASE codes' = codes /\ hist' = hist  BY <2>1
    <2>2. CASE /\ codes[req[r].arg] # "absent"
               /\ codes' = [codes EXCEPT ![req[r].arg] = "used"]
               /\ hist' = [hist EXCEPT !.used[req[r].arg] = @ + 1]
               /\ Goto(r, "clear")
      <3>1. req'[r].at = "clear"  BY <1>0, <2>2 DEF Goto, Request
      <3>2. hist'.used = [hist.used EXCEPT ![req[r].arg] = @ + 1]
        BY <1>0, <2>2 DEF History
      <3>3. QED  BY <1>0, <1>3, <2>2, <3>1, <3>2
    <2>3. QED  BY <1>3, <2>1, <2>2 DEF ConsumeCode
  <1>4. CASE ~WipeCodes(r) /\ ~StoreCodes(r) /\ ~ConsumeCode(r)
    BY <1>4, CodesFrame
  <1>5. QED  BY <1>1, <1>2, <1>3, <1>4

LEMMA ResetSteps ==
  ASSUME TypeOK, TypeOK', NEW r \in Requests, Handled(r), NEW t \in Serial
  PROVE  \/ resets'[t] = resets[t] /\ hist'.spent[t] = hist.spent[t]
         \/ /\ ForgotPassword(r) /\ t = served + 1 /\ resets'[t] = "valid"
            /\ hist'.spent[t] = hist.spent[t]
         \/ /\ SavePassword(r) /\ t = req[r].arg /\ resets'[t] = resets[t]
            /\ hist'.spent[t] = hist.spent[t] + 1
         \/ /\ SpendToken(r) /\ t = req[r].arg /\ resets'[t] = "used"
            /\ hist'.spent[t] = hist.spent[t]
  <1>0. /\ hist \in History /\ resets \in [Serial -> {"absent", "valid", "used", "expired"}]
        /\ hist.spent \in [Serial -> Nat]
    BY DEF TypeOK, History
  <1>1. CASE ForgotPassword(r)  BY <1>0, <1>1 DEF ForgotPassword
  <1>2. CASE SavePassword(r)
    <2>1. hist'.spent = [hist.spent EXCEPT ![req[r].arg] = @ + 1] /\ resets' = resets
      BY <1>0, <1>2 DEF SavePassword, History
    <2>2. QED  BY <1>0, <1>2, <2>1
  <1>3. CASE SpendToken(r)  BY <1>0, <1>3 DEF SpendToken
  <1>4. CASE ~ForgotPassword(r) /\ ~SavePassword(r) /\ ~SpendToken(r)
    BY <1>4, ResetsFrame
  <1>5. QED  BY <1>1, <1>2, <1>3, <1>4

LEMMA SessionSteps ==
  ASSUME TypeOK, TypeOK', NEW r \in Requests, Handled(r), NEW s \in Serial
  PROVE  \/ sessions'[s] = sessions[s]
         \/ /\ IssueTokens(r) /\ s = req[r].n
            /\ sessions'[s].token = "live" /\ sessions'[s].rotated = sessions[s].rotated
         \/ /\ Rotate(r) /\ s = req[r].arg
            /\ sessions'[s].token = "rotated"
            /\ sessions'[s].rotated = sessions[s].rotated + 1
         \/ /\ s = browser \/ sessions[s] # NoSession
            /\ \/ sessions'[s].token = "revoked" /\ sessions'[s].rotated = sessions[s].rotated
               \/ /\ sessions'[s].token = sessions[s].token /\ sessions[s].rotated > 0
                  /\ sessions'[s].rotated = sessions[s].rotated - 1
  <1> DEFINE Kept == [token : {"absent", "live", "rotated", "revoked"}, rotated : Nat]
  <1>0. sessions \in [Serial -> Kept] /\ sessions[s] \in Kept
    BY DEF TypeOK
  <1>1. CASE IssueTokens(r)  BY <1>0, <1>1 DEF IssueTokens
  <1>2. CASE Rotate(r)  BY <1>0, <1>2 DEF Rotate
  <1>3. CASE Logout(r)  BY <1>0, <1>3 DEF Logout
  <1>4. CASE RevokeSession(r)
    <2>1. PICK z \in Serial :
            \/ sessions[z].token = "live" /\ sessions' = [sessions EXCEPT ![z].token = "revoked"]
            \/ sessions[z].rotated > 0 /\ sessions' = [sessions EXCEPT ![z].rotated = @ - 1]
      BY <1>4 DEF RevokeSession
    <2>2. QED  BY <1>0, <2>1 DEF NoSession
  <1>5. CASE ~IssueTokens(r) /\ ~Rotate(r) /\ ~Logout(r) /\ ~RevokeSession(r)
    BY <1>5, SessionsFrame
  <1>6. QED  BY <1>1, <1>2, <1>3, <1>4, <1>5

\* What is not made yet is made only by the request of its number, and what is
\* made stays so.
LEMMA Made ==
  ASSUME TypeOK, TypeOK', OnTrack, NumberOK, NEW r \in Requests, Handled(r), NEW n \in Serial
  PROVE  /\ codes[n] = "absent" /\ hist.used[n] = 0 /\ ~(StoreCodes(r) /\ n = req[r].n) =>
              codes'[n] = "absent" /\ hist'.used[n] = 0
         /\ sessions[n] = NoSession /\ ~(IssueTokens(r) /\ n = req[r].n) => sessions'[n] = NoSession
         /\ resets[n] # "absent" => resets'[n] # "absent"
         /\ sessions[n].token # "absent" => sessions'[n].token # "absent"
  <1>1. codes[n] = "absent" /\ hist.used[n] = 0 /\ ~(StoreCodes(r) /\ n = req[r].n) =>
          codes'[n] = "absent" /\ hist'.used[n] = 0
    BY CodeSteps
  <1>2. ASSUME Rotate(r), n = req[r].arg PROVE sessions[n].token # "absent"
    <2>1. req[r].op = "refresh"
      BY <1>2 DEF Rotate, At, OnTrack, Stops, Entries, Tracks
    <2>2. QED  BY <1>2, <2>1 DEF NumberOK, Prepared
  <1>3. n = browser => sessions[n].token # "absent"
    BY DEF NumberOK, Serial
  <1>4. sessions[n] = NoSession => sessions[n].token = "absent"  BY DEF NoSession
  <1>5. resets[n] # "absent" => resets'[n] # "absent"
    BY ResetSteps
  <1>6. sessions[n].token # "absent" => sessions'[n].token # "absent"
    BY SessionSteps
  <1>7. sessions[n] = NoSession /\ ~(IssueTokens(r) /\ n = req[r].n) => sessions'[n] = NoSession
    BY <1>2, <1>3, <1>4, SessionSteps
  <1>8. QED  BY <1>1, <1>5, <1>6, <1>7

\* Numbers stay distinct.
LEMMA NumberedNext ==
  ASSUME TypeOK, OnTrack, Numbered, NEW r \in Requests, Handled(r)
  PROVE  Numbered'
  <1>0. req \in [Requests -> Request] /\ served \in Nat /\ \A q \in Requests : req[q].n \in Nat
    BY DEF TypeOK, Request, Serial
  <1>1. Course(r)  BY Courses
  <1>2. CASE Started(r)
    <2>1. /\ req'[r].n = served + 1 /\ served' = served + 1
          /\ \A q \in Requests \ {r} : req'[q] = req[q]
      BY <1>0, <1>2 DEF Started, Start
    <2>2. QED  BY <1>0, <2>1 DEF Numbered
  <1>3. CASE UNCHANGED served /\ Advances(r)
    <2>1. req'[r].n = req[r].n /\ req[r].op # "none" /\ \A q \in Requests \ {r} : req'[q] = req[q]
      BY <1>1, <1>3 DEF Course, Advances, Tracks
    <2>2. \A q \in Requests : req'[q].n = req[q].n /\ (req'[q].op # "none" => req[q].op # "none")
      BY <2>1
    <2>3. QED  BY <1>3, <2>2 DEF Numbered
  <1>4. CASE UNCHANGED served /\ Ends(r)
    <2>1. req'[r].op = "none"  BY <1>4 DEF Ends, Idle
    <2>2. \A q \in Requests \ {r} : req'[q] = req[q]  BY <1>1 DEF Course
    <2>3. QED  BY <1>4, <2>1, <2>2 DEF Numbered
  <1>5. CASE UNCHANGED req /\ served' = served + 1
    BY <1>0, <1>5 DEF Numbered
  <1>6. QED  BY <1>1, <1>2, <1>3, <1>4, <1>5 DEF Course

\* What a request prepares, or was started with, stays as it was.
LEMMA PreparedNext ==
  ASSUME TypeOK, TypeOK', OnTrack, NumberOK, NEW r \in Requests, Handled(r),
         NEW q \in Requests
  PROVE  Prepared(req[q])'
  <1>0. /\ req \in [Requests -> Request] /\ \A p \in Requests : req[p].n \in Serial
        /\ served \in Nat /\ Course(r) /\ Prepared(req[q])
    <2>1. Course(r)  BY Courses
    <2>2. Prepared(req[q])  BY DEF NumberOK
    <2>3. req \in [Requests -> Request] /\ served \in Nat  BY DEF TypeOK, Serial
    <2>4. \A p \in Requests : req[p].n \in Serial  BY <2>3 DEF Request
    <2>5. QED  BY <2>1, <2>2, <2>3, <2>4
  <1>1. CASE Started(r) /\ q = r
    <2>1. PICK e \in Entries, arg \in 0..MaxServed :
            /\ Free(r) /\ Start(r, e[1], e[2], arg)
            /\ e[1] = "password" => arg \in Serial /\ resets[arg] = "valid"
            /\ e[1] = "refresh" => arg \in Serial /\ sessions[arg].token = "live"
      BY <1>1 DEF Started
    <2>2. /\ req'[r].op = e[1] /\ req'[r].n = served + 1 /\ req'[r].arg = arg
          /\ served' = served + 1
      BY <1>0, <2>1 DEF Start
    <2>3. served + 1 \in Serial /\ Unmade(served + 1)
      BY <1>0, <2>1, AccountsAssumption DEF Free, Serial, NumberOK
    <2>4. ~StoreCodes(r) /\ ~IssueTokens(r)
      BY <2>1 DEF Free, StoreCodes, IssueTokens, At, OnTrack, Stops, Entries, Tracks
    <2>5. /\ codes'[served + 1] = "absent" /\ hist'.used[served + 1] = 0
          /\ sessions'[served + 1] = NoSession
      BY <2>3, <2>4, Made DEF Unmade
    <2>6. /\ e[1] = "password" => arg \in Serial /\ resets'[arg] # "absent"
          /\ e[1] = "refresh" => arg \in Serial /\ sessions'[arg].token # "absent"
      BY <2>1, Made
    <2>7. QED  BY <1>1, <2>2, <2>5, <2>6 DEF Prepared
  <1>2. CASE Ends(r) /\ q = r
    BY <1>2 DEF Ends, Idle, Prepared
  <1>3. ASSUME /\ req'[q].op = req[q].op /\ req'[q].n = req[q].n /\ req'[q].arg = req[q].arg
               /\ req[q].at = "issue" => req'[q].at = "issue"
               /\ StoreCodes(r) /\ req[q].n = req[r].n => q = r /\ req'[q].at = "issue"
               /\ IssueTokens(r) /\ req[q].n = req[r].n => req[q].op = "none"
        PROVE  Prepared(req[q])'
    <2>1. /\ req[q].op = "confirm" /\ req'[q].at # "issue" =>
               codes'[req[q].n] = "absent" /\ hist'.used[req[q].n] = 0
          /\ req[q].op \in {"confirm", "verify"} => sessions'[req[q].n] = NoSession
      BY <1>0, <1>3, Made DEF Prepared
    <2>2. /\ req[q].op = "password" => req[q].arg \in Serial /\ resets'[req[q].arg] # "absent"
          /\ req[q].op = "refresh" => req[q].arg \in Serial /\ sessions'[req[q].arg].token # "absent"
      BY <1>0, Made DEF Prepared
    <2>3. QED  BY <1>3, <2>1, <2>2 DEF Prepared
  <1>4. StoreCodes(r) \/ IssueTokens(r) => req[r].op # "none" /\ req[r].at # "done"
    BY DEF StoreCodes, IssueTokens, At, OnTrack, Stops, Entries, Tracks
  <1>5. CASE q # r \/ UNCHANGED req
    <2>1. req'[q] = req[q]  BY <1>0, <1>5 DEF Course
    <2>2. CASE UNCHANGED req
      <3>1. ~StoreCodes(r)  BY <1>0, <1>4, <2>2 DEF StoreCodes, Goto, At, Request
      <3>2. ~IssueTokens(r)
        <4>1. ASSUME IssueTokens(r) PROVE req'[r].op = "none"
          BY <1>0, <4>1 DEF IssueTokens, Done, Idle
        <4>2. QED  BY <1>4, <2>2, <4>1
      <3>3. QED  BY <1>3, <2>1, <3>1, <3>2
    <2>3. CASE q # r
      <3>1. req[q].op # "none" /\ req[r].op # "none" => req[q].n # req[r].n
        BY <2>3 DEF NumberOK, Numbered
      <3>2. CASE req[q].op = "none"  BY <2>1, <3>2 DEF Prepared
      <3>3. CASE req[q].op # "none"  BY <1>3, <1>4, <2>1, <3>1, <3>3
      <3>4. QED  BY <3>2, <3>3
    <2>4. QED  BY <1>5, <2>2, <2>3
  <1>6. CASE Advances(r) /\ q = r
    <2>1. /\ req'[q].op = req[q].op /\ req'[q].n = req[q].n /\ req'[q].arg = req[q].arg
          /\ req[q].at # "issue" /\ req'[q].op # "none"
      BY <1>6 DEF Advances, Tracks
    <2>2. StoreCodes(r) => req'[q].at = "issue"
      BY <1>0, <1>6 DEF StoreCodes, Goto, Request
    <2>3. ~IssueTokens(r)
      BY <1>6, <2>1 DEF IssueTokens, At
    <2>4. QED  BY <1>3, <1>6, <2>1, <2>2, <2>3
  <1>7. QED  BY <1>0, <1>1, <1>2, <1>5, <1>6 DEF Course

\* All of it goes on holding.
LEMMA NumberNext ==
  ASSUME TypeOK, TypeOK', OnTrack, NumberOK, [Next]_vars
  PROVE  NumberOK'
  <1>0. /\ served \in Nat /\ served' \in Nat /\ \A p \in Requests : req[p].n \in Serial
        /\ browser \in 0..MaxServed /\ browser' \in 0..MaxServed /\ MaxServed \in Nat
    BY AccountsAssumption DEF TypeOK, Request, Serial
  <1>1. ASSUME NEW r \in Requests, Handled(r) PROVE NumberOK'
    <2>1. Numbered'  BY <1>1, NumberedNext DEF NumberOK
    <2>2. \A q \in Requests : Prepared(req[q])'  BY <1>1, PreparedNext
    <2>3. served' >= served /\ (ForgotPassword(r) => served' = served + 1)
      BY <1>0, <1>1, Courses DEF Course, Started, Start, ForgotPassword
    <2>4. ASSUME NEW n \in Serial, n > served' PROVE Unmade(n)'
      <3>1. Unmade(n) /\ n > served /\ n \in Nat  BY <1>0, <2>3, <2>4 DEF NumberOK, Serial
      <3>2. req[r].op # "none" => req[r].n # n
        BY <1>0, <3>1 DEF NumberOK, Numbered, Serial
      <3>3. StoreCodes(r) \/ IssueTokens(r) => req[r].op # "none"
        BY DEF StoreCodes, IssueTokens, At, OnTrack, Stops, Entries, Tracks
      <3>4. codes'[n] = "absent" /\ hist'.used[n] = 0 /\ sessions'[n] = NoSession
        BY <1>1, <3>1, <3>2, <3>3, Made DEF Unmade
      <3>5. ASSUME SavePassword(r) \/ SpendToken(r), n = req[r].arg PROVE FALSE
        <4>1. req[r].op = "password"
          BY <3>5 DEF SavePassword, SpendToken, At, OnTrack, Stops, Entries, Tracks
        <4>2. QED  BY <3>1, <3>5, <4>1 DEF NumberOK, Prepared, Unmade
      <3>6. resets'[n] = "absent" /\ hist'.spent[n] = 0
        BY <1>0, <1>1, <2>3, <2>4, <3>1, <3>5, ResetSteps DEF Unmade
      <3>7. QED  BY <3>4, <3>6 DEF Unmade
    <2>5. browser' # 0 => sessions'[browser'].token # "absent"
      <3>1. CASE IssueTokens(r)
        BY <1>0, <3>1 DEF IssueTokens, TypeOK
      <3>2. CASE ~IssueTokens(r)
        <4>1. browser' \in {browser, 0}
          <5>1. CASE Starting(r)  BY <5>1, Starts
          <5>2. CASE AtOnce(r)
            BY <5>2 DEF AtOnce, ForgotPassword, Logout, RevokeSession, Refresh
          <5>3. CASE Saving(r)
            BY <5>3
            DEF Saving, IncrementFailedLogin, ResetFailedLogin, SaveSecret, Enable, Disable,
                SavePassword, SaveStaff
          <5>4. CASE Passing(r)
            BY <3>2, <5>4
            DEF Passing, StepUpToken, ConsumeCode, WipeCodes, StoreCodes, SpendToken, Rotate
          <5>5. QED  BY <1>1, <5>1, <5>2, <5>3, <5>4, Split
        <4>2. browser # 0 => sessions'[browser].token # "absent"
          BY <1>0, <1>1, Made DEF NumberOK, Serial
        <4>3. QED  BY <4>1, <4>2
      <3>3. QED  BY <3>1, <3>2
    <2>6. QED  BY <2>1, <2>2, <2>4, <2>5 DEF NumberOK
  <1>2. CASE Time \/ UNCHANGED vars
    <2>1. /\ \A q \in Requests : /\ req'[q].op = req[q].op /\ req'[q].at = req[q].at
                                 /\ req'[q].n = req[q].n /\ req'[q].arg = req[q].arg
          /\ UNCHANGED <<codes, sessions, browser, served, hist>>
          /\ \A t \in Serial : resets[t] = "absent" <=> resets'[t] = "absent"
      BY <1>2, Waits
    <2>2. \A q \in Requests : Prepared(req[q])'
      BY <2>1 DEF NumberOK, Prepared
    <2>3. Numbered' /\ (browser' # 0 => sessions'[browser'].token # "absent")
      BY <2>1 DEF NumberOK, Numbered
    <2>4. \A n \in Serial : n > served' => Unmade(n)'
      BY <2>1 DEF NumberOK, Unmade
    <2>5. QED  BY <2>2, <2>3, <2>4 DEF NumberOK
  <1>3. QED  BY <1>1, <1>2 DEF Next, Handled

\* A set of requests never outgrows all of them.
LEMMA Few ==
  ASSUME NEW S, NEW T, S \subseteq T, T \subseteq Requests
  PROVE  /\ IsFiniteSet(S) /\ Cardinality(S) \in Nat
         /\ Cardinality(S) <= Cardinality(T) /\ Cardinality(T) <= Cardinality(Requests)
         /\ Cardinality(T) \in Nat /\ Cardinality(Requests) \in Nat
  BY FS_Subset, FS_CardinalityType, AccountsAssumption

\* A code is looked up while it is unused, and then nobody has used it.
LEMMA CodeNext ==
  ASSUME TypeOK, TypeOK', OnTrack, NumberOK, NEW r \in Requests, Handled(r),
         NEW c \in Serial, CodeUse(c)
  PROVE  CodeUse(c)'
  <1>0. /\ Looked(c) \subseteq Requests /\ Looked(c)' \subseteq Requests
        /\ hist.used[c] \in Nat /\ req \in [Requests -> Request] /\ Course(r)
    BY Courses DEF Looked, TypeOK, History
  <1>1. codes[c] = "unused" \/ Looked(c)' \subseteq Looked(c)
    <2>1. CASE Started(r)
      <3>1. PICK e \in Entries, arg \in 0..MaxServed :
              Start(r, e[1], e[2], arg) /\ (e[2] = "consume" => codes[arg] = "unused")
        BY <2>1 DEF Started
      <3>2. req'[r].at = e[2] /\ req'[r].arg = arg  BY <1>0, <3>1 DEF Start
      <3>3. QED  BY <1>0, <3>1, <3>2 DEF Looked, Course
    <2>2. CASE Advances(r)
      <3>1. req'[r].at # "consume"  BY <2>2 DEF Advances, Tracks
      <3>2. QED  BY <1>0, <3>1 DEF Looked, Course
    <2>3. CASE Ends(r)  BY <1>0, <2>3 DEF Looked, Course, Ends, Idle
    <2>4. CASE UNCHANGED req  BY <2>4 DEF Looked
    <2>5. QED  BY <1>0, <2>1, <2>2, <2>3, <2>4 DEF Course
  <1>2. CASE codes'[c] \in {codes[c], "absent"} /\ hist'.used[c] = hist.used[c]
    <2>1. CASE codes[c] = "unused"
      BY <1>0, <1>2, <2>1, Few DEF CodeUse
    <2>2. CASE Looked(c)' \subseteq Looked(c)
      <3>1. Cardinality(Looked(c)') <= Cardinality(Looked(c))
        BY <1>0, <2>2, Few
      <3>2. Cardinality(Looked(c)') \in Nat /\ Cardinality(Looked(c)) \in Nat
            /\ Cardinality(Requests) \in Nat
        BY <1>0, Few
      <3>3. QED  BY <1>0, <1>2, <3>1, <3>2 DEF CodeUse
    <2>3. QED  BY <1>1, <2>1, <2>2
  <1>3. CASE StoreCodes(r) /\ c = req[r].n /\ hist'.used[c] = hist.used[c]
    <2>1. req[r].op = "confirm" /\ req[r].at # "issue"
      BY <1>3 DEF StoreCodes, At, OnTrack, Stops, Entries, Tracks
    <2>2. hist.used[c] = 0  BY <1>3, <2>1 DEF NumberOK, Prepared
    <2>3. QED  BY <1>0, <1>3, <2>2, Few DEF CodeUse
  <1>4. CASE /\ ConsumeCode(r) /\ c = req[r].arg /\ codes'[c] = "used"
             /\ hist'.used[c] = hist.used[c] + 1 /\ req'[r].at = "clear"
    <2>1. r \in Looked(c) /\ r \notin Looked(c)'
      BY <1>4 DEF ConsumeCode, At, Looked
    <2>2. Looked(c)' \subseteq Looked(c) \ {r}
      BY <1>0, <1>4, <2>1 DEF Looked, Course
    <2>3. /\ Cardinality(Looked(c) \ {r}) = Cardinality(Looked(c)) - 1
          /\ Cardinality(Looked(c)') <= Cardinality(Looked(c) \ {r})
      BY <1>0, <2>1, <2>2, Few, FS_RemoveElement
    <2>4. Cardinality(Looked(c)') \in Nat /\ Cardinality(Looked(c)) \in Nat
          /\ Cardinality(Requests) \in Nat
      BY <1>0, Few
    <2>5. QED  BY <1>0, <1>4, <2>3, <2>4 DEF CodeUse
  <1>5. QED  BY <1>2, <1>3, <1>4, CodeSteps

\* Where only one statement leads on, it is the one that is taken.
LEMMA OnlyWay ==
  ASSUME TypeOK, OnTrack, NEW r \in Requests, Handled(r)
  PROVE  /\ req[r].at = "spend" => SpendToken(r)
         /\ req[r].op = "password" /\ req[r].at = "save" => SavePassword(r)
         /\ req[r].at = "rotate" => Rotate(r)
         /\ req[r].at = "count" => IncrementFailedLogin(r)
  <1>0. Free(r) => req[r].at = "done"
    BY DEF Free, OnTrack, Stops, Entries, Tracks
  <1>1. CASE Starting(r)
    <2>1. Free(r)  BY <1>1, Starts DEF Started
    <2>2. QED  BY <1>0, <2>1
  <1>2. CASE AtOnce(r)
    BY <1>0, <1>2 DEF AtOnce, ForgotPassword, Logout, RevokeSession, Refresh
  <1>3. CASE Saving(r)
    <2>1. SavePassword(r) => req[r].at = "save"  BY DEF SavePassword, At
    <2>2. SaveStaff(r) => req[r].at = "save" /\ req[r].op = "patch"  BY DEF SaveStaff, At
    <2>3. ResetFailedLogin(r) \/ SaveSecret(r) \/ Enable(r) \/ Disable(r)
            => req[r].at \in {"clear", "secret", "enable", "disable"}
      BY DEF ResetFailedLogin, SaveSecret, Enable, Disable, At
    <2>4. IncrementFailedLogin(r) => req[r].at = "count"  BY DEF IncrementFailedLogin, At
    <2>5. QED  BY <1>3, <2>1, <2>2, <2>3, <2>4 DEF Saving
  <1>4. CASE Passing(r)
    <2>1. StepUpToken(r) \/ ConsumeCode(r) \/ IssueTokens(r) \/ WipeCodes(r) \/ StoreCodes(r)
            => req[r].at \in {"token", "consume", "issue", "wipe", "store"}
      BY DEF StepUpToken, ConsumeCode, IssueTokens, WipeCodes, StoreCodes, At
    <2>2. (SpendToken(r) => req[r].at = "spend") /\ (Rotate(r) => req[r].at = "rotate")
      BY DEF SpendToken, Rotate, At
    <2>3. QED  BY <1>4, <2>1, <2>2 DEF Passing
  <1>5. QED  BY <1>1, <1>2, <1>3, <1>4, Split

\* A reset token is looked up while it is valid, and then whoever has used it
\* is about to mark it.
LEMMA ResetNext ==
  ASSUME TypeOK, TypeOK', OnTrack, OnTrack', NumberOK, NEW r \in Requests, Handled(r),
         NEW t \in Serial, ResetUse(t)
  PROVE  ResetUse(t)'
  <1>0. /\ Ready(t) \subseteq Requests /\ Ready(t)' \subseteq Requests
        /\ Saved(t) \subseteq Requests /\ Saved(t)' \subseteq Requests
        /\ hist.spent[t] \in Nat /\ req \in [Requests -> Request] /\ Course(r)
    BY Courses DEF Ready, Saved, TypeOK, History
  <1>1. /\ Cardinality(Ready(t)) \in Nat /\ Cardinality(Ready(t)') \in Nat
        /\ Cardinality(Saved(t)) \in Nat /\ Cardinality(Saved(t)') \in Nat
        /\ Cardinality(Requests) \in Nat
    BY <1>0, Few
  <1>2. Cardinality(Ready(t)') + Cardinality(Saved(t)') <= Cardinality(Requests)
    <2>1. Ready(t)' \cap Saved(t)' = {}  BY DEF Ready, Saved
    <2>2. Cardinality(Ready(t)' \cup Saved(t)')
            = Cardinality(Ready(t)') + Cardinality(Saved(t)') - 0
      BY <1>0, <2>1, Few, FS_Union, FS_EmptySet
    <2>3. Ready(t)' \cup Saved(t)' \subseteq Requests  BY <1>0
    <2>4. Cardinality(Ready(t)' \cup Saved(t)') <= Cardinality(Requests)  BY <2>3, Few
    <2>5. QED  BY <1>1, <2>2, <2>4
  <1>3. Ready(t)' \subseteq Ready(t) \/ (Started(r) /\ resets[t] = "valid")
    <2>1. CASE Started(r)
      <3>1. PICK e \in Entries, arg \in 0..MaxServed :
              Start(r, e[1], e[2], arg) /\ (e[1] = "password" => resets[arg] = "valid")
        BY <2>1 DEF Started
      <3>2. req'[r].op = e[1] /\ req'[r].arg = arg  BY <1>0, <3>1 DEF Start
      <3>3. QED  BY <1>0, <2>1, <3>1, <3>2 DEF Ready, Course
    <2>2. CASE Advances(r)
      <3>1. req'[r].op = req[r].op /\ req'[r].arg = req[r].arg /\ req[r].at # "spend"
        BY <2>2 DEF Advances, Tracks
      <3>2. QED  BY <1>0, <3>1 DEF Ready, Course
    <2>3. CASE Ends(r)  BY <1>0, <2>3 DEF Ready, Course, Ends, Idle
    <2>4. CASE UNCHANGED req  BY <2>4 DEF Ready
    <2>5. QED  BY <1>0, <2>1, <2>2, <2>3, <2>4 DEF Course
  <1>4. CASE SavePassword(r) /\ req[r].arg = t
    <2>1. resets'[t] = resets[t] /\ hist'.spent[t] = hist.spent[t] + 1
      BY <1>4 DEF SavePassword, TypeOK, History
    <2>2. /\ req[r].op = "password" /\ req[r].at = "save"
          /\ req'[r].at = "spend" /\ req'[r].arg = t
          /\ \A q \in Requests \ {r} : req'[q] = req[q]
      BY <1>0, <1>4 DEF SavePassword, At, Goto, Request, Course
    <2>3. /\ r \in Ready(t) /\ Ready(t)' \subseteq Ready(t) \ {r}
          /\ r \notin Saved(t) /\ Saved(t)' = Saved(t) \cup {r}
      BY <1>4, <2>2 DEF Ready, Saved
    <2>4. Cardinality(Saved(t)') = Cardinality(Saved(t)) + 1
      BY <1>0, <2>3, Few, FS_AddElement
    <2>5. /\ Cardinality(Ready(t) \ {r}) = Cardinality(Ready(t)) - 1
          /\ Cardinality(Ready(t)') <= Cardinality(Ready(t) \ {r})
      BY <1>0, <2>3, Few, FS_RemoveElement
    <2>6. QED  BY <1>0, <1>1, <2>1, <2>4, <2>5 DEF ResetUse
  <1>5. ASSUME Ready(t)' \subseteq Ready(t), hist'.spent[t] = hist.spent[t]
        PROVE  hist'.spent[t] + Cardinality(Ready(t)') <= Cardinality(Requests)
    <2>1. Cardinality(Ready(t)') <= Cardinality(Ready(t))  BY <1>0, <1>5, Few
    <2>2. QED  BY <1>0, <1>1, <1>5, <2>1 DEF ResetUse
  <1>6. CASE SpendToken(r) /\ req[r].arg = t
    <2>1. resets'[t] = "used" /\ hist'.spent[t] = hist.spent[t]
      BY <1>6 DEF SpendToken, TypeOK
    <2>2. ~Started(r)
      BY <1>6 DEF SpendToken, At, Started, Free, OnTrack, Stops, Entries, Tracks
    <2>3. hist'.spent[t] + Cardinality(Ready(t)') <= Cardinality(Requests)
      BY <1>3, <1>5, <2>1, <2>2
    <2>4. QED  BY <2>1, <2>3 DEF ResetUse
  <1>7. CASE /\ ~(SavePassword(r) /\ req[r].arg = t)
             /\ ~(SpendToken(r) /\ req[r].arg = t)
    <2>1. Saved(t)' = Saved(t)
      <3>1. r \in Saved(t) => FALSE  BY <1>7, OnlyWay DEF Saved
      <3>2. r \in Saved(t)' => FALSE
        <4>1. SUFFICES ASSUME req'[r].at = "spend", req'[r].arg = t PROVE FALSE
          BY DEF Saved
        <4>2. CASE Started(r)
          BY <1>0, <4>1, <4>2 DEF Started, Start, Entries
        <4>3. CASE Advances(r)
          <5>1. req[r].op = "password" /\ req[r].at = "save" /\ req[r].arg = t
            BY <4>1, <4>3 DEF Advances, Tracks
          <5>2. QED  BY <1>7, <5>1, OnlyWay
        <4>4. CASE Ends(r)  BY <4>1, <4>4 DEF Ends, Idle
        <4>5. CASE UNCHANGED req  BY <3>1, <4>1, <4>5 DEF Saved
        <4>6. QED  BY <1>0, <4>2, <4>3, <4>4, <4>5 DEF Course
      <3>3. QED  BY <1>0, <3>1, <3>2 DEF Saved, Course
    <2>2. CASE resets'[t] = resets[t] /\ hist'.spent[t] = hist.spent[t]
      <3>1. resets'[t] = "valid" => hist'.spent[t] = Cardinality(Saved(t)')
        BY <2>1, <2>2 DEF ResetUse
      <3>2. CASE Ready(t)' \subseteq Ready(t)
        BY <1>5, <2>2, <3>1, <3>2 DEF ResetUse
      <3>3. CASE resets[t] = "valid"
        BY <1>1, <1>2, <2>2, <3>1, <3>3 DEF ResetUse
      <3>4. QED  BY <1>3, <3>2, <3>3
    <2>3. CASE /\ ForgotPassword(r) /\ t = served + 1
               /\ hist'.spent[t] = hist.spent[t]
      <3>1. hist.spent[t] = 0 /\ resets[t] = "absent"
        BY <2>3 DEF NumberOK, Unmade, Serial, TypeOK
      <3>2. Saved(t) = {}
        <4>1. \A q \in Requests : req[q].at = "spend" => req[q].op = "password"
          BY DEF OnTrack, Stops, Entries, Tracks
        <4>2. QED  BY <3>1, <4>1 DEF Saved, NumberOK, Prepared
      <3>3. Cardinality(Saved(t)') = 0  BY <2>1, <3>2, FS_EmptySet
      <3>4. QED  BY <1>1, <1>2, <2>3, <3>1, <3>3 DEF ResetUse
    <2>4. QED  BY <1>7, <2>2, <2>3, ResetSteps
  <1>8. QED  BY <1>4, <1>6, <1>7

\* A refresh token is looked up while it is live, and then it has not been
\* rotated.
LEMMA SessionNext ==
  ASSUME TypeOK, TypeOK', OnTrack, NumberOK, NEW r \in Requests, Handled(r),
         NEW s \in Serial, SessionUse(s)
  PROVE  SessionUse(s)'
  <1>0. /\ Rotating(s) \subseteq Requests /\ Rotating(s)' \subseteq Requests
        /\ req \in [Requests -> Request] /\ Course(r)
        /\ sessions[s].rotated \in Nat /\ sessions'[s].rotated \in Nat
    <2>1. Course(r)  BY Courses
    <2>2. QED  BY <2>1 DEF Rotating, TypeOK
  <1>1. /\ Cardinality(Rotating(s)) \in Nat /\ Cardinality(Rotating(s)') \in Nat
        /\ Cardinality(Requests) \in Nat
        /\ Cardinality(Rotating(s)') <= Cardinality(Requests)
    BY <1>0, Few
  <1>2. sessions[s].token = "live" \/ Rotating(s)' \subseteq Rotating(s)
    <2>1. CASE Started(r)
      <3>1. PICK e \in Entries, arg \in 0..MaxServed :
              Start(r, e[1], e[2], arg) /\ (e[1] = "refresh" => sessions[arg].token = "live")
        BY <2>1 DEF Started
      <3>2. req'[r].op = e[1] /\ req'[r].at = e[2] /\ req'[r].arg = arg  BY <1>0, <3>1 DEF Start
      <3>3. e[2] = "rotate" => e[1] = "refresh"  BY DEF Entries
      <3>4. QED  BY <1>0, <3>1, <3>2, <3>3 DEF Rotating, Course
    <2>2. CASE Advances(r)
      <3>1. req'[r].at # "rotate"  BY <2>2 DEF Advances, Tracks
      <3>2. QED  BY <1>0, <3>1 DEF Rotating, Course
    <2>3. CASE Ends(r)  BY <1>0, <2>3 DEF Rotating, Course, Ends, Idle
    <2>4. CASE UNCHANGED req  BY <2>4 DEF Rotating
    <2>5. QED  BY <1>0, <2>1, <2>2, <2>3, <2>4 DEF Course
  <1>3. Rotating(s)' \subseteq Rotating(s)
          => Cardinality(Rotating(s)') <= Cardinality(Rotating(s))
    BY <1>0, Few
  <1>4. CASE \/ sessions'[s] = sessions[s]
             \/ /\ sessions'[s].token = "revoked"
                /\ sessions'[s].rotated = sessions[s].rotated
    BY <1>0, <1>1, <1>2, <1>3, <1>4 DEF SessionUse
  <1>5. CASE /\ sessions'[s].token = sessions[s].token /\ sessions[s].rotated > 0
             /\ sessions'[s].rotated = sessions[s].rotated - 1
    BY <1>0, <1>1, <1>2, <1>3, <1>5 DEF SessionUse
  <1>6. CASE /\ IssueTokens(r) /\ s = req[r].n
             /\ sessions'[s].rotated = sessions[s].rotated
    <2>1. req[r].op \in {"confirm", "verify"}
      BY <1>6 DEF IssueTokens, At, OnTrack, Stops, Entries, Tracks
    <2>2. sessions[s].rotated = 0  BY <1>6, <2>1 DEF NumberOK, Prepared, NoSession
    <2>3. QED  BY <1>1, <1>6, <2>2 DEF SessionUse
  <1>7. CASE /\ Rotate(r) /\ s = req[r].arg /\ sessions'[s].token = "rotated"
             /\ sessions'[s].rotated = sessions[s].rotated + 1
    <2>1. r \in Rotating(s) /\ req'[r] = Idle
      BY <1>0, <1>7 DEF Rotate, At, Done, Rotating
    <2>2. Rotating(s)' \subseteq Rotating(s) \ {r}
      BY <1>0, <2>1 DEF Rotating, Course, Idle
    <2>3. /\ Cardinality(Rotating(s) \ {r}) = Cardinality(Rotating(s)) - 1
          /\ Cardinality(Rotating(s)') <= Cardinality(Rotating(s) \ {r})
      BY <1>0, <2>1, <2>2, Few, FS_RemoveElement
    <2>4. QED  BY <1>0, <1>1, <1>7, <2>3 DEF SessionUse
  <1>8. QED  BY <1>4, <1>5, <1>6, <1>7, SessionSteps

\* Together.
LEMMA UseNext ==
  ASSUME TypeOK, TypeOK', OnTrack, OnTrack', NumberOK, UseOK, [Next]_vars
  PROVE  UseOK'
  <1>1. ASSUME NEW r \in Requests, Handled(r) PROVE UseOK'
    BY <1>1, CodeNext, ResetNext, SessionNext DEF UseOK
  <1>2. CASE Time \/ UNCHANGED vars
    <2>1. /\ \A q \in Requests : /\ req'[q].op = req[q].op /\ req'[q].at = req[q].at
                                 /\ req'[q].n = req[q].n /\ req'[q].arg = req[q].arg
          /\ UNCHANGED <<codes, sessions, browser, served, hist>>
          /\ \A t \in Serial : resets'[t] = "valid" => resets[t] = "valid"
      BY <1>2, Waits
    <2>2. \A n \in Serial : /\ Looked(n)' = Looked(n) /\ Ready(n)' = Ready(n)
                            /\ Saved(n)' = Saved(n) /\ Rotating(n)' = Rotating(n)
      BY <2>1 DEF Looked, Ready, Saved, Rotating
    <2>3. QED  BY <2>1, <2>2 DEF UseOK, CodeUse, ResetUse, SessionUse
  <1>3. QED  BY <1>1, <1>2 DEF Next, Handled

\* A backup code, a reset token or a refresh token serves no more requests
\* than may have looked it up before one of them marked it.
THEOREM UsedUp == Spec => []SingleUse
  <1> DEFINE Inv == OnTrack /\ NumberOK /\ UseOK
  <1>1. Init => Inv
    <2> SUFFICES ASSUME Init PROVE Inv  OBVIOUS
    <2>1. /\ \A r \in Requests : req[r] = Idle
          /\ served = 1 /\ browser = 0
          /\ hist.used = [c \in Serial |-> 0] /\ hist.spent = [t \in Serial |-> 0]
          /\ resets = [t \in Serial |-> "absent"] /\ sessions = [s \in Serial |-> NoSession]
      BY DEF Init, NoSession
    <2>2. \A c \in Serial : c > 1 => codes[c] = "absent"
      BY DEF Init, Serial
    <2>3. OnTrack  BY <2>1 DEF OnTrack, Stops, Idle
    <2>4. NumberOK
      BY <2>1, <2>2 DEF NumberOK, Numbered, Prepared, Unmade, Idle
    <2>5. \A n \in Serial : /\ Looked(n) = {} /\ Ready(n) = {} /\ Saved(n) = {} /\ Rotating(n) = {}
      BY <2>1 DEF Looked, Ready, Saved, Rotating, Idle
    <2>6. UseOK
      BY <2>1, <2>5, FS_EmptySet, Few DEF UseOK, CodeUse, ResetUse, SessionUse, NoSession
    <2>7. QED  BY <2>3, <2>4, <2>6
  <1>2. TypeOK /\ TypeOK' /\ Inv /\ [Next]_vars => Inv'
    <2> SUFFICES ASSUME TypeOK, TypeOK', Inv, [Next]_vars PROVE Inv'  OBVIOUS
    <2>1. OnTrack'  BY OnTrackNext
    <2>2. NumberOK'  BY NumberNext
    <2>3. UseOK'  BY <2>1, UseNext
    <2>4. QED  BY <2>1, <2>2, <2>3
  <1>3. TypeOK /\ Inv => SingleUse
    <2> SUFFICES ASSUME TypeOK, Inv, NEW n \in Serial
                 PROVE  {hist.used[n], hist.spent[n], sessions[n].rotated}
                          \subseteq 0..Cardinality(Requests)
      BY DEF SingleUse
    <2>1. /\ hist.used[n] \in Nat /\ hist.spent[n] \in Nat /\ sessions[n].rotated \in Nat
      BY DEF TypeOK, History
    <2>2. /\ Cardinality(Looked(n)) \in Nat /\ Cardinality(Ready(n)) \in Nat
          /\ Cardinality(Rotating(n)) \in Nat /\ Cardinality(Requests) \in Nat
      <3>1. Looked(n) \subseteq Requests /\ Ready(n) \subseteq Requests /\ Rotating(n) \subseteq Requests
        BY DEF Looked, Ready, Rotating
      <3>2. QED  BY <3>1, Few
    <2>3. QED  BY <2>1, <2>2 DEF UseOK, CodeUse, ResetUse, SessionUse
  <1> HIDE DEF Inv
  <1>4. QED  BY <1>1, <1>2, <1>3, TypeCorrect, PTL DEF Spec

(***************************************************************************)
(* Numbers: induction, and the failures that are enough for a lock         *)
(***************************************************************************)
\* Induction over numbers, without a predicate for a parameter: a set of
\* numbers has a least one, and one that is closed under successor has them
\* all.
LEMMA Least ==
  ASSUME NEW T, T \subseteq Nat, T # {}
  PROVE  \E x \in T : \A y \in T : x <= y
  <1>1. IsWellFoundedOn(OpToRel(<, Nat), Nat)  BY NatLessThanWellFounded
  <1>2. PICK x \in T : \A y \in T : <<y, x>> \notin OpToRel(<, Nat)  BY <1>1, WFMin
  <1>3. ASSUME NEW y \in T PROVE x <= y
    <2>1. ~ (y < x)  BY <1>2 DEF OpToRel
    <2>2. QED  BY <2>1
  <1>4. QED  BY <1>3

LEMMA Upward ==
  ASSUME NEW S, 0 \in S, \A n \in Nat : n \in S => n + 1 \in S
  PROVE  Nat \subseteq S
  <1>1. SUFFICES ASSUME Nat \ S # {} PROVE FALSE  OBVIOUS
  <1>2. PICK x \in Nat \ S : \A y \in Nat \ S : x <= y  BY <1>1, Least
  <1>3. x # 0 /\ x - 1 \in Nat  BY <1>2
  <1>4. x - 1 \in S  BY <1>2, <1>3
  <1>5. QED  BY <1>2, <1>3, <1>4

\* Enough is defined by recursion.  That it is what its definition says is
\* shown with functions that fit the definition up to a sum of arguments.
Cells == Nat \X (Nat \ {0})
Sum(p) == p[1] + p[2]
Cell(g, p) == IF p[1] = 0 \/ p[2] = 1 THEN 1 ELSE g[<<p[1] - 1, p[2]>>] + g[<<p[1], p[2] - 1>>]
Fits(g, m) == g \in [Cells -> Nat] /\ \A p \in Cells : Sum(p) <= m + 1 => g[p] = Cell(g, p)

LEMMA Before ==
  ASSUME NEW p \in Cells, ~(p[1] = 0 \/ p[2] = 1)
  PROVE  /\ <<p[1] - 1, p[2]>> \in Cells /\ Sum(<<p[1] - 1, p[2]>>) = Sum(p) - 1
         /\ <<p[1], p[2] - 1>> \in Cells /\ Sum(<<p[1], p[2] - 1>>) = Sum(p) - 1
  BY DEF Cells, Sum

LEMMA CellLocal ==
  ASSUME NEW p \in Cells, NEW g, NEW h,
         \A q \in Cells : Sum(q) < Sum(p) => g[q] = h[q]
  PROVE  Cell(g, p) = Cell(h, p)
  <1>1. CASE p[1] = 0 \/ p[2] = 1  BY <1>1 DEF Cell
  <1>2. CASE ~(p[1] = 0 \/ p[2] = 1)
    <2>1. Sum(p) \in Nat /\ Sum(p) - 1 < Sum(p)  BY DEF Cells, Sum
    <2>2. g[<<p[1] - 1, p[2]>>] = h[<<p[1] - 1, p[2]>>]  BY <1>2, <2>1, Before
    <2>3. g[<<p[1], p[2] - 1>>] = h[<<p[1], p[2] - 1>>]  BY <1>2, <2>1, Before
    <2>4. QED  BY <1>2, <2>2, <2>3 DEF Cell
  <1>3. QED  BY <1>1, <1>2

LEMMA CellType ==
  ASSUME NEW p \in Cells, NEW g \in [Cells -> Nat]
  PROVE  Cell(g, p) \in Nat
  <1>1. CASE p[1] = 0 \/ p[2] = 1  BY <1>1 DEF Cell
  <1>2. CASE ~(p[1] = 0 \/ p[2] = 1)
    <2>1. g[<<p[1] - 1, p[2]>>] \in Nat /\ g[<<p[1], p[2] - 1>>] \in Nat  BY <1>2, Before
    <2>2. QED  BY <1>2, <2>1 DEF Cell
  <1>3. QED  BY <1>1, <1>2

LEMMA FitsAll == \A m \in Nat : \E g : Fits(g, m)
  <1> DEFINE S == {m \in Nat : \E g : Fits(g, m)}
  <1>1. 0 \in S
    <2>1. Fits([p \in Cells |-> 1], 0)
      <3>1. ASSUME NEW p \in Cells, Sum(p) <= 1 PROVE p[1] = 0
        BY <3>1 DEF Cells, Sum
      <3>2. QED  BY <3>1 DEF Fits, Cell
    <2>2. QED  BY <2>1
  <1>2. ASSUME NEW m \in Nat, m \in S PROVE m + 1 \in S
    <2>1. PICK g : Fits(g, m)  BY <1>2
    <2>2. PICK h : h = [p \in Cells |-> IF Sum(p) <= m + 1 THEN g[p] ELSE Cell(g, p)]
      OBVIOUS
    <2>3. \A p \in Cells : Sum(p) \in Nat  BY DEF Cells, Sum
    <2>4. h \in [Cells -> Nat]  BY <2>1, <2>2, CellType DEF Fits
    <2>5. ASSUME NEW p \in Cells, Sum(p) <= m + 2 PROVE h[p] = Cell(h, p)
      <3>1. \A q \in Cells : Sum(q) < Sum(p) => g[q] = h[q]
        BY <2>2, <2>3, <2>5
      <3>2. Cell(g, p) = Cell(h, p)  BY <3>1, CellLocal
      <3>3. h[p] = Cell(g, p)  BY <2>1, <2>2 DEF Fits
      <3>4. QED  BY <3>2, <3>3
    <2>6. Fits(h, m + 1)
      <3>1. (m + 1) + 1 = m + 2  OBVIOUS
      <3>2. QED  BY <2>4, <2>5, <3>1 DEF Fits
    <2>7. QED  BY <2>6
  <1> HIDE DEF S
  <1>3. Nat \subseteq S  BY <1>1, <1>2, Upward
  <1>4. QED  BY <1>3 DEF S

LEMMA FitsOne ==
  ASSUME NEW m \in Nat, NEW k \in Nat, NEW g, NEW h, Fits(g, m), Fits(h, k),
         NEW p \in Cells, Sum(p) <= m + 1, Sum(p) <= k + 1
  PROVE  g[p] = h[p]
  <1>0. \A q \in Cells : Sum(q) \in Nat  BY DEF Cells, Sum
  <1>1. SUFFICES ASSUME g[p] # h[p] PROVE FALSE  OBVIOUS
  <1>2. PICK T : T = {Sum(q) : q \in {c \in Cells : g[c] # h[c]}}  OBVIOUS
  <1>3. T \subseteq Nat /\ Sum(p) \in T  BY <1>0, <1>1, <1>2
  <1>4. PICK x \in T : \A y \in T : x <= y  BY <1>3, Least
  <1>5. PICK q \in Cells : g[q] # h[q] /\ Sum(q) = x  BY <1>2, <1>4
  <1>6. \A c \in Cells : Sum(c) < Sum(q) => g[c] = h[c]
    <2>1. ASSUME NEW c \in Cells, Sum(c) < Sum(q), g[c] # h[c] PROVE FALSE
      <3>1. Sum(c) \in T  BY <1>2, <2>1
      <3>2. QED  BY <1>0, <1>4, <1>5, <2>1, <3>1
    <2>2. QED  BY <2>1
  <1>7. Cell(g, q) = Cell(h, q)  BY <1>6, CellLocal
  <1>8. Sum(q) <= m + 1 /\ Sum(q) <= k + 1  BY <1>0, <1>3, <1>4, <1>5
  <1>9. QED  BY <1>5, <1>7, <1>8 DEF Fits

\* The definition of Enough holds for every pair, and gives a number.
LEMMA EnoughCells ==
  /\ Enough \in [Cells -> Nat]
  /\ \A p \in Cells : Enough[p] = Cell(Enough, p)
  <1>1. PICK G : G = [m \in Nat |-> CHOOSE g : Fits(g, m)]  OBVIOUS
  <1>2. \A m \in Nat : Fits(G[m], m)  BY <1>1, FitsAll
  <1>3. PICK F : F = [p \in Cells |-> G[Sum(p)][p]]  OBVIOUS
  <1>4. \A p \in Cells : Sum(p) \in Nat  BY DEF Cells, Sum
  <1>5. F \in [Cells -> Nat]  BY <1>2, <1>3, <1>4 DEF Fits
  <1>6. ASSUME NEW p \in Cells PROVE F[p] = Cell(F, p)
    <2>1. \A q \in Cells : Sum(q) < Sum(p) => G[Sum(p)][q] = F[q]
      <3>1. ASSUME NEW q \in Cells, Sum(q) < Sum(p) PROVE G[Sum(p)][q] = G[Sum(q)][q]
        <4>1. Sum(q) \in Nat /\ Sum(p) \in Nat /\ Sum(q) <= Sum(p) + 1 /\ Sum(q) <= Sum(q) + 1
          BY <1>4, <3>1
        <4>2. QED  BY <1>2, <4>1, FitsOne
      <3>2. QED  BY <1>3, <3>1
    <2>2. Cell(G[Sum(p)], p) = Cell(F, p)  BY <2>1, CellLocal
    <2>3. G[Sum(p)][p] = Cell(G[Sum(p)], p)  BY <1>2, <1>4 DEF Fits
    <2>4. QED  BY <1>3, <2>2, <2>3
  <1>7. F = [p \in Cells |-> Cell(F, p)]  BY <1>5, <1>6
  <1>8. Enough = [p \in Cells |-> Cell(Enough, p)]
    BY <1>7, Zenon DEF Enough, Cells, Cell
  <1>9. \A p \in Cells : Enough[p] = Cell(Enough, p)  BY <1>8
  <1>10. \A p \in Cells : Enough[p] \in Nat
    <2>1. SUFFICES ASSUME NEW p \in Cells, Enough[p] \notin Nat PROVE FALSE  OBVIOUS
    <2>2. PICK T : T = {Sum(q) : q \in {c \in Cells : Enough[c] \notin Nat}}  OBVIOUS
    <2>3. T \subseteq Nat /\ T # {}  BY <1>4, <2>1, <2>2
    <2>4. PICK x \in T : \A y \in T : x <= y  BY <2>3, Least
    <2>5. PICK q \in Cells : Enough[q] \notin Nat /\ Sum(q) = x  BY <2>2, <2>4
    <2>6. ~(q[1] = 0 \/ q[2] = 1)
      <3>1. (q[1] = 0 \/ q[2] = 1) => Cell(Enough, q) = 1  BY DEF Cell
      <3>2. Enough[q] = Cell(Enough, q)  BY <1>9
      <3>3. QED  BY <2>5, <3>1, <3>2
    <2>7. ASSUME NEW c \in Cells, Sum(c) = Sum(q) - 1 PROVE Enough[c] \in Nat
      <3>1. SUFFICES ASSUME Enough[c] \notin Nat PROVE FALSE  OBVIOUS
      <3>2. Sum(c) \in T  BY <2>2, <3>1
      <3>3. QED  BY <1>4, <2>4, <2>5, <2>7, <3>2
    <2>8. Enough[<<q[1] - 1, q[2]>>] \in Nat /\ Enough[<<q[1], q[2] - 1>>] \in Nat
      BY <2>6, <2>7, Before
    <2>9. QED  BY <1>9, <2>5, <2>6, <2>8 DEF Cell
  <1>11. QED  BY <1>8, <1>9, <1>10

\* What one failure more of a loaded count adds, if s of them overlap.
More(s, x) == IF s = 0 THEN 0 ELSE Enough[<<s - 1, x + 1>>]

\* How Enough grows, one failure or one request more.
LEMMA EnoughSums ==
  ASSUME NEW s \in Nat, NEW x \in Nat \ {0}
  PROVE  /\ Enough[<<s, x>>] \in Nat /\ Enough[<<s, 1>>] = 1 /\ More(s, x) \in Nat
         /\ Enough[<<s, x + 1>>] = Enough[<<s, x>>] + More(s, x)
         /\ More(s + 1, x) = More(s, x) + Enough[<<s, x>>]
  <1>1. <<s, x>> \in Cells /\ <<s, x + 1>> \in Cells /\ <<s, 1>> \in Cells  BY DEF Cells
  <1>2. Enough[<<s, x>>] \in Nat /\ Enough[<<s, x + 1>>] \in Nat  BY <1>1, EnoughCells
  <1>3. Enough[<<s, 1>>] = 1  BY <1>1, EnoughCells DEF Cell
  <1>4. x + 1 # 1 /\ (x + 1) - 1 = x  OBVIOUS
  <1>5. Enough[<<s, x + 1>>] = IF s = 0 THEN 1 ELSE Enough[<<s - 1, x + 1>>] + Enough[<<s, x>>]
    BY <1>1, <1>4, EnoughCells DEF Cell
  <1>6. s # 0 => Enough[<<s - 1, x + 1>>] \in Nat
    <2>1. s # 0 => <<s - 1, x + 1>> \in Cells  BY DEF Cells
    <2>2. QED  BY <2>1, EnoughCells
  <1>7. s = 0 => Enough[<<s, x>>] = 1  BY <1>1, EnoughCells DEF Cell
  <1>8. (s + 1) - 1 = s /\ s + 1 # 0  OBVIOUS
  <1>9. More(s + 1, x) = Enough[<<s, x + 1>>]  BY <1>8 DEF More
  <1>10. More(s, x) \in Nat  BY <1>6 DEF More
  <1>11. Enough[<<s, x + 1>>] = Enough[<<s, x>>] + More(s, x)
    BY <1>2, <1>5, <1>6, <1>7 DEF More
  <1>12. QED  BY <1>2, <1>3, <1>9, <1>10, <1>11

LEMMA MoreGrows ==
  ASSUME NEW s \in Nat, NEW t \in Nat, s <= t, NEW x \in Nat \ {0}
  PROVE  More(s, x) <= More(t, x)
  <1> DEFINE S == {d \in Nat : More(s, x) <= More(s + d, x)}
  <1>1. 0 \in S
    <2>1. More(s, x) \in Nat  BY EnoughSums
    <2>2. s + 0 = s  OBVIOUS
    <2>3. QED  BY <2>1, <2>2
  <1>2. ASSUME NEW d \in Nat, d \in S PROVE d + 1 \in S
    <2>1. s + d \in Nat /\ s + (d + 1) = (s + d) + 1  OBVIOUS
    <2>2. More((s + d) + 1, x) = More(s + d, x) + Enough[<<s + d, x>>]
      BY <2>1, EnoughSums
    <2>3. More(s + d, x) \in Nat /\ Enough[<<s + d, x>>] \in Nat /\ More(s, x) \in Nat
      BY <2>1, EnoughSums
    <2>4. More(s, x) <= More(s + d, x)  BY <1>2
    <2>5. More(s, x) <= More((s + d) + 1, x)  BY <2>2, <2>3, <2>4
    <2>6. QED  BY <2>1, <2>5
  <1> HIDE DEF S
  <1>3. t - s \in S  BY <1>1, <1>2, Upward
  <1>4. s + (t - s) = t  OBVIOUS
  <1>5. QED  BY <1>3, <1>4 DEF S

\* The failures that are possible with the loaded counts, per count still to go.
Chain(b, m, n, s) ==
  /\ b \in [0..m -> Nat] /\ b[0] = 0
  /\ \A x \in 1..m : b[x] <= b[x - 1] + More(s[n - x], x)

\* Such a chain stays below Enough: induction over the counts still to go.
LEMMA ChainBound ==
  ASSUME NEW m \in Nat, NEW n \in Nat, m < n, NEW b, NEW s \in [0..n -> Nat], Chain(b, m, n, s),
         NEW k \in Nat, NEW x \in 1..(m + 1), \A y \in 1..(x - 1) : s[n - y] <= k
  PROVE  1 + b[x - 1] <= Enough[<<k, x>>]
  <1> DEFINE S == {y \in Nat : y < x => 1 + b[y] <= Enough[<<k, y + 1>>]}
  <1>1. 0 \in S
    <2>1. 1 \in Nat \ {0} /\ 0 + 1 = 1  OBVIOUS
    <2>2. Enough[<<k, 1>>] = 1  BY <2>1, EnoughSums
    <2>3. QED  BY <2>1, <2>2 DEF Chain
  <1>2. ASSUME NEW y \in Nat, y \in S PROVE y + 1 \in S
    <2>1. SUFFICES ASSUME y + 1 < x PROVE 1 + b[y + 1] <= Enough[<<k, (y + 1) + 1>>]
      OBVIOUS
    <2>2. y + 1 \in 1..m /\ y \in 0..m /\ y + 1 \in 0..m /\ (y + 1) - 1 = y
          /\ n - (y + 1) \in 0..n /\ y + 1 \in 1..(x - 1) /\ y + 1 \in Nat \ {0}
      BY <2>1
    <2>3. b[y + 1] <= b[y] + More(s[n - (y + 1)], y + 1)  BY <2>2 DEF Chain
    <2>4. s[n - (y + 1)] \in Nat /\ s[n - (y + 1)] <= k  BY <2>2
    <2>5. More(s[n - (y + 1)], y + 1) <= More(k, y + 1)  BY <2>2, <2>4, MoreGrows
    <2>6. Enough[<<k, (y + 1) + 1>>] = Enough[<<k, y + 1>>] + More(k, y + 1)
      BY <2>2, EnoughSums
    <2>7. 1 + b[y] <= Enough[<<k, y + 1>>]  BY <1>2, <2>1
    <2>8. b[y] \in Nat /\ b[y + 1] \in Nat  BY <2>2 DEF Chain
    <2>9. /\ Enough[<<k, y + 1>>] \in Nat /\ More(k, y + 1) \in Nat
          /\ More(s[n - (y + 1)], y + 1) \in Nat
      BY <2>2, <2>4, EnoughSums
    <2>10. PICK b0 \in Nat, b1 \in Nat, e \in Nat, d \in Nat, d1 \in Nat :
             /\ b0 = b[y] /\ b1 = b[y + 1] /\ e = Enough[<<k, y + 1>>] /\ d = More(k, y + 1)
             /\ d1 = More(s[n - (y + 1)], y + 1)
      BY <2>8, <2>9
    <2>11. b1 <= b0 + d1 /\ d1 <= d /\ 1 + b0 <= e  BY <2>3, <2>5, <2>7, <2>10
    <2>12. 1 + b1 <= e + d  BY <2>11
    <2>13. QED  BY <2>6, <2>10, <2>12
  <1> HIDE DEF S
  <1>3. Nat \subseteq S  BY <1>1, <1>2, Upward
  <1>4. x - 1 \in Nat /\ x - 1 < x /\ (x - 1) + 1 = x  OBVIOUS
  <1>5. QED  BY <1>3, <1>4 DEF S

\* A failure that does not lock: one count becomes more frequent.
LEMMA ChainStep ==
  ASSUME NEW n \in Nat \ {0}, NEW b, NEW s \in [0..n -> Nat], NEW t \in [0..n -> Nat],
         Chain(b, n - 1, n, s), NEW c \in Nat, c + 1 < n,
         \A j \in (c + 1)..n : s[j] <= s[c + 1],
         t[c + 1] >= s[c + 1] + 1, \A j \in 0..c : t[j] >= s[j]
  PROVE  \E a : Chain(a, n - 1, n, t) /\ a[n - 1] = b[n - 1] + 1
  <1>1. PICK X \in 1..(n - 1) : X = n - (c + 1)  OBVIOUS
  <1>2. PICK a : a = [x \in 0..(n - 1) |-> IF x < X THEN 0 ELSE b[x] + 1]  OBVIOUS
  <1>0. b \in [0..(n - 1) -> Nat]  BY DEF Chain
  <1>3. a \in [0..(n - 1) -> Nat] /\ a[0] = 0 /\ a[n - 1] = b[n - 1] + 1
    <2>1. \A x \in 0..(n - 1) : b[x] \in Nat  BY <1>0
    <2>2. 0 \in 0..(n - 1) /\ n - 1 \in 0..(n - 1) /\ 0 < X /\ ~(n - 1 < X)  BY <1>1
    <2>3. a[0] = 0 /\ a[n - 1] = b[n - 1] + 1  BY <1>2, <2>2
    <2>4. \A x \in 0..(n - 1) : (IF x < X THEN 0 ELSE b[x] + 1) \in Nat  BY <2>1, SMTT(20)
    <2>5. QED  BY <1>2, <2>3, <2>4
  <1>4. ASSUME NEW x \in 1..(n - 1) PROVE a[x] <= a[x - 1] + More(t[n - x], x)
    <2>00. /\ x \in 0..(n - 1) /\ x - 1 \in 0..(n - 1) /\ n - x \in 0..n /\ x \in Nat \ {0}
      OBVIOUS
    <2>0. /\ x \in 0..(n - 1) /\ x - 1 \in 0..(n - 1) /\ n - x \in 0..n /\ x \in Nat \ {0}
          /\ b[x] \in Nat /\ b[x - 1] \in Nat /\ s[n - x] \in Nat /\ t[n - x] \in Nat
      BY <1>0, <2>00
    <2>1. /\ More(t[n - x], x) \in Nat /\ More(s[n - x], x) \in Nat
          /\ b[x] <= b[x - 1] + More(s[n - x], x)
      BY <2>0, EnoughSums DEF Chain
    <2>2. CASE x < X
      <3>1. a[x] = 0 /\ a[x - 1] = 0  BY <1>2, <2>0, <2>2
      <3>2. QED  BY <2>1, <3>1
    <2>3. CASE x = X
      <3>1. n - x = c + 1  BY <1>1, <2>3
      <3>2. a[x] = b[x] + 1 /\ a[x - 1] = 0  BY <1>2, <2>0, <2>3
      <3>3. 1 + b[x - 1] <= Enough[<<s[c + 1], x>>]
        <4>1. \A y \in 1..(x - 1) : s[n - y] <= s[c + 1]
          <5>1. \A y \in 1..(x - 1) : n - y \in (c + 1)..n  BY <1>1, <2>3
          <5>2. QED  BY <5>1
        <4>2. s[c + 1] \in Nat /\ x \in 1..((n - 1) + 1) /\ n - 1 < n /\ n - 1 \in Nat
          BY <2>0, <3>1
        <4>3. QED  BY <4>1, <4>2, ChainBound
      <3>4. More(s[c + 1] + 1, x) = More(s[c + 1], x) + Enough[<<s[c + 1], x>>]
            /\ Enough[<<s[c + 1], x>>] \in Nat
        BY <2>0, <3>1, EnoughSums
      <3>5. More(s[c + 1] + 1, x) <= More(t[c + 1], x)
        <4>1. s[c + 1] \in Nat /\ t[c + 1] \in Nat  BY <2>0, <3>1
        <4>2. s[c + 1] + 1 \in Nat /\ s[c + 1] + 1 <= t[c + 1]  BY <4>1
        <4>3. QED  BY <2>0, <4>1, <4>2, MoreGrows
      <3>6. b[x] <= b[x - 1] + More(s[c + 1], x) /\ More(t[c + 1], x) \in Nat
            /\ More(s[c + 1], x) \in Nat
        BY <2>1, <3>1
      <3>7. ASSUME NEW b1 \in Nat, NEW b0 \in Nat, NEW e \in Nat, NEW d \in Nat, NEW d1, NEW d2 \in Nat,
                   b1 <= b0 + d, 1 + b0 <= e, d1 = d + e, d1 <= d2
            PROVE  b1 + 1 <= d2
        BY <3>7
      <3>8. b[x] + 1 <= More(t[c + 1], x)  BY <2>0, <3>3, <3>4, <3>5, <3>6, <3>7
      <3>9. QED  BY <2>0, <3>1, <3>2, <3>6, <3>8
    <2>4. CASE x > X
      <3>1. n - x \in 0..c  BY <1>1, <2>4
      <3>2. a[x] = b[x] + 1 /\ a[x - 1] = b[x - 1] + 1
        <4>1. ~(x < X) /\ ~(x - 1 < X)  BY <1>1, <2>4
        <4>2. QED  BY <1>2, <2>0, <4>1
      <3>3. More(s[n - x], x) <= More(t[n - x], x)  BY <2>0, <3>1, MoreGrows
      <3>4. ASSUME NEW b1 \in Nat, NEW b0 \in Nat, NEW d \in Nat, NEW d1 \in Nat, b1 <= b0 + d, d <= d1
            PROVE  b1 + 1 <= (b0 + 1) + d1
        BY <3>4
      <3>5. QED  BY <2>0, <2>1, <3>2, <3>3, <3>4
    <2>5. QED  BY <1>1, <2>2, <2>3, <2>4
  <1>5. Chain(a, n - 1, n, t)  BY <1>3, <1>4 DEF Chain
  <1>6. QED  BY <1>3, <1>5

(***************************************************************************)
(* The account is locked in time                                           *)
(***************************************************************************)
\* What failures may still come without a lock depends on how many requests
\* stand at which count: those about to save one, at the one they loaded, and
\* the others, at the one they will load.
Level(r) == IF req[r].at = "count" THEN req[r].row.attempts ELSE user.attempts
Above(j) == {r \in Requests : Level(r) >= j}
Counts   == [j \in 0..MaxAttempts |-> Cardinality(Above(j))]
LockOK ==
  ~hist.locked => \E b : /\ Chain(b, MaxAttempts - 1, MaxAttempts, Counts)
                         /\ hist.failures <= b[MaxAttempts - 1]

LEMMA CountsFacts ==
  ASSUME NEW j \in 0..MaxAttempts
  PROVE  /\ Counts[j] = Cardinality(Above(j)) /\ Above(j) \subseteq Requests
         /\ IsFiniteSet(Above(j)) /\ Counts[j] \in Nat /\ Counts[j] <= Cardinality(Requests)
  <1>1. Counts[j] = Cardinality(Above(j)) /\ Above(j) \subseteq Requests  BY DEF Counts, Above
  <1>2. QED  BY <1>1, Few

\* After a reset nothing has failed.
LEMMA LockReset == TypeOK /\ hist.failures = 0 => LockOK
  <1> SUFFICES ASSUME hist.failures = 0 PROVE LockOK  OBVIOUS
  <1>0. MaxAttempts \in Nat \ {0}  BY AccountsAssumption
  <1>1. PICK b : b = [x \in 0..(MaxAttempts - 1) |-> 0]  OBVIOUS
  <1>2. b \in [0..(MaxAttempts - 1) -> Nat] /\ b[0] = 0 /\ b[MaxAttempts - 1] = 0
    BY <1>0, <1>1
  <1>3. ASSUME NEW x \in 1..(MaxAttempts - 1)
        PROVE  b[x] <= b[x - 1] + More(Counts[MaxAttempts - x], x)
    <2>1. /\ MaxAttempts - x \in 0..MaxAttempts /\ x \in Nat \ {0}
          /\ x \in 0..(MaxAttempts - 1) /\ x - 1 \in 0..(MaxAttempts - 1)
      BY <1>0
    <2>2. More(Counts[MaxAttempts - x], x) \in Nat  BY <2>1, CountsFacts, EnoughSums
    <2>3. b[x] = 0 /\ b[x - 1] = 0  BY <1>1, <2>1
    <2>4. QED  BY <2>2, <2>3
  <1>4. Chain(b, MaxAttempts - 1, MaxAttempts, Counts)  BY <1>2, <1>3 DEF Chain
  <1>5. hist.failures <= b[MaxAttempts - 1]  BY <1>2
  <1>6. QED  BY <1>4, <1>5 DEF LockOK

\* A failed attempt that does not lock raises the level of its request above
\* the count it has loaded, and lowers none to that count.
LEMMA LockFailure ==
  ASSUME TypeOK, TypeOK', LockOK, NEW r \in Requests, IncrementFailedLogin(r)
  PROVE  LockOK'
  <1>0. /\ MaxAttempts \in Nat \ {0} /\ req \in [Requests -> Request] /\ user \in Row
        /\ hist \in History
    BY AccountsAssumption DEF TypeOK
  <1>1. PICK c \in Nat : c = req[r].row.attempts  BY <1>0 DEF Request, Row
  <1>2. SUFFICES ASSUME ~hist'.locked PROVE LockOK'  BY DEF LockOK
  <1>3. /\ c + 1 < MaxAttempts /\ ~hist.locked /\ hist'.failures = hist.failures + 1
        /\ hist.failures \in Nat
    <2>1. /\ hist'.locked = (hist.locked \/ c + 1 >= MaxAttempts)
          /\ hist'.failures = hist.failures + 1
      BY <1>0, <1>1 DEF IncrementFailedLogin, History
    <2>2. ~hist.locked /\ ~(c + 1 >= MaxAttempts)  BY <1>2, <2>1
    <2>3. QED  BY <1>0, <2>1, <2>2 DEF History
  <1>4. PICK b : /\ Chain(b, MaxAttempts - 1, MaxAttempts, Counts)
                 /\ hist.failures <= b[MaxAttempts - 1]
    BY <1>3 DEF LockOK
  <1>5. /\ req[r].at = "count" /\ user'.attempts = c + 1 /\ req'[r].at = "done"
        /\ \A q \in Requests \ {r} : req'[q] = req[q]
    BY <1>0, <1>1 DEF IncrementFailedLogin, At, Done, Idle, Row
  <1>6. Level(r) = c /\ Level(r)' = c + 1  BY <1>1, <1>5 DEF Level
  <1>7. \A q \in Requests \ {r} : Level(q)' = Level(q) \/ Level(q)' = c + 1
    BY <1>5 DEF Level
  <1>8. \A q \in Requests : Level(q) \in Nat  BY <1>0 DEF Level, Request, Row
  <1>9. \A j \in 0..(c + 1) : Above(j) \subseteq Above(j)'
    <2>1. SUFFICES ASSUME NEW j \in 0..(c + 1), NEW q \in Requests, Level(q) >= j
                   PROVE  Level(q)' >= j
      BY DEF Above
    <2>2. Level(q)' = Level(q) \/ Level(q)' = c + 1  BY <1>6, <1>7
    <2>3. QED  BY <1>8, <2>1, <2>2
  <1>10. PICK s, t : s = Counts /\ t = Counts'  OBVIOUS
  <1>11. s \in [0..MaxAttempts -> Nat] /\ t \in [0..MaxAttempts -> Nat]
    <2>1. \A j \in 0..MaxAttempts : /\ Cardinality(Above(j)) \in Nat
                                    /\ Cardinality(Above(j)') \in Nat
      <3>1. \A j \in 0..MaxAttempts : Above(j) \subseteq Requests /\ Above(j)' \subseteq Requests
        BY DEF Above
      <3>2. QED  BY <3>1, Few
    <2>2. QED  BY <1>10, <2>1 DEF Counts
  <1>12. ASSUME NEW j \in 0..MaxAttempts
         PROVE  /\ s[j] = Cardinality(Above(j)) /\ t[j] = Cardinality(Above(j)')
                /\ Above(j) \subseteq Requests /\ Above(j)' \subseteq Requests
                /\ IsFiniteSet(Above(j)) /\ IsFiniteSet(Above(j)')
    <2>1. Above(j) \subseteq Requests /\ Above(j)' \subseteq Requests  BY DEF Above
    <2>2. QED  BY <1>10, <2>1, Few DEF Counts
  <1>13. \A j \in 0..c : t[j] >= s[j]
    <2>1. ASSUME NEW j \in 0..c PROVE t[j] >= s[j]
      <3>1. j \in 0..(c + 1) /\ j \in 0..MaxAttempts  BY <1>0, <1>3
      <3>2. Above(j) \subseteq Above(j)'  BY <1>9, <3>1
      <3>3. s[j] \in Nat /\ t[j] \in Nat  BY <1>11, <3>1
      <3>4. Cardinality(Above(j)) <= Cardinality(Above(j)')  BY <1>12, <3>1, <3>2, Few
      <3>5. QED  BY <1>12, <3>1, <3>3, <3>4
    <2>2. QED  BY <2>1
  <1>14. c + 1 \in 0..(c + 1) /\ c + 1 \in 0..MaxAttempts  BY <1>0, <1>3
  <1>15. t[c + 1] >= s[c + 1] + 1
    <2>1. r \notin Above(c + 1) /\ r \in Above(c + 1)'  BY <1>6 DEF Above
    <2>2. PICK A, B : A = Above(c + 1) /\ B = Above(c + 1)'  OBVIOUS
    <2>3. A \cup {r} \subseteq B /\ B \subseteq Requests  BY <1>9, <1>12, <1>14, <2>1, <2>2
    <2>4. Cardinality(A \cup {r}) = Cardinality(A) + 1
      BY <1>12, <1>14, <2>1, <2>2, FS_AddElement
    <2>5. Cardinality(A \cup {r}) <= Cardinality(B)  BY <2>3, Few
    <2>6. s[c + 1] = Cardinality(A) /\ t[c + 1] = Cardinality(B)  BY <1>12, <1>14, <2>2
    <2>7. s[c + 1] \in Nat /\ t[c + 1] \in Nat  BY <1>11, <1>14
    <2>8. QED  BY <2>4, <2>5, <2>6, <2>7
  <1>16. \A j \in (c + 1)..MaxAttempts : s[j] <= s[c + 1]
    <2>1. ASSUME NEW j \in (c + 1)..MaxAttempts PROVE s[j] <= s[c + 1]
      <3>1. j \in 0..MaxAttempts  OBVIOUS
      <3>2. Above(j) \subseteq Above(c + 1)  BY <1>8 DEF Above
      <3>3. Cardinality(Above(j)) <= Cardinality(Above(c + 1))
        BY <1>12, <1>14, <3>1, <3>2, Few
      <3>4. QED  BY <1>12, <1>14, <3>1, <3>3
    <2>2. QED  BY <2>1
  <1>17. Chain(b, MaxAttempts - 1, MaxAttempts, s)  BY <1>4, <1>10
  <1>18. PICK a : Chain(a, MaxAttempts - 1, MaxAttempts, t)
                  /\ a[MaxAttempts - 1] = b[MaxAttempts - 1] + 1
    BY <1>0, <1>3, <1>11, <1>13, <1>15, <1>16, <1>17, ChainStep
  <1>19. b[MaxAttempts - 1] \in Nat
    <2>1. b \in [0..(MaxAttempts - 1) -> Nat]  BY <1>4 DEF Chain
    <2>2. MaxAttempts - 1 \in 0..(MaxAttempts - 1)  BY <1>0
    <2>3. QED  BY <2>1, <2>2
  <1>20. hist'.failures <= a[MaxAttempts - 1]  BY <1>3, <1>4, <1>18, <1>19
  <1>21. QED  BY <1>10, <1>18, <1>20 DEF LockOK

\* Every other step leaves the levels alone, or forgets the failures.
LEMMA LockQuiet ==
  ASSUME LockOK, \A q \in Requests : Level(q)' = Level(q),
         hist'.failures = hist.failures, hist'.locked = hist.locked
  PROVE  LockOK'
  <1>1. \A j \in 0..MaxAttempts : Above(j)' = Above(j)  BY DEF Above
  <1>2. Counts' = Counts  BY <1>1 DEF Counts
  <1>3. QED  BY <1>2 DEF LockOK

LEMMA Quiet ==
  ASSUME TypeOK, OnTrack, NEW r \in Requests, Handled(r), ~IncrementFailedLogin(r)
  PROVE  \/ hist'.failures = 0
         \/ /\ user'.attempts = user.attempts
            /\ hist'.failures = hist.failures /\ hist'.locked = hist.locked
  <1>0. user \in Row /\ hist \in History  BY DEF TypeOK
  <1>1. CASE ~Saving(r)
    <2>1. UNCHANGED user /\ (UNCHANGED hist \/ Started(r) \/ ConsumeCode(r))  BY <1>1, Others
    <2>2. Started(r) => hist'.failures = hist.failures /\ hist'.locked = hist.locked
      BY <1>0 DEF Started, Start, History
    <2>3. ConsumeCode(r) => hist'.failures = hist.failures /\ hist'.locked = hist.locked
      BY <1>0 DEF ConsumeCode, History
    <2>4. QED  BY <2>1, <2>2, <2>3
  <1>2. CASE ResetFailedLogin(r)  BY <1>0, <1>2 DEF ResetFailedLogin, History
  <1>3. CASE SaveSecret(r)  BY <1>0, <1>3 DEF SaveSecret, Row
  <1>4. CASE Enable(r)  BY <1>0, <1>4 DEF Enable, Row
  <1>5. CASE Disable(r)  BY <1>0, <1>5 DEF Disable, Row
  <1>6. CASE SavePassword(r)  BY <1>0, <1>6 DEF SavePassword, History
  <1>7. CASE SaveStaff(r)  BY <1>0, <1>7 DEF SaveStaff, History
  <1>8. QED  BY <1>1, <1>2, <1>3, <1>4, <1>5, <1>6, <1>7 DEF Saving

LEMMA LevelsKept ==
  ASSUME TypeOK, OnTrack, NEW r \in Requests, Handled(r), ~IncrementFailedLogin(r),
         user'.attempts = user.attempts, NEW q \in Requests
  PROVE  Level(q)' = Level(q)
  <1>0. req \in [Requests -> Request]  BY DEF TypeOK
  <1>1. Course(r) /\ req[r].at # "count"  BY Courses, OnlyWay
  <1>2. CASE q # r  BY <1>1, <1>2 DEF Course, Level
  <1>3. CASE q = r /\ Started(r)
    <2>1. UNCHANGED user /\ req'[r].row = user  BY <1>0, <1>3 DEF Started, Start
    <2>2. QED  BY <1>1, <1>3, <2>1 DEF Level
  <1>4. CASE q = r /\ Advances(r)
    <2>1. req'[r].at # "count"  BY <1>4 DEF Advances, Tracks
    <2>2. QED  BY <1>1, <1>4, <2>1 DEF Level
  <1>5. CASE q = r /\ Ends(r)  BY <1>1, <1>5 DEF Ends, Idle, Level
  <1>6. CASE UNCHANGED req  BY <1>6 DEF Level
  <1>7. QED  BY <1>1, <1>2, <1>3, <1>4, <1>5, <1>6 DEF Course

LEMMA LevelsWait ==
  ASSUME TypeOK, Time \/ UNCHANGED vars, NEW q \in Requests
  PROVE  Level(q)' = Level(q)
  <1>0. req[q] \in Request /\ req[q].row \in Row /\ user \in Row  BY DEF TypeOK, Request
  <1>1. CASE LockEnds
    <2>1. user'.attempts = user.attempts  BY <1>0, <1>1 DEF LockEnds, Row
    <2>2. req'[q] = req[q] \/ req'[q] = [req[q] EXCEPT !.row.lock = "over"]
      BY <1>1 DEF LockEnds
    <2>3. req'[q].at = req[q].at /\ req'[q].row.attempts = req[q].row.attempts
      BY <1>0, <2>2 DEF Request, Row
    <2>4. QED  BY <2>1, <2>3 DEF Level
  <1>2. CASE UNCHANGED <<user, req>>  BY <1>2 DEF Level
  <1>3. QED  BY <1>1, <1>2 DEF Time, TokensExpire, ResetExpires, vars

LEMMA LockNext ==
  ASSUME TypeOK, TypeOK', OnTrack, LockOK, [Next]_vars
  PROVE  LockOK'
  <1>1. ASSUME NEW r \in Requests, Handled(r) PROVE LockOK'
    <2>1. CASE IncrementFailedLogin(r)  BY <2>1, LockFailure
    <2>2. CASE ~IncrementFailedLogin(r)
      <3>1. CASE hist'.failures = 0
        <4>1. (TypeOK /\ hist.failures = 0 => LockOK)'  BY LockReset, PTL
        <4>2. QED  BY <3>1, <4>1
      <3>2. CASE hist'.failures # 0
        <4>1. /\ user'.attempts = user.attempts
              /\ hist'.failures = hist.failures /\ hist'.locked = hist.locked
          BY <1>1, <2>2, <3>2, Quiet
        <4>2. \A q \in Requests : Level(q)' = Level(q)  BY <1>1, <2>2, <4>1, LevelsKept
        <4>3. QED  BY <4>1, <4>2, LockQuiet
      <3>3. QED  BY <3>1, <3>2
    <2>3. QED  BY <2>1, <2>2
  <1>2. CASE Time \/ UNCHANGED vars
    <2>1. \A q \in Requests : Level(q)' = Level(q)  BY <1>2, LevelsWait
    <2>2. UNCHANGED hist  BY <1>2, Waits
    <2>3. QED  BY <2>1, <2>2, LockQuiet
  <1>3. QED  BY <1>1, <1>2 DEF Next, Handled

\* Enough failed attempts since the last reset lock the account, however many
\* of them overlap and save counts that others have saved before.
THEOREM Locked == Spec => []LockedInTime
  <1> DEFINE Inv == OnTrack /\ LockOK
  <1>1. Init => Inv
    <2> SUFFICES ASSUME Init PROVE Inv  OBVIOUS
    <2>1. TypeOK  BY TypeInit
    <2>2. hist.failures = 0 /\ \A r \in Requests : req[r] = Idle  BY DEF Init
    <2>3. OnTrack  BY <2>2 DEF OnTrack, Stops, Idle
    <2>4. QED  BY <2>1, <2>2, <2>3, LockReset
  <1>2. TypeOK /\ TypeOK' /\ Inv /\ [Next]_vars => Inv'
    BY OnTrackNext, LockNext
  <1>3. TypeOK /\ Inv => LockedInTime
    <2> SUFFICES ASSUME TypeOK, Inv, ~hist.locked,
                        hist.failures >= Enough[<<Cardinality(Requests), MaxAttempts>>]
                 PROVE  FALSE
      BY DEF LockedInTime
    <2>1. PICK b : /\ Chain(b, MaxAttempts - 1, MaxAttempts, Counts)
                   /\ hist.failures <= b[MaxAttempts - 1]
      BY DEF LockOK
    <2>2. PICK k \in Nat, n \in Nat \ {0} : k = Cardinality(Requests) /\ n = MaxAttempts
      BY AccountsAssumption, FS_CardinalityType
    <2> DEFINE s == Counts
    <2>3. s \in [0..n -> Nat] /\ \A j \in 0..n : s[j] <= k
      <3>1. \A j \in 0..n : s[j] \in Nat /\ s[j] <= k  BY <2>2, CountsFacts
      <3>2. s = [j \in 0..n |-> Cardinality(Above(j))]  BY <2>2 DEF Counts
      <3>3. QED  BY <3>1, <3>2
    <2>4. 1 + b[n - 1] <= Enough[<<k, n>>]
      <3>1. n - 1 \in Nat /\ n - 1 < n /\ n \in 1..((n - 1) + 1)  OBVIOUS
      <3>2. \A y \in 1..(n - 1) : s[n - y] <= k
        <4>1. \A y \in 1..(n - 1) : n - y \in 0..n  OBVIOUS
        <4>2. QED  BY <2>3, <4>1
      <3>3. Chain(b, n - 1, n, s)  BY <2>1, <2>2
      <3>4. QED  BY <2>3, <3>1, <3>2, <3>3, ChainBound
    <2>5. b[n - 1] \in Nat /\ Enough[<<k, n>>] \in Nat /\ hist.failures \in Nat
      <3>1. n - 1 \in 0..(n - 1)  OBVIOUS
      <3>2. b[n - 1] \in Nat  BY <2>1, <2>2, <3>1 DEF Chain
      <3>3. Enough[<<k, n>>] \in Nat  BY EnoughSums
      <3>4. QED  BY <3>2, <3>3 DEF TypeOK, History
    <2>6. hist.failures <= b[n - 1]  BY <2>1, <2>2
    <2>7. hist.failures < Enough[<<k, n>>]  BY <2>4, <2>5, <2>6
    <2>8. QED  BY <2>2, <2>5, <2>7
  <1> HIDE DEF Inv
  <1>4. QED  BY <1>1, <1>2, <1>3, TypeCorrect, PTL DEF Spec

=============================================================================

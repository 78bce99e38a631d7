------------------------------ MODULE Accounts ------------------------------
(***************************************************************************)
(* One user account of apps.accounts: sign-in with a password and a second *)
(* factor, the shared lockout counter, backup codes, password resets, the  *)
(* owner's PATCH of a staff member, and the refresh tokens of its browser. *)
(*                                                                         *)
(* Every request loads the user row once and later saves columns of that   *)
(* copy, statement by statement: nothing serialises two requests.          *)
(* `req[r].at` names the statement that request r executes next.           *)
(* Passwords, TOTP secrets, backup codes, reset tokens and sign-ins are    *)
(* numbered by the request that makes them.  A code typed from the         *)
(* authenticator app is right if the app holds the secret of the loaded    *)
(* row.                                                                    *)
(***************************************************************************)
EXTENDS Naturals, FiniteSets

CONSTANTS
    Requests,     \* requests that may be in flight together
    MaxAttempts,  \* failures that lock the account: 5 in the code
    MaxServed     \* bound: requests started; number 1 is the account's past

ASSUME AccountsAssumption ==
    IsFiniteSet(Requests) /\ MaxAttempts \in Nat \ {0} /\ MaxServed \in Nat \ {0}

VARIABLES
    user,      \* the accounts_user row
    app,       \* the secret in the user's authenticator app, 0 if none
    codes,     \* accounts_mfa_backup_code rows, one for a batch of ten
    tokens,    \* purposes of the step-up tokens the user holds
    resets,    \* accounts_password_reset_token rows
    sessions,  \* per sign-in: its refresh token, and how many rotated ones live
    browser,   \* the sign-in whose refresh token localStorage holds, 0 if none
    req,       \* per request: its next statement, operation, number, copy
    served,    \* requests started
    hist       \* what has happened, for the properties

vars == <<user, app, codes, tokens, resets, sessions, browser, req, served, hist>>

Serial == 1..MaxServed
Row == [active : BOOLEAN, attempts : Nat,
        lock : {"none", "running", "over"}, mfa : BOOLEAN,
        secret : 0..MaxServed, password : Serial]
Operations == {"none", "login", "setup", "confirm", "verify", "unenrol", "password", "patch",
               "refresh"}
Steps == {"done", "count", "clear", "token", "secret", "enable", "wipe", "store", "consume",
          "issue", "disable", "save", "spend", "rotate"}
Request == [op : Operations, at : Steps, n : Serial, arg : 0..MaxServed, row : Row]

\* The requests that save columns another request may have loaded.
Savers == {"confirm", "unenrol", "password", "patch"}
History == [wrong : Nat, failures : Nat, locked : BOOLEAN, password : Serial, active : BOOLEAN,
            met : SUBSET SUBSET Savers, used : [Serial -> Nat], spent : [Serial -> Nat]]
Busy(op) == \E r \in Requests : req[r].op = op
Free(r) == req[r].op = "none" /\ served < MaxServed
At(r, step) == req[r].at = step

\* The request loads the row; hist.met keeps which savers were in flight together.
Start(r, op, step, arg) ==
    /\ req' = [req EXCEPT ![r] = [op |-> op, at |-> step, n |-> served + 1, arg |-> arg, row |-> user]]
    /\ served' = served + 1
    /\ hist' = [hist EXCEPT !.met = @ \cup
                   {{op, other} : other \in {o \in Savers : Busy(o) /\ op \in Savers}}]
Goto(r, step) == req' = [req EXCEPT ![r].at = step]

NewRow == [active |-> TRUE, attempts |-> 0, lock |-> "none", mfa |-> FALSE, secret |-> 0,
           password |-> 1]
Idle == [op |-> "none", at |-> "done", n |-> 1, arg |-> 0, row |-> NewRow]
Done(r) == req' = [req EXCEPT ![r] = Idle]

Init ==
    /\ \E enrolled \in {0, 1} :
         /\ user = [NewRow EXCEPT !.mfa = (enrolled = 1), !.secret = enrolled]
         /\ app = enrolled
         /\ codes = [c \in Serial |-> IF c = enrolled THEN "unused" ELSE "absent"]
    /\ tokens = {} /\ browser = 0 /\ served = 1
    /\ resets = [t \in Serial |-> "absent"]
    /\ sessions = [s \in Serial |-> [token |-> "absent", rotated |-> 0]]
    /\ req = [r \in Requests |-> Idle]
    /\ hist = [wrong |-> 0, failures |-> 0, locked |-> FALSE, password |-> 1, active |-> TRUE, met |-> {},
               used |-> [c \in Serial |-> 0], spent |-> [t \in Serial |-> 0]]

(***************************************************************************)
(* Statements the sign-in endpoints share                                  *)
(***************************************************************************)
\* Mutant of IncrementFailedLogin: one failure more than the policy allows.
IncrementLenient(r) ==
    LET n == req[r].row.attempts + 1
        locks == n > MaxAttempts
    IN  /\ At(r, "count")
        /\ user' = [user EXCEPT !.attempts = n,
                                !.lock = IF locks THEN "running" ELSE req[r].row.lock]
        /\ hist' = [hist EXCEPT !.wrong = @ + 1, !.failures = @ + 1, !.locked = @ \/ locks]
        /\ Done(r)
        /\ UNCHANGED <<app, codes, tokens, resets, sessions, browser, served>>

\* Mutant of IncrementFailedLogin: the row is incremented for the password
\* check and for the request.
IncrementTwice(r) ==
    LET n == req[r].row.attempts + 2
        locks == n >= MaxAttempts
    IN  /\ At(r, "count")
        /\ user' = [user EXCEPT !.attempts = n,
                                !.lock = IF locks THEN "running" ELSE req[r].row.lock]
        /\ hist' = [hist EXCEPT !.wrong = @ + 1, !.failures = @ + 1, !.locked = @ \/ locks]
        /\ Done(r)
        /\ UNCHANGED <<app, codes, tokens, resets, sessions, browser, served>>

\* increment_failed_login saves the copy's count plus one and the copy's
\* locked_until, moved only when the count is reached.
IncrementFailedLogin(r) ==
    LET n == req[r].row.attempts + 1
        locks == n >= MaxAttempts
    IN  /\ At(r, "count")
        /\ user' = [user EXCEPT !.attempts = n,
                                !.lock = IF locks THEN "running" ELSE req[r].row.lock]
        /\ hist' = [hist EXCEPT !.wrong = @ + 1, !.failures = @ + 1, !.locked = @ \/ locks]
        /\ Done(r)
        /\ UNCHANGED <<app, codes, tokens, resets, sessions, browser, served>>

Following == [login |-> "token", confirm |-> "enable", verify |-> "issue", password |-> "save"]

\* reset_failed_login writes only if the copy shows a failure or a lock.
ResetFailedLogin(r) ==
    LET dirty == req[r].row.attempts > 0 \/ req[r].row.lock # "none"
    IN  /\ At(r, "clear")
        /\ user' = IF dirty THEN [user EXCEPT !.attempts = 0, !.lock = "none"] ELSE user
        /\ hist' = IF dirty THEN [hist EXCEPT !.failures = 0, !.locked = FALSE] ELSE hist
        /\ req' = [req EXCEPT ![r].at = Following[req[r].op],
                              ![r].row.attempts = 0, ![r].row.lock = "none"]
        /\ UNCHANGED <<app, codes, tokens, resets, sessions, browser, served>>

\* issue_tokens; the browser stores the pair.
IssueTokens(r) ==
    /\ At(r, "issue")
    /\ sessions' = [sessions EXCEPT ![req[r].n].token = "live"]
    /\ browser' = req[r].n
    /\ Done(r)
    /\ UNCHANGED <<user, app, codes, tokens, resets, served, hist>>

(***************************************************************************)
(* Sign-in, first factor: LoginSerializer.validate                         *)
(***************************************************************************)
Login(r) ==
    /\ Free(r) /\ user.lock # "running"
    /\ \/ user.active /\ Start(r, "login", "clear", 0)
       \/ Start(r, "login", "count", 0)
    /\ UNCHANGED <<user, app, codes, tokens, resets, sessions, browser>>

\* Whether a second factor is enrolled is read from the copy.
StepUpToken(r) ==
    /\ At(r, "token")
    /\ tokens' = tokens \cup {IF req[r].row.mfa THEN "mfa_challenge" ELSE "mfa_setup"}
    /\ Done(r)
    /\ UNCHANGED <<user, app, codes, resets, sessions, browser, served, hist>>

(***************************************************************************)
(* Enrolment                                                               *)
(***************************************************************************)
\* IsMFAPending, and JWTAuthentication's test of is_active.
Pending(r, purpose) == Free(r) /\ user.active /\ purpose \in tokens

MFASetup(r) ==
    /\ Pending(r, "mfa_setup") /\ Start(r, "setup", "secret", 0)
    /\ UNCHANGED <<user, app, codes, tokens, resets, sessions, browser>>

\* The user adds the secret of the answer to the app, or does not.
SaveSecret(r) ==
    /\ At(r, "secret")
    /\ user' = [user EXCEPT !.secret = req[r].n]
    /\ app' \in {app, req[r].n}
    /\ Done(r)
    /\ UNCHANGED <<codes, tokens, resets, sessions, browser, served, hist>>

MFASetupConfirm(r) ==
    /\ Pending(r, "mfa_setup") /\ user.secret # 0
    /\ \/ app = user.secret /\ Start(r, "confirm", "clear", 0)
       \/ Start(r, "confirm", "count", 0)
    /\ UNCHANGED <<user, app, codes, tokens, resets, sessions, browser>>

Enable(r) ==
    /\ At(r, "enable")
    /\ user' = [user EXCEPT !.mfa = TRUE]
    /\ Goto(r, "wipe")
    /\ UNCHANGED <<app, codes, tokens, resets, sessions, browser, served, hist>>

\* store_backup_codes deletes the old rows and then inserts the new ones.
WipeCodes(r) ==
    /\ At(r, "wipe")
    /\ codes' = [c \in Serial |-> "absent"]
    /\ IF req[r].op = "confirm" THEN Goto(r, "store") ELSE Done(r)
    /\ UNCHANGED <<user, app, tokens, resets, sessions, browser, served, hist>>

StoreCodes(r) ==
    /\ At(r, "store")
    /\ codes' = [codes EXCEPT ![req[r].n] = "unused"]
    /\ Goto(r, "issue")
    /\ UNCHANGED <<user, app, tokens, resets, sessions, browser, served, hist>>

(***************************************************************************)
(* Sign-in, second factor                                                  *)
(***************************************************************************)
MFAVerify(r) ==
    /\ Pending(r, "mfa_challenge")
    /\ \/ user.secret # 0 /\ app = user.secret /\ Start(r, "verify", "clear", 0)
       \/ Start(r, "verify", "count", 0)
    /\ UNCHANGED <<user, app, codes, tokens, resets, sessions, browser>>

\* verify_and_consume_backup_code looks for an unused row ...
LookUpCode(r) ==
    /\ Pending(r, "mfa_challenge")
    /\ \E c \in Serial : codes[c] = "unused" /\ Start(r, "verify", "consume", c)
    /\ UNCHANGED <<user, app, codes, tokens, resets, sessions, browser>>

\* Mutant of ConsumeCode: used_at is set on the instance and not saved.
ConsumeUnsaved(r) ==
    LET c == req[r].arg
    IN  /\ At(r, "consume")
        /\ hist' = [hist EXCEPT !.used[c] = @ + 1]
        /\ Goto(r, "clear")
        /\ UNCHANGED <<user, app, codes, tokens, resets, sessions, browser, served>>

\* ... and saves used_at in it, which fails if the row has been deleted.
ConsumeCode(r) ==
    LET c == req[r].arg
    IN  /\ At(r, "consume")
        /\ \/ /\ codes[c] = "absent"
              /\ Done(r)
              /\ UNCHANGED <<codes, hist>>
           \/ /\ codes[c] # "absent"
              /\ codes' = [codes EXCEPT ![c] = "used"]
              /\ hist' = [hist EXCEPT !.used[c] = @ + 1]
              /\ Goto(r, "clear")
        /\ UNCHANGED <<user, app, tokens, resets, sessions, browser, served>>

(***************************************************************************)
(* MFAResetView, and manage.py reset_mfa, which skips an account that has  *)
(* nothing to reset                                                        *)
(***************************************************************************)
MFAReset(r) ==
    /\ Free(r) /\ Start(r, "unenrol", "disable", 0)
    /\ UNCHANGED <<user, app, codes, tokens, resets, sessions, browser>>

ResetMfaCommand(r) == (user.mfa \/ user.secret # 0) /\ MFAReset(r)

Disable(r) ==
    /\ At(r, "disable")
    /\ user' = [user EXCEPT !.mfa = FALSE, !.secret = 0]
    /\ Goto(r, "wipe")
    /\ UNCHANGED <<app, codes, tokens, resets, sessions, browser, served, hist>>

(***************************************************************************)
(* Passwords                                                               *)
(***************************************************************************)
ForgotPassword(r) ==
    /\ Free(r) /\ user.active
    /\ served' = served + 1
    /\ resets' = [resets EXCEPT ![served + 1] = "valid"]
    /\ UNCHANGED <<user, app, codes, tokens, sessions, browser, req, hist>>

ResetPassword(r) ==
    /\ Free(r)
    /\ \E t \in Serial : resets[t] = "valid" /\ Start(r, "password", "clear", t)
    /\ UNCHANGED <<user, app, codes, tokens, resets, sessions, browser>>

\* user.save() names no columns: every column of the copy is written.
SavePassword(r) ==
    /\ At(r, "save") /\ req[r].op = "password"
    /\ user' = [req[r].row EXCEPT !.password = req[r].n]
    /\ hist' = [hist EXCEPT !.password = req[r].n, !.spent[req[r].arg] = @ + 1,
                            !.failures = 0, !.locked = FALSE]
    /\ Goto(r, "spend")
    /\ UNCHANGED <<app, codes, tokens, resets, sessions, browser, served>>

SpendToken(r) ==
    /\ At(r, "spend")
    /\ resets' = [resets EXCEPT ![req[r].arg] = "used"]
    /\ Done(r)
    /\ UNCHANGED <<user, app, codes, tokens, sessions, browser, served, hist>>

(***************************************************************************)
(* The owner's PATCH of the staff member: serializer.save() writes every   *)
(* column too.                                                             *)
(***************************************************************************)
PatchStaff(r) ==
    /\ Free(r) /\ Start(r, "patch", "save", 0)
    /\ UNCHANGED <<user, app, codes, tokens, resets, sessions, browser>>

\* Mutant of SaveStaff: the temporary password is set again.
SaveStaffReset(r) ==
    /\ At(r, "save") /\ req[r].op = "patch"
    /\ user' = [req[r].row EXCEPT !.password = 1]
    /\ hist' = [hist EXCEPT !.failures = 0, !.locked = FALSE]
    /\ Done(r)
    /\ UNCHANGED <<app, codes, tokens, resets, sessions, browser, served>>

SaveStaff(r) ==
    /\ At(r, "save") /\ req[r].op = "patch"
    /\ \/ \E active \in BOOLEAN :
            /\ user' = [req[r].row EXCEPT !.active = active]
            /\ hist' = [hist EXCEPT !.active = active, !.failures = 0, !.locked = FALSE]
       \/ /\ user' = req[r].row      \* another field is patched
          /\ hist' = [hist EXCEPT !.failures = 0, !.locked = FALSE]
    /\ Done(r)
    /\ UNCHANGED <<app, codes, tokens, resets, sessions, browser, served>>

(***************************************************************************)
(* Sessions.  A refresh mints a new refresh token and blacklists the one   *)
(* it was asked with, which was checked before; refreshAccessToken in the  *)
(* browser keeps the access token of the answer and nothing else.          *)
(***************************************************************************)
Refresh(r) ==
    /\ Free(r) /\ browser # 0 /\ user.active
    /\ \/ sessions[browser].token = "live" /\ Start(r, "refresh", "rotate", browser)
          /\ UNCHANGED browser
       \/ sessions[browser].token # "live" /\ browser' = 0      \* clearSession
          /\ served' = served + 1 /\ UNCHANGED <<req, hist>>
    /\ UNCHANGED <<user, app, codes, tokens, resets, sessions>>

Rotate(r) ==
    /\ At(r, "rotate")
    /\ sessions' = [sessions EXCEPT ![req[r].arg] = [token |-> "rotated", rotated |-> @.rotated + 1]]
    /\ Done(r)
    /\ UNCHANGED <<user, app, codes, tokens, resets, browser, served, hist>>

\* LogoutView, asked by logout() with the token the browser holds.
Logout(r) ==
    /\ Free(r) /\ browser # 0
    /\ served' = served + 1
    /\ sessions' = [sessions EXCEPT ![browser].token = "revoked"]
    /\ browser' = 0
    /\ UNCHANGED <<user, app, codes, tokens, resets, req, hist>>

\* SessionRevokeView: any live token SessionListView lists.
RevokeSession(r) ==
    /\ Free(r)
    /\ \E s \in Serial :
         \/ sessions[s].token = "live" /\ sessions' = [sessions EXCEPT ![s].token = "revoked"]
         \/ sessions[s].rotated > 0 /\ sessions' = [sessions EXCEPT ![s].rotated = @ - 1]
    /\ served' = served + 1
    /\ UNCHANGED <<user, app, codes, tokens, resets, browser, req, hist>>

(***************************************************************************)
(* Time: thirty minutes of a lock, ten of a step-up token, an hour of a    *)
(* reset token                                                             *)
(***************************************************************************)
LockEnds ==
    /\ user.lock = "running"
    /\ user' = [user EXCEPT !.lock = "over"]
    /\ req' = [r \in Requests |-> IF req[r].row.lock = "running"
                                  THEN [req[r] EXCEPT !.row.lock = "over"] ELSE req[r]]
    /\ UNCHANGED <<app, codes, tokens, resets, sessions, browser, served, hist>>

TokensExpire ==
    /\ tokens # {} /\ tokens' = {}
    /\ UNCHANGED <<user, app, codes, resets, sessions, browser, req, served, hist>>

ResetExpires ==
    /\ \E t \in Serial : resets[t] = "valid" /\ resets' = [resets EXCEPT ![t] = "expired"]
    /\ UNCHANGED <<user, app, codes, tokens, sessions, browser, req, served, hist>>

SignIn(r) ==
    \/ Login(r) \/ StepUpToken(r) \/ IncrementFailedLogin(r) \/ ResetFailedLogin(r)
    \/ MFAVerify(r) \/ LookUpCode(r) \/ ConsumeCode(r) \/ IssueTokens(r)
Enrolment(r) ==
    \/ MFASetup(r) \/ SaveSecret(r) \/ MFASetupConfirm(r) \/ Enable(r) \/ WipeCodes(r)
    \/ StoreCodes(r) \/ MFAReset(r) \/ ResetMfaCommand(r) \/ Disable(r)
Passwords(r) ==
    ForgotPassword(r) \/ ResetPassword(r) \/ SavePassword(r) \/ SpendToken(r)
Staff(r) == PatchStaff(r) \/ SaveStaff(r)
Sessions(r) == Refresh(r) \/ Rotate(r) \/ Logout(r) \/ RevokeSession(r)
Time == LockEnds \/ TokensExpire \/ ResetExpires

Next ==
    \/ \E r \in Requests :
         SignIn(r) \/ Enrolment(r) \/ Passwords(r) \/ Staff(r) \/ Sessions(r)
    \/ Time

Spec == Init /\ [][Next]_vars

(***************************************************************************)
(* Properties                                                              *)
(***************************************************************************)
Met(a, b) == {a, b} \in hist.met

\* Type invariant of accounts_user, its tokens and the requests in flight.
TypeOK ==
    /\ user \in Row /\ app \in 0..MaxServed
    /\ codes \in [Serial -> {"absent", "unused", "used"}]
    /\ tokens \subseteq {"mfa_setup", "mfa_challenge"}
    /\ resets \in [Serial -> {"absent", "valid", "used", "expired"}]
    /\ sessions \in [Serial -> [token : {"absent", "live", "rotated", "revoked"}, rotated : Nat]]
    /\ browser \in 0..MaxServed /\ served \in Serial
    /\ req \in [Requests -> Request] /\ hist \in History

\* How many failed attempts p[2], the limit, needs when p[1] requests overlap: a
\* slow one writes back the count it loaded, so the lock comes late but it comes.
Enough[p \in Nat \X (Nat \ {0})] ==
    IF p[1] = 0 \/ p[2] = 1 THEN 1
    ELSE Enough[<<p[1] - 1, p[2]>>] + Enough[<<p[1], p[2] - 1>>]

\* Failed passwords and codes lock the account, whatever overlaps, once there
\* are enough of them since the last reset or save of the whole row.
LockedInTime == hist.failures >= Enough[<<Cardinality(Requests), MaxAttempts>>] => hist.locked

\* The counter never runs ahead of the failures: an account has been locked
\* only if MaxAttempts attempts on it have failed.
LockExplained ==
    /\ user.attempts <= hist.wrong
    /\ user.lock # "none" => hist.wrong >= MaxAttempts

\* Backup codes, reset tokens and refresh tokens are used up: each serves no
\* more requests than can have looked it up before it was marked.
SingleUse ==
    \A n \in Serial : {hist.used[n], hist.spent[n], sessions[n].rotated}
                          \subseteq 0..Cardinality(Requests)

\* Saves of the whole row undo each other only where they overlap: otherwise
\* the password is the one last set, the account is active or not as the owner
\* last said, and one whose second factor is on has a secret to check it with.
LastWordHolds ==
    /\ user.password # hist.password => Met("password", "patch")
    /\ user.active # hist.active => Met("password", "patch") \/ Met("patch", "patch")
    /\ user.mfa /\ user.secret = 0 => \E op \in {"unenrol", "password", "patch"} : Met("confirm", op)

=============================================================================

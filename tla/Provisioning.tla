---------------------------- MODULE Provisioning ----------------------------
(***************************************************************************)
(* How tenants and accounts come to be: the super admin onboards a         *)
(* business (OnboardBusinessView), and a developer runs the commands       *)
(* seed_dev_data, createsuperadmin and provision_e2e_user, again and again *)
(* on a database that people have worked with meanwhile.                   *)
(*                                                                         *)
(* A command's effect is a function of the database: it returns the new    *)
(* one, and whether it ran to its end.  seed_dev_data and                  *)
(* provision_e2e_user are one transaction; one that raises changes         *)
(* nothing.  Onboardings are transactions too, and overlap: what one has   *)
(* inserted the others do not see before it commits, but a unique value it *)
(* holds makes them wait.                                                  *)
(***************************************************************************)
EXTENDS Integers, Sequences, FiniteSets

CONSTANTS
  Samples,     \* names of the sample businesses' tenants, in their order
  E2E,         \* name of the e2e tenant
  People,      \* whom businesses are onboarded for
  Names,       \* tenant names they are onboarded with
  Long,        \* names whose slug is too long for an invoice's number
  Requests,    \* onboardings in flight together
  MaxTenants,  \* bound: tenants
  MaxEdits     \* bound: changes people make

Sampled == {Samples[n] : n \in DOMAIN Samples}

ASSUME ProvisioningAssumption ==
  /\ Samples \in Seq(Sampled) /\ Sampled \cap Long = {}
  /\ MaxTenants \in Nat /\ MaxEdits \in Nat

VARIABLES
  plans,    \* of the plans by the slugs starter and growth: "missing", "there", or
            \* "taken": one is missing whose name, which is unique, another plan has
  tenants,  \* tenant rows, by age, each with its business and what is in it
  users,    \* accounts_user rows, by address
  req,      \* per onboarding: next statement, and the rows it has inserted
  edits     \* changes people have made

vars == <<plans, tenants, users, req, edits>>

Owner(b) == <<"owner", b>>
Staff(b) == <<"staff", b>>
Admin(x) == <<"admin", x>>
Super == Admin("platform")

\* A new tenant: its slug is the name, numbered from the second on.  The name
\* of its business may be too long to be part of the assistant's.
Tenant(name, n, business, plan) ==
  [name |-> name, slug |-> n, status |-> "trial", business |-> business, plan |-> plan,
   ai |-> "none", documents |-> 0, customer |-> "none", optin |-> FALSE, chats |-> 0,
   setup |-> 0, invoice |-> "none", order |-> "none"]
User(t) == [tenant |-> t, enrolled |-> FALSE, codes |-> 0]
With(us, e, row) == [x \in DOMAIN us \cup {e} |-> IF x = e THEN row ELSE us[x]]

\* Mutant of FreeSlug: the slug is the name.
PlainSlug(ts, name) == 1

\* Tenant.save: the first number that is not taken.
FreeSlug(ts, name) ==
  LET used == {ts[i].slug : i \in {j \in DOMAIN ts : ts[j].name = name}}
  IN  CHOOSE n \in 1..(Len(ts) + 1) : n \notin used /\ \A m \in 1..(n - 1) : m \in used

(***************************************************************************)
(* seed_dev_data                                                           *)
(***************************************************************************)
\* _seed_mfa: those not yet enrolled are, with a set of backup codes.
SeedMFA(us, emails) ==
  [e \in DOMAIN us |-> IF e \in emails /\ ~us[e].enrolled
                       THEN [us[e] EXCEPT !.enrolled = TRUE, !.codes = 1] ELSE us[e]]

\* handle looks for the two plans by slug.
SeedPlans(db) == [db EXCEPT !.ok = @ /\ db.plans # "taken", !.plans = "there"]

\* What is seeded for a business is created where it is missing: the
\* assistant's settings, which are unique to the business, the deleted ones
\* that are not found included, ...
AISeedable(t) == t.ai # "deleted" /\ (t.business = "long" => t.ai = "live")
SeedAISettings(t) == [t EXCEPT !.ai = IF @ = "none" THEN "live" ELSE @]

\* Mutant of SeedKnowledge: documents are created without looking.
SeedMore(t) == [t EXCEPT !.documents = @ + 1]

\* ... a document, by its title, which nothing makes unique, ...
KnowledgeSeedable(t) == t.documents <= 1
SeedKnowledge(t) == [t EXCEPT !.documents = IF @ = 0 THEN 1 ELSE @]

\* ... a customer, by the number, which a deleted one keeps: a new one comes
\* with a conversation, one that is there is opted in again, ...
CustomersSeedable(t) == t.customer # "deleted"
SeedCustomers(t) ==
  [t EXCEPT !.customer = "live", !.optin = TRUE, !.chats = IF t.customer = "none" THEN @ + 1 ELSE @]

\* ... template, segment and campaign, by names that nothing makes unique, ...
CampaignsSeedable(t) == t.setup <= 1
SeedCampaignSetup(t) == [t EXCEPT !.setup = IF @ = 0 THEN 1 ELSE @]

\* ... and the month's invoice, if there is a plan: its number is that of one
\* made out from another day of the month, and of a deleted one.
InvoiceSeedable(t) ==
  t.plan => /\ t.invoice \notin {"midmonth", "deleted"}
            /\ t.invoice = "none" => t.name \notin Long
SeedInvoice(t) == [t EXCEPT !.invoice = IF @ = "none" /\ t.plan THEN "first" ELSE @]

\* Whether all of this can be done, and what it makes of the tenant; a tenant
\* whose business has been deleted is left alone.
Seedable(t) ==
  t.business = "none" \/ /\ AISeedable(t) /\ KnowledgeSeedable(t) /\ CustomersSeedable(t)
                         /\ CampaignsSeedable(t) /\ InvoiceSeedable(t)
SeedContents(t) ==
  IF t.business = "none" THEN t
  ELSE SeedInvoice(SeedCampaignSetup(SeedCustomers(SeedKnowledge(SeedAISettings(t)))))

\* A new business sells products, and its customer has ordered one of them.
SeedSampleOrder(t) == [t EXCEPT !.order = IF t.chats > 0 THEN "confirmed" ELSE @]

\* _seed_staff: hired unless the address is taken, and enrolled.
SeedStaff(us, b, n) ==
  IF Staff(b) \in DOMAIN us THEN us ELSE SeedMFA(With(us, Staff(b), User(n)), {Staff(b)})

\* Mutant of Backfill: accounts that are there are left alone.
BackfillContents(db, b) ==
  LET t == db.users[Owner(b)].tenant
  IN  [ok |-> db.ok /\ Seedable(db.tenants[t]), plans |-> db.plans,
       tenants |-> [db.tenants EXCEPT ![t] = SeedContents(@)],
       users |-> db.users]

\* The owner is there: what is missing is filled in, staff is not.
Backfill(db, b) ==
  LET t == db.users[Owner(b)].tenant
  IN  [ok |-> db.ok /\ Seedable(db.tenants[t]), plans |-> db.plans,
       tenants |-> [db.tenants EXCEPT ![t] = SeedContents(@)],
       users |-> SeedMFA(db.users, {Owner(b), Staff(b)})]

\* Nobody has the owner's address: all is created, on the plan Starter, unless
\* the slug is taken.
Create(db, b) ==
  LET n == Len(db.tenants) + 1
      new == [Tenant(b, FreeSlug(db.tenants, b), "named", TRUE) EXCEPT !.status = "active"]
      owned == SeedMFA(With(db.users, Owner(b), User(n)), {Owner(b)})
      free == \A i \in DOMAIN db.tenants :
                <<db.tenants[i].name, db.tenants[i].slug>> # <<b, new.slug>>
  IN  [ok |-> db.ok /\ free /\ Seedable(new),
       plans |-> db.plans, tenants |-> Append(db.tenants, SeedSampleOrder(SeedContents(new))),
       users |-> SeedStaff(owned, b, n)]

SeedSample(db, b) ==
  IF Owner(b) \in DOMAIN db.users THEN Backfill(db, b) ELSE Create(db, b)

\* handle: one sample after the other, when the plans are there.
SeedSamples(db) ==
  LET seed[n \in 0..Len(Samples)] ==
        IF n = 0 THEN db ELSE SeedSample(seed[n - 1], Samples[n])
  IN  seed[Len(Samples)]
SeedAll(db) == SeedSamples(SeedPlans(db))

(***************************************************************************)
(* createsuperadmin, provision_e2e_user                                    *)
(***************************************************************************)
\* The account is created if it is missing, and enrolled if it is not.
Superadmin(db) ==
  [db EXCEPT !.users =
     SeedMFA(IF Super \in DOMAIN @ THEN @ ELSE With(@, Super, User(0)), {Super})]

\* _finish_provisioning: enrolled with the known secret, without backup codes.
Known(t) == [tenant |-> t, enrolled |-> TRUE, codes |-> 0]

\* The tenant is found by its name, of which there may be several (an error),
\* or created, on the default plan; it is made active and has a business, the
\* two accounts are reset.
ProvisionE2E(db) ==
  LET found == {i \in DOMAIN db.tenants : db.tenants[i].name = E2E}
      new == Tenant(E2E, FreeSlug(db.tenants, E2E), "named", db.plans = "there")
      ts == IF found = {} THEN Append(db.tenants, new) ELSE db.tenants
      t == IF found = {} THEN Len(ts) ELSE CHOOSE i \in found : TRUE
  IN  [ok |-> db.ok /\ Cardinality(found) <= 1, plans |-> db.plans,
       tenants |-> [ts EXCEPT ![t].status = "active",
                              ![t].business = IF @ = "none" THEN "named" ELSE @],
       users |-> With(With(db.users, Owner(E2E), Known(t)), Admin(E2E), Known(0))]

Commands == {"seed", "superadmin", "e2e"}
Run(command, db) ==
  CASE command = "seed" -> SeedAll(db)
    [] command = "superadmin" -> Superadmin(db)
    [] command = "e2e" -> ProvisionE2E(db)

Database == [ok |-> TRUE, plans |-> plans, tenants |-> tenants, users |-> users]
NoRequest == [at |-> "idle", name |-> E2E, email |-> Super, slug |-> 0]
Quiet == \A r \in Requests : req[r].at = "idle"

Init ==
  /\ plans = "missing" /\ tenants = <<>> /\ users = [e \in {} |-> User(0)]
  /\ req = [r \in Requests |-> NoRequest] /\ edits = 0

\* A command that runs to its end while nobody is being onboarded; one that
\* raises, or dies, is rolled back.
RunCommand(command) ==
  /\ Quiet
  /\ LET db == Run(command, Database)
     IN  /\ db.ok /\ Len(db.tenants) <= MaxTenants
         /\ plans' = db.plans /\ tenants' = db.tenants /\ users' = db.users
  /\ UNCHANGED <<req, edits>>

\* createsuperadmin is no transaction: it may die before it has enrolled the
\* account it created, or stored the codes.
SuperadminDies ==
  /\ Quiet /\ (Super \in DOMAIN users => ~users[Super].enrolled)
  /\ \E enrolled \in BOOLEAN :
       users' = With(users, Super, [User(0) EXCEPT !.enrolled = enrolled])
  /\ UNCHANGED <<plans, tenants, req, edits>>

(***************************************************************************)
(* OnboardBusinessView, in one transaction                                 *)
(***************************************************************************)
At(r, step) == req[r].at = step
Goto(r, step) == req' = [req EXCEPT ![r].at = step]
Rollback(r) == req' = [req EXCEPT ![r] = NoRequest]

\* validate_owner_email, and Tenant.save looks for a slug, ...
ValidateOnboard(r) ==
  /\ At(r, "idle") /\ Len(tenants) < MaxTenants
  /\ \E name \in Names, person \in People :
       /\ Owner(person) \notin DOMAIN users
       /\ req' = [req EXCEPT ![r] = [at |-> "tenant", name |-> name, email |-> Owner(person),
                                     slug |-> FreeSlug(tenants, name)]]
  /\ UNCHANGED <<plans, tenants, users, edits>>

Holding(r) == {q \in Requests \ {r} :
  req[q].at \in {"owner", "commit"} /\ req[q].name = req[r].name /\ req[q].slug = req[r].slug}
Claiming(r) == {q \in Requests \ {r} : req[q].at = "commit" /\ req[q].email = req[r].email}

\* ... which another may have taken by the time it is inserted (a 500), ...
InsertTenant(r) ==
  /\ At(r, "tenant") /\ Holding(r) = {}
  /\ IF \E i \in DOMAIN tenants : tenants[i].name = req[r].name /\ tenants[i].slug = req[r].slug
     THEN Rollback(r) ELSE Goto(r, "owner")
  /\ UNCHANGED <<plans, tenants, users, edits>>

\* Mutant of InsertOwner: what is inserted is not rolled back.
InsertOwnerAlone(r) ==
  /\ At(r, "owner") /\ Claiming(r) = {}
  /\ IF req[r].email \in DOMAIN users
     THEN /\ tenants' = Append(tenants, Tenant(req[r].name, req[r].slug, "named", FALSE))
          /\ Rollback(r)
     ELSE /\ Goto(r, "commit") /\ UNCHANGED tenants
  /\ UNCHANGED <<plans, users, edits>>

\* ... and so may the owner's address be.
InsertOwner(r) ==
  /\ At(r, "owner") /\ Claiming(r) = {}
  /\ IF req[r].email \in DOMAIN users THEN Rollback(r) ELSE Goto(r, "commit")
  /\ UNCHANGED <<plans, tenants, users, edits>>

\* The plan is the one asked for, or the default, if there is any.  (Bound: the
\* business gets too long a name only later, in EditBusiness.)
Commit(r) ==
  /\ At(r, "commit") /\ Len(tenants) < MaxTenants
  /\ \E plan \in BOOLEAN :
       tenants' = Append(tenants, Tenant(req[r].name, req[r].slug, "named", plan))
  /\ users' = With(users, req[r].email, User(Len(tenants) + 1))
  /\ Rollback(r)
  /\ UNCHANGED <<plans, edits>>

\* The process dies before the transaction is committed.
Abort(r) ==
  /\ ~At(r, "idle") /\ Rollback(r)
  /\ UNCHANGED <<plans, tenants, users, edits>>

(***************************************************************************)
(* People at work                                                          *)
(***************************************************************************)
Editing == Quiet /\ edits < MaxEdits /\ edits' = edits + 1
Edit(i, t) ==
  /\ Editing
  /\ tenants' = [tenants EXCEPT ![i] = t]
  /\ UNCHANGED <<plans, users, req>>

\* The tenants the seed looks into.  (Bound: people work in these.)
Looked == {i \in DOMAIN tenants :
  \E b \in Sampled : Owner(b) \in DOMAIN users /\ users[Owner(b)].tenant = i}

\* Plans are created, deleted, and given other names and slugs.
EditPlans ==
  /\ Editing /\ plans' \in {"missing", "there", "taken"} \ {plans}
  /\ UNCHANGED <<tenants, users, req>>

\* Of what the seed created, people copy, rename and delete documents, ...
EditDocuments ==
  \E i \in Looked : LET t == tenants[i] IN
    /\ t.business # "none"
    /\ \/ t.documents < 2 /\ Edit(i, [t EXCEPT !.documents = @ + 1])
       \/ t.documents > 0 /\ Edit(i, [t EXCEPT !.documents = @ - 1])

\* ... and templates, segments and campaigns.
EditSetup ==
  \E i \in Looked : LET t == tenants[i] IN
    /\ t.business # "none"
    /\ \/ t.setup < 2 /\ Edit(i, [t EXCEPT !.setup = @ + 1])
       \/ t.setup > 0 /\ Edit(i, [t EXCEPT !.setup = @ - 1])

\* The assistant's settings appear when they are looked at; the admin site
\* hides them (one deleted alone) or removes them.
EditAISettings ==
  \E i \in Looked : LET t == tenants[i] IN
    \/ t.business # "none" /\ t.ai = "none" /\ Edit(i, [t EXCEPT !.ai = "live"])
    \/ t.ai = "live" /\ \E ai \in {"deleted", "none"} : Edit(i, [t EXCEPT !.ai = ai])

\* A business is renamed, is deleted with what it has, unless that has been
\* used in a campaign, and is created again.
EditBusiness ==
  \E i \in Looked : LET t == tenants[i] IN
    \/ \E name \in {"named", "long"} \ {t.business} : Edit(i, [t EXCEPT !.business = name])
    \/ /\ t.business # "none" /\ t.setup = 0
       /\ Edit(i, [t EXCEPT !.business = "none", !.ai = "none", !.documents = 0])

\* A tenant without a plan is given one.
AssignPlan ==
  \E i \in Looked : ~tenants[i].plan /\ Edit(i, [tenants[i] EXCEPT !.plan = TRUE])

\* Customers come, withdraw their consent, are deleted (their numbers stay),
\* and removed, if they have not ordered.
EditCustomers ==
  \E i \in Looked : LET t == tenants[i] IN
    \/ t.customer = "none" /\ Edit(i, [t EXCEPT !.customer = "live"])
    \/ t.optin /\ Edit(i, [t EXCEPT !.optin = FALSE])
    \/ t.customer = "live" /\ Edit(i, [t EXCEPT !.customer = "deleted"])
    \/ /\ t.customer = "live" /\ t.order = "none"
       /\ Edit(i, [t EXCEPT !.customer = "none", !.optin = FALSE, !.chats = 0])

\* The month is billed, from its first day or from another.
Bill ==
  \E i \in Looked : LET t == tenants[i] IN
    /\ t.plan /\ t.invoice = "none" /\ t.name \notin Long
    /\ \E from \in {"first", "midmonth"} : Edit(i, [t EXCEPT !.invoice = from])

\* The admin site hides the invoice or removes it.
DeleteInvoice ==
  \E i \in Looked : LET t == tenants[i] IN
    /\ t.invoice \in {"first", "midmonth"}
    /\ \E left \in {"deleted", "none"} : Edit(i, [t EXCEPT !.invoice = left])

MonthEnds ==
  /\ Editing /\ \E i \in DOMAIN tenants : tenants[i].invoice # "none"
  /\ tenants' = [i \in DOMAIN tenants |-> [tenants[i] EXCEPT !.invoice = "none"]]
  /\ UNCHANGED <<plans, users, req>>

\* MFA is reset for an account, or set up by its owner.
ChangeMFA ==
  /\ Editing
  /\ \E e \in DOMAIN users :
       users' = [users EXCEPT ![e].enrolled = ~@, ![e].codes = IF users[e].enrolled THEN 0 ELSE 1]
  /\ UNCHANGED <<plans, tenants, req>>

Next ==
  \/ \E command \in Commands : RunCommand(command)
  \/ \E r \in Requests :
       ValidateOnboard(r) \/ InsertTenant(r) \/ InsertOwner(r) \/ Commit(r) \/ Abort(r)
  \/ SuperadminDies
  \/ EditPlans \/ EditDocuments \/ EditSetup \/ EditAISettings \/ EditBusiness
  \/ AssignPlan \/ EditCustomers \/ Bill \/ DeleteInvoice \/ MonthEnds \/ ChangeMFA

Spec == Init /\ [][Next]_vars

(***************************************************************************)
(* Properties                                                              *)
(***************************************************************************)
RunIsIdempotent ==
  \A command \in Commands :
    LET once == Run(command, Database)
    IN  once.ok => Run(command, once) = once

EnrolledByRun ==
  \A command \in Commands :
    LET once == Run(command, Database)
        accounts == CASE command = "seed" -> {Owner(b) : b \in Sampled}
                      [] command = "superadmin" -> {Super}
                      [] command = "e2e" -> {Owner(E2E), Admin(E2E)}
    IN  once.ok =>
          /\ \A e \in accounts : e \in DOMAIN once.users /\ once.users[e].enrolled
          /\ command = "seed" => \A b \in Sampled :
               Staff(b) \in DOMAIN once.users => once.users[Staff(b)].enrolled

\* From whatever people have made of the database, a command that has run to
\* its end changes nothing when it is run again, and every account it answers
\* for is there and enrolled, staff that was never hired or has left apart.
RerunIsSafe == RunIsIdempotent /\ EnrolledByRun

\* seed_dev_data fails for the names of its plans, or for what people have done
\* in the business of a sample's owner (Seedable lists it), and never because of
\* the tenants there are, or of what it or an earlier run has left.
SeedFailsForReason ==
  ~Run("seed", Database).ok =>
    \/ plans = "taken"
    \/ \E b \in Sampled : /\ Owner(b) \in DOMAIN users
                          /\ ~Seedable(tenants[users[Owner(b)].tenant])

\* However onboardings overlap, fail or die, no tenant is without an owner.
TenantsOwned == \A i \in DOMAIN tenants : \E e \in DOMAIN users : users[e].tenant = i
=============================================================================

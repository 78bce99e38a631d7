------------------------ MODULE Provisioning_proofs ------------------------
(***************************************************************************)
(* Proofs about Provisioning, for any list of samples, any people, names,  *)
(* onboardings and changes.                                                *)
(***************************************************************************)
EXTENDS Provisioning, FiniteSetTheorems, SequenceTheorems, WellFoundedInduction, TLAPS

(***************************************************************************)
(* Types.                                                                  *)
(***************************************************************************)
Businesses == Sampled \cup People \cup {E2E}
Addresses ==
  {Owner(b) : b \in Businesses} \cup {Staff(b) : b \in Sampled} \cup {Super, Admin(E2E)}

TenantType ==
  [name : Sampled \cup Names \cup {E2E}, slug : Nat, status : {"trial", "active"},
   business : {"none", "named", "long"}, plan : BOOLEAN, ai : {"none", "live", "deleted"},
   documents : Nat, customer : {"none", "live", "deleted"}, optin : BOOLEAN, chats : Nat,
   setup : Nat, invoice : {"none", "first", "midmonth", "deleted"},
   order : {"none", "confirmed"}]
UserType == [tenant : Nat, enrolled : BOOLEAN, codes : {0, 1}]
Rows(S) == [S -> UserType]
UsersType == UNION {Rows(S) : S \in SUBSET Addresses}
PlansType == {"missing", "there", "taken"}
DatabaseType == [ok : BOOLEAN, plans : PlansType, tenants : Seq(TenantType), users : UsersType]

RequestType ==
  [at : {"idle", "tenant", "owner", "commit"}, name : Names \cup {E2E},
   email : Addresses, slug : Nat]

TypeOK ==
  /\ plans \in PlansType /\ tenants \in Seq(TenantType) /\ users \in UsersType
  /\ req \in [Requests -> RequestType] /\ edits \in Nat

\* Whose address it is can be told from the address.
LEMMA Apart ==
  ASSUME NEW b, NEW c
  PROVE  /\ Owner(b) = Owner(c) <=> b = c
         /\ Staff(b) = Staff(c) <=> b = c
         /\ Owner(b) # Staff(c) /\ Owner(b) # Admin(c) /\ Staff(b) # Admin(c)
  BY DEF Owner, Staff, Admin

LEMMA UsersAre ==
  ASSUME NEW us
  PROVE  us \in UsersType <=> DOMAIN us \subseteq Addresses /\ us \in [DOMAIN us -> UserType]
  BY DEF UsersType, Rows

(***************************************************************************)
(* The rows of accounts.                                                   *)
(***************************************************************************)
LEMMA WithFacts ==
  ASSUME NEW us \in UsersType, NEW e \in Addresses, NEW row \in UserType
  PROVE  /\ With(us, e, row) \in UsersType
         /\ DOMAIN With(us, e, row) = DOMAIN us \cup {e}
         /\ With(us, e, row)[e] = row
         /\ \A x \in DOMAIN us : x # e => With(us, e, row)[x] = us[x]
  <1>1. DOMAIN us \subseteq Addresses /\ us \in [DOMAIN us -> UserType]  BY UsersAre
  <1>2. PICK w : w = With(us, e, row)  OBVIOUS
  <1>3. w = [x \in DOMAIN us \cup {e} |-> IF x = e THEN row ELSE us[x]]  BY <1>2 DEF With
  <1>4. DOMAIN w = DOMAIN us \cup {e} /\ w \in [DOMAIN w -> UserType]  BY <1>1, <1>3
  <1>5. w \in UsersType  BY <1>1, <1>4, UsersAre
  <1>6. QED  BY <1>2, <1>3, <1>4, <1>5

\* Enrolling touches those that are there and not enrolled, and nothing else.
LEMMA MFAFacts ==
  ASSUME NEW us \in UsersType, NEW emails
  PROVE  /\ SeedMFA(us, emails) \in UsersType
         /\ DOMAIN SeedMFA(us, emails) = DOMAIN us
         /\ \A e \in DOMAIN us :
              /\ SeedMFA(us, emails)[e].tenant = us[e].tenant
              /\ SeedMFA(us, emails)[e].enrolled = (us[e].enrolled \/ e \in emails)
              /\ us[e].enrolled \/ e \notin emails => SeedMFA(us, emails)[e] = us[e]
  <1>1. DOMAIN us \subseteq Addresses /\ us \in [DOMAIN us -> UserType]  BY UsersAre
  <1>2. PICK s : s = SeedMFA(us, emails)  OBVIOUS
  <1>3. s = [e \in DOMAIN us |-> IF e \in emails /\ ~us[e].enrolled
                       THEN [us[e] EXCEPT !.enrolled = TRUE, !.codes = 1] ELSE us[e]]
    BY <1>2 DEF SeedMFA
  <1>4. ASSUME NEW e \in DOMAIN us
        PROVE  /\ s[e] \in UserType /\ s[e].tenant = us[e].tenant
               /\ s[e].enrolled = (us[e].enrolled \/ e \in emails)
               /\ us[e].enrolled \/ e \notin emails => s[e] = us[e]
    <2>1. us[e] \in UserType  BY <1>1
    <2>2. CASE e \in emails /\ ~us[e].enrolled
      <3>1. s[e] = [us[e] EXCEPT !.enrolled = TRUE, !.codes = 1]  BY <1>3, <2>2
      <3>2. QED  BY <2>1, <2>2, <3>1 DEF UserType
    <2>3. CASE ~(e \in emails /\ ~us[e].enrolled)
      <3>1. s[e] = us[e]  BY <1>3, <2>3
      <3>2. QED  BY <2>1, <2>3, <3>1 DEF UserType
    <2>4. QED  BY <2>2, <2>3
  <1>5. DOMAIN s = DOMAIN us  BY <1>3
  <1>6. s \in [DOMAIN s -> UserType]  BY <1>3, <1>4, <1>5
  <1>7. s \in UsersType  BY <1>1, <1>5, <1>6, UsersAre
  <1>8. QED  BY <1>2, <1>4, <1>5, <1>7

\* Those enrolled already stay as they are, all of them.
LEMMA MFAStill ==
  ASSUME NEW us \in UsersType, NEW emails, \A e \in emails \cap DOMAIN us : us[e].enrolled
  PROVE  SeedMFA(us, emails) = us
  <1>1. us \in [DOMAIN us -> UserType]  BY UsersAre
  <1>2. \A e \in DOMAIN us : SeedMFA(us, emails)[e] = us[e]  BY MFAFacts
  <1>3. QED  BY <1>1, <1>2 DEF SeedMFA

LEMMA UserFacts == ASSUME NEW t \in Nat PROVE User(t) \in UserType /\ Known(t) \in UserType
  BY DEF User, Known, UserType

(***************************************************************************)
(* The rows of tenants.                                                    *)
(***************************************************************************)
\* A field of a tenant may be set to what is of its type.
LEMMA FieldTypes ==
  ASSUME NEW t \in TenantType
  PROVE  /\ \A v \in {"none", "named", "long"} : [t EXCEPT !.business = v] \in TenantType
         /\ \A v \in BOOLEAN : [t EXCEPT !.plan = v] \in TenantType
         /\ \A v \in {"none", "live", "deleted"} : [t EXCEPT !.ai = v] \in TenantType
         /\ \A v \in Nat : [t EXCEPT !.documents = v] \in TenantType
         /\ \A v \in {"none", "live", "deleted"} : [t EXCEPT !.customer = v] \in TenantType
         /\ \A v \in BOOLEAN : [t EXCEPT !.optin = v] \in TenantType
         /\ \A v \in Nat : [t EXCEPT !.chats = v] \in TenantType
         /\ \A v \in Nat : [t EXCEPT !.setup = v] \in TenantType
         /\ \A v \in {"none", "first", "midmonth", "deleted"} : [t EXCEPT !.invoice = v] \in TenantType
         /\ \A v \in {"none", "confirmed"} : [t EXCEPT !.order = v] \in TenantType
         /\ \A v \in {"trial", "active"} : [t EXCEPT !.status = v] \in TenantType
  <1> USE DEF TenantType
  <1>1. \A v \in {"none", "named", "long"} : [t EXCEPT !.business = v] \in TenantType  OBVIOUS
  <1>2. \A v \in BOOLEAN : [t EXCEPT !.plan = v] \in TenantType  OBVIOUS
  <1>3. \A v \in {"none", "live", "deleted"} : [t EXCEPT !.ai = v] \in TenantType  OBVIOUS
  <1>4. \A v \in Nat : [t EXCEPT !.documents = v] \in TenantType  OBVIOUS
  <1>5. \A v \in {"none", "live", "deleted"} : [t EXCEPT !.customer = v] \in TenantType  OBVIOUS
  <1>6. \A v \in BOOLEAN : [t EXCEPT !.optin = v] \in TenantType  OBVIOUS
  <1>7. \A v \in Nat : [t EXCEPT !.chats = v] \in TenantType  OBVIOUS
  <1>8. \A v \in Nat : [t EXCEPT !.setup = v] \in TenantType  OBVIOUS
  <1>9. \A v \in {"none", "first", "midmonth", "deleted"} : [t EXCEPT !.invoice = v] \in TenantType  OBVIOUS
  <1>10. \A v \in {"none", "confirmed"} : [t EXCEPT !.order = v] \in TenantType  OBVIOUS
  <1>11. \A v \in {"trial", "active"} : [t EXCEPT !.status = v] \in TenantType  OBVIOUS
  <1> HIDE DEF TenantType
  <1>12. QED  BY <1>1, <1>2, <1>3, <1>4, <1>5, <1>6, <1>7, <1>8, <1>9, <1>10, <1>11

LEMMA SameTenant ==
  ASSUME NEW s \in TenantType, NEW t \in TenantType,
         s.name = t.name, s.slug = t.slug, s.status = t.status, s.ai = t.ai,
         s.business = t.business, s.plan = t.plan,
         s.documents = t.documents, s.customer = t.customer, s.optin = t.optin,
         s.chats = t.chats, s.setup = t.setup, s.invoice = t.invoice, s.order = t.order
  PROVE  s = t
  BY DEF TenantType

\* What the five helpers make of a tenant with a business, one after the other.
Filled(t, s) ==
  /\ s \in TenantType
  /\ s.name = t.name /\ s.slug = t.slug /\ s.status = t.status /\ s.order = t.order
  /\ s.business = t.business /\ s.plan = t.plan
  /\ s.customer = "live" /\ s.optin = TRUE
  /\ s.ai = IF t.ai = "none" THEN "live" ELSE t.ai
  /\ s.documents = IF t.documents = 0 THEN 1 ELSE t.documents
  /\ s.chats = IF t.customer = "none" THEN t.chats + 1 ELSE t.chats
  /\ s.setup = IF t.setup = 0 THEN 1 ELSE t.setup
  /\ s.invoice = IF t.invoice = "none" /\ t.plan THEN "first" ELSE t.invoice

LEMMA ContentsAre ==
  ASSUME NEW t \in TenantType, t.business # "none" PROVE Filled(t, SeedContents(t))
  <1>1. PICK x : x = IF t.ai = "none" THEN "live" ELSE t.ai  OBVIOUS
  <1>2. PICK a : a = [t EXCEPT !.ai = x]  OBVIOUS
  <1>3. a \in TenantType
    <2>1. t.ai \in {"none", "live", "deleted"}  BY DEF TenantType
    <2>2. x \in {"none", "live", "deleted"}  BY <1>1, <2>1
    <2>3. QED  BY <1>2, <2>2, FieldTypes
  <1>4. PICK d : d = IF a.documents = 0 THEN 1 ELSE a.documents  OBVIOUS
  <1>5. PICK k : k = [a EXCEPT !.documents = d]  OBVIOUS
  <1>6. k \in TenantType
    <2>1. d \in Nat  BY <1>3, <1>4 DEF TenantType
    <2>2. QED  BY <1>3, <1>5, <2>1, FieldTypes
  <1>7. PICK n : n = IF k.customer = "none" THEN k.chats + 1 ELSE k.chats  OBVIOUS
  <1>8. PICK c1 : c1 = [k EXCEPT !.customer = "live"]  OBVIOUS
  <1>9. c1 \in TenantType  BY <1>6, <1>8, FieldTypes
  <1>10. PICK c2 : c2 = [c1 EXCEPT !.optin = TRUE]  OBVIOUS
  <1>11. c2 \in TenantType  BY <1>9, <1>10, FieldTypes
  <1>12. PICK c : c = [c2 EXCEPT !.chats = n]  OBVIOUS
  <1>13. n \in Nat  BY <1>6, <1>7 DEF TenantType
  <1>14. c \in TenantType  BY <1>11, <1>12, <1>13, FieldTypes
  <1>15. PICK p : p = IF c.setup = 0 THEN 1 ELSE c.setup  OBVIOUS
  <1>16. PICK u : u = [c EXCEPT !.setup = p]  OBVIOUS
  <1>17. p \in Nat  BY <1>14, <1>15 DEF TenantType
  <1>18. u \in TenantType  BY <1>14, <1>16, <1>17, FieldTypes
  <1>19. PICK v : v = IF u.invoice = "none" /\ u.plan THEN "first" ELSE u.invoice  OBVIOUS
  <1>20. PICK i : i = [u EXCEPT !.invoice = v]  OBVIOUS
  <1>21. v \in {"none", "first", "midmonth", "deleted"}
    <2>1. u.invoice \in {"none", "first", "midmonth", "deleted"}  BY <1>18 DEF TenantType
    <2>2. QED  BY <1>19, <2>1
  <1>22. i \in TenantType  BY <1>18, <1>20, <1>21, FieldTypes
  <1>23. i = SeedContents(t)
    <2>1. a = SeedAISettings(t)  BY <1>1, <1>2 DEF SeedAISettings
    <2>2. k = SeedKnowledge(a)  BY <1>4, <1>5 DEF SeedKnowledge
    <2>3. c = [k EXCEPT !.customer = "live", !.optin = TRUE, !.chats = n]
      BY <1>8, <1>10, <1>12
    <2>4. c = SeedCustomers(k)  BY <2>3, <1>7 DEF SeedCustomers
    <2>5. u = SeedCampaignSetup(c)  BY <1>15, <1>16 DEF SeedCampaignSetup
    <2>6. i = SeedInvoice(u)  BY <1>19, <1>20 DEF SeedInvoice
    <2>7. QED  BY <2>1, <2>2, <2>4, <2>5, <2>6, Zenon DEF SeedContents
  <1>24. /\ a.name = t.name /\ a.slug = t.slug /\ a.status = t.status /\ a.order = t.order
         /\ a.business = t.business /\ a.plan = t.plan
         /\ a.ai = x /\ a.documents = t.documents /\ a.customer = t.customer
         /\ a.chats = t.chats /\ a.setup = t.setup /\ a.invoice = t.invoice
    BY <1>2 DEF TenantType
  <1>25. /\ k.name = a.name /\ k.slug = a.slug /\ k.status = a.status /\ k.order = a.order
         /\ k.business = a.business /\ k.plan = a.plan
         /\ k.ai = a.ai /\ k.documents = d /\ k.customer = a.customer
         /\ k.chats = a.chats /\ k.setup = a.setup /\ k.invoice = a.invoice
    BY <1>3, <1>5 DEF TenantType
  <1>26. /\ c.name = k.name /\ c.slug = k.slug /\ c.status = k.status /\ c.order = k.order
         /\ c.business = k.business /\ c.plan = k.plan
         /\ c.ai = k.ai /\ c.documents = k.documents /\ c.customer = "live" /\ c.optin = TRUE
         /\ c.chats = n /\ c.setup = k.setup /\ c.invoice = k.invoice
    BY <1>6, <1>8, <1>10, <1>12 DEF TenantType
  <1>27. /\ u.name = c.name /\ u.slug = c.slug /\ u.status = c.status /\ u.order = c.order
         /\ u.business = c.business /\ u.plan = c.plan
         /\ u.ai = c.ai /\ u.documents = c.documents /\ u.customer = c.customer
         /\ u.optin = c.optin /\ u.chats = c.chats /\ u.setup = p /\ u.invoice = c.invoice
    BY <1>14, <1>16 DEF TenantType
  <1>28. /\ i.name = u.name /\ i.slug = u.slug /\ i.status = u.status /\ i.order = u.order
         /\ i.business = u.business /\ i.plan = u.plan
         /\ i.ai = u.ai /\ i.documents = u.documents /\ i.customer = u.customer
         /\ i.optin = u.optin /\ i.chats = u.chats /\ i.setup = u.setup /\ i.invoice = v
    BY <1>18, <1>20 DEF TenantType
  <1>29. i.invoice = IF t.invoice = "none" /\ t.plan THEN "first" ELSE t.invoice
    BY <1>19, <1>24, <1>25, <1>26, <1>27, <1>28
  <1>30. Filled(t, i)
    BY <1>1, <1>4, <1>7, <1>15, <1>22, <1>24, <1>25, <1>26, <1>27, <1>28, <1>29 DEF Filled
  <1>31. QED  BY <1>23, <1>30

\* Seeding a business again changes nothing, and what would make it fail stays.
LEMMA ContentsFacts ==
  ASSUME NEW t \in TenantType
  PROVE  /\ SeedContents(t) \in TenantType
         /\ SeedContents(t).name = t.name /\ SeedContents(t).slug = t.slug
         /\ SeedContents(SeedContents(t)) = SeedContents(t)
         /\ Seedable(t) => Seedable(SeedContents(t))
  <1>1. CASE t.business = "none"
    <2>1. SeedContents(t) = t  BY <1>1 DEF SeedContents
    <2>2. QED  BY <2>1
  <1>2. CASE t.business # "none"
    <2>1. PICK s : s = SeedContents(t)  OBVIOUS
    <2>2. Filled(t, s)  BY <1>2, <2>1, ContentsAre
    <2>3. PICK r : r = SeedContents(s)  OBVIOUS
    <2>4. s \in TenantType /\ s.business # "none"  BY <1>2, <2>2 DEF Filled
    <2>5. Filled(s, r)  BY <2>3, <2>4, ContentsAre
    <2>6. t.chats \in Nat /\ t.documents \in Nat /\ t.setup \in Nat  BY DEF TenantType
    <2>7. r = s
      <3>1. /\ r \in TenantType /\ r.name = s.name /\ r.slug = s.slug /\ r.status = s.status
            /\ r.business = s.business /\ r.plan = s.plan /\ r.order = s.order
            /\ r.customer = s.customer /\ r.optin = s.optin /\ r.ai = s.ai
        BY <2>2, <2>5 DEF Filled
      <3>2. r.documents = s.documents /\ r.chats = s.chats /\ r.setup = s.setup
        BY <2>2, <2>5, <2>6 DEF Filled
      <3>3. r.invoice = s.invoice  BY <2>2, <2>5 DEF Filled
      <3>4. QED  BY <2>4, <3>1, <3>2, <3>3, SameTenant
    <2>8. ASSUME Seedable(t) PROVE Seedable(s)
      <3>1. /\ AISeedable(t) /\ KnowledgeSeedable(t) /\ CampaignsSeedable(t)
            /\ InvoiceSeedable(t)
        BY <1>2, <2>8 DEF Seedable
      <3>2. AISeedable(s)
        <4>1. t.ai \in {"none", "live", "deleted"}  BY DEF TenantType
        <4>2. s.ai = "live"  BY <2>2, <3>1, <4>1 DEF Filled, AISeedable
        <4>3. QED  BY <4>2 DEF AISeedable
      <3>3. KnowledgeSeedable(s) /\ CustomersSeedable(s) /\ CampaignsSeedable(s)
        BY <2>2, <2>6, <3>1
        DEF Filled, KnowledgeSeedable, CustomersSeedable, CampaignsSeedable
      <3>4. InvoiceSeedable(s)
        <4>1. SUFFICES ASSUME t.plan PROVE InvoiceSeedable(s)
          BY <2>2 DEF Filled, InvoiceSeedable
        <4>2. t.invoice \in {"none", "first"}
          <5>1. t.invoice \in {"none", "first", "midmonth", "deleted"}  BY DEF TenantType
          <5>2. QED  BY <3>1, <4>1, <5>1 DEF InvoiceSeedable
        <4>3. s.invoice = "first"  BY <2>2, <4>1, <4>2 DEF Filled
        <4>4. QED  BY <4>3 DEF InvoiceSeedable
      <3>5. QED  BY <3>2, <3>3, <3>4 DEF Seedable
    <2>9. QED  BY <2>1, <2>2, <2>3, <2>7, <2>8 DEF Filled
  <1>3. QED  BY <1>1, <1>2

\* An empty business can be seeded.
LEMMA EmptyFacts ==
  ASSUME NEW t, t.name \notin Long, t.documents = 0, t.customer = "none", t.setup = 0,
         t.invoice = "none", t.ai = "none", t.business = "named"
  PROVE  Seedable(t)
  <1>1. AISeedable(t)  BY DEF AISeedable
  <1>2. KnowledgeSeedable(t)  BY DEF KnowledgeSeedable
  <1>3. CampaignsSeedable(t)  BY DEF CampaignsSeedable
  <1>4. CustomersSeedable(t)  BY DEF CustomersSeedable
  <1>5. InvoiceSeedable(t)  BY DEF InvoiceSeedable
  <1>6. QED  BY <1>1, <1>2, <1>3, <1>4, <1>5 DEF Seedable

\* A new business can be seeded, and is then as the seed would leave it.
New(b, n) == [Tenant(b, n, "named", TRUE) EXCEPT !.status = "active"]
Made(b, n) == SeedSampleOrder(SeedContents(New(b, n)))

LEMMA NewFacts ==
  ASSUME NEW b \in Sampled, NEW n \in Nat
  PROVE  /\ New(b, n).slug = n /\ Seedable(New(b, n))
         /\ Made(b, n) \in TenantType /\ Made(b, n).name = b
         /\ Seedable(Made(b, n)) /\ SeedContents(Made(b, n)) = Made(b, n)
  <1>1. PICK new : new = New(b, n)  OBVIOUS
  <1>2. PICK t : t = Made(b, n)  OBVIOUS
  <1>3. Tenant(b, n, "named", TRUE) \in TenantType  BY DEF Tenant, TenantType
  <1>4. new \in TenantType  BY <1>3, <1>1, FieldTypes DEF New
  <1>5. /\ new.name = b /\ new.slug = n /\ new.documents = 0 /\ new.customer = "none"
        /\ new.chats = 0 /\ new.setup = 0 /\ new.invoice = "none" /\ new.ai = "none"
        /\ new.business = "named" /\ new.plan = TRUE
    BY <1>1 DEF New, Tenant
  <1>6. Seedable(new)
    <2>1. new.name \notin Long  BY <1>5, ProvisioningAssumption
    <2>2. QED  BY <1>5, <2>1, EmptyFacts
  <1>7. PICK s : s = SeedContents(new)  OBVIOUS
  <1>8. Filled(new, s)  BY <1>4, <1>5, <1>7, ContentsAre
  <1>9. s \in TenantType  BY <1>8 DEF Filled
  <1>10. PICK o : o = IF s.chats > 0 THEN "confirmed" ELSE s.order  OBVIOUS
  <1>11. o \in {"none", "confirmed"}
    <2>1. s.order \in {"none", "confirmed"}  BY <1>9 DEF TenantType
    <2>2. QED  BY <1>10, <2>1
  <1>12. t = [s EXCEPT !.order = o]  BY <1>1, <1>2, <1>7, <1>10 DEF Made, SeedSampleOrder
  <1>13. t \in TenantType  BY <1>9, <1>11, <1>12, FieldTypes, ZenonT(30)
  <1>14. /\ t.name = s.name /\ t.slug = s.slug /\ t.ai = s.ai /\ t.documents = s.documents
         /\ t.customer = s.customer /\ t.optin = s.optin /\ t.setup = s.setup
         /\ t.invoice = s.invoice /\ t.business = s.business /\ t.plan = s.plan
    BY <1>9, <1>12 DEF TenantType
  <1>15. /\ t.documents = 1 /\ t.setup = 1 /\ t.invoice = "first" /\ t.ai = "live"
         /\ t.customer = "live" /\ t.optin = TRUE /\ t.business = "named" /\ t.plan = TRUE
    BY <1>5, <1>8, <1>14 DEF Filled
  <1>16. PICK r : r = SeedContents(t)  OBVIOUS
  <1>17. Filled(t, r)  BY <1>13, <1>15, <1>16, ContentsAre
  <1>18. r = t
    <2>1. /\ r \in TenantType /\ r.name = t.name /\ r.slug = t.slug /\ r.status = t.status
          /\ r.business = t.business /\ r.plan = t.plan /\ r.order = t.order
          /\ r.customer = t.customer /\ r.optin = t.optin
      BY <1>15, <1>17 DEF Filled
    <2>2. r.ai = t.ai /\ r.documents = t.documents /\ r.setup = t.setup
      BY <1>15, <1>17 DEF Filled
    <2>3. r.chats = t.chats  BY <1>15, <1>17 DEF Filled
    <2>4. r.invoice = t.invoice  BY <1>15, <1>17 DEF Filled
    <2>5. QED  BY <1>13, <2>1, <2>2, <2>3, <2>4, SameTenant
  <1>19. Seedable(t)
    BY <1>15
    DEF Seedable, AISeedable, KnowledgeSeedable, CustomersSeedable, CampaignsSeedable,
        InvoiceSeedable
  <1>20. QED  BY <1>1, <1>2, <1>5, <1>6, <1>8, <1>13, <1>14, <1>16, <1>18, <1>19 DEF Filled

(***************************************************************************)
(* Slugs.                                                                  *)
(***************************************************************************)
\* Induction, from the least element of a set of numbers.
LEMMA Least ==
  ASSUME NEW T, T \subseteq Nat, T # {}
  PROVE  \E x \in T : \A y \in T : x <= y
  <1>1. IsWellFoundedOn(OpToRel(<, Nat), Nat)  BY NatLessThanWellFounded
  <1>2. PICK x \in T : \A y \in T : <<y, x>> \notin OpToRel(<, Nat)  BY <1>1, WFMin
  <1>3. ASSUME NEW y \in T PROVE x <= y
    <2>1. ~ (y < x)  BY <1>2 DEF OpToRel
    <2>2. QED  BY <2>1
  <1>4. QED  BY <1>3

LEMMA Upward ==
  ASSUME NEW S, 0 \in S, \A n \in Nat : n \in S => n + 1 \in S
  PROVE  Nat \subseteq S
  <1>1. SUFFICES ASSUME Nat \ S # {} PROVE FALSE  OBVIOUS
  <1>2. PICK x \in Nat \ S : \A y \in Nat \ S : x <= y  BY <1>1, Least
  <1>3. x # 0 /\ x - 1 \in Nat  BY <1>2
  <1>4. x - 1 \in S  BY <1>2, <1>3
  <1>5. QED  BY <1>2, <1>3, <1>4

\* There is always a free number, at most one more than there are tenants.
LEMMA SlugFacts ==
  ASSUME NEW ts \in Seq(TenantType), NEW name
  PROVE  /\ FreeSlug(ts, name) \in Nat
         /\ \A i \in DOMAIN ts : ts[i].name = name => ts[i].slug # FreeSlug(ts, name)
  <1> DEFINE named == {j \in DOMAIN ts : ts[j].name = name}
             used == {ts[i].slug : i \in named}
             free == {n \in 1..(Len(ts) + 1) : n \notin used}
             ok(n) == n \in 1..(Len(ts) + 1) /\ n \notin used /\ \A m \in 1..(n - 1) : m \in used
  <1>1. Len(ts) \in Nat /\ DOMAIN ts = 1..Len(ts)  OBVIOUS
  <1>2. IsFiniteSet(named) /\ Cardinality(named) \in Nat /\ Cardinality(named) <= Len(ts)
    <2>1. IsFiniteSet(1..Len(ts)) /\ Cardinality(1..Len(ts)) = Len(ts)  BY <1>1, FS_Interval
    <2>2. named \subseteq 1..Len(ts)  BY <1>1
    <2>3. QED  BY <2>1, <2>2, FS_Subset, FS_CardinalityType
  <1>3. IsFiniteSet(used) /\ Cardinality(used) <= Cardinality(named)
    <2>1. [i \in named |-> ts[i].slug] \in Surjection(named, used)
      BY DEF Surjection
    <2>2. QED  BY <1>2, <2>1, FS_Surjection
  <1>4. free # {}
    <2>1. SUFFICES ASSUME 1..(Len(ts) + 1) \subseteq used PROVE FALSE  OBVIOUS
    <2>2. Cardinality(1..(Len(ts) + 1)) = Len(ts) + 1  BY <1>1, FS_Interval
    <2>3. Cardinality(1..(Len(ts) + 1)) <= Cardinality(used)  BY <1>3, <2>1, FS_Subset
    <2>4. Cardinality(used) \in Nat  BY <1>3, FS_CardinalityType
    <2>5. QED  BY <1>1, <1>2, <1>3, <2>2, <2>3, <2>4
  <1>5. PICK x \in free : \A y \in free : x <= y
    <2>1. free \subseteq Nat  OBVIOUS
    <2>2. QED  BY <1>4, <2>1, Least
  <1>6. ok(x)
    <2>1. ASSUME NEW m \in 1..(x - 1), m \notin used PROVE FALSE
      <3>1. x \in 1..(Len(ts) + 1)  BY <1>5
      <3>2. m \in free /\ m < x  BY <1>1, <2>1, <3>1
      <3>3. QED  BY <1>1, <1>5, <3>1, <3>2
    <2>2. QED  BY <1>5, <2>1
  <1>7. FreeSlug(ts, name) = CHOOSE n \in 1..(Len(ts) + 1) : n \notin used /\ \A m \in 1..(n - 1) : m \in used
    BY DEF FreeSlug
  <1>8. FreeSlug(ts, name) \in 1..(Len(ts) + 1) /\ FreeSlug(ts, name) \notin used
    BY <1>6, <1>7, Zenon
  <1>9. QED  BY <1>1, <1>8

(***************************************************************************)
(* A sample is seeded.                                                     *)
(***************************************************************************)
\* Owners have tenants, and staff is hired by owners.
Consistent(db) ==
  /\ \A b \in Businesses : Owner(b) \in DOMAIN db.users =>
       db.users[Owner(b)].tenant \in DOMAIN db.tenants
  /\ \A b \in Sampled : Staff(b) \in DOMAIN db.users => Owner(b) \in DOMAIN db.users

Sound(db) == db \in DatabaseType /\ Consistent(db)

\* What a command never takes away.
Grown(was, db) ==
  /\ Len(was.tenants) <= Len(db.tenants)
  /\ \A i \in DOMAIN was.tenants : db.tenants[i].name = was.tenants[i].name
  /\ DOMAIN was.users \subseteq DOMAIN db.users
  /\ \A e \in DOMAIN was.users : /\ db.users[e].tenant = was.users[e].tenant
                                 /\ was.users[e].enrolled => db.users[e].enrolled

\* A sample has all that is seeded for it.
Settled(db, b) ==
  LET owner == db.users[Owner(b)]
  IN  /\ Owner(b) \in DOMAIN db.users /\ owner.enrolled
      /\ Seedable(db.tenants[owner.tenant])
      /\ SeedContents(db.tenants[owner.tenant]) = db.tenants[owner.tenant]
      /\ Staff(b) \in DOMAIN db.users => db.users[Staff(b)].enrolled

\* What seeding sample b makes of the database.
Seeded(db, new, b) ==
  /\ Sound(new) /\ Grown(db, new) /\ new.plans = db.plans
  /\ new.ok => db.ok /\ Settled(new, b)
  /\ \A c \in Sampled : Settled(db, c) => Settled(new, c)
  /\ db.ok /\ Settled(db, b) => new = db

\* It makes no business that it could not seed, and fails at none it made.
Blameless(db, new, b) ==
  /\ \A i \in DOMAIN new.tenants :
       (i \in DOMAIN db.tenants => Seedable(db.tenants[i])) => Seedable(new.tenants[i])
  /\ \A e \in DOMAIN new.users \ DOMAIN db.users : new.users[e].tenant \notin DOMAIN db.tenants
  /\ db.ok /\ ~new.ok => /\ Owner(b) \in DOMAIN db.users
                         /\ ~Seedable(db.tenants[db.users[Owner(b)].tenant])

\* Its tenants have owners.
Peopled(db, new) ==
  /\ \A i \in DOMAIN new.tenants \ DOMAIN db.tenants :
       \E e \in DOMAIN new.users : new.users[e].tenant = i
  /\ Owner(E2E) \in DOMAIN new.users \ DOMAIN db.users =>
       new.tenants[new.users[Owner(E2E)].tenant].name = E2E
  /\ \A x : Admin(x) \in DOMAIN new.users => Admin(x) \in DOMAIN db.users

LEMMA SoundFacts ==
  ASSUME NEW db, Sound(db)
  PROVE  /\ db = [ok |-> db.ok, plans |-> db.plans, tenants |-> db.tenants, users |-> db.users]
         /\ db.plans \in PlansType /\ db.ok \in BOOLEAN /\ db.tenants \in Seq(TenantType) /\ db.users \in UsersType
         /\ Len(db.tenants) \in Nat /\ DOMAIN db.tenants = 1..Len(db.tenants)
         /\ \A i \in DOMAIN db.tenants : db.tenants[i] \in TenantType
         /\ DOMAIN db.users \subseteq Addresses
         /\ \A e \in DOMAIN db.users : db.users[e] \in UserType
  <1>1. db \in DatabaseType  BY DEF Sound
  <1>2. /\ db = [ok |-> db.ok, plans |-> db.plans, tenants |-> db.tenants, users |-> db.users]
        /\ db.plans \in PlansType /\ db.ok \in BOOLEAN /\ db.tenants \in Seq(TenantType) /\ db.users \in UsersType
    BY <1>1 DEF DatabaseType
  <1>3. DOMAIN db.users \subseteq Addresses /\ db.users \in [DOMAIN db.users -> UserType]
    BY <1>2, UsersAre
  <1>4. QED  BY <1>2, <1>3

LEMMA BackfillFacts ==
  ASSUME NEW db, Sound(db), NEW b \in Sampled, Owner(b) \in DOMAIN db.users,
         NEW new, new = Backfill(db, b)
  PROVE  Seeded(db, new, b) /\ Blameless(db, new, b) /\ Peopled(db, new)
  <1> DEFINE t == db.users[Owner(b)].tenant
             us == SeedMFA(db.users, {Owner(b), Staff(b)})
             ts == [db.tenants EXCEPT ![t] = SeedContents(@)]
  <1>1. new = [ok |-> db.ok /\ Seedable(db.tenants[t]), plans |-> db.plans,
               tenants |-> ts, users |-> us]
    BY DEF Backfill
  <1>2. /\ new.ok = (db.ok /\ Seedable(db.tenants[t])) /\ new.plans = db.plans
        /\ new.tenants = ts /\ new.users = us
    BY <1>1
  <1>3. t \in DOMAIN db.tenants  BY DEF Sound, Consistent, Businesses
  <1>4. ts \in Seq(TenantType) /\ Len(ts) = Len(db.tenants)
    BY <1>3, SoundFacts, ContentsFacts
  <1>5. /\ DOMAIN ts = DOMAIN db.tenants
        /\ \A i \in DOMAIN db.tenants :
             ts[i] = IF i = t THEN SeedContents(db.tenants[t]) ELSE db.tenants[i]
    BY <1>3
  <1>6. /\ us \in UsersType /\ DOMAIN us = DOMAIN db.users
        /\ \A e \in DOMAIN db.users :
             /\ us[e].tenant = db.users[e].tenant
             /\ us[e].enrolled = (db.users[e].enrolled \/ e \in {Owner(b), Staff(b)})
    BY SoundFacts, MFAFacts
  <1>7. \A i \in DOMAIN db.tenants :
          /\ ts[i].name = db.tenants[i].name
          /\ Seedable(db.tenants[i]) => Seedable(ts[i])
          /\ SeedContents(db.tenants[i]) = db.tenants[i] => ts[i] = db.tenants[i]
    BY <1>5, SoundFacts, ContentsFacts
  <1>8. new \in DatabaseType
    <2>1. new.ok \in BOOLEAN
      BY <1>2, SoundFacts
      DEF Seedable, AISeedable, KnowledgeSeedable, CustomersSeedable, CampaignsSeedable,
          InvoiceSeedable
    <2>2. QED  BY <1>1, <1>2, <1>4, <1>6, <2>1, SoundFacts DEF DatabaseType
  <1>9. Consistent(new)
    <2>1. \A c \in Businesses : Owner(c) \in DOMAIN db.users =>
                                  db.users[Owner(c)].tenant \in DOMAIN db.tenants
      BY DEF Sound, Consistent
    <2>2. \A c \in Sampled : Staff(c) \in DOMAIN db.users => Owner(c) \in DOMAIN db.users
      BY DEF Sound, Consistent
    <2> HIDE DEF t, us, ts
    <2>3. /\ DOMAIN new.tenants = DOMAIN db.tenants /\ DOMAIN new.users = DOMAIN db.users
          /\ \A e \in DOMAIN db.users : new.users[e].tenant = db.users[e].tenant
      BY <1>2, <1>5, <1>6
    <2>4. QED  BY <2>1, <2>2, <2>3 DEF Consistent
  <1>10. Grown(db, new)
    <2>1. Len(db.tenants) <= Len(new.tenants)  BY <1>2, <1>4, SoundFacts
    <2>2. \A i \in DOMAIN db.tenants : new.tenants[i].name = db.tenants[i].name
      BY <1>2, <1>7
    <2>3. QED  BY <1>2, <1>6, <2>1, <2>2 DEF Grown
  <1>11. new.ok => db.ok /\ Settled(new, b)
    <2>1. SUFFICES ASSUME new.ok PROVE db.ok /\ Settled(new, b)  OBVIOUS
    <2>2. db.ok /\ Seedable(db.tenants[t])  BY <1>2, <2>1
    <2>3. new.users[Owner(b)].tenant = t /\ new.tenants[t] = SeedContents(db.tenants[t])
      BY <1>2, <1>3, <1>5, <1>6
    <2>4. db.tenants[t] \in TenantType  BY <1>3, SoundFacts
    <2>5. Seedable(new.tenants[t]) /\ SeedContents(new.tenants[t]) = new.tenants[t]
      BY <2>2, <2>3, <2>4, ContentsFacts
    <2>6. QED  BY <1>2, <1>6, <2>2, <2>3, <2>5 DEF Settled
  <1>12. ASSUME NEW c \in Sampled, Settled(db, c) PROVE Settled(new, c)
    <2>1. Owner(c) \in DOMAIN db.users /\ db.users[Owner(c)].enrolled
      BY <1>12 DEF Settled
    <2>2. PICK k : k = db.users[Owner(c)].tenant  OBVIOUS
    <2>3. k \in DOMAIN db.tenants  BY <2>1, <2>2 DEF Sound, Consistent, Businesses
    <2>4. new.tenants[k] = db.tenants[k] /\ new.users[Owner(c)].tenant = k
      <3>1. SeedContents(db.tenants[k]) = db.tenants[k]  BY <1>12, <2>2 DEF Settled
      <3>2. ts[k] = db.tenants[k]  BY <1>7, <2>3, <3>1
      <3>3. us[Owner(c)].tenant = k  BY <1>6, <2>1, <2>2
      <3>4. QED  BY <1>2, <3>2, <3>3
    <2>5. Staff(c) \in DOMAIN db.users => us[Staff(c)].enrolled
      BY <1>6, <1>12 DEF Settled
    <2>6. us[Owner(c)].enrolled /\ DOMAIN us = DOMAIN db.users  BY <1>6, <2>1
    <2>7. Seedable(db.tenants[k]) /\ SeedContents(db.tenants[k]) = db.tenants[k]
      BY <1>12, <2>2 DEF Settled
    <2> HIDE DEF us, ts
    <2>8. QED  BY <1>2, <2>1, <2>4, <2>5, <2>6, <2>7, SMTT(20) DEF Settled
  <1>13. db.ok /\ Settled(db, b) => new = db
    <2>1. SUFFICES ASSUME db.ok, Settled(db, b) PROVE new = db  OBVIOUS
    <2>2. us = db.users
      <3>1. \A e \in {Owner(b), Staff(b)} \cap DOMAIN db.users : db.users[e].enrolled
        BY <2>1 DEF Settled
      <3>2. QED  BY <3>1, SoundFacts, MFAStill
    <2>3. ts = db.tenants
      <3>1. SeedContents(db.tenants[t]) = db.tenants[t]  BY <2>1 DEF Settled
      <3>2. QED  BY <1>3, <3>1, SoundFacts
    <2>4. new.ok = db.ok  BY <1>2, <2>1, SoundFacts DEF Settled
    <2>5. QED  BY <1>1, <1>2, <2>2, <2>3, <2>4, SoundFacts
  <1>14. Seeded(db, new, b)
    BY <1>2, <1>8, <1>9, <1>10, <1>11, <1>12, <1>13 DEF Seeded, Sound
  <1>15. Blameless(db, new, b)  BY <1>2, <1>5, <1>6, <1>7 DEF Blameless
  <1>16. Peopled(db, new)  BY <1>2, <1>5, <1>6 DEF Peopled
  <1>17. QED  BY <1>14, <1>15, <1>16

LEMMA CreateFacts ==
  ASSUME NEW db, Sound(db), NEW b \in Sampled, Owner(b) \notin DOMAIN db.users,
         NEW new, new = Create(db, b)
  PROVE  Seeded(db, new, b) /\ Blameless(db, new, b) /\ Peopled(db, new)
  <1> DEFINE n == Len(db.tenants) + 1
             slug == FreeSlug(db.tenants, b)
             active == [Tenant(b, slug, "named", TRUE) EXCEPT !.status = "active"]
             t == SeedSampleOrder(SeedContents(active))
             owner == With(db.users, Owner(b), User(n))
             owned == SeedMFA(owner, {Owner(b)})
             staff == With(owned, Staff(b), User(n))
             us == SeedStaff(owned, b, n)
             ts == Append(db.tenants, t)
  <1>1. slug \in Nat /\ \A i \in DOMAIN db.tenants : db.tenants[i].name = b => db.tenants[i].slug # slug
    BY SoundFacts, SlugFacts
  <1>2. /\ active.slug = slug /\ Seedable(active)
        /\ t \in TenantType /\ t.name = b /\ Seedable(t) /\ SeedContents(t) = t
    <2>1. active = New(b, slug) /\ t = Made(b, slug)  BY DEF New, Made
    <2>2. PICK number : number = slug  OBVIOUS
    <2>3. number \in Nat  BY <1>1, <2>2
    <2>4. /\ New(b, number).slug = number /\ Seedable(New(b, number))
          /\ Made(b, number) \in TenantType /\ Made(b, number).name = b
          /\ Seedable(Made(b, number)) /\ SeedContents(Made(b, number)) = Made(b, number)
      BY <2>3, NewFacts
    <2>5. QED  BY <2>1, <2>2, <2>4
  <1>3. new = [ok |-> db.ok, plans |-> db.plans, tenants |-> ts, users |-> us]
    <2>1. \A i \in DOMAIN db.tenants : <<db.tenants[i].name, db.tenants[i].slug>> # <<b, active.slug>>
      BY <1>1, <1>2
    <2>2. QED  BY <1>2, <2>1, SoundFacts DEF Create
  <1>4. new.ok = db.ok /\ new.plans = db.plans /\ new.tenants = ts /\ new.users = us  BY <1>3
  <1>5. t \in TenantType /\ t.name = b /\ Seedable(t) /\ SeedContents(t) = t  BY <1>2
  <1>6. n \in Nat /\ n \notin DOMAIN db.tenants  BY SoundFacts
  <1>7. /\ ts \in Seq(TenantType) /\ Len(ts) = n /\ DOMAIN ts = DOMAIN db.tenants \cup {n}
        /\ ts[n] = t /\ \A i \in DOMAIN db.tenants : ts[i] = db.tenants[i]
    <2>1. PICK old : old = db.tenants  OBVIOUS
    <2>2. PICK row : row = t  OBVIOUS
    <2>3. old \in Seq(TenantType) /\ row \in TenantType  BY <1>5, <2>1, <2>2, SoundFacts
    <2>4. Len(old) \in Nat /\ DOMAIN old = 1..Len(old)  BY <2>3
    <2>5. /\ Append(old, row) \in Seq(TenantType) /\ Len(Append(old, row)) = Len(old) + 1
          /\ \A i \in 1..Len(old) : Append(old, row)[i] = old[i]
          /\ Append(old, row)[Len(old) + 1] = row
      BY <2>3, AppendProperties
    <2>6. DOMAIN Append(old, row) = DOMAIN old \cup {Len(old) + 1}  BY <2>4, <2>5
    <2>7. ts = Append(old, row)  BY <2>1, <2>2
    <2>8. QED  BY <2>1, <2>2, <2>4, <2>5, <2>6, <2>7
  <1>8. Owner(b) \in Addresses /\ Staff(b) \in Addresses /\ Owner(b) # Staff(b)
    BY Apart DEF Addresses, Businesses
  <1>9. Staff(b) \notin DOMAIN db.users  BY DEF Sound, Consistent
  <1>10. /\ owner \in UsersType /\ DOMAIN owner = DOMAIN db.users \cup {Owner(b)}
         /\ owner[Owner(b)] = User(n) /\ \A e \in DOMAIN db.users : owner[e] = db.users[e]
    <2>1. PICK r : r = User(n)  OBVIOUS
    <2>2. PICK old : old = db.users  OBVIOUS
    <2>3. PICK o : o = With(old, Owner(b), r)  OBVIOUS
    <2>4. old \in UsersType /\ r \in UserType  BY <1>6, <2>1, <2>2, SoundFacts, UserFacts
    <2>5. /\ o \in UsersType /\ DOMAIN o = DOMAIN old \cup {Owner(b)} /\ o[Owner(b)] = r
          /\ \A x \in DOMAIN old : x # Owner(b) => o[x] = old[x]
      <3>1. Owner(b) \in Addresses  BY <1>8
      <3>2. QED  BY <2>3, <2>4, <3>1, WithFacts
    <2>6. o = owner  BY <2>1, <2>2, <2>3
    <2>7. \A e \in DOMAIN db.users : e # Owner(b)  OBVIOUS
    <2>8. QED  BY <2>1, <2>2, <2>5, <2>6, <2>7
  <1> HIDE DEF owner
  <1>11. /\ owned \in UsersType /\ DOMAIN owned = DOMAIN db.users \cup {Owner(b)}
         /\ owned[Owner(b)].tenant = n /\ owned[Owner(b)].enrolled
         /\ \A e \in DOMAIN db.users : owned[e] = db.users[e]
    <2>1. \A e \in DOMAIN db.users : e \notin {Owner(b)}  OBVIOUS
    <2>2. owner[Owner(b)].tenant = n  BY <1>10 DEF User
    <2>3. /\ owned \in UsersType /\ DOMAIN owned = DOMAIN owner
          /\ \A e \in DOMAIN owner : /\ owned[e].tenant = owner[e].tenant
                                     /\ owned[e].enrolled = (owner[e].enrolled \/ e \in {Owner(b)})
                                     /\ e \notin {Owner(b)} => owned[e] = owner[e]
      BY <1>10, MFAFacts
    <2>4. QED  BY <1>10, <2>1, <2>2, <2>3
  <1> HIDE DEF owned
  <1>12. /\ staff \in UsersType
         /\ DOMAIN staff = DOMAIN db.users \cup {Owner(b), Staff(b)}
         /\ staff[Staff(b)] = User(n) /\ staff[Owner(b)] = owned[Owner(b)]
         /\ \A e \in DOMAIN db.users : staff[e] = db.users[e]
    <2>1. PICK r : r = User(n)  OBVIOUS
    <2>2. PICK old : old = owned  OBVIOUS
    <2>3. PICK o : o = With(old, Staff(b), r)  OBVIOUS
    <2>4. old \in UsersType /\ r \in UserType /\ Staff(b) \in Addresses
      BY <1>6, <1>8, <1>11, <2>1, <2>2, UserFacts
    <2>5. /\ o \in UsersType /\ DOMAIN o = DOMAIN old \cup {Staff(b)} /\ o[Staff(b)] = r
          /\ \A x \in DOMAIN old : x # Staff(b) => o[x] = old[x]
      BY <2>3, <2>4, WithFacts
    <2>6. o = staff  BY <2>1, <2>2, <2>3
    <2>7. QED  BY <1>8, <1>9, <1>11, <2>1, <2>2, <2>5, <2>6
  <1>13. us = SeedMFA(staff, {Staff(b)})
    BY <1>8, <1>9, <1>11 DEF SeedStaff
  <1> HIDE DEF staff, us
  <1>14. /\ us \in UsersType /\ DOMAIN us = DOMAIN db.users \cup {Owner(b), Staff(b)}
         /\ us[Owner(b)].tenant = n /\ us[Owner(b)].enrolled
         /\ us[Staff(b)].tenant = n /\ us[Staff(b)].enrolled
         /\ \A e \in DOMAIN db.users : us[e] = db.users[e]
    <2>1. \A e \in DOMAIN db.users : e \notin {Staff(b)}  BY <1>9
    <2>2. staff[Staff(b)].tenant = n  BY <1>12 DEF User
    <2>3. /\ us \in UsersType /\ DOMAIN us = DOMAIN staff
          /\ \A e \in DOMAIN staff : /\ us[e].tenant = staff[e].tenant
                                     /\ us[e].enrolled = (staff[e].enrolled \/ e \in {Staff(b)})
                                     /\ e \notin {Staff(b)} => us[e] = staff[e]
      BY <1>12, <1>13, MFAFacts
    <2>4. QED  BY <1>8, <1>11, <1>12, <2>1, <2>2, <2>3
  <1>15. new \in DatabaseType  BY <1>3, <1>7, <1>14, SoundFacts DEF DatabaseType
  <1>16. Consistent(new)
    <2>1. ASSUME NEW c \in Businesses, Owner(c) \in DOMAIN us PROVE us[Owner(c)].tenant \in DOMAIN ts
      <3>1. CASE Owner(c) \in DOMAIN db.users
        BY <1>7, <1>14, <3>1 DEF Sound, Consistent
      <3>2. CASE Owner(c) \notin DOMAIN db.users
        <4>1. Owner(c) = Owner(b)  BY <1>14, <2>1, <3>2, Apart
        <4>2. QED  BY <1>7, <1>14, <4>1
      <3>3. QED  BY <3>1, <3>2
    <2>2. ASSUME NEW c \in Sampled, Staff(c) \in DOMAIN us PROVE Owner(c) \in DOMAIN us
      <3>1. CASE Staff(c) \in DOMAIN db.users
        BY <1>14, <3>1 DEF Sound, Consistent
      <3>2. CASE Staff(c) \notin DOMAIN db.users
        <4>1. c = b  BY <1>14, <2>2, <3>2, Apart
        <4>2. QED  BY <1>14, <4>1
      <3>3. QED  BY <3>1, <3>2
    <2>3. QED  BY <1>4, <2>1, <2>2 DEF Consistent
  <1>17. Grown(db, new)
    <2>1. Len(db.tenants) <= Len(new.tenants)  BY <1>4, <1>7, SoundFacts
    <2>2. \A i \in DOMAIN db.tenants : new.tenants[i].name = db.tenants[i].name
      BY <1>4, <1>7
    <2>3. \A e \in DOMAIN db.users : new.users[e] = db.users[e]  BY <1>4, <1>14
    <2>4. DOMAIN db.users \subseteq DOMAIN new.users  BY <1>4, <1>14
    <2>5. QED  BY <2>1, <2>2, <2>3, <2>4 DEF Grown
  <1>18. Settled(new, b)
    <2>1. new.tenants[n] = t /\ new.users[Owner(b)].tenant = n  BY <1>4, <1>7, <1>14
    <2>2. Seedable(new.tenants[n]) /\ SeedContents(new.tenants[n]) = new.tenants[n]
      BY <1>5, <2>1
    <2>3. Owner(b) \in DOMAIN new.users /\ new.users[Owner(b)].enrolled /\ new.users[Staff(b)].enrolled
      BY <1>4, <1>14
    <2>4. QED  BY <2>1, <2>2, <2>3 DEF Settled
  <1>19. ASSUME NEW c \in Sampled, Settled(db, c) PROVE Settled(new, c)
    <2>1. Owner(c) \in DOMAIN db.users /\ c # b  BY <1>19 DEF Settled
    <2>2. PICK k : k = db.users[Owner(c)].tenant  OBVIOUS
    <2>3. k \in DOMAIN db.tenants  BY <2>1, <2>2 DEF Sound, Consistent, Businesses
    <2>4. new.tenants[k] = db.tenants[k] /\ new.users[Owner(c)] = db.users[Owner(c)]
      BY <1>4, <1>7, <1>14, <2>1, <2>3
    <2>5. Staff(c) \in DOMAIN us => Staff(c) \in DOMAIN db.users
      BY <1>14, <2>1, Apart
    <2>6. QED  BY <1>4, <1>14, <1>19, <2>1, <2>2, <2>4, <2>5 DEF Settled
  <1>20. Seeded(db, new, b)
    BY <1>4, <1>15, <1>16, <1>17, <1>18, <1>19 DEF Seeded, Sound, Settled
  <1>21. Blameless(db, new, b)  BY <1>4, <1>5, <1>6, <1>7, <1>14 DEF Blameless
  <1>22. Peopled(db, new)
    <2>1. \A i \in DOMAIN ts \ DOMAIN db.tenants : \E e \in DOMAIN us : us[e].tenant = i
      BY <1>7, <1>14
    <2>2. Owner(E2E) \in DOMAIN us \ DOMAIN db.users => ts[us[Owner(E2E)].tenant].name = E2E
      <3>1. SUFFICES ASSUME Owner(E2E) \in DOMAIN us \ DOMAIN db.users
                     PROVE  ts[us[Owner(E2E)].tenant].name = E2E
        OBVIOUS
      <3>2. E2E = b  BY <1>14, <3>1, Apart
      <3>3. QED  BY <1>5, <1>7, <1>14, <3>2
    <2>3. \A x : Admin(x) \in DOMAIN us => Admin(x) \in DOMAIN db.users  BY <1>14, Apart
    <2>4. QED  BY <1>4, <2>1, <2>2, <2>3 DEF Peopled
  <1>23. QED  BY <1>20, <1>21, <1>22

LEMMA SampleFacts ==
  ASSUME NEW db, Sound(db), NEW b \in Sampled, NEW new, new = SeedSample(db, b)
  PROVE  Seeded(db, new, b) /\ Blameless(db, new, b) /\ Peopled(db, new)
  BY BackfillFacts, CreateFacts DEF SeedSample

(***************************************************************************)
(* All samples, one after the other: induction over their list.            *)
(***************************************************************************)
\* The databases on the way of SeedSamples.
Passed(db, f, n) == IF n = 0 THEN db ELSE SeedSample(f[n - 1], Samples[n])
Passes(db, f, m) == \A n \in 0..m : f[n] = Passed(db, f, n)

LEMMA PassExists == ASSUME NEW db, NEW m \in Nat PROVE \E f : Passes(db, f, m)
  <1> DEFINE S == {n \in Nat : \E f : Passes(db, f, n)}
  <1>1. 0 \in S
    <2>1. PICK f : f = [n \in 0..0 |-> db]  OBVIOUS
    <2>2. Passes(db, f, 0)  BY <2>1 DEF Passes, Passed
    <2>3. QED  BY <2>2
  <1>2. ASSUME NEW n \in Nat, n \in S PROVE n + 1 \in S
    <2>1. PICK f : Passes(db, f, n)  BY <1>2
    <2>2. PICK h : h = [k \in 0..(n + 1) |-> IF k <= n THEN f[k] ELSE SeedSample(f[n], Samples[k])]
      OBVIOUS
    <2>3. ASSUME NEW k \in 0..(n + 1) PROVE h[k] = Passed(db, h, k)
      <3>1. CASE k <= n
        <4>1. k \in 0..n /\ (k = 0 \/ (k - 1 \in 0..(n + 1) /\ k - 1 <= n))  BY <3>1
        <4>2. h[k] = f[k] /\ (k = 0 \/ h[k - 1] = f[k - 1])  BY <2>2, <3>1, <4>1
        <4>3. f[k] = Passed(db, f, k)  BY <2>1, <4>1 DEF Passes
        <4>4. QED  BY <4>2, <4>3 DEF Passed
      <3>2. CASE ~(k <= n)
        <4>1. k = n + 1 /\ k - 1 = n /\ n \in 0..(n + 1) /\ k # 0  BY <3>2
        <4>2. h[k] = SeedSample(f[n], Samples[k]) /\ h[k - 1] = f[n]  BY <2>2, <3>2, <4>1
        <4>3. QED  BY <4>1, <4>2 DEF Passed
      <3>3. QED  BY <3>1, <3>2
    <2>4. Passes(db, h, n + 1)  BY <2>3 DEF Passes
    <2>5. QED  BY <2>4
  <1> HIDE DEF S
  <1>3. m \in S  BY <1>1, <1>2, Upward
  <1>4. QED  BY <1>3 DEF S

LEMMA SamplesFacts ==
  Len(Samples) \in Nat /\ \A n \in 1..Len(Samples) : Samples[n] \in Sampled
  BY ProvisioningAssumption DEF Sampled

LEMMA SeedSamplesPasses ==
  ASSUME NEW db
  PROVE  \E f : Passes(db, f, Len(Samples)) /\ SeedSamples(db) = f[Len(Samples)]
  <1> DEFINE body(g) == [n \in 0..Len(Samples) |->
                           IF n = 0 THEN db ELSE SeedSample(g[n - 1], Samples[n])]
  <1>0. Len(Samples) \in Nat  BY SamplesFacts
  <1>1. PICK f : Passes(db, f, Len(Samples))  BY <1>0, PassExists
  <1>2. PICK g : g = [n \in 0..Len(Samples) |-> f[n]]  OBVIOUS
  <1>3. g = body(g)
    <2>1. \A n \in 0..Len(Samples) : n = 0 \/ g[n - 1] = f[n - 1]  BY <1>0, <1>2
    <2>2. ASSUME NEW n \in 0..Len(Samples) PROVE g[n] = body(g)[n]
      <3>1. f[n] = Passed(db, f, n)  BY <1>1 DEF Passes
      <3>2. Passed(db, f, n) = Passed(db, g, n)  BY <2>1, Zenon DEF Passed
      <3>3. QED  BY <1>2, <3>1, <3>2 DEF Passed
    <2>3. QED  BY <1>2, <2>2
  <1>4. PICK h : h = CHOOSE x : x = body(x)  OBVIOUS
  <1>5. h = body(h)  BY <1>3, <1>4, Zenon
  <1>6. SeedSamples(db) = h[Len(Samples)]  BY <1>4, Zenon DEF SeedSamples
  <1>7. Passes(db, h, Len(Samples))  BY <1>5 DEF Passes, Passed
  <1>8. QED  BY <1>6, <1>7

\* What has become of db when some samples have been seeded.
Blamed(db, new) ==
  /\ \A i \in DOMAIN new.tenants :
       (i \in DOMAIN db.tenants => Seedable(db.tenants[i])) => Seedable(new.tenants[i])
  /\ \A e \in DOMAIN new.users \ DOMAIN db.users : new.users[e].tenant \notin DOMAIN db.tenants
  /\ db.ok /\ ~new.ok => \E b \in Sampled :
       Owner(b) \in DOMAIN db.users /\ ~Seedable(db.tenants[db.users[Owner(b)].tenant])

Progress(db, new, n) ==
  /\ Sound(new) /\ Grown(db, new) /\ Blamed(db, new) /\ Peopled(db, new)
  /\ new.plans = db.plans
  /\ new.ok => db.ok /\ \A k \in 1..n : Settled(new, Samples[k])

LEMMA GrownOn ==
  ASSUME NEW a, Sound(a), NEW b, Sound(b), NEW c, Sound(c), Grown(a, b), Grown(b, c)
  PROVE  Grown(a, c)
  <1>1. /\ Len(a.tenants) \in Nat /\ Len(b.tenants) \in Nat /\ Len(c.tenants) \in Nat
        /\ DOMAIN a.tenants = 1..Len(a.tenants) /\ DOMAIN b.tenants = 1..Len(b.tenants)
    BY SoundFacts
  <1>2. Len(a.tenants) <= Len(c.tenants) /\ DOMAIN a.tenants \subseteq DOMAIN b.tenants
    BY <1>1 DEF Grown
  <1>3. QED  BY <1>2 DEF Grown

LEMMA BlamedOn ==
  ASSUME NEW a, Sound(a), NEW b, Sound(b), NEW c, Sound(c), NEW x \in Sampled,
         Grown(a, b), Grown(b, c), Blamed(a, b), Blameless(b, c, x)
  PROVE  Blamed(a, c)
  <1>1. /\ Len(a.tenants) \in Nat /\ Len(b.tenants) \in Nat
        /\ DOMAIN a.tenants = 1..Len(a.tenants) /\ DOMAIN b.tenants = 1..Len(b.tenants)
    BY SoundFacts
  <1>2. DOMAIN a.tenants \subseteq DOMAIN b.tenants  BY <1>1 DEF Grown
  <1>3. ASSUME NEW i \in DOMAIN c.tenants, i \in DOMAIN a.tenants => Seedable(a.tenants[i])
        PROVE  Seedable(c.tenants[i])
    BY <1>3 DEF Blamed, Blameless
  <1>4. ASSUME NEW e \in DOMAIN c.users \ DOMAIN a.users PROVE c.users[e].tenant \notin DOMAIN a.tenants
    BY <1>2, <1>4 DEF Blamed, Blameless, Grown
  <1>5. ASSUME a.ok, ~c.ok
        PROVE  \E y \in Sampled : /\ Owner(y) \in DOMAIN a.users
                                  /\ ~Seedable(a.tenants[a.users[Owner(y)].tenant])
    <2>1. CASE ~b.ok  BY <1>5, <2>1 DEF Blamed
    <2>2. CASE b.ok
      <3>1. PICK t : t = b.users[Owner(x)].tenant  OBVIOUS
      <3>2. Owner(x) \in DOMAIN b.users /\ ~Seedable(b.tenants[t])
        BY <1>5, <2>2, <3>1 DEF Blameless
      <3>3. t \in DOMAIN b.tenants  BY <3>1, <3>2 DEF Sound, Consistent, Businesses
      <3>4. t \in DOMAIN a.tenants /\ ~Seedable(a.tenants[t])  BY <3>2, <3>3 DEF Blamed
      <3>5. Owner(x) \in DOMAIN a.users  BY <3>1, <3>2, <3>4 DEF Blamed
      <3>6. a.users[Owner(x)].tenant = t  BY <3>1, <3>5 DEF Grown
      <3>7. QED  BY <3>4, <3>5, <3>6
    <2>3. QED  BY <2>1, <2>2
  <1>6. QED  BY <1>3, <1>4, <1>5 DEF Blamed

LEMMA PeopledOn ==
  ASSUME NEW a, Sound(a), NEW b, Sound(b), NEW c, Sound(c),
         Grown(b, c), Peopled(a, b), Peopled(b, c)
  PROVE  Peopled(a, c)
  <1>1. ASSUME NEW i \in DOMAIN c.tenants \ DOMAIN a.tenants
        PROVE  \E e \in DOMAIN c.users : c.users[e].tenant = i
    <2>1. CASE i \in DOMAIN b.tenants
      <3>1. PICK e \in DOMAIN b.users : b.users[e].tenant = i  BY <1>1, <2>1 DEF Peopled
      <3>2. e \in DOMAIN c.users /\ c.users[e].tenant = i  BY <3>1 DEF Grown
      <3>3. QED  BY <3>2
    <2>2. CASE i \notin DOMAIN b.tenants  BY <1>1, <2>2 DEF Peopled
    <2>3. QED  BY <2>1, <2>2
  <1>2. ASSUME Owner(E2E) \in DOMAIN c.users \ DOMAIN a.users
        PROVE  c.tenants[c.users[Owner(E2E)].tenant].name = E2E
    <2>1. CASE Owner(E2E) \in DOMAIN b.users
      <3>1. b.tenants[b.users[Owner(E2E)].tenant].name = E2E  BY <1>2, <2>1 DEF Peopled
      <3>2. b.users[Owner(E2E)].tenant \in DOMAIN b.tenants
        BY <2>1 DEF Sound, Consistent, Businesses
      <3>3. QED  BY <2>1, <3>1, <3>2 DEF Grown
    <2>2. CASE Owner(E2E) \notin DOMAIN b.users  BY <1>2, <2>2 DEF Peopled
    <2>3. QED  BY <2>1, <2>2
  <1>3. \A x : Admin(x) \in DOMAIN c.users => Admin(x) \in DOMAIN a.users  BY DEF Peopled
  <1>4. QED  BY <1>1, <1>2, <1>3 DEF Peopled

LEMMA SeedSamplesFacts ==
  ASSUME NEW db, Sound(db)
  PROVE  Progress(db, SeedSamples(db), Len(Samples))
  <1>0. Len(Samples) \in Nat  BY SamplesFacts
  <1>1. PICK f : Passes(db, f, Len(Samples)) /\ SeedSamples(db) = f[Len(Samples)]
    BY SeedSamplesPasses
  <1> DEFINE S == {n \in Nat : n <= Len(Samples) => Progress(db, f[n], n)}
  <1>2. 0 \in S
    <2>1. f[0] = db  BY <1>0, <1>1 DEF Passes, Passed
    <2>2. Grown(db, db)
      <3>1. Len(db.tenants) <= Len(db.tenants)  BY SoundFacts
      <3>2. QED  BY <3>1 DEF Grown
    <2>3. Blamed(db, db) /\ Peopled(db, db)  BY DEF Blamed, Peopled
    <2>4. Progress(db, db, 0)  BY <2>2, <2>3 DEF Progress
    <2>5. QED  BY <2>1, <2>4
  <1>3. ASSUME NEW n \in Nat, n \in S PROVE n + 1 \in S
    <2>1. SUFFICES ASSUME n + 1 <= Len(Samples) PROVE Progress(db, f[n + 1], n + 1)
      OBVIOUS
    <2>2. n + 1 \in 0..Len(Samples) /\ n + 1 # 0 /\ (n + 1) - 1 = n /\ n + 1 \in 1..Len(Samples)
          /\ n <= Len(Samples)
      BY <1>0, <2>1
    <2>3. PICK b : b = Samples[n + 1]  OBVIOUS
    <2>4. b \in Sampled  BY <2>2, <2>3, SamplesFacts
    <2>5. PICK was : was = f[n]  OBVIOUS
    <2>6. PICK new : new = f[n + 1]  OBVIOUS
    <2>7. f[n + 1] = SeedSample(f[n], Samples[n + 1])  BY <1>1, <2>2 DEF Passes, Passed
    <2>8. new = SeedSample(was, b)  BY <2>3, <2>5, <2>6, <2>7
    <2>9. Progress(db, was, n)  BY <1>3, <2>2, <2>5
    <2>10. Sound(was) /\ Grown(db, was) /\ Blamed(db, was) /\ Peopled(db, was)
      BY <2>9 DEF Progress
    <2>11. Seeded(was, new, b) /\ Blameless(was, new, b) /\ Peopled(was, new)
      BY <2>4, <2>8, <2>10, SampleFacts
    <2>12. Sound(new) /\ Grown(was, new) /\ new.plans = db.plans
      BY <2>9, <2>11 DEF Seeded, Progress
    <2>13. Grown(db, new)  BY <2>10, <2>12, GrownOn
    <2>14. Blamed(db, new)  BY <2>4, <2>10, <2>11, <2>12, BlamedOn
    <2>15. Peopled(db, new)  BY <2>10, <2>11, <2>12, PeopledOn
    <2>16. new.ok => db.ok /\ \A k \in 1..(n + 1) : Settled(new, Samples[k])
      <3>1. SUFFICES ASSUME new.ok PROVE db.ok /\ \A k \in 1..(n + 1) : Settled(new, Samples[k])
        OBVIOUS
      <3>2. was.ok /\ Settled(new, b)  BY <2>11, <3>1 DEF Seeded
      <3>3. db.ok /\ \A k \in 1..n : Settled(was, Samples[k])  BY <2>9, <3>2 DEF Progress
      <3>4. ASSUME NEW k \in 1..(n + 1) PROVE Settled(new, Samples[k])
        <4>1. CASE k = n + 1  BY <2>3, <3>2, <4>1
        <4>2. CASE k # n + 1
          <5>1. k \in 1..n /\ k \in 1..Len(Samples)  BY <1>0, <2>1, <4>2
          <5>2. Settled(was, Samples[k]) /\ Samples[k] \in Sampled  BY <3>3, <5>1, SamplesFacts
          <5>3. QED  BY <2>11, <5>2 DEF Seeded
        <4>3. QED  BY <4>1, <4>2
      <3>5. QED  BY <3>3, <3>4
    <2>17. Progress(db, new, n + 1)  BY <2>12, <2>13, <2>14, <2>15, <2>16 DEF Progress
    <2>18. QED  BY <2>6, <2>17
  <1> HIDE DEF S
  <1>4. Len(Samples) \in S  BY <1>0, <1>2, <1>3, Upward
  <1>5. QED  BY <1>0, <1>1, <1>4 DEF S

\* A database in which all samples are settled is left as it is.
LEMMA SeedSamplesStill ==
  ASSUME NEW db, Sound(db), db.ok, \A k \in 1..Len(Samples) : Settled(db, Samples[k])
  PROVE  SeedSamples(db) = db
  <1>0. Len(Samples) \in Nat  BY SamplesFacts
  <1>1. PICK f : Passes(db, f, Len(Samples)) /\ SeedSamples(db) = f[Len(Samples)]
    BY SeedSamplesPasses
  <1> DEFINE S == {n \in Nat : n <= Len(Samples) => f[n] = db}
  <1>2. 0 \in S  BY <1>0, <1>1 DEF Passes, Passed
  <1>3. ASSUME NEW n \in Nat, n \in S PROVE n + 1 \in S
    <2>1. SUFFICES ASSUME n + 1 <= Len(Samples) PROVE f[n + 1] = db  OBVIOUS
    <2>2. n + 1 \in 0..Len(Samples) /\ n + 1 # 0 /\ (n + 1) - 1 = n /\ n + 1 \in 1..Len(Samples)
          /\ n <= Len(Samples)
      BY <1>0, <2>1
    <2>3. f[n + 1] = SeedSample(f[n], Samples[n + 1])  BY <1>1, <2>2 DEF Passes, Passed
    <2>4. PICK b : b = Samples[n + 1]  OBVIOUS
    <2>5. b \in Sampled /\ Settled(db, b)  BY <2>2, <2>4, SamplesFacts
    <2>6. PICK new : new = SeedSample(db, b)  OBVIOUS
    <2>7. Seeded(db, new, b)  BY <2>5, <2>6, SampleFacts
    <2>8. new = db  BY <2>5, <2>7 DEF Seeded
    <2>9. QED  BY <1>3, <2>2, <2>3, <2>4, <2>6, <2>8
  <1> HIDE DEF S
  <1>4. Len(Samples) \in S  BY <1>0, <1>2, <1>3, Upward
  <1>5. QED  BY <1>0, <1>1, <1>4 DEF S

\* Before the samples, the plans.
LEMMA SeedPlansFacts ==
  ASSUME NEW db, Sound(db), NEW p, p = SeedPlans(db)
  PROVE  /\ Sound(p) /\ p.ok = (db.ok /\ db.plans # "taken") /\ p.plans = "there"
         /\ p.tenants = db.tenants /\ p.users = db.users
         /\ db.ok /\ db.plans = "there" => p = db
  <1>1. PICK ok : ok = (db.ok /\ db.plans # "taken")  BY Zenon
  <1>2. ok \in BOOLEAN  BY <1>1, SoundFacts
  <1>3. p = [db EXCEPT !.ok = ok, !.plans = "there"]  BY <1>1, Zenon DEF SeedPlans
  <1>4. p = [ok |-> ok, plans |-> "there", tenants |-> db.tenants, users |-> db.users]
    BY <1>3, SoundFacts
  <1>5. /\ p.ok = ok /\ p.plans = "there" /\ p.tenants = db.tenants /\ p.users = db.users
    BY <1>4
  <1>6. p \in DatabaseType  BY <1>2, <1>4, SoundFacts DEF DatabaseType, PlansType
  <1>7. Consistent(p)  BY <1>5 DEF Sound, Consistent
  <1>8. ASSUME db.ok, db.plans = "there" PROVE p = db
    <2>1. ok = TRUE /\ db.ok = TRUE  BY <1>1, <1>8, SoundFacts
    <2>2. QED  BY <1>4, <1>8, <2>1, SoundFacts
  <1>9. p.ok = (db.ok /\ db.plans # "taken")  BY <1>1, <1>5, Zenon
  <1>10. QED  BY <1>5, <1>6, <1>7, <1>8, <1>9 DEF Sound

LEMMA SeedAllFacts ==
  ASSUME NEW db, Sound(db), NEW new, new = SeedAll(db)
  PROVE  /\ Sound(new) /\ Grown(db, new) /\ Peopled(db, new) /\ new.plans = "there"
         /\ new.ok => db.ok /\ \A k \in 1..Len(Samples) : Settled(new, Samples[k])
         /\ db.ok /\ ~new.ok =>
              \/ db.plans = "taken"
              \/ \E b \in Sampled : /\ Owner(b) \in DOMAIN db.users
                                    /\ ~Seedable(db.tenants[db.users[Owner(b)].tenant])
  <1>1. PICK p : p = SeedPlans(db)  OBVIOUS
  <1>2. /\ Sound(p) /\ p.ok = (db.ok /\ db.plans # "taken") /\ p.plans = "there"
        /\ p.tenants = db.tenants /\ p.users = db.users
    BY <1>1, SeedPlansFacts
  <1>3. new = SeedSamples(p)  BY <1>1 DEF SeedAll
  <1>4. Progress(p, new, Len(Samples))  BY <1>2, <1>3, SeedSamplesFacts
  <1>5. Sound(new) /\ new.plans = "there"  BY <1>2, <1>4 DEF Progress
  <1>6. Grown(db, new) /\ Peopled(db, new)  BY <1>2, <1>4 DEF Progress, Grown, Peopled
  <1>7. new.ok => db.ok /\ \A k \in 1..Len(Samples) : Settled(new, Samples[k])
    BY <1>2, <1>4 DEF Progress
  <1>8. ASSUME db.ok, ~new.ok, db.plans # "taken"
        PROVE  \E b \in Sampled : /\ Owner(b) \in DOMAIN db.users
                                  /\ ~Seedable(db.tenants[db.users[Owner(b)].tenant])
    <2>1. p.ok  BY <1>2, <1>8
    <2>2. Blamed(p, new)  BY <1>4 DEF Progress
    <2>3. \E b \in Sampled : /\ Owner(b) \in DOMAIN p.users
                             /\ ~Seedable(p.tenants[p.users[Owner(b)].tenant])
      BY <1>8, <2>1, <2>2 DEF Blamed
    <2>4. QED  BY <1>2, <2>3
  <1>9. QED  BY <1>5, <1>6, <1>7, <1>8

LEMMA SeedAllStill ==
  ASSUME NEW db, Sound(db), db.ok, db.plans = "there",
         \A k \in 1..Len(Samples) : Settled(db, Samples[k])
  PROVE  SeedAll(db) = db
  <1>1. SeedPlans(db) = db  BY SeedPlansFacts
  <1>2. SeedSamples(db) = db  BY SeedSamplesStill
  <1>3. QED  BY <1>1, <1>2 DEF SeedAll

(***************************************************************************)
(* createsuperadmin and provision_e2e_user.                                *)
(***************************************************************************)
LEMMA SuperadminFacts ==
  ASSUME NEW db, Sound(db), NEW new, new = Superadmin(db)
  PROVE  /\ Sound(new) /\ new.ok = db.ok /\ new.plans = db.plans /\ new.tenants = db.tenants
         /\ DOMAIN new.users = DOMAIN db.users \cup {Super} /\ new.users[Super].enrolled
         /\ \A e \in DOMAIN db.users : new.users[e].tenant = db.users[e].tenant
         /\ Super \notin DOMAIN db.users => new.users[Super].tenant = 0
         /\ Superadmin(new) = new
  <1>1. PICK old : old = db.users  OBVIOUS
  <1>2. PICK u : u = IF Super \in DOMAIN old THEN old ELSE With(old, Super, User(0))  OBVIOUS
  <1>3. PICK us : us = SeedMFA(u, {Super})  OBVIOUS
  <1>4. old \in UsersType /\ Super \in Addresses /\ User(0) \in UserType
    BY <1>1, SoundFacts, UserFacts DEF Addresses
  <1>5. /\ u \in UsersType /\ DOMAIN u = DOMAIN old \cup {Super}
        /\ \A e \in DOMAIN old : u[e] = old[e]
        /\ Super \notin DOMAIN old => u[Super] = User(0)
    <2>1. CASE Super \in DOMAIN old  BY <1>2, <1>4, <2>1
    <2>2. CASE Super \notin DOMAIN old
      <3>1. PICK r : r = User(0)  OBVIOUS
      <3>2. PICK x : x = Super  OBVIOUS
      <3>3. u = With(old, x, r)  BY <1>2, <2>2, <3>1, <3>2
      <3>4. \A e \in DOMAIN old : e # x  BY <2>2, <3>2
      <3>5. x \in Addresses /\ r \in UserType /\ old \in UsersType  BY <1>4, <3>1, <3>2
      <3>6. /\ u \in UsersType /\ DOMAIN u = DOMAIN old \cup {x} /\ u[x] = r
            /\ \A e \in DOMAIN old : e # x => u[e] = old[e]
        BY <3>3, <3>5, WithFacts
      <3>7. QED  BY <3>1, <3>2, <3>4, <3>6
    <2>3. QED  BY <2>1, <2>2
  <1>6. /\ us \in UsersType /\ DOMAIN us = DOMAIN u /\ us[Super].enrolled
        /\ \A e \in DOMAIN u : us[e].tenant = u[e].tenant
    <2>1. u \in UsersType /\ Super \in DOMAIN u /\ Super \in {Super}  BY <1>5
    <2>2. PICK x : x = {Super}  OBVIOUS
    <2>3. us = SeedMFA(u, x)  BY <1>3, <2>2
    <2>4. /\ us \in UsersType /\ DOMAIN us = DOMAIN u
          /\ \A e \in DOMAIN u : /\ us[e].tenant = u[e].tenant
                                 /\ us[e].enrolled = (u[e].enrolled \/ e \in x)
      BY <2>1, <2>3, MFAFacts
    <2>5. QED  BY <2>1, <2>2, <2>4
  <1>7. new = [ok |-> db.ok, plans |-> db.plans, tenants |-> db.tenants, users |-> us]
    <2>1. new = [db EXCEPT !.users = us]  BY <1>1, <1>2, <1>3 DEF Superadmin
    <2>2. db = [ok |-> db.ok, plans |-> db.plans, tenants |-> db.tenants, users |-> db.users]
      BY SoundFacts
    <2>3. QED  BY <2>1, <2>2
  <1>8. new.ok = db.ok /\ new.plans = db.plans /\ new.tenants = db.tenants /\ new.users = us  BY <1>7
  <1>9. \A e \in DOMAIN db.users : us[e].tenant = db.users[e].tenant  BY <1>1, <1>5, <1>6
  <1>10. Super \notin DOMAIN db.users => us[Super].tenant = 0
    BY <1>1, <1>5, <1>6 DEF User
  <1>11. DOMAIN us = DOMAIN db.users \cup {Super}  BY <1>1, <1>5, <1>6
  <1>12. Sound(new)
    <2>1. new \in DatabaseType  BY <1>6, <1>7, SoundFacts DEF DatabaseType
    <2>2. \A b : Owner(b) # Super /\ Staff(b) # Super  BY Apart DEF Super
    <2>3. Consistent(new)  BY <1>8, <1>9, <1>11, <2>2 DEF Sound, Consistent
    <2>4. QED  BY <2>1, <2>3 DEF Sound
  <1>13. Superadmin(new) = new
    <2>1. SeedMFA(us, {Super}) = us  BY <1>6, MFAStill
    <2>2. Superadmin(new) = [new EXCEPT !.users = us]
      BY <1>8, <1>11, <2>1 DEF Superadmin
    <2>3. QED  BY <1>7, <2>2
  <1>14. QED  BY <1>6, <1>8, <1>9, <1>10, <1>11, <1>12, <1>13

\* There is one e2e tenant, and it is t; its accounts are as provisioned.
Provisioned(db, t) ==
  /\ db.ok /\ t \in DOMAIN db.tenants /\ db.tenants[t].status = "active"
  /\ db.tenants[t].business # "none"
  /\ \A i \in DOMAIN db.tenants : db.tenants[i].name = E2E <=> i = t
  /\ Owner(E2E) \in DOMAIN db.users /\ db.users[Owner(E2E)] = Known(t)
  /\ Admin(E2E) \in DOMAIN db.users /\ db.users[Admin(E2E)] = Known(0)

LEMMA TwoAccounts ==
  ASSUME NEW old \in UsersType, NEW a \in Addresses, NEW b \in Addresses, a # b,
         NEW q \in UserType, NEW r \in UserType, NEW w, w = With(With(old, a, q), b, r)
  PROVE  /\ w \in UsersType /\ DOMAIN w = DOMAIN old \cup {a, b} /\ w[a] = q /\ w[b] = r
         /\ \A e \in DOMAIN old \ {a, b} : w[e] = old[e]
  <1>1. PICK v : v = With(old, a, q)  OBVIOUS
  <1>2. /\ v \in UsersType /\ DOMAIN v = DOMAIN old \cup {a} /\ v[a] = q
        /\ \A x \in DOMAIN old : x # a => v[x] = old[x]
    BY <1>1, WithFacts
  <1>3. w = With(v, b, r)  BY <1>1
  <1>4. /\ w \in UsersType /\ DOMAIN w = DOMAIN v \cup {b} /\ w[b] = r
        /\ \A x \in DOMAIN v : x # b => w[x] = v[x]
    <2>1. v \in UsersType /\ b \in Addresses /\ r \in UserType  BY <1>2
    <2>2. PICK m : m = With(v, b, r)  OBVIOUS
    <2>3. /\ m \in UsersType /\ DOMAIN m = DOMAIN v \cup {b} /\ m[b] = r
          /\ \A x \in DOMAIN v : x # b => m[x] = v[x]
      BY <2>1, <2>2, WithFacts
    <2>4. QED  BY <1>3, <2>2, <2>3
  <1>5. QED  BY <1>2, <1>4

LEMMA E2EFacts ==
  ASSUME NEW db, Sound(db), NEW new, new = ProvisionE2E(db), new.ok
  PROVE  /\ Sound(new) /\ db.ok
         /\ \E t : /\ Provisioned(new, t)
                   /\ DOMAIN new.tenants = DOMAIN db.tenants \cup {t}
         /\ \A i \in DOMAIN db.tenants : new.tenants[i].name = db.tenants[i].name
         /\ DOMAIN new.users = DOMAIN db.users \cup {Owner(E2E), Admin(E2E)}
         /\ \A e \in DOMAIN db.users \ {Owner(E2E), Admin(E2E)} : new.users[e] = db.users[e]
  <1> DEFINE found == {i \in DOMAIN db.tenants : db.tenants[i].name = E2E}
             slug == FreeSlug(db.tenants, E2E)
             fresh == Tenant(E2E, slug, "named", db.plans = "there")
             ts == IF found = {} THEN Append(db.tenants, fresh) ELSE db.tenants
             t == IF found = {} THEN Len(ts) ELSE CHOOSE i \in found : TRUE
             act == [ts EXCEPT ![t].status = "active",
                               ![t].business = IF @ = "none" THEN "named" ELSE @]
             us == With(With(db.users, Owner(E2E), Known(t)), Admin(E2E), Known(0))
  <1>1. new = [ok |-> db.ok /\ Cardinality(found) <= 1, plans |-> db.plans,
               tenants |-> act, users |-> us]
    BY DEF ProvisionE2E
  <1> HIDE DEF act, us, found
  <1>2. db.ok /\ Cardinality(found) <= 1 /\ new.tenants = act /\ new.users = us
    <2>1. PICK ok : ok = (db.ok /\ Cardinality(found) <= 1)  OBVIOUS
    <2>2. db.ok /\ Cardinality(found) <= 1
      <3>1. new = [ok |-> ok, plans |-> db.plans, tenants |-> act, users |-> us]  BY <1>1, <2>1, Zenon
      <3>2. new.ok = ok  BY <3>1
      <3>3. QED  BY <2>1, <3>2, Zenon
    <2>3. new.tenants = act /\ new.users = us  BY <1>1
    <2>4. QED  BY <2>2, <2>3
  <1> USE DEF act, us, found
  <1>3. fresh \in TenantType /\ fresh.name = E2E
    <2>1. slug \in Nat  BY SoundFacts, SlugFacts
    <2>2. (db.plans = "there") \in BOOLEAN  OBVIOUS
    <2>3. QED  BY <2>1, <2>2 DEF Tenant, TenantType
  <1>4. \A i \in found, j \in found : i = j
    <2>1. SUFFICES ASSUME NEW i \in found, NEW j \in found, i # j PROVE FALSE  OBVIOUS
    <2>2. found \subseteq 1..Len(db.tenants) /\ Len(db.tenants) \in Nat  BY SoundFacts
    <2>3. IsFiniteSet(found)  BY <2>2, FS_Interval, FS_Subset
    <2>4. Cardinality({i}) = 1 /\ IsFiniteSet({i})  BY FS_Singleton
    <2>5. Cardinality({i} \cup {j}) = 2 /\ IsFiniteSet({i} \cup {j})
      <3>1. j \notin {i}  BY <2>1
      <3>2. Cardinality({i} \cup {j}) = Cardinality({i}) + 1 /\ IsFiniteSet({i} \cup {j})
        BY <2>4, <3>1, FS_AddElement
      <3>3. QED  BY <2>4, <3>2
    <2>6. {i} \cup {j} \subseteq found  BY <2>1
    <2> HIDE DEF found
    <2>7. Cardinality({i} \cup {j}) <= Cardinality(found)  BY <2>3, <2>6, FS_Subset
    <2>8. Cardinality(found) \in Nat  BY <2>3, FS_CardinalityType
    <2>9. Cardinality(found) <= 1  BY <1>2, Zenon
    <2>10. 2 <= Cardinality(found)  BY <2>5, <2>7, Zenon
    <2>11. \A c \in Nat : ~ (c <= 1 /\ 2 <= c)  OBVIOUS
    <2>12. QED  BY <2>8, <2>9, <2>10, <2>11, Zenon
  <1>5. /\ ts \in Seq(TenantType) /\ t \in DOMAIN ts /\ DOMAIN ts = DOMAIN db.tenants \cup {t}
        /\ \A i \in DOMAIN db.tenants : ts[i] = db.tenants[i]
        /\ \A i \in DOMAIN ts : ts[i].name = E2E <=> i = t
    <2>1. CASE found = {}
      <3>1. ts = Append(db.tenants, fresh) /\ t = Len(ts)  BY <2>1
      <3>2. /\ ts \in Seq(TenantType) /\ Len(ts) = Len(db.tenants) + 1
            /\ ts[Len(db.tenants) + 1] = fresh
            /\ \A i \in 1..Len(db.tenants) : ts[i] = db.tenants[i]
        BY <1>3, <3>1, SoundFacts, AppendProperties
      <3>3. t = Len(db.tenants) + 1 /\ DOMAIN ts = 1..(Len(db.tenants) + 1)
        BY <3>1, <3>2
      <3>4. \A i \in DOMAIN db.tenants : db.tenants[i].name # E2E  BY <2>1
      <3>5. DOMAIN db.tenants = 1..Len(db.tenants) /\ Len(db.tenants) \in Nat  BY SoundFacts
      <3> HIDE DEF ts, t, fresh, found
      <3>6. DOMAIN ts = DOMAIN db.tenants \cup {t} /\ t \notin DOMAIN db.tenants
        BY <3>3, <3>5
      <3>7. QED  BY <1>3, <3>2, <3>3, <3>4, <3>5, <3>6
    <2>2. CASE found # {}
      <3>1. ts = db.tenants /\ t \in found  BY <2>2
      <3>2. ts \in Seq(TenantType)  BY <3>1, SoundFacts
      <3>3. \A i \in DOMAIN ts : ts[i].name = E2E <=> i = t  BY <1>4, <3>1
      <3>4. t \in DOMAIN db.tenants  BY <3>1
      <3> HIDE DEF ts, t
      <3>5. QED  BY <3>1, <3>2, <3>3, <3>4
    <2>3. QED  BY <2>1, <2>2
  <1> HIDE DEF ts, t, fresh, slug, found
  <1>6. /\ act \in Seq(TenantType) /\ DOMAIN act = DOMAIN ts /\ act[t].status = "active"
        /\ act[t].business # "none" /\ \A i \in DOMAIN ts : act[i].name = ts[i].name
    <2>1. ts[t] \in TenantType  BY <1>5
    <2>2. PICK o : o = [ts[t] EXCEPT !.status = "active"]  OBVIOUS
    <2>3. o \in TenantType /\ o.name = ts[t].name /\ o.status = "active"
          /\ o.business = ts[t].business
      <3>1. o \in TenantType  BY <2>1, <2>2, FieldTypes
      <3>2. QED  BY <2>1, <2>2, <3>1 DEF TenantType
    <2>4. PICK w : w = IF o.business = "none" THEN "named" ELSE o.business  OBVIOUS
    <2>5. PICK a : a = [o EXCEPT !.business = w]  OBVIOUS
    <2>6. /\ act = [ts EXCEPT ![t] = a] /\ a \in TenantType
          /\ a.name = ts[t].name /\ a.status = "active" /\ a.business # "none"
      <3>1. w \in {"named", "long"}
        <4>1. o.business \in {"none", "named", "long"}  BY <2>3 DEF TenantType
        <4>2. QED  BY <2>4, <4>1
      <3>2. a \in TenantType  BY <2>3, <2>5, <3>1, FieldTypes
      <3>3. a.name = o.name /\ a.status = o.status /\ a.business = w
        BY <2>3, <2>5 DEF TenantType
      <3>4. act = [ts EXCEPT ![t] = a]  BY <1>5, <2>2, <2>4, <2>5
      <3>5. QED  BY <2>3, <3>1, <3>2, <3>3, <3>4
    <2>7. act \in Seq(TenantType) /\ DOMAIN act = DOMAIN ts /\ act[t] = a
          /\ \A i \in DOMAIN ts : i # t => act[i] = ts[i]
      <3>1. PICK q : q = ts  OBVIOUS
      <3>2. q \in Seq(TenantType) /\ t \in DOMAIN q  BY <1>5, <3>1
      <3>3. a \in TenantType  BY <2>6
      <3>4. /\ [q EXCEPT ![t] = a] \in Seq(TenantType)
            /\ DOMAIN [q EXCEPT ![t] = a] = DOMAIN q
            /\ \A i \in DOMAIN q : [q EXCEPT ![t] = a][i] = IF i = t THEN a ELSE q[i]
        BY <3>2, <3>3
      <3>5. QED  BY <2>6, <3>1, <3>2, <3>4
    <2>8. QED  BY <2>6, <2>7
  <1> HIDE DEF act
  <1>7. t \in Nat
    <2>1. PICK q : q = ts  OBVIOUS
    <2>2. q \in Seq(TenantType) /\ t \in DOMAIN q  BY <1>5, <2>1
    <2>3. DOMAIN q = 1..Len(q) /\ Len(q) \in Nat  BY <2>2
    <2>4. QED  BY <2>2, <2>3
  <1>8. Owner(E2E) \in Addresses /\ Admin(E2E) \in Addresses /\ Owner(E2E) # Admin(E2E)
    BY Apart DEF Addresses, Businesses
  <1>9. /\ us \in UsersType /\ DOMAIN us = DOMAIN db.users \cup {Owner(E2E), Admin(E2E)}
        /\ us[Owner(E2E)] = Known(t) /\ us[Admin(E2E)] = Known(0)
        /\ \A e \in DOMAIN db.users \ {Owner(E2E), Admin(E2E)} : us[e] = db.users[e]
    <2>1. Known(t) \in UserType /\ Known(0) \in UserType  BY <1>7, UserFacts
    <2>2. db.users \in UsersType  BY SoundFacts
    <2>3. PICK q : q = Known(t)  OBVIOUS
    <2>4. PICK r : r = Known(0)  OBVIOUS
    <2>5. PICK a : a = Owner(E2E)  OBVIOUS
    <2>6. PICK b : b = Admin(E2E)  OBVIOUS
    <2>7. PICK old : old = db.users  OBVIOUS
    <2>8. PICK w : w = With(With(old, a, q), b, r)  OBVIOUS
    <2>9. /\ old \in UsersType /\ a \in Addresses /\ b \in Addresses /\ a # b
          /\ q \in UserType /\ r \in UserType
      BY <1>8, <2>1, <2>2, <2>3, <2>4, <2>5, <2>6, <2>7
    <2>10. /\ w \in UsersType /\ DOMAIN w = DOMAIN old \cup {a, b} /\ w[a] = q /\ w[b] = r
           /\ \A e \in DOMAIN old \ {a, b} : w[e] = old[e]
      BY <2>8, <2>9, TwoAccounts
    <2>11. w = us  BY <2>3, <2>4, <2>5, <2>6, <2>7, <2>8
    <2>12. QED  BY <2>3, <2>4, <2>5, <2>6, <2>7, <2>10, <2>11
  <1> HIDE DEF us
  <1>10. new \in DatabaseType  BY <1>1, <1>2, <1>6, <1>9, SoundFacts DEF DatabaseType
  <1>11. Consistent(new)
    <2>1. ASSUME NEW b \in Businesses, Owner(b) \in DOMAIN us PROVE us[Owner(b)].tenant \in DOMAIN act
      <3>1. CASE b = E2E  BY <1>5, <1>6, <1>9, <3>1 DEF Known
      <3>2. CASE b # E2E
        <4>1. Owner(b) \in DOMAIN db.users \ {Owner(E2E), Admin(E2E)}
          BY <1>9, <2>1, <3>2, Apart
        <4>2. db.users[Owner(b)].tenant \in DOMAIN db.tenants
          BY <4>1 DEF Sound, Consistent
        <4>3. QED  BY <1>5, <1>6, <1>9, <4>1, <4>2
      <3>3. QED  BY <3>1, <3>2
    <2>2. ASSUME NEW b \in Sampled, Staff(b) \in DOMAIN us PROVE Owner(b) \in DOMAIN us
      <3>1. Staff(b) \in DOMAIN db.users  BY <1>9, <2>2, Apart
      <3>2. QED  BY <1>9, <3>1 DEF Sound, Consistent
    <2>3. QED  BY <1>2, <2>1, <2>2 DEF Consistent
  <1>12. Provisioned(new, t)
    BY <1>2, <1>5, <1>6, <1>9 DEF Provisioned
  <1>13. DOMAIN new.tenants = DOMAIN db.tenants \cup {t}  BY <1>2, <1>5, <1>6
  <1>14. \A i \in DOMAIN db.tenants : new.tenants[i].name = db.tenants[i].name
    BY <1>2, <1>5, <1>6
  <1>15. QED  BY <1>2, <1>9, <1>10, <1>11, <1>12, <1>13, <1>14 DEF Sound

\* Such a database is left as it is.
LEMMA E2EStill ==
  ASSUME NEW db, Sound(db), NEW t, Provisioned(db, t)
  PROVE  ProvisionE2E(db) = db
  <1> DEFINE found == {i \in DOMAIN db.tenants : db.tenants[i].name = E2E}
  <1>1. found = {t} /\ t \in DOMAIN db.tenants  BY DEF Provisioned
  <1>2. Cardinality(found) <= 1
    <2>1. Cardinality({t}) = 1  BY FS_Singleton
    <2>2. QED  BY <1>1, <2>1
  <1>3. (CHOOSE i \in found : TRUE) = t /\ found # {}  BY <1>1
  <1>4. ProvisionE2E(db) =
          [ok |-> db.ok /\ Cardinality(found) <= 1, plans |-> db.plans,
           tenants |-> [db.tenants EXCEPT ![t].status = "active",
                                          ![t].business = IF @ = "none" THEN "named" ELSE @],
           users |-> With(With(db.users, Owner(E2E), Known(t)), Admin(E2E), Known(0))]
    BY <1>3 DEF ProvisionE2E
  <1>5. [db.tenants EXCEPT ![t].status = "active",
                           ![t].business = IF @ = "none" THEN "named" ELSE @] = db.tenants
    <2>1. PICK o : o = db.tenants[t]  OBVIOUS
    <2>2. o \in TenantType /\ o.status = "active" /\ o.business # "none"
      BY <1>1, <2>1, SoundFacts DEF Provisioned
    <2>3. [o EXCEPT !.status = "active", !.business = IF @ = "none" THEN "named" ELSE @] = o
      BY <2>2 DEF TenantType
    <2>4. [db.tenants EXCEPT ![t] = o] = db.tenants  BY <1>1, <2>1, SoundFacts
    <2>5. QED  BY <1>1, <2>1, <2>3, <2>4, SoundFacts
  <1>6. ASSUME NEW e \in DOMAIN db.users PROVE With(db.users, e, db.users[e]) = db.users
    <2>1. db.users \in [DOMAIN db.users -> UserType]  BY SoundFacts, UsersAre
    <2>2. DOMAIN db.users \cup {e} = DOMAIN db.users  OBVIOUS
    <2>3. QED  BY <2>1, <2>2 DEF With
  <1>7. With(With(db.users, Owner(E2E), Known(t)), Admin(E2E), Known(0)) = db.users
    BY <1>6 DEF Provisioned
  <1>8. db.ok = TRUE  BY SoundFacts DEF Provisioned
  <1>9. QED  BY <1>2, <1>4, <1>5, <1>7, <1>8, SoundFacts

(***************************************************************************)
(* Any command.                                                            *)
(***************************************************************************)
Accounts(command) ==
  CASE command = "seed" -> {Owner(b) : b \in Sampled}
    [] command = "superadmin" -> {Super}
    [] command = "e2e" -> {Owner(E2E), Admin(E2E)}

\* Tenants have owners, the e2e tenant its own; platform admins have no tenant.
Owned(db) ==
  /\ \A i \in DOMAIN db.tenants : \E e \in DOMAIN db.users : db.users[e].tenant = i
  /\ Owner(E2E) \in DOMAIN db.users => db.tenants[db.users[Owner(E2E)].tenant].name = E2E
  /\ \A x : Admin(x) \in DOMAIN db.users => db.users[Admin(x)].tenant = 0

\* What a command makes of the database when it runs to its end.
LEMMA RunFacts ==
  ASSUME NEW db, Sound(db), NEW command \in Commands, NEW new, new = Run(command, db), new.ok
  PROVE  /\ Sound(new) /\ Run(command, new) = new
         /\ \A e \in Accounts(command) : e \in DOMAIN new.users /\ new.users[e].enrolled
         /\ command = "seed" => \A b \in Sampled :
              Staff(b) \in DOMAIN new.users => new.users[Staff(b)].enrolled
  <1>1. CASE command = "seed"
    <2>1. new = SeedAll(db)  BY <1>1 DEF Run
    <2>2. Sound(new) /\ new.plans = "there"  BY <2>1, SeedAllFacts
    <2>3. Sound(new) /\ \A k \in 1..Len(Samples) : Settled(new, Samples[k])
      BY <2>1, SeedAllFacts
    <2>4. SeedAll(new) = new  BY <2>2, <2>3, SeedAllStill
    <2>5. Run(command, new) = new  BY <1>1, <2>4 DEF Run
    <2>6. ASSUME NEW b \in Sampled PROVE Settled(new, b)
      <3>1. PICK k \in DOMAIN Samples : b = Samples[k]  BY DEF Sampled
      <3>2. DOMAIN Samples = 1..Len(Samples)  BY ProvisioningAssumption
      <3>3. QED  BY <2>3, <3>1, <3>2
    <2>7. \A e \in Accounts(command) : e \in DOMAIN new.users /\ new.users[e].enrolled
      BY <1>1, <2>6 DEF Accounts, Settled
    <2>8. QED  BY <2>3, <2>5, <2>6, <2>7 DEF Settled
  <1>2. CASE command = "superadmin"
    <2>1. new = Superadmin(db)  BY <1>2 DEF Run
    <2>2. /\ Sound(new) /\ Superadmin(new) = new
          /\ Super \in DOMAIN new.users /\ new.users[Super].enrolled
      BY <2>1, SuperadminFacts
    <2>3. Run(command, new) = new  BY <1>2, <2>2 DEF Run
    <2>4. QED  BY <1>2, <2>2, <2>3 DEF Accounts
  <1>3. CASE command = "e2e"
    <2>1. new = ProvisionE2E(db)  BY <1>3 DEF Run
    <2>2. PICK t : Sound(new) /\ Provisioned(new, t)  BY <2>1, E2EFacts
    <2>3. ProvisionE2E(new) = new  BY <2>2, E2EStill
    <2>4. Run(command, new) = new  BY <1>3, <2>3 DEF Run
    <2>5. \A e \in Accounts(command) : e \in DOMAIN new.users /\ new.users[e].enrolled
      BY <1>3, <2>2 DEF Accounts, Provisioned, Known
    <2>6. QED  BY <1>3, <2>2, <2>4, <2>5
  <1>4. QED  BY <1>1, <1>2, <1>3 DEF Commands

LEMMA RunOwned ==
  ASSUME NEW db, Sound(db), Owned(db), NEW command \in Commands,
         NEW new, new = Run(command, db), new.ok
  PROVE  Owned(new)
  <1>1. CASE command = "seed"
    <2>1. new = SeedAll(db)  BY <1>1 DEF Run
    <2>2. Sound(new) /\ Grown(db, new) /\ Peopled(db, new)  BY <2>1, SeedAllFacts
    <2>3. ASSUME NEW i \in DOMAIN new.tenants PROVE \E e \in DOMAIN new.users : new.users[e].tenant = i
      <3>1. CASE i \in DOMAIN db.tenants
        <4>1. PICK e \in DOMAIN db.users : db.users[e].tenant = i  BY <3>1 DEF Owned
        <4>2. e \in DOMAIN new.users /\ new.users[e].tenant = i  BY <2>2, <4>1 DEF Grown
        <4>3. QED  BY <4>2
      <3>2. CASE i \notin DOMAIN db.tenants  BY <2>2, <2>3, <3>2 DEF Peopled
      <3>3. QED  BY <3>1, <3>2
    <2>4. ASSUME Owner(E2E) \in DOMAIN new.users
          PROVE  new.tenants[new.users[Owner(E2E)].tenant].name = E2E
      <3>1. CASE Owner(E2E) \in DOMAIN db.users
        <4>1. db.users[Owner(E2E)].tenant \in DOMAIN db.tenants
          BY <3>1 DEF Sound, Consistent, Businesses
        <4>2. QED  BY <2>2, <3>1, <4>1 DEF Grown, Owned
      <3>2. CASE Owner(E2E) \notin DOMAIN db.users  BY <2>2, <2>4, <3>2 DEF Peopled
      <3>3. QED  BY <3>1, <3>2
    <2>5. \A x : Admin(x) \in DOMAIN new.users => new.users[Admin(x)].tenant = 0
      BY <2>2 DEF Peopled, Grown, Owned
    <2>6. QED  BY <2>3, <2>4, <2>5 DEF Owned
  <1>2. CASE command = "superadmin"
    <2>1. new = Superadmin(db)  BY <1>2 DEF Run
    <2>2. /\ new.tenants = db.tenants /\ DOMAIN new.users = DOMAIN db.users \cup {Super}
          /\ \A e \in DOMAIN db.users : new.users[e].tenant = db.users[e].tenant
          /\ Super \notin DOMAIN db.users => new.users[Super].tenant = 0
      BY <2>1, SuperadminFacts
    <2>3. Owner(E2E) # Super  BY Apart DEF Super
    <2>4. \A x : Admin(x) \in DOMAIN new.users => new.users[Admin(x)].tenant = 0
      BY <2>2 DEF Owned
    <2>5. \A i \in DOMAIN new.tenants : \E e \in DOMAIN new.users : new.users[e].tenant = i
      BY <2>2 DEF Owned
    <2>6. Owner(E2E) \in DOMAIN new.users => new.tenants[new.users[Owner(E2E)].tenant].name = E2E
      BY <2>2, <2>3 DEF Owned
    <2>7. QED  BY <2>4, <2>5, <2>6 DEF Owned
  <1>3. CASE command = "e2e"
    <2>1. new = ProvisionE2E(db)  BY <1>3 DEF Run
    <2>2. PICK t :
            /\ Provisioned(new, t) /\ DOMAIN new.tenants = DOMAIN db.tenants \cup {t}
            /\ \A i \in DOMAIN db.tenants : new.tenants[i].name = db.tenants[i].name
            /\ DOMAIN new.users = DOMAIN db.users \cup {Owner(E2E), Admin(E2E)}
            /\ \A e \in DOMAIN db.users \ {Owner(E2E), Admin(E2E)} : new.users[e] = db.users[e]
      BY <2>1, E2EFacts
    <2>3. new.users[Owner(E2E)].tenant = t /\ new.users[Admin(E2E)].tenant = 0
      BY <2>2 DEF Provisioned, Known
    <2>4. ASSUME NEW i \in DOMAIN new.tenants PROVE \E e \in DOMAIN new.users : new.users[e].tenant = i
      <3>1. CASE i = t  BY <2>2, <2>3, <3>1
      <3>2. CASE i # t
        <4>1. i \in DOMAIN db.tenants /\ db.tenants[i].name # E2E
          BY <2>2, <2>4, <3>2 DEF Provisioned
        <4>2. PICK e \in DOMAIN db.users : db.users[e].tenant = i  BY <4>1 DEF Owned
        <4>3. e # Owner(E2E)  BY <4>1, <4>2 DEF Owned
        <4>4. e # Admin(E2E)
          <5>1. i # 0  BY <4>1, SoundFacts
          <5>2. QED  BY <4>2, <5>1 DEF Owned
        <4>5. e \in DOMAIN new.users /\ new.users[e].tenant = i  BY <2>2, <4>2, <4>3, <4>4
        <4>6. QED  BY <4>5
      <3>3. QED  BY <3>1, <3>2
    <2>5. new.tenants[new.users[Owner(E2E)].tenant].name = E2E
      BY <2>2, <2>3 DEF Provisioned
    <2>6. ASSUME NEW x, Admin(x) \in DOMAIN new.users PROVE new.users[Admin(x)].tenant = 0
      <3>1. CASE Admin(x) = Admin(E2E)  BY <2>3, <3>1
      <3>2. CASE Admin(x) # Admin(E2E)
        <4>1. Admin(x) # Owner(E2E)  BY Apart
        <4>2. Admin(x) \in DOMAIN db.users \ {Owner(E2E), Admin(E2E)}  BY <2>2, <2>6, <3>2, <4>1
        <4>3. QED  BY <2>2, <4>2 DEF Owned
      <3>3. QED  BY <3>1, <3>2
    <2>7. QED  BY <2>4, <2>5, <2>6 DEF Owned
  <1>4. QED  BY <1>1, <1>2, <1>3 DEF Commands

(***************************************************************************)
(* The inductive invariant.                                                *)
(***************************************************************************)
\* Onboardings have been given a name and an address, and those that have
\* inserted an owner have the address to themselves.
RequestOK ==
  \A r \in Requests :
    /\ req[r].at # "idle" => req[r].name \in Names /\ \E p \in People : req[r].email = Owner(p)
    /\ req[r].at = "commit" =>
         /\ req[r].email \notin DOMAIN users
         /\ \A q \in Requests \ {r} : req[q].at = "commit" => req[q].email # req[r].email

IInv == TypeOK /\ Consistent(Database) /\ RequestOK

LEMMA DatabaseFacts ==
  ASSUME IInv
  PROVE  /\ Sound(Database) /\ Database.ok = TRUE
         /\ Database.plans = plans /\ Database.tenants = tenants /\ Database.users = users
  <1>1. /\ Database.ok = TRUE /\ Database.plans = plans
        /\ Database.tenants = tenants /\ Database.users = users
    BY DEF Database
  <1>2. Database \in DatabaseType  BY DEF Database, DatabaseType, IInv, TypeOK
  <1>3. QED  BY <1>1, <1>2 DEF Sound, IInv

LEMMA InitInv == ASSUME Init PROVE IInv
  <1>1. tenants = <<>> /\ tenants \in Seq(TenantType)  BY DEF Init
  <1>2. DOMAIN users = {} /\ users \in UsersType
    <2>1. users = [e \in {} |-> User(0)]  BY DEF Init
    <2>2. DOMAIN users = {} /\ users \in [DOMAIN users -> UserType]  BY <2>1
    <2>3. QED  BY <2>2, UsersAre
  <1>3. NoRequest \in RequestType  BY DEF NoRequest, RequestType, Addresses
  <1>4. req \in [Requests -> RequestType] /\ edits \in Nat  BY <1>3 DEF Init
  <1>5. Consistent(Database)  BY <1>2 DEF Consistent, Database
  <1>6. RequestOK  BY DEF RequestOK, Init, NoRequest
  <1>7. plans \in PlansType  BY DEF Init, PlansType
  <1>8. QED  BY <1>1, <1>2, <1>4, <1>5, <1>6, <1>7 DEF IInv, TypeOK

(***************************************************************************)
(* Every step preserves it.                                                *)
(***************************************************************************)
\* Nothing disturbs onboardings while there are none, ...
LEMMA QuietRequests ==
  ASSUME IInv, Quiet, UNCHANGED req
  PROVE  RequestOK' /\ req' \in [Requests -> RequestType]
  <1>1. \A r \in Requests : req'[r].at = "idle"  BY DEF Quiet
  <1>2. RequestOK'  BY <1>1 DEF RequestOK
  <1>3. QED  BY <1>2 DEF IInv, TypeOK

\* ... owners keep their tenants, ...
LEMMA StillConsistent ==
  ASSUME IInv, DOMAIN tenants \subseteq DOMAIN tenants', DOMAIN users' = DOMAIN users,
         \A e \in DOMAIN users : users'[e].tenant = users[e].tenant
  PROVE  Consistent(Database)'
  BY DEF IInv, Consistent, Database

\* ... and one that goes on, or ends, disturbs no other.
LEMMA RequestStep ==
  ASSUME IInv, NEW r \in Requests, NEW row \in RequestType, req' = [req EXCEPT ![r] = row],
         UNCHANGED <<plans, tenants, users, edits>>,
         row.at # "idle" => row.name \in Names /\ \E p \in People : row.email = Owner(p),
         row.at = "commit" =>
           /\ row.email \notin DOMAIN users
           /\ \A q \in Requests \ {r} : req[q].at = "commit" => req[q].email # row.email
  PROVE  IInv'
  <1>1. req \in [Requests -> RequestType]  BY DEF IInv, TypeOK
  <1>2. req' \in [Requests -> RequestType] /\ req'[r] = row
        /\ \A q \in Requests \ {r} : req'[q] = req[q]
    BY <1>1
  <1>3. TypeOK'  BY <1>2 DEF IInv, TypeOK
  <1>4. Consistent(Database)'  BY StillConsistent
  <1>5. ASSUME NEW q \in Requests
        PROVE  /\ req'[q].at # "idle" =>
                    req'[q].name \in Names /\ \E p \in People : req'[q].email = Owner(p)
               /\ req'[q].at = "commit" =>
                    /\ req'[q].email \notin DOMAIN users'
                    /\ \A s \in Requests \ {q} : req'[s].at = "commit" => req'[s].email # req'[q].email
    <2>1. CASE q = r  BY <1>2, <2>1
    <2>2. CASE q # r
      <3>1. req'[q] = req[q] /\ users' = users  BY <1>2, <2>2
      <3>2. /\ req[q].at # "idle" => req[q].name \in Names /\ \E p \in People : req[q].email = Owner(p)
            /\ req[q].at = "commit" =>
                 /\ req[q].email \notin DOMAIN users
                 /\ \A s \in Requests \ {q} : req[s].at = "commit" => req[s].email # req[q].email
        BY DEF IInv, RequestOK
      <3>3. ASSUME req[q].at = "commit", NEW s \in Requests \ {q}, req'[s].at = "commit"
            PROVE  req'[s].email # req[q].email
        <4>1. CASE s = r  BY <1>2, <2>2, <3>3, <4>1
        <4>2. CASE s # r  BY <1>2, <3>2, <3>3, <4>2
        <4>3. QED  BY <4>1, <4>2
      <3>4. QED  BY <3>1, <3>2, <3>3
    <2>3. QED  BY <2>1, <2>2
  <1>6. RequestOK'  BY <1>5 DEF RequestOK
  <1>7. QED  BY <1>3, <1>4, <1>6 DEF IInv

\* What a change leaves of the tenants: which they are, and their names.
Edited(new) ==
  /\ new \in Seq(TenantType) /\ DOMAIN new = DOMAIN tenants
  /\ \A i \in DOMAIN tenants : new[i].name = tenants[i].name

LEMMA EditOne ==
  ASSUME TypeOK, NEW i \in DOMAIN tenants, NEW t \in TenantType, t.name = tenants[i].name,
         Edit(i, t)
  PROVE  Edited(tenants')
  <1>1. tenants \in Seq(TenantType)  BY DEF TypeOK
  <1>2. tenants' = [tenants EXCEPT ![i] = t]  BY DEF Edit
  <1>3. tenants' \in Seq(TenantType) /\ DOMAIN tenants' = DOMAIN tenants
        /\ \A j \in DOMAIN tenants : tenants'[j] = IF j = i THEN t ELSE tenants[j]
    BY <1>1, <1>2
  <1>4. QED  BY <1>3 DEF Edited

\* The changes in what tenants have.
EditTenants ==
  \/ EditDocuments \/ EditSetup \/ EditAISettings \/ EditBusiness
  \/ AssignPlan \/ EditCustomers \/ Bill \/ DeleteInvoice \/ MonthEnds

\* Each but the last sets fields of a tenant, and never its name.
LEMMA EditedRow ==
  ASSUME TypeOK,
         EditDocuments \/ EditSetup \/ EditAISettings \/ EditBusiness
           \/ AssignPlan \/ EditCustomers \/ Bill \/ DeleteInvoice
  PROVE  \E i \in DOMAIN tenants, t \in TenantType : t.name = tenants[i].name /\ Edit(i, t)
  <1>1. \A i \in DOMAIN tenants : tenants[i] \in TenantType  BY DEF TypeOK
  <1>2. Looked \subseteq DOMAIN tenants  BY DEF Looked
  <1>3. CASE EditDocuments
    <2>1. PICK i \in Looked :
            \/ Edit(i, [tenants[i] EXCEPT !.documents = @ + 1])
            \/ tenants[i].documents > 0 /\ Edit(i, [tenants[i] EXCEPT !.documents = @ - 1])
      BY <1>3 DEF EditDocuments
    <2>2. PICK t : t = tenants[i]  OBVIOUS
    <2>3. i \in DOMAIN tenants /\ t \in TenantType /\ t.documents \in Nat
      BY <1>1, <1>2, <2>2 DEF TenantType
    <2>4. PICK v \in Nat : Edit(i, [t EXCEPT !.documents = v])
      <3>1. CASE Edit(i, [t EXCEPT !.documents = t.documents + 1])  BY <2>3, <3>1
      <3>2. CASE t.documents > 0 /\ Edit(i, [t EXCEPT !.documents = t.documents - 1])
        <4>1. t.documents - 1 \in Nat  BY <2>3, <3>2
        <4>2. QED  BY <3>2, <4>1
      <3>3. QED  BY <2>1, <2>2, <3>1, <3>2
    <2>5. PICK row : row = [t EXCEPT !.documents = v]  OBVIOUS
    <2>6. row \in TenantType  BY <2>3, <2>5, FieldTypes
    <2>7. row.name = t.name  BY <2>3, <2>5 DEF TenantType
    <2>8. QED  BY <2>2, <2>3, <2>4, <2>5, <2>6, <2>7
  <1>4. CASE EditSetup
    <2>1. PICK i \in Looked :
            \/ Edit(i, [tenants[i] EXCEPT !.setup = @ + 1])
            \/ tenants[i].setup > 0 /\ Edit(i, [tenants[i] EXCEPT !.setup = @ - 1])
      BY <1>4 DEF EditSetup
    <2>2. PICK t : t = tenants[i]  OBVIOUS
    <2>3. i \in DOMAIN tenants /\ t \in TenantType /\ t.setup \in Nat
      BY <1>1, <1>2, <2>2 DEF TenantType
    <2>4. PICK v \in Nat : Edit(i, [t EXCEPT !.setup = v])
      <3>1. CASE Edit(i, [t EXCEPT !.setup = t.setup + 1])  BY <2>3, <3>1
      <3>2. CASE t.setup > 0 /\ Edit(i, [t EXCEPT !.setup = t.setup - 1])
        <4>1. t.setup - 1 \in Nat  BY <2>3, <3>2
        <4>2. QED  BY <3>2, <4>1
      <3>3. QED  BY <2>1, <2>2, <3>1, <3>2
    <2>5. PICK row : row = [t EXCEPT !.setup = v]  OBVIOUS
    <2>6. row \in TenantType  BY <2>3, <2>5, FieldTypes
    <2>7. row.name = t.name  BY <2>3, <2>5 DEF TenantType
    <2>8. QED  BY <2>2, <2>3, <2>4, <2>5, <2>6, <2>7
  <1>5. CASE EditAISettings
    <2>1. PICK i \in Looked, v \in {"none", "live", "deleted"} :
            Edit(i, [tenants[i] EXCEPT !.ai = v])
      BY <1>5 DEF EditAISettings
    <2>2. PICK t : t = tenants[i]  OBVIOUS
    <2>3. i \in DOMAIN tenants /\ t \in TenantType  BY <1>1, <1>2, <2>2
    <2>4. PICK row : row = [t EXCEPT !.ai = v]  OBVIOUS
    <2>5. row \in TenantType  BY <2>3, <2>4, FieldTypes
    <2>6. row.name = t.name  BY <2>3, <2>4 DEF TenantType
    <2>7. QED  BY <2>1, <2>2, <2>3, <2>4, <2>5, <2>6
  <1>6. CASE EditBusiness
    <2>1. PICK i \in Looked :
            \/ \E v \in {"named", "long"} : Edit(i, [tenants[i] EXCEPT !.business = v])
            \/ Edit(i, [tenants[i] EXCEPT !.business = "none", !.ai = "none", !.documents = 0])
      BY <1>6 DEF EditBusiness
    <2>2. PICK t : t = tenants[i]  OBVIOUS
    <2>3. i \in DOMAIN tenants /\ t \in TenantType  BY <1>1, <1>2, <2>2
    <2>4. ASSUME NEW v \in {"none", "named", "long"}
          PROVE  /\ [t EXCEPT !.business = v] \in TenantType
                 /\ [t EXCEPT !.business = v].name = t.name
      <3>1. PICK row : row = [t EXCEPT !.business = v]  OBVIOUS
      <3>2. row \in TenantType  BY <2>3, <3>1, FieldTypes
      <3>3. row.name = t.name  BY <2>3, <3>1 DEF TenantType
      <3>4. QED  BY <3>1, <3>2, <3>3
    <2>5. PICK a : a = [t EXCEPT !.business = "none"]  OBVIOUS
    <2>6. PICK c : c = [a EXCEPT !.ai = "none"]  OBVIOUS
    <2>7. PICK e : e = [c EXCEPT !.documents = 0]  OBVIOUS
    <2>8. a \in TenantType /\ a.name = t.name  BY <2>4, <2>5
    <2>9. c \in TenantType  BY <2>6, <2>8, FieldTypes
    <2>10. e \in TenantType  BY <2>7, <2>9, FieldTypes
    <2>11. e.name = t.name  BY <2>6, <2>7, <2>8, <2>9 DEF TenantType
    <2>12. e = [t EXCEPT !.business = "none", !.ai = "none", !.documents = 0]
      BY <2>5, <2>6, <2>7
    <2>13. QED  BY <2>1, <2>2, <2>3, <2>4, <2>10, <2>11, <2>12
  <1>7. CASE AssignPlan
    <2>1. PICK i \in Looked : Edit(i, [tenants[i] EXCEPT !.plan = TRUE])
      BY <1>7 DEF AssignPlan
    <2>2. PICK t : t = tenants[i]  OBVIOUS
    <2>3. i \in DOMAIN tenants /\ t \in TenantType  BY <1>1, <1>2, <2>2
    <2>4. PICK row : row = [t EXCEPT !.plan = TRUE]  OBVIOUS
    <2>5. row \in TenantType  BY <2>3, <2>4, FieldTypes
    <2>6. row.name = t.name  BY <2>3, <2>4 DEF TenantType
    <2>7. QED  BY <2>1, <2>2, <2>3, <2>4, <2>5, <2>6
  <1>8. CASE EditCustomers
    <2>1. PICK i \in Looked :
            \/ \E v \in {"none", "live", "deleted"} : Edit(i, [tenants[i] EXCEPT !.customer = v])
            \/ Edit(i, [tenants[i] EXCEPT !.optin = FALSE])
            \/ Edit(i, [tenants[i] EXCEPT !.customer = "none", !.optin = FALSE, !.chats = 0])
      BY <1>8 DEF EditCustomers
    <2>2. PICK t : t = tenants[i]  OBVIOUS
    <2>3. i \in DOMAIN tenants /\ t \in TenantType  BY <1>1, <1>2, <2>2
    <2>4. ASSUME NEW v \in {"none", "live", "deleted"}
          PROVE  /\ [t EXCEPT !.customer = v] \in TenantType
                 /\ [t EXCEPT !.customer = v].name = t.name
      <3>1. PICK row : row = [t EXCEPT !.customer = v]  OBVIOUS
      <3>2. row \in TenantType  BY <2>3, <3>1, FieldTypes
      <3>3. row.name = t.name  BY <2>3, <3>1 DEF TenantType
      <3>4. QED  BY <3>1, <3>2, <3>3
    <2>5. PICK o : o = [t EXCEPT !.optin = FALSE]  OBVIOUS
    <2>6. o \in TenantType  BY <2>3, <2>5, FieldTypes
    <2>7. o.name = t.name  BY <2>3, <2>5 DEF TenantType
    <2>8. PICK a : a = [t EXCEPT !.customer = "none"]  OBVIOUS
    <2>9. PICK c : c = [a EXCEPT !.optin = FALSE]  OBVIOUS
    <2>10. PICK e : e = [c EXCEPT !.chats = 0]  OBVIOUS
    <2>11. a \in TenantType /\ a.name = t.name  BY <2>4, <2>8
    <2>12. c \in TenantType  BY <2>9, <2>11, FieldTypes
    <2>13. e \in TenantType  BY <2>10, <2>12, FieldTypes
    <2>14. e.name = t.name  BY <2>9, <2>10, <2>11, <2>12 DEF TenantType
    <2>15. e = [t EXCEPT !.customer = "none", !.optin = FALSE, !.chats = 0]
      BY <2>8, <2>9, <2>10
    <2>16. QED  BY <2>1, <2>2, <2>3, <2>4, <2>5, <2>6, <2>7, <2>13, <2>14, <2>15
  <1>9. CASE Bill \/ DeleteInvoice
    <2>1. PICK i \in Looked, v \in {"none", "first", "midmonth", "deleted"} :
            Edit(i, [tenants[i] EXCEPT !.invoice = v])
      BY <1>9 DEF Bill, DeleteInvoice
    <2>2. PICK t : t = tenants[i]  OBVIOUS
    <2>3. i \in DOMAIN tenants /\ t \in TenantType  BY <1>1, <1>2, <2>2
    <2>4. PICK row : row = [t EXCEPT !.invoice = v]  OBVIOUS
    <2>5. row \in TenantType  BY <2>3, <2>4, FieldTypes
    <2>6. row.name = t.name  BY <2>3, <2>4 DEF TenantType
    <2>7. QED  BY <2>1, <2>2, <2>3, <2>4, <2>5, <2>6
  <1>10. QED  BY <1>3, <1>4, <1>5, <1>6, <1>7, <1>8, <1>9

LEMMA EditStep ==
  ASSUME TypeOK, EditTenants
  PROVE  Edited(tenants') /\ Quiet /\ edits' \in Nat /\ UNCHANGED <<plans, users, req>>
  <1>0. tenants \in Seq(TenantType) /\ edits \in Nat  BY DEF TypeOK
  <1>1. CASE MonthEnds
    <2>1. PICK new : new = [i \in DOMAIN tenants |-> [tenants[i] EXCEPT !.invoice = "none"]]
      OBVIOUS
    <2>2. tenants' = new  BY <1>1, <2>1 DEF MonthEnds
    <2>3. ASSUME NEW i \in DOMAIN tenants
          PROVE  new[i] \in TenantType /\ new[i].name = tenants[i].name
      <3>1. PICK t : t = tenants[i]  OBVIOUS
      <3>2. t \in TenantType  BY <1>0, <3>1
      <3>3. new[i] = [t EXCEPT !.invoice = "none"]  BY <2>1, <3>1
      <3>4. new[i] \in TenantType  BY <3>2, <3>3, FieldTypes
      <3>5. new[i].name = t.name  BY <3>2, <3>3 DEF TenantType
      <3>6. QED  BY <3>1, <3>4, <3>5
    <2>4. DOMAIN new = DOMAIN tenants /\ DOMAIN tenants = 1..Len(tenants) /\ Len(tenants) \in Nat
      BY <1>0, <2>1
    <2>5. new \in [1..Len(tenants) -> TenantType]  BY <2>1, <2>3, <2>4
    <2>6. new \in Seq(TenantType)  BY <2>4, <2>5
    <2>7. Edited(new)  BY <2>3, <2>4, <2>6 DEF Edited
    <2>8. Quiet /\ edits' \in Nat /\ UNCHANGED <<plans, users, req>>
      BY <1>0, <1>1 DEF MonthEnds, Editing
    <2>9. QED  BY <2>2, <2>7, <2>8
  <1>2. CASE ~MonthEnds
    <2>1. PICK i \in DOMAIN tenants, t \in TenantType : t.name = tenants[i].name /\ Edit(i, t)
      BY <1>2, EditedRow DEF EditTenants
    <2>2. Edited(tenants')  BY <2>1, EditOne
    <2>3. Quiet /\ edits' \in Nat /\ UNCHANGED <<plans, users, req>>
      BY <1>0, <2>1 DEF Edit, Editing
    <2>4. QED  BY <2>2, <2>3
  <1>3. QED  BY <1>1, <1>2

LEMMA RunStep ==
  ASSUME IInv, NEW command \in Commands, RunCommand(command)
  PROVE  IInv'
  <1>1. PICK db : db = Run(command, Database)  OBVIOUS
  <1>2. /\ Quiet /\ db.ok /\ plans' = db.plans /\ tenants' = db.tenants /\ users' = db.users
        /\ UNCHANGED <<req, edits>>
    BY <1>1 DEF RunCommand
  <1>3. Sound(db)  BY <1>1, <1>2, DatabaseFacts, RunFacts
  <1>4. RequestOK' /\ req' \in [Requests -> RequestType]  BY <1>2, QuietRequests
  <1>5. TypeOK'  BY <1>2, <1>3, <1>4, SoundFacts DEF IInv, TypeOK
  <1>6. Consistent(Database)'  BY <1>2, <1>3 DEF Sound, Consistent, Database
  <1>7. QED  BY <1>4, <1>5, <1>6 DEF IInv

\* The account of the platform's admin is there, and its tenant is none.
LEMMA DiesFacts ==
  ASSUME IInv, SuperadminDies
  PROVE  /\ users' \in UsersType /\ DOMAIN users' = DOMAIN users \cup {Super}
         /\ users'[Super].tenant = 0
         /\ \A e \in DOMAIN users : e # Super => users'[e] = users[e]
  <1>1. PICK enrolled \in BOOLEAN :
          users' = With(users, Super, [User(0) EXCEPT !.enrolled = enrolled])
    BY DEF SuperadminDies
  <1>2. PICK row : row = [User(0) EXCEPT !.enrolled = enrolled]  OBVIOUS
  <1>3. row \in UserType /\ row.tenant = 0  BY <1>2 DEF User, UserType
  <1>4. users \in UsersType /\ Super \in Addresses  BY DEF IInv, TypeOK, Addresses
  <1>5. PICK w : w = With(users, Super, row)  OBVIOUS
  <1>6. /\ w \in UsersType /\ DOMAIN w = DOMAIN users \cup {Super} /\ w[Super] = row
        /\ \A e \in DOMAIN users : e # Super => w[e] = users[e]
    BY <1>3, <1>4, <1>5, WithFacts
  <1>7. users' = w  BY <1>1, <1>2, <1>5
  <1>8. QED  BY <1>3, <1>6, <1>7

LEMMA DiesStep == ASSUME IInv, SuperadminDies PROVE IInv'
  <1>1. UNCHANGED <<plans, tenants, req, edits>> /\ Quiet  BY DEF SuperadminDies
  <1>2. /\ users' \in UsersType /\ DOMAIN users' = DOMAIN users \cup {Super}
        /\ \A e \in DOMAIN users : e # Super => users'[e] = users[e]
    BY DiesFacts
  <1>3. TypeOK'  BY <1>1, <1>2 DEF IInv, TypeOK
  <1>4. \A b : Owner(b) # Super /\ Staff(b) # Super  BY Apart DEF Super
  <1>5. Consistent(Database)'  BY <1>1, <1>2, <1>4 DEF IInv, Consistent, Database
  <1>6. RequestOK'  BY <1>1, QuietRequests
  <1>7. QED  BY <1>3, <1>5, <1>6 DEF IInv

LEMMA MFAChange ==
  ASSUME IInv, ChangeMFA
  PROVE  /\ users' \in UsersType /\ DOMAIN users' = DOMAIN users
         /\ \A e \in DOMAIN users : users'[e].tenant = users[e].tenant
  <1>1. PICK e \in DOMAIN users :
          users' = [users EXCEPT ![e].enrolled = ~@, ![e].codes = IF users[e].enrolled THEN 0 ELSE 1]
    BY DEF ChangeMFA
  <1>2. DOMAIN users \subseteq Addresses /\ users \in [DOMAIN users -> UserType]
    BY UsersAre DEF IInv, TypeOK
  <1>3. PICK u : u = users[e]  OBVIOUS
  <1>4. u \in UserType  BY <1>2, <1>3
  <1>5. PICK on : on = (~users[e].enrolled)  BY Zenon
  <1>6. PICK codes : codes = IF users[e].enrolled THEN 0 ELSE 1  OBVIOUS
  <1>7. PICK row : row = [u EXCEPT !.enrolled = on, !.codes = codes]  OBVIOUS
  <1>8. on \in BOOLEAN /\ codes \in {0, 1}  BY <1>5, <1>6
  <1>9. row \in UserType /\ row.tenant = u.tenant  BY <1>4, <1>7, <1>8 DEF UserType
  <1>10. users' = [users EXCEPT ![e] = row]
    <2>1. users' = [users EXCEPT ![e].enrolled = on, ![e].codes = codes]
      BY <1>1, <1>5, <1>6, Zenon
    <2>2. QED  BY <1>2, <1>3, <1>7, <2>1
  <1>11. users' \in [DOMAIN users -> UserType] /\ DOMAIN users' = DOMAIN users
    BY <1>2, <1>9, <1>10
  <1>12. \A x \in DOMAIN users : users'[x].tenant = users[x].tenant
    BY <1>2, <1>3, <1>9, <1>10
  <1>13. users' \in UsersType  BY <1>2, <1>11, UsersAre
  <1>14. QED  BY <1>11, <1>12, <1>13

LEMMA ChangesStep ==
  ASSUME IInv, EditTenants \/ EditPlans \/ ChangeMFA
  PROVE  IInv'
  <1>1. CASE EditTenants
    <2>1. Edited(tenants') /\ Quiet /\ edits' \in Nat /\ UNCHANGED <<plans, users, req>>
      BY <1>1, EditStep DEF IInv
    <2>2. TypeOK'  BY <2>1 DEF Edited, IInv, TypeOK
    <2>3. Consistent(Database)'  BY <2>1, StillConsistent DEF Edited
    <2>4. RequestOK'  BY <2>1, QuietRequests
    <2>5. QED  BY <2>2, <2>3, <2>4 DEF IInv
  <1>2. CASE ChangeMFA
    <2>1. /\ users' \in UsersType /\ DOMAIN users' = DOMAIN users
          /\ \A e \in DOMAIN users : users'[e].tenant = users[e].tenant
      BY <1>2, MFAChange
    <2>2. Quiet /\ UNCHANGED <<plans, tenants, req>> /\ edits' = edits + 1
      BY <1>2 DEF ChangeMFA, Editing
    <2>3. TypeOK'  BY <2>1, <2>2 DEF IInv, TypeOK
    <2>4. Consistent(Database)'  BY <2>1, <2>2, StillConsistent
    <2>5. RequestOK'  BY <2>2, QuietRequests
    <2>6. QED  BY <2>3, <2>4, <2>5 DEF IInv
  <1>3. CASE EditPlans
    <2>1. /\ Quiet /\ plans' \in PlansType /\ edits' = edits + 1
          /\ UNCHANGED <<tenants, users, req>>
      BY <1>3 DEF EditPlans, Editing, PlansType
    <2>2. TypeOK'  BY <2>1 DEF IInv, TypeOK
    <2>3. Consistent(Database)'  BY <2>1, StillConsistent
    <2>4. RequestOK'  BY <2>1, QuietRequests
    <2>5. QED  BY <2>2, <2>3, <2>4 DEF IInv
  <1>4. QED  BY <1>1, <1>2, <1>3

LEMMA RollbackStep ==
  ASSUME IInv, NEW r \in Requests, Rollback(r), UNCHANGED <<plans, tenants, users, edits>>
  PROVE  IInv'
  <1>1. PICK row : row = NoRequest  OBVIOUS
  <1>2. row \in RequestType /\ row.at = "idle"
    BY <1>1 DEF NoRequest, RequestType, Addresses
  <1>3. req' = [req EXCEPT ![r] = row]  BY <1>1 DEF Rollback
  <1>4. QED  BY <1>2, <1>3, RequestStep

LEMMA GotoStep ==
  ASSUME IInv, NEW r \in Requests, ~At(r, "idle"), NEW step \in {"owner", "commit"},
         Goto(r, step), UNCHANGED <<plans, tenants, users, edits>>,
         step = "commit" => req[r].email \notin DOMAIN users /\ Claiming(r) = {}
  PROVE  IInv'
  <1>1. req \in [Requests -> RequestType] /\ req[r] \in RequestType
    BY DEF IInv, TypeOK
  <1>2. PICK row : row = [req[r] EXCEPT !.at = step]  OBVIOUS
  <1>3. /\ row \in RequestType /\ row.at = step
        /\ row.name = req[r].name /\ row.email = req[r].email
    BY <1>1, <1>2 DEF RequestType
  <1>4. req' = [req EXCEPT ![r] = row]  BY <1>1, <1>2 DEF Goto
  <1>5. req[r].name \in Names /\ \E p \in People : req[r].email = Owner(p)
    BY DEF IInv, RequestOK, At
  <1>6. step = "commit" => \A q \in Requests \ {r} : req[q].at = "commit" => req[q].email # req[r].email
    BY DEF Claiming
  <1>7. QED  BY <1>3, <1>4, <1>5, <1>6, RequestStep

LEMMA OnboardStep ==
  ASSUME IInv, NEW r \in Requests, ValidateOnboard(r) \/ InsertTenant(r) \/ InsertOwner(r) \/ Abort(r)
  PROVE  IInv'
  <1>1. CASE ValidateOnboard(r)
    <2>1. PICK name \in Names, person \in People :
            req' = [req EXCEPT ![r] = [at |-> "tenant", name |-> name, email |-> Owner(person),
                                       slug |-> FreeSlug(tenants, name)]]
      BY <1>1 DEF ValidateOnboard
    <2>2. PICK slug : slug = FreeSlug(tenants, name)  OBVIOUS
    <2>3. slug \in Nat
      <3>1. tenants \in Seq(TenantType)  BY DEF IInv, TypeOK
      <3>2. QED  BY <2>2, <3>1, SlugFacts
    <2>4. PICK row : row = [at |-> "tenant", name |-> name, email |-> Owner(person), slug |-> slug]
      OBVIOUS
    <2>5. Owner(person) \in Addresses  BY DEF Addresses, Businesses
    <2>6. /\ row \in RequestType /\ row.at = "tenant" /\ row.name = name
          /\ row.email = Owner(person)
      BY <2>3, <2>4, <2>5 DEF RequestType
    <2>7. req' = [req EXCEPT ![r] = row]  BY <2>1, <2>2, <2>4
    <2>8. UNCHANGED <<plans, tenants, users, edits>>  BY <1>1 DEF ValidateOnboard
    <2>9. QED  BY <2>6, <2>7, <2>8, RequestStep
  <1>2. CASE InsertTenant(r)
    <2>1. /\ ~At(r, "idle") /\ (Rollback(r) \/ Goto(r, "owner"))
          /\ UNCHANGED <<plans, tenants, users, edits>>
      BY <1>2 DEF InsertTenant, At
    <2>2. QED  BY <2>1, RollbackStep, GotoStep
  <1>3. CASE InsertOwner(r)
    <2>1. /\ ~At(r, "idle") /\ Claiming(r) = {} /\ UNCHANGED <<plans, tenants, users, edits>>
          /\ (Rollback(r) \/ (req[r].email \notin DOMAIN users /\ Goto(r, "commit")))
      BY <1>3 DEF InsertOwner, At
    <2>2. QED  BY <2>1, RollbackStep, GotoStep
  <1>4. CASE Abort(r)
    <2>1. Rollback(r) /\ UNCHANGED <<plans, tenants, users, edits>>  BY <1>4 DEF Abort
    <2>2. QED  BY <2>1, RollbackStep
  <1>5. QED  BY <1>1, <1>2, <1>3, <1>4

\* A tenant and its owner appear together.
LEMMA CommitFacts ==
  ASSUME IInv, NEW r \in Requests, Commit(r)
  PROVE  /\ tenants' \in Seq(TenantType) /\ users' \in UsersType
         /\ DOMAIN tenants' = DOMAIN tenants \cup {Len(tenants) + 1}
         /\ \A i \in DOMAIN tenants : tenants'[i] = tenants[i]
         /\ DOMAIN users' = DOMAIN users \cup {req[r].email}
         /\ users'[req[r].email].tenant = Len(tenants) + 1
         /\ \A e \in DOMAIN users : users'[e] = users[e]
         /\ req[r].email \notin DOMAIN users /\ \E p \in People : req[r].email = Owner(p)
  <1>1. /\ req[r].name \in Names /\ req[r].email \notin DOMAIN users
        /\ \E p \in People : req[r].email = Owner(p)
    BY DEF Commit, At, IInv, RequestOK
  <1>2. req[r] \in RequestType /\ tenants \in Seq(TenantType) /\ users \in UsersType
    BY DEF IInv, TypeOK
  <1>3. PICK slug : slug = req[r].slug  OBVIOUS
  <1>4. slug \in Nat /\ req[r].email \in Addresses  BY <1>2, <1>3 DEF RequestType
  <1>5. PICK plan \in BOOLEAN :
          tenants' = Append(tenants, Tenant(req[r].name, slug, "named", plan))
    BY <1>3 DEF Commit
  <1>6. PICK t : t = Tenant(req[r].name, slug, "named", plan) /\ t \in TenantType
    <2>1. PICK name : name = req[r].name  OBVIOUS
    <2>2. name \in Names /\ plan \in BOOLEAN  BY <1>1, <1>5, <2>1
    <2>3. Tenant(name, slug, "named", plan) \in TenantType
      BY <1>4, <2>2 DEF Tenant, TenantType
    <2>4. QED  BY <2>1, <2>3
  <1>7. tenants' = Append(tenants, t)  BY <1>5, <1>6
  <1>8. Len(tenants) \in Nat /\ DOMAIN tenants = 1..Len(tenants)  BY <1>2
  <1>9. /\ tenants' \in Seq(TenantType) /\ DOMAIN tenants' = DOMAIN tenants \cup {Len(tenants) + 1}
        /\ \A i \in DOMAIN tenants : tenants'[i] = tenants[i]
    <2>1. /\ Append(tenants, t) \in Seq(TenantType) /\ Len(Append(tenants, t)) = Len(tenants) + 1
          /\ \A i \in 1..Len(tenants) : Append(tenants, t)[i] = tenants[i]
      BY <1>2, <1>6, AppendProperties
    <2>2. DOMAIN tenants' = 1..(Len(tenants) + 1)  BY <1>7, <2>1
    <2>3. QED  BY <1>7, <1>8, <2>1, <2>2
  <1>10. PICK e : e = req[r].email  OBVIOUS
  <1>11. PICK row : row = User(Len(tenants) + 1)  OBVIOUS
  <1>12. row \in UserType /\ row.tenant = Len(tenants) + 1
    BY <1>8, <1>11 DEF User, UserType
  <1>13. PICK w : w = With(users, e, row)  OBVIOUS
  <1>14. /\ w \in UsersType /\ DOMAIN w = DOMAIN users \cup {e} /\ w[e] = row
         /\ \A x \in DOMAIN users : x # e => w[x] = users[x]
    BY <1>2, <1>4, <1>10, <1>12, <1>13, WithFacts, ZenonT(30)
  <1>15. users' = w  BY <1>10, <1>11, <1>13 DEF Commit
  <1>16. QED  BY <1>1, <1>9, <1>10, <1>12, <1>14, <1>15

LEMMA CommitStep == ASSUME IInv, NEW r \in Requests, Commit(r) PROVE IInv'
  <1>1. /\ tenants' \in Seq(TenantType) /\ users' \in UsersType
        /\ DOMAIN tenants' = DOMAIN tenants \cup {Len(tenants) + 1}
        /\ DOMAIN users' = DOMAIN users \cup {req[r].email}
        /\ users'[req[r].email].tenant = Len(tenants) + 1
        /\ \A e \in DOMAIN users : users'[e] = users[e]
        /\ req[r].email \notin DOMAIN users /\ \E p \in People : req[r].email = Owner(p)
    BY CommitFacts
  <1>2. /\ req' = [req EXCEPT ![r] = NoRequest] /\ UNCHANGED <<plans, edits>>
        /\ req[r].at = "commit"
    BY DEF Commit, Rollback, At
  <1>3. NoRequest \in RequestType /\ NoRequest.at = "idle"
    BY DEF NoRequest, RequestType, Addresses
  <1>4. /\ req' \in [Requests -> RequestType] /\ req'[r].at = "idle"
        /\ \A q \in Requests \ {r} : req'[q] = req[q]
    BY <1>2, <1>3 DEF IInv, TypeOK
  <1>5. TypeOK'  BY <1>1, <1>2, <1>4 DEF IInv, TypeOK
  <1>6. Consistent(Database)'
    <2>1. \A b : Staff(b) # req[r].email  BY <1>1, Apart
    <2>2. QED  BY <1>1, <2>1 DEF IInv, Consistent, Database
  <1>7. ASSUME NEW q \in Requests
        PROVE  /\ req'[q].at # "idle" =>
                    req'[q].name \in Names /\ \E p \in People : req'[q].email = Owner(p)
               /\ req'[q].at = "commit" =>
                    /\ req'[q].email \notin DOMAIN users'
                    /\ \A s \in Requests \ {q} : req'[s].at = "commit" => req'[s].email # req'[q].email
    <2>1. CASE q = r  BY <1>4, <2>1
    <2>2. CASE q # r
      <3>1. req'[q] = req[q]  BY <1>4, <2>2
      <3>2. /\ req[q].at # "idle" => req[q].name \in Names /\ \E p \in People : req[q].email = Owner(p)
            /\ req[q].at = "commit" =>
                 /\ req[q].email \notin DOMAIN users /\ req[q].email # req[r].email
                 /\ \A s \in Requests \ {q} : req[s].at = "commit" => req[s].email # req[q].email
        BY <1>2, <2>2 DEF IInv, RequestOK
      <3>3. ASSUME req[q].at = "commit", NEW s \in Requests \ {q}, req'[s].at = "commit"
            PROVE  req'[s].email # req[q].email
        <4>1. s # r  BY <1>4, <3>3
        <4>2. req'[s] = req[s]  BY <1>4, <4>1
        <4>3. QED  BY <3>2, <3>3, <4>2
      <3>4. QED  BY <1>1, <3>1, <3>2, <3>3
    <2>3. QED  BY <2>1, <2>2
  <1>8. RequestOK'  BY <1>7 DEF RequestOK
  <1>9. QED  BY <1>5, <1>6, <1>8 DEF IInv

LEMMA StepInv == ASSUME IInv, [Next]_vars PROVE IInv'
  <1>1. ASSUME NEW command \in Commands, RunCommand(command) PROVE IInv'
    BY <1>1, RunStep
  <1>2. ASSUME NEW r \in Requests,
               ValidateOnboard(r) \/ InsertTenant(r) \/ InsertOwner(r) \/ Abort(r)
        PROVE  IInv'
    BY <1>2, OnboardStep
  <1>3. ASSUME NEW r \in Requests, Commit(r) PROVE IInv'  BY <1>3, CommitStep
  <1>4. CASE SuperadminDies  BY <1>4, DiesStep
  <1>5. CASE EditTenants \/ EditPlans \/ ChangeMFA
    BY <1>5, ChangesStep
  <1>6. CASE UNCHANGED vars
    <2>1. UNCHANGED <<plans, tenants, users, req, edits>>  BY <1>6 DEF vars
    <2>2. TypeOK'  BY <2>1 DEF IInv, TypeOK
    <2>3. Consistent(Database)'  BY <2>1 DEF IInv, Consistent, Database
    <2>4. RequestOK'  BY <2>1 DEF IInv, RequestOK
    <2>5. QED  BY <2>2, <2>3, <2>4 DEF IInv
  <1>7. QED  BY <1>1, <1>2, <1>3, <1>4, <1>5, <1>6 DEF Next, EditTenants

(***************************************************************************)
(* The theorems.                                                           *)
(***************************************************************************)
LEMMA Always == Spec => []IInv
  <1>1. Init => IInv  BY InitInv
  <1>2. IInv /\ [Next]_vars => IInv'  BY StepInv
  <1>3. QED  BY <1>1, <1>2, PTL DEF Spec

\* The rows of tenants, accounts and onboardings are of their types, whatever
\* the commands and the people do.
THEOREM TypeCorrect == Spec => []TypeOK
  <1>1. IInv => TypeOK  BY DEF IInv
  <1>2. QED  BY <1>1, Always, PTL

\* A command that has run to its end changes nothing when it is run again, and
\* its accounts are there and enrolled: for any list of samples, a name that
\* occurs in it twice included, and whatever was done to the database before.
THEOREM Again == Spec => []RerunIsSafe
  <1>1. ASSUME IInv PROVE RerunIsSafe
    <2>1. Sound(Database)  BY <1>1, DatabaseFacts
    <2>2. ASSUME NEW command \in Commands, NEW once, once = Run(command, Database), once.ok
          PROVE  /\ Run(command, once) = once
                 /\ \A e \in Accounts(command) : e \in DOMAIN once.users /\ once.users[e].enrolled
                 /\ command = "seed" => \A b \in Sampled :
                      Staff(b) \in DOMAIN once.users => once.users[Staff(b)].enrolled
      BY <2>1, <2>2, RunFacts
    <2>3. RunIsIdempotent  BY <2>2 DEF RunIsIdempotent
    <2>4. EnrolledByRun  BY <2>2 DEF EnrolledByRun, Accounts
    <2>5. QED  BY <2>3, <2>4 DEF RerunIsSafe
  <1>2. QED  BY <1>1, Always, PTL

\* seed_dev_data fails only for the names of its plans, or for what people have
\* done in the business of a sample's owner; in particular a sample never makes
\* a later one fail.
THEOREM Reasons == Spec => []SeedFailsForReason
  <1>1. ASSUME IInv PROVE SeedFailsForReason
    <2>1. /\ Sound(Database) /\ Database.ok = TRUE /\ Database.plans = plans
          /\ Database.tenants = tenants /\ Database.users = users
      BY <1>1, DatabaseFacts
    <2>2. PICK new : new = Run("seed", Database)  OBVIOUS
    <2>3. new = SeedAll(Database)  BY <2>2 DEF Run
    <2>4. ~new.ok =>
            \/ plans = "taken"
            \/ \E b \in Sampled : /\ Owner(b) \in DOMAIN users
                                  /\ ~Seedable(tenants[users[Owner(b)].tenant])
      BY <2>1, <2>3, SeedAllFacts
    <2>5. QED  BY <2>2, <2>4 DEF SeedFailsForReason
  <1>2. QED  BY <1>1, Always, PTL

LEMMA StepOwned ==
  ASSUME E2E \notin People, IInv, Owned(Database), [Next]_vars
  PROVE  Owned(Database)'
  <1>0. /\ \A i \in DOMAIN tenants : \E e \in DOMAIN users : users[e].tenant = i
        /\ Owner(E2E) \in DOMAIN users => /\ tenants[users[Owner(E2E)].tenant].name = E2E
                                          /\ users[Owner(E2E)].tenant \in DOMAIN tenants
        /\ \A x : Admin(x) \in DOMAIN users => users[Admin(x)].tenant = 0
    BY DEF Owned, Database, IInv, Consistent, Businesses
  <1>1. SUFFICES /\ \A i \in DOMAIN tenants' : \E e \in DOMAIN users' : users'[e].tenant = i
                 /\ Owner(E2E) \in DOMAIN users' => tenants'[users'[Owner(E2E)].tenant].name = E2E
                 /\ \A x : Admin(x) \in DOMAIN users' => users'[Admin(x)].tenant = 0
    BY DEF Owned, Database
  <1>2. ASSUME NEW command \in Commands, RunCommand(command)
        PROVE  /\ \A i \in DOMAIN tenants' : \E e \in DOMAIN users' : users'[e].tenant = i
               /\ Owner(E2E) \in DOMAIN users' => tenants'[users'[Owner(E2E)].tenant].name = E2E
               /\ \A x : Admin(x) \in DOMAIN users' => users'[Admin(x)].tenant = 0
    <2>1. PICK db : db = Run(command, Database)  OBVIOUS
    <2>2. db.ok /\ tenants' = db.tenants /\ users' = db.users
      BY <1>2, <2>1 DEF RunCommand
    <2>3. Owned(db)  BY <2>1, <2>2, DatabaseFacts, RunOwned
    <2>4. QED  BY <2>2, <2>3 DEF Owned
  <1>3. CASE SuperadminDies
    <2>1. tenants' = tenants  BY <1>3 DEF SuperadminDies
    <2>2. /\ DOMAIN users' = DOMAIN users \cup {Super} /\ users'[Super].tenant = 0
          /\ \A e \in DOMAIN users : e # Super => users'[e] = users[e]
      BY <1>3, DiesFacts
    <2>3. Owner(E2E) # Super  BY Apart DEF Super
    <2>4. \A i \in DOMAIN tenants : i # 0
      <3>1. tenants \in Seq(TenantType)  BY DEF IInv, TypeOK
      <3>2. QED  BY <3>1
    <2>5. \A e \in DOMAIN users : e = Super => users[e].tenant = 0  BY <1>0 DEF Super
    <2>6. QED  BY <1>0, <2>1, <2>2, <2>3, <2>4, <2>5
  <1>4. CASE EditTenants
    <2>1. users' = users /\ Edited(tenants')  BY <1>4, EditStep DEF IInv
    <2>2. QED  BY <1>0, <2>1 DEF Edited
  <1>5. CASE ChangeMFA
    <2>1. tenants' = tenants  BY <1>5 DEF ChangeMFA
    <2>2. DOMAIN users' = DOMAIN users /\ \A e \in DOMAIN users : users'[e].tenant = users[e].tenant
      BY <1>5, MFAChange
    <2>3. QED  BY <1>0, <2>1, <2>2
  <1>6. ASSUME NEW r \in Requests, Commit(r)
        PROVE  /\ \A i \in DOMAIN tenants' : \E e \in DOMAIN users' : users'[e].tenant = i
               /\ Owner(E2E) \in DOMAIN users' => tenants'[users'[Owner(E2E)].tenant].name = E2E
               /\ \A x : Admin(x) \in DOMAIN users' => users'[Admin(x)].tenant = 0
    <2>1. PICK p \in People :
            /\ DOMAIN tenants' = DOMAIN tenants \cup {Len(tenants) + 1}
            /\ \A i \in DOMAIN tenants : tenants'[i] = tenants[i]
            /\ DOMAIN users' = DOMAIN users \cup {Owner(p)}
            /\ users'[Owner(p)].tenant = Len(tenants) + 1
            /\ \A e \in DOMAIN users : users'[e] = users[e]
      BY <1>6, CommitFacts
    <2>2. Owner(p) # Owner(E2E) /\ \A x : Owner(p) # Admin(x)  BY Apart
    <2>3. QED  BY <1>0, <2>1, <2>2
  <1>7. ASSUME NEW r \in Requests,
               ValidateOnboard(r) \/ InsertTenant(r) \/ InsertOwner(r) \/ Abort(r)
        PROVE  UNCHANGED <<tenants, users>>
    BY <1>7 DEF ValidateOnboard, InsertTenant, InsertOwner, Abort
  <1>8. CASE UNCHANGED <<tenants, users>>  BY <1>0, <1>8
  <1>9. UNCHANGED vars \/ EditPlans => UNCHANGED <<tenants, users>>  BY DEF vars, EditPlans
  <1>10. QED
    BY <1>2, <1>3, <1>4, <1>5, <1>6, <1>7, <1>8, <1>9 DEF Next, EditTenants

\* No tenant is without an owner, if no business is onboarded for the address
\* of the e2e tenant's owner: provision_e2e_user would move that account to
\* the e2e tenant and leave its business without one.
THEOREM Owners == ASSUME E2E \notin People PROVE Spec => []TenantsOwned
  <1>1. Init => Owned(Database)
    <2>1. SUFFICES ASSUME Init PROVE Owned(Database)  OBVIOUS
    <2>2. DOMAIN tenants = {} /\ DOMAIN users = {}  BY <2>1 DEF Init
    <2>3. QED  BY <2>2 DEF Owned, Database
  <1>2. IInv /\ Owned(Database) /\ [Next]_vars => Owned(Database)'  BY StepOwned
  <1>3. Owned(Database) => TenantsOwned  BY DEF Owned, Database, TenantsOwned
  <1>4. QED  BY <1>1, <1>2, <1>3, Always, PTL DEF Spec

(***************************************************************************)
(* Without that premise: who takes an owner away.                          *)
(***************************************************************************)
HasOwner(db, i) == \E e \in DOMAIN db.users : db.users[e].tenant = i
Admins(db) == \A x : Admin(x) \in DOMAIN db.users => db.users[Admin(x)].tenant = 0

\* The tenants without an owner were without one before, or provision_e2e_user
\* has taken it.
Kept(db, new, command) ==
  \A i \in DOMAIN new.tenants :
    \/ HasOwner(new, i)
    \/ i \in DOMAIN db.tenants /\ ~HasOwner(db, i)
    \/ command = "e2e" /\ Owner(E2E) \in DOMAIN db.users /\ db.users[Owner(E2E)].tenant = i

LEMMA RunKeeps ==
  ASSUME NEW db, Sound(db), Admins(db), NEW command \in Commands,
         NEW new, new = Run(command, db), new.ok
  PROVE  Admins(new) /\ Kept(db, new, command)
  <1>1. CASE command = "seed"
    <2>1. new = SeedAll(db)  BY <1>1 DEF Run
    <2>2. Grown(db, new) /\ Peopled(db, new)  BY <2>1, SeedAllFacts
    <2>3. ASSUME NEW i \in DOMAIN new.tenants
          PROVE  HasOwner(new, i) \/ (i \in DOMAIN db.tenants /\ ~HasOwner(db, i))
      <3>1. CASE HasOwner(db, i)
        <4>1. PICK e \in DOMAIN db.users : db.users[e].tenant = i  BY <3>1 DEF HasOwner
        <4>2. e \in DOMAIN new.users /\ new.users[e].tenant = i  BY <2>2, <4>1 DEF Grown
        <4>3. QED  BY <4>2 DEF HasOwner
      <3>2. CASE i \notin DOMAIN db.tenants  BY <2>2, <2>3, <3>2 DEF Peopled, HasOwner
      <3>3. QED  BY <3>1, <3>2
    <2>4. Admins(new)  BY <2>2 DEF Peopled, Grown, Admins
    <2>5. QED  BY <2>3, <2>4 DEF Kept
  <1>2. CASE command = "superadmin"
    <2>1. new = Superadmin(db)  BY <1>2 DEF Run
    <2>2. /\ new.tenants = db.tenants /\ DOMAIN new.users = DOMAIN db.users \cup {Super}
          /\ \A e \in DOMAIN db.users : new.users[e].tenant = db.users[e].tenant
          /\ Super \notin DOMAIN db.users => new.users[Super].tenant = 0
      BY <2>1, SuperadminFacts
    <2>3. Admins(new)  BY <2>2 DEF Admins
    <2>4. \A i \in DOMAIN new.tenants : HasOwner(db, i) => HasOwner(new, i)
      BY <2>2 DEF HasOwner
    <2>5. QED  BY <2>2, <2>3, <2>4 DEF Kept
  <1>3. CASE command = "e2e"
    <2>1. new = ProvisionE2E(db)  BY <1>3 DEF Run
    <2>2. PICK t :
            /\ Provisioned(new, t) /\ DOMAIN new.tenants = DOMAIN db.tenants \cup {t}
            /\ DOMAIN new.users = DOMAIN db.users \cup {Owner(E2E), Admin(E2E)}
            /\ \A e \in DOMAIN db.users \ {Owner(E2E), Admin(E2E)} : new.users[e] = db.users[e]
      BY <2>1, E2EFacts
    <2>3. /\ new.users[Owner(E2E)].tenant = t /\ new.users[Admin(E2E)].tenant = 0
          /\ Owner(E2E) \in DOMAIN new.users
      BY <2>2 DEF Provisioned, Known
    <2>4. ASSUME NEW x, Admin(x) \in DOMAIN new.users PROVE new.users[Admin(x)].tenant = 0
      <3>1. CASE Admin(x) = Admin(E2E)  BY <2>3, <3>1
      <3>2. CASE Admin(x) # Admin(E2E)
        <4>1. Admin(x) # Owner(E2E)  BY Apart
        <4>2. Admin(x) \in DOMAIN db.users \ {Owner(E2E), Admin(E2E)}  BY <2>2, <2>4, <3>2, <4>1
        <4>3. QED  BY <2>2, <4>2 DEF Admins
      <3>3. QED  BY <3>1, <3>2
    <2>5. ASSUME NEW i \in DOMAIN new.tenants
          PROVE  \/ HasOwner(new, i)
                 \/ i \in DOMAIN db.tenants /\ ~HasOwner(db, i)
                 \/ Owner(E2E) \in DOMAIN db.users /\ db.users[Owner(E2E)].tenant = i
      <3>1. CASE i = t  BY <2>3, <3>1 DEF HasOwner
      <3>2. CASE i # t /\ HasOwner(db, i)
        <4>1. PICK e \in DOMAIN db.users : db.users[e].tenant = i  BY <3>2 DEF HasOwner
        <4>2. i # 0  BY <2>2, <2>5, <3>2, SoundFacts
        <4>3. e # Admin(E2E)  BY <4>1, <4>2 DEF Admins
        <4>4. CASE e = Owner(E2E)  BY <4>1, <4>4
        <4>5. CASE e # Owner(E2E)
          <5>1. e \in DOMAIN new.users /\ new.users[e].tenant = i  BY <2>2, <4>1, <4>3, <4>5
          <5>2. QED  BY <5>1 DEF HasOwner
        <4>6. QED  BY <4>4, <4>5
      <3>3. CASE i # t /\ ~HasOwner(db, i)  BY <2>2, <2>5, <3>3
      <3>4. QED  BY <3>1, <3>2, <3>3
    <2>6. QED  BY <1>3, <2>4, <2>5 DEF Kept, Admins
  <1>4. QED  BY <1>1, <1>2, <1>3 DEF Commands

\* A step leaves a tenant without an owner only if it had none, or if it is
\* provision_e2e_user and has found the tenant's owner by its address.
OwnerTaken ==
  \A i \in DOMAIN tenants' :
    (\A e \in DOMAIN users' : users'[e].tenant # i) =>
      \/ i \in DOMAIN tenants /\ \A e \in DOMAIN users : users[e].tenant # i
      \/ RunCommand("e2e") /\ Owner(E2E) \in DOMAIN users /\ users[Owner(E2E)].tenant = i

LEMMA StepKeeps ==
  ASSUME IInv, Admins(Database), [Next]_vars
  PROVE  Admins(Database)' /\ OwnerTaken
  <1>0. /\ \A x : Admin(x) \in DOMAIN users => users[Admin(x)].tenant = 0
        /\ \A i \in DOMAIN tenants : i # 0
    <2>1. tenants \in Seq(TenantType)  BY DEF IInv, TypeOK
    <2>2. \A i \in DOMAIN tenants : i # 0  BY <2>1
    <2>3. QED  BY <2>2 DEF Admins, Database
  <1>1. SUFFICES (\A x : Admin(x) \in DOMAIN users' => users'[Admin(x)].tenant = 0) /\ OwnerTaken
    BY DEF Admins, Database
  <1>2. ASSUME NEW command \in Commands, RunCommand(command)
        PROVE  (\A x : Admin(x) \in DOMAIN users' => users'[Admin(x)].tenant = 0) /\ OwnerTaken
    <2>1. PICK db : db = Run(command, Database)  OBVIOUS
    <2>2. db.ok /\ tenants' = db.tenants /\ users' = db.users
      BY <1>2, <2>1 DEF RunCommand
    <2>3. Admins(db) /\ Kept(Database, db, command)
      BY <2>1, <2>2, DatabaseFacts, RunKeeps
    <2>4. Database.tenants = tenants /\ Database.users = users  BY DEF Database
    <2>5. OwnerTaken
      <3>1. SUFFICES ASSUME NEW i \in DOMAIN tenants', \A e \in DOMAIN users' : users'[e].tenant # i
                     PROVE  \/ i \in DOMAIN tenants /\ \A e \in DOMAIN users : users[e].tenant # i
                            \/ /\ RunCommand("e2e") /\ Owner(E2E) \in DOMAIN users
                               /\ users[Owner(E2E)].tenant = i
        BY DEF OwnerTaken
      <3>2. i \in DOMAIN db.tenants /\ ~HasOwner(db, i)  BY <2>2, <3>1 DEF HasOwner
      <3>3. \/ i \in DOMAIN tenants /\ ~HasOwner(Database, i)
            \/ command = "e2e" /\ Owner(E2E) \in DOMAIN users /\ users[Owner(E2E)].tenant = i
        BY <2>3, <2>4, <3>2 DEF Kept
      <3>4. QED  BY <1>2, <2>4, <3>3 DEF HasOwner
    <2>6. QED  BY <2>2, <2>3, <2>5 DEF Admins
  <1>3. CASE SuperadminDies
    <2>1. tenants' = tenants  BY <1>3 DEF SuperadminDies
    <2>2. /\ DOMAIN users' = DOMAIN users \cup {Super} /\ users'[Super].tenant = 0
          /\ \A e \in DOMAIN users : e # Super => users'[e] = users[e]
      BY <1>3, DiesFacts
    <2>3. \A e \in DOMAIN users : e = Super => users[e].tenant = 0  BY <1>0 DEF Super
    <2>4. QED  BY <1>0, <2>1, <2>2, <2>3 DEF OwnerTaken
  <1>4. CASE EditTenants
    <2>1. users' = users /\ DOMAIN tenants' = DOMAIN tenants
      BY <1>4, EditStep DEF IInv, Edited
    <2>2. QED  BY <1>0, <2>1 DEF OwnerTaken
  <1>5. CASE ChangeMFA
    <2>1. tenants' = tenants  BY <1>5 DEF ChangeMFA
    <2>2. DOMAIN users' = DOMAIN users /\ \A e \in DOMAIN users : users'[e].tenant = users[e].tenant
      BY <1>5, MFAChange
    <2>3. QED  BY <1>0, <2>1, <2>2 DEF OwnerTaken
  <1>6. ASSUME NEW r \in Requests, Commit(r)
        PROVE  (\A x : Admin(x) \in DOMAIN users' => users'[Admin(x)].tenant = 0) /\ OwnerTaken
    <2>1. PICK p \in People :
            /\ DOMAIN tenants' = DOMAIN tenants \cup {Len(tenants) + 1}
            /\ DOMAIN users' = DOMAIN users \cup {Owner(p)}
            /\ users'[Owner(p)].tenant = Len(tenants) + 1
            /\ \A e \in DOMAIN users : users'[e] = users[e]
      BY <1>6, CommitFacts
    <2>2. \A x : Owner(p) # Admin(x)  BY Apart
    <2>3. QED  BY <1>0, <2>1, <2>2 DEF OwnerTaken
  <1>7. ASSUME NEW r \in Requests,
               ValidateOnboard(r) \/ InsertTenant(r) \/ InsertOwner(r) \/ Abort(r)
        PROVE  UNCHANGED <<tenants, users>>
    BY <1>7 DEF ValidateOnboard, InsertTenant, InsertOwner, Abort
  <1>8. CASE UNCHANGED <<tenants, users>>  BY <1>0, <1>8 DEF OwnerTaken
  <1>9. UNCHANGED vars \/ EditPlans => UNCHANGED <<tenants, users>>  BY DEF vars, EditPlans
  <1>10. QED
    BY <1>2, <1>3, <1>4, <1>5, <1>6, <1>7, <1>8, <1>9 DEF Next, EditTenants

\* Whomever businesses are onboarded for, a tenant that appears has an owner,
\* and nothing but provision_e2e_user takes one away: its own account's.
THEOREM Takes == Spec => [][OwnerTaken]_vars
  <1>1. Init => Admins(Database)
    <2>1. SUFFICES ASSUME Init PROVE Admins(Database)  OBVIOUS
    <2>2. DOMAIN users = {}  BY <2>1 DEF Init
    <2>3. QED  BY <2>2 DEF Admins, Database
  <1>2. IInv /\ Admins(Database) /\ [Next]_vars => Admins(Database)' /\ [OwnerTaken]_vars
    BY StepKeeps
  <1>3. QED  BY <1>1, <1>2, Always, PTL DEF Spec
=============================================================================

--------------------------- MODULE TenancyProofs ---------------------------
(***************************************************************************)
(* Proofs about Tenancy, and Accounts under it: the two public gates       *)
(* agree, nobody acts on authority that was over before, a code buys one   *)
(* token and what is done inside a tenant was announced, and the audit     *)
(* trail tells what every transaction changed.                             *)
(*                                                                         *)
(* Transactions run on snapshots: a request decides at one moment and      *)
(* commits at a later one.  The proof rests on what that leaves true: a    *)
(* plan whose documents nobody else wrote is still current (Current), and  *)
(* what it was decided on and does not write cannot change (Growth).       *)
(***************************************************************************)
EXTENDS Tenancy, FiniteSetTheorems, TLAPS

-----------------------------------------------------------------------------
(* Accounts: what a transaction makes of the database *)

\* The database holds documents of their kind.
DbTyped ==
  /\ db = [d \in Doc |-> db[d]]
  /\ \A t \in Tenants : /\ tenant(t) \in TenantDoc \cup {None}
                        /\ account(t) \in AccountDoc \cup {None}
                        /\ profile(t) \in ProfileDoc \cup {None}
  /\ \A x \in Slugs : db[<<"slug", x>>] \in Tenants \cup {None}
  /\ \A s \in Sessions : session(s) \in SessionDoc \cup {None}

\* GatesAgree made inductive: an account never stands without its tenant and its
\* profile nor says anything else than they do, a tenant has claimed its slug,
\* and a delegated session is of a tenant with an account.
World ==
  /\ DbTyped
  /\ \A t \in Tenants : account(t) # None =>
       /\ tenant(t) # None /\ profile(t) # None
       /\ tenant(t).slug = account(t).slug
       /\ account(t).status \in {"TRIAL", "ACTIVE"} <=> tenant(t).status = "ACTIVE"
  /\ \A t \in Tenants : profile(t) # None => account(t) # None
  /\ \A t \in Tenants : tenant(t) # None => db[<<"slug", tenant(t).slug>>] = t
  /\ \A s \in Sessions : session(s) # None => account(session(s).tenant) # None

\* A transaction commits a plan.
Written(p) ==
  db' = [d \in Doc |-> IF d \in DOMAIN p.put THEN p.put[d] ELSE db[d]]

Request ==
  [op : {"provision"}, tenant : Tenants, slug : Slugs, owner : Owners,
   status : {"TRIAL", "ACTIVE", "SUSPENDED"}, booking : BOOLEAN]
    \cup [op : {"updateStatus", "updateTenantStatus"}, tenant : Tenants,
          status : {"ACTIVE", "SUSPENDED"}]
    \cup [op : {"updateProfile"}, tenant : Tenants, booking : BOOLEAN]
    \cup [op : {"start"}, tenant : Tenants, session : Sessions, now : Nat]
    \cup [op : {"exchange"}, session : Sessions, now : Nat]
    \cup [op : {"revoke", "expire"}, session : Sessions]

\* A plan that still fits the documents it would write, though others it was
\* decided on may have changed: what withTransaction commits without a retry.
Current(r, p) ==
  \/ r.op = "provision" /\ p \in provision(r)
  \/ r.op = "updateStatus" /\ p \in updateStatus(r)
  \/ r.op = "updateTenantStatus" /\ p \in updateTenantStatus(r)
  \/ r.op = "updateProfile" /\ p \in updateProfile(r)
  \/ /\ r.op = "start"
     /\ session(r.session) = None /\ account(r.tenant) # None
     /\ p = Plan([d \in {<<"session", r.session>>} |->
                    [status |-> "ACTIVE", expiresAt |-> r.now + SessionTTL,
                     tenant |-> r.tenant, exchanged |-> FALSE]],
                 SessionLifecycle("DELEGATED_SESSION_STARTED", r.tenant, r.session,
                                  "ACTIVE"))
  \/ /\ r.op = "exchange"
     /\ session(r.session) # None /\ ~session(r.session).exchanged
     /\ p = Plan([d \in {<<"session", r.session>>} |->
                    [session(r.session) EXCEPT !.exchanged = TRUE]],
                 None)
  \/ /\ r.op \in {"revoke", "expire"}
     /\ session(r.session) # None
     /\ \E status \in {"EXPIRED", "REVOKED"} : p \in endActive(r.session, status)

\* What no transaction undoes: documents stay, a tenant that predates accounts
\* gets none, a session keeps its tenant and its expiry, its code stays
\* exchanged and its end stays.  And what only provision and start bring about.
Growth(r) ==
  /\ \A t \in Tenants :
       /\ tenant(t) # None => tenant(t)' # None
       /\ account(t) # None => account(t)' # None
       /\ (tenant(t) # None /\ account(t) = None) => account(t)' = None
       /\ ~(r.op = "provision" /\ r.tenant = t) =>
            /\ tenant(t) = None => tenant(t)' = None
            /\ account(t) = None => account(t)' = None
            /\ profile(t) = None => profile(t)' = None
  /\ \A s \in Sessions :
       /\ session(s) # None =>
            /\ session(s)' # None
            /\ session(s)'.tenant = session(s).tenant
            /\ session(s)'.expiresAt = session(s).expiresAt
            /\ session(s).exchanged => session(s)'.exchanged
            /\ session(s)'.status = "ACTIVE" => session(s).status = "ACTIVE"
       /\ ~(r.op = "start" /\ r.session = s) =>
            (session(s) = None => session(s)' = None)

\* provision brings an account, its tenant and its profile together and claims the
\* slug, which nobody had.
LEMMA ProvisionKeepsWorld ==
  ASSUME World, NEW r \in Request, r.op = "provision", NEW p \in provision(r),
         tenant(r.tenant) = None, account(r.tenant) = None, profile(r.tenant) = None,
         Written(p)
  PROVE  World' /\ Growth(r)
<1>1. /\ r.tenant \in Tenants /\ r.slug \in Slugs /\ r.owner \in Owners
      /\ r.status \in {"TRIAL", "ACTIVE", "SUSPENDED"} /\ r.booking \in BOOLEAN
  BY DEF Request
<1>2. PICK t, x, a, u, f :
        /\ t \in Tenants /\ x \in Slugs
        /\ t = r.tenant /\ x = r.slug
        /\ a = [status |-> r.status, booking |-> r.booking, slug |-> x]
        /\ u = [status |-> IF r.status = "SUSPENDED" THEN "SUSPENDED" ELSE "ACTIVE",
                slug |-> x]
        /\ f = [booking |-> r.booking]
  BY <1>1
<1> t \in Tenants /\ x \in Slugs
  BY <1>2
<1>3. /\ a \in AccountDoc /\ u \in TenantDoc /\ f \in ProfileDoc
      /\ a # None /\ u # None /\ f # None /\ t # None
      /\ a.slug = x /\ u.slug = x
      /\ a.status \in {"TRIAL", "ACTIVE"} <=> u.status = "ACTIVE"
  BY <1>1, <1>2, NoneAssumption DEF AccountDoc, TenantDoc, ProfileDoc
<1>4. /\ db[<<"slug", x>>] = None
      /\ p.put = [d \in {<<"account", t>>, <<"tenant", t>>, <<"profile", t>>,
                         <<"slug", x>>, <<"owner", r.owner>>} |->
                    [account |-> a, tenant |-> u, profile |-> f,
                     slug |-> t, owner |-> t][d[1]]]
  BY <1>2 DEF provision, Plan
<1>5. \A v \in Tenants :
        /\ tenant(v)' = IF v = t THEN u ELSE tenant(v)
        /\ account(v)' = IF v = t THEN a ELSE account(v)
        /\ profile(v)' = IF v = t THEN f ELSE profile(v)
  BY <1>4 DEF Written, tenant, account, profile, Doc
<1>6. \A y \in Slugs : db'[<<"slug", y>>] = IF y = x THEN t ELSE db[<<"slug", y>>]
  BY <1>4 DEF Written, Doc
<1>7. \A s \in Sessions : session(s)' = session(s)
  BY <1>4 DEF Written, session, Doc
<1>8. DbTyped'
  <2>1. db' = [d \in Doc |-> db'[d]]
    BY DEF Written
  <2> QED
    BY <1>3, <1>5, <1>6, <1>7, <2>1 DEF World, DbTyped
<1>9. World'
  <2>1. \A v \in Tenants : tenant(v) # None => tenant(v).slug \in Slugs
    BY DEF World, DbTyped, TenantDoc
  <2>2. \A v \in Tenants : tenant(v)' # None => db'[<<"slug", tenant(v)'.slug>>] = v
    <3> SUFFICES ASSUME NEW v \in Tenants, tenant(v)' # None
                 PROVE  db'[<<"slug", tenant(v)'.slug>>] = v
      OBVIOUS
    <3>1. CASE v = t
      BY <1>3, <1>5, <1>6, <3>1
    <3>2. CASE v # t
      <4>1. tenant(v)' = tenant(v) /\ db[<<"slug", tenant(v).slug>>] = v
        BY <1>5, <3>2 DEF World
      <4>2. v # None
        BY NoneAssumption
      <4> QED
        BY <1>4, <1>6, <2>1, <4>1, <4>2
    <3> QED
      BY <3>1, <3>2
  <2>3. \A s \in Sessions : session(s)' # None => (account(session(s).tenant) # None)'
    BY <1>3, <1>5, <1>7 DEF World, DbTyped, SessionDoc
  <2>4. \A v \in Tenants : account(v)' # None =>
          /\ tenant(v)' # None /\ profile(v)' # None
          /\ tenant(v)'.slug = account(v)'.slug
          /\ account(v)'.status \in {"TRIAL", "ACTIVE"} <=> tenant(v)'.status = "ACTIVE"
    BY <1>3, <1>5 DEF World
  <2>5. \A v \in Tenants : profile(v)' # None => account(v)' # None
    BY <1>3, <1>5 DEF World
  <2> QED
    BY <1>8, <2>2, <2>3, <2>4, <2>5 DEF World
<1>10. Growth(r)
  BY <1>2, <1>3, <1>5, <1>7 DEF Growth
<1> QED
  BY <1>9, <1>10

\* An account and its tenant change their status together (updateStatus).
LEMMA StatusKeepsWorld ==
  ASSUME World, NEW r \in Request, r.op = "updateStatus", NEW p \in updateStatus(r),
         Written(p)
  PROVE  World' /\ Growth(r)
<1>1. r.tenant \in Tenants /\ r.status \in {"ACTIVE", "SUSPENDED"}
  BY DEF Request
<1>2. PICK t, a, u :
        /\ t \in Tenants
        /\ t = r.tenant
        /\ a = [account(t) EXCEPT !.status = r.status]
        /\ u = [tenant(t) EXCEPT !.status = r.status]
  BY <1>1
<1> t \in Tenants
  BY <1>2
<1>3. /\ account(t) # None
      /\ p.put = [d \in {<<"account", t>>, <<"tenant", t>>} |->
                    IF d = <<"account", t>> THEN a ELSE u]
  BY <1>2 DEF updateStatus, Plan
<1>4. /\ account(t) \in AccountDoc /\ tenant(t) \in TenantDoc
      /\ tenant(t) # None /\ profile(t) # None /\ tenant(t).slug = account(t).slug
  BY <1>3 DEF World, DbTyped
<1>5. /\ a \in AccountDoc /\ a.slug = account(t).slug /\ a.status = r.status
      /\ u \in TenantDoc /\ u.slug = tenant(t).slug /\ u.status = r.status
  BY <1>1, <1>2, <1>4 DEF AccountDoc, TenantDoc
<1>6. a # None /\ u # None
  BY <1>5, NoneAssumption
<1>7. \A v \in Tenants :
        /\ tenant(v)' = IF v = t THEN u ELSE tenant(v)
        /\ account(v)' = IF v = t THEN a ELSE account(v)
        /\ profile(v)' = profile(v)
  BY <1>3 DEF Written, tenant, account, profile, Doc
<1>8. \A y \in Slugs : db'[<<"slug", y>>] = db[<<"slug", y>>]
  BY <1>3 DEF Written, Doc
<1>9. \A s \in Sessions : session(s)' = session(s)
  BY <1>3 DEF Written, session, Doc
<1>10. DbTyped'
  <2>1. db' = [d \in Doc |-> db'[d]]
    BY DEF Written
  <2> QED
    BY <1>5, <1>7, <1>8, <1>9, <2>1 DEF World, DbTyped
<1>11. World'
  <2>1. \A v \in Tenants : tenant(v) # None => tenant(v).slug \in Slugs
    BY DEF World, DbTyped, TenantDoc
  <2>2. \A v \in Tenants : tenant(v)' # None => db'[<<"slug", tenant(v)'.slug>>] = v
    BY <1>4, <1>5, <1>7, <1>8, <2>1 DEF World
  <2>3. \A s \in Sessions : session(s)' # None => (account(session(s).tenant) # None)'
    BY <1>6, <1>7, <1>9 DEF World, DbTyped, SessionDoc
  <2>4. \A v \in Tenants : account(v)' # None =>
          /\ tenant(v)' # None /\ profile(v)' # None
          /\ tenant(v)'.slug = account(v)'.slug
          /\ account(v)'.status \in {"TRIAL", "ACTIVE"} <=> tenant(v)'.status = "ACTIVE"
    BY <1>1, <1>4, <1>5, <1>6, <1>7 DEF World
  <2>5. \A v \in Tenants : profile(v)' # None => account(v)' # None
    BY <1>1, <1>4, <1>5, <1>6, <1>7 DEF World
  <2> QED
    BY <1>10, <2>2, <2>3, <2>4, <2>5 DEF World
<1>12. Growth(r)
  BY <1>3, <1>4, <1>6, <1>7, <1>9 DEF Growth
<1> QED
  BY <1>11, <1>12

\* Only a tenant without account changes alone (updateTenantStatus).
LEMMA TenantStatusKeepsWorld ==
  ASSUME World, NEW r \in Request, r.op = "updateTenantStatus",
         NEW p \in updateTenantStatus(r), Written(p)
  PROVE  World' /\ Growth(r)
<1>1. r.tenant \in Tenants /\ r.status \in {"ACTIVE", "SUSPENDED"}
  BY DEF Request
<1>2. PICK t, u :
        /\ t \in Tenants
        /\ t = r.tenant
        /\ u = [tenant(t) EXCEPT !.status = r.status]
  BY <1>1
<1> t \in Tenants
  BY <1>2
<1>3. /\ tenant(t) # None /\ account(t) = None
      /\ p.put = [d \in {<<"tenant", t>>} |-> u]
  BY <1>2 DEF updateTenantStatus, Plan
<1>4. tenant(t) \in TenantDoc
  BY <1>3 DEF World, DbTyped
<1>5. u \in TenantDoc /\ u.slug = tenant(t).slug
  BY <1>1, <1>2, <1>4 DEF TenantDoc
<1>6. u # None
  BY <1>5, NoneAssumption
<1>7. \A v \in Tenants :
        /\ tenant(v)' = IF v = t THEN u ELSE tenant(v)
        /\ account(v)' = account(v)
        /\ profile(v)' = profile(v)
  BY <1>3 DEF Written, tenant, account, profile, Doc
<1>8. \A y \in Slugs : db'[<<"slug", y>>] = db[<<"slug", y>>]
  BY <1>3 DEF Written, Doc
<1>9. \A s \in Sessions : session(s)' = session(s)
  BY <1>3 DEF Written, session, Doc
<1>10. DbTyped'
  <2>1. db' = [d \in Doc |-> db'[d]]
    BY DEF Written
  <2> QED
    BY <1>5, <1>7, <1>8, <1>9, <2>1 DEF World, DbTyped
<1>11. World'
  <2>1. \A v \in Tenants : tenant(v) # None => tenant(v).slug \in Slugs
    BY DEF World, DbTyped, TenantDoc
  <2>2. \A v \in Tenants : tenant(v)' # None => db'[<<"slug", tenant(v)'.slug>>] = v
    BY <1>3, <1>5, <1>7, <1>8, <2>1 DEF World
  <2>3. \A s \in Sessions : session(s)' # None => (account(session(s).tenant) # None)'
    BY <1>7, <1>9 DEF World, DbTyped, SessionDoc
  <2>4. \A v \in Tenants : account(v)' # None =>
          /\ tenant(v)' # None /\ profile(v)' # None
          /\ tenant(v)'.slug = account(v)'.slug
          /\ account(v)'.status \in {"TRIAL", "ACTIVE"} <=> tenant(v)'.status = "ACTIVE"
    BY <1>3, <1>7 DEF World
  <2>5. \A v \in Tenants : profile(v)' # None => account(v)' # None
    BY <1>3, <1>7 DEF World
  <2> QED
    BY <1>10, <2>2, <2>3, <2>4, <2>5 DEF World
<1>12. Growth(r)
  BY <1>3, <1>6, <1>7, <1>9 DEF Growth
<1> QED
  BY <1>11, <1>12

\* A profile changes alone (updateProfile).
LEMMA ProfileKeepsWorld ==
  ASSUME World, NEW r \in Request, r.op = "updateProfile", NEW p \in updateProfile(r),
         Written(p)
  PROVE  World' /\ Growth(r)
<1>1. r.tenant \in Tenants /\ r.booking \in BOOLEAN
  BY DEF Request
<1>2. PICK t, f :
        /\ t \in Tenants
        /\ t = r.tenant
        /\ f = [profile(t) EXCEPT !.booking = r.booking]
  BY <1>1
<1> t \in Tenants
  BY <1>2
<1>3. /\ profile(t) # None /\ account(t) # None
      /\ p.put = [d \in {<<"profile", t>>} |-> f]
  BY <1>2 DEF updateProfile, Plan
<1>4. profile(t) \in ProfileDoc
  BY <1>3 DEF World, DbTyped
<1>5. f \in ProfileDoc
  BY <1>1, <1>2, <1>4 DEF ProfileDoc
<1>6. f # None
  BY <1>5, NoneAssumption
<1>7. \A v \in Tenants :
        /\ tenant(v)' = tenant(v)
        /\ account(v)' = account(v)
        /\ profile(v)' = IF v = t THEN f ELSE profile(v)
  BY <1>3 DEF Written, tenant, account, profile, Doc
<1>8. \A y \in Slugs : db'[<<"slug", y>>] = db[<<"slug", y>>]
  BY <1>3 DEF Written, Doc
<1>9. \A s \in Sessions : session(s)' = session(s)
  BY <1>3 DEF Written, session, Doc
<1>10. DbTyped'
  <2>1. db' = [d \in Doc |-> db'[d]]
    BY DEF Written
  <2> QED
    BY <1>5, <1>7, <1>8, <1>9, <2>1 DEF World, DbTyped
<1>11. World'
  <2>1. \A v \in Tenants : tenant(v) # None => tenant(v).slug \in Slugs
    BY DEF World, DbTyped, TenantDoc
  <2>2. \A v \in Tenants : tenant(v)' # None => db'[<<"slug", tenant(v)'.slug>>] = v
    BY <1>7, <1>8, <2>1 DEF World
  <2>3. \A s \in Sessions : session(s)' # None => (account(session(s).tenant) # None)'
    BY <1>7, <1>9 DEF World, DbTyped, SessionDoc
  <2>4. \A v \in Tenants : account(v)' # None =>
          /\ tenant(v)' # None /\ profile(v)' # None
          /\ tenant(v)'.slug = account(v)'.slug
          /\ account(v)'.status \in {"TRIAL", "ACTIVE"} <=> tenant(v)'.status = "ACTIVE"
    BY <1>6, <1>7 DEF World
  <2>5. \A v \in Tenants : profile(v)' # None => account(v)' # None
    BY <1>3, <1>6, <1>7 DEF World
  <2> QED
    BY <1>10, <2>2, <2>3, <2>4, <2>5 DEF World
<1>12. Growth(r)
  BY <1>3, <1>6, <1>7, <1>9 DEF Growth
<1> QED
  BY <1>11, <1>12

\* One session is written, of a tenant with an account; a session that was there
\* keeps its tenant, its expiry and its end.
LEMMA SessionKeepsWorld ==
  ASSUME World, NEW r \in Request, NEW s \in Sessions, NEW d \in SessionDoc, NEW p,
         p.put = [k \in {<<"session", s>>} |-> d], Written(p),
         account(d.tenant) # None,
         \/ session(s) = None /\ r.op = "start" /\ r.session = s
         \/ /\ session(s) # None
            /\ d.tenant = session(s).tenant /\ d.expiresAt = session(s).expiresAt
            /\ session(s).exchanged => d.exchanged
            /\ d.status = "ACTIVE" => session(s).status = "ACTIVE"
  PROVE  World' /\ Growth(r)
<1>1. \A v \in Tenants :
        /\ tenant(v)' = tenant(v)
        /\ account(v)' = account(v)
        /\ profile(v)' = profile(v)
  BY DEF Written, tenant, account, profile, Doc
<1>2. \A y \in Slugs : db'[<<"slug", y>>] = db[<<"slug", y>>]
  BY DEF Written, Doc
<1>3. \A e \in Sessions : session(e)' = IF e = s THEN d ELSE session(e)
  BY DEF Written, session, Doc
<1>4. d # None
  BY NoneAssumption
<1>5. DbTyped'
  <2>1. db' = [k \in Doc |-> db'[k]]
    BY DEF Written
  <2> QED
    BY <1>1, <1>2, <1>3, <2>1 DEF World, DbTyped
<1>6. World'
  <2>1. \A v \in Tenants : tenant(v) # None => tenant(v).slug \in Slugs
    BY DEF World, DbTyped, TenantDoc
  <2>2. \A v \in Tenants : tenant(v)' # None => db'[<<"slug", tenant(v)'.slug>>] = v
    BY <1>1, <1>2, <2>1 DEF World
  <2>3. \A e \in Sessions : session(e)' # None => (account(session(e).tenant) # None)'
    BY <1>1, <1>3 DEF World, DbTyped, SessionDoc
  <2>4. \A v \in Tenants : account(v)' # None =>
          /\ tenant(v)' # None /\ profile(v)' # None
          /\ tenant(v)'.slug = account(v)'.slug
          /\ account(v)'.status \in {"TRIAL", "ACTIVE"} <=> tenant(v)'.status = "ACTIVE"
    BY <1>1 DEF World
  <2>5. \A v \in Tenants : profile(v)' # None => account(v)' # None
    BY <1>1 DEF World
  <2> QED
    BY <1>5, <2>2, <2>3, <2>4, <2>5 DEF World
<1>7. Growth(r)
  BY <1>1, <1>3, <1>4 DEF Growth
<1> QED
  BY <1>6, <1>7

\* A plan that is still current keeps the world in order.
LEMMA CommitKeepsWorld ==
  ASSUME World, NEW r \in Request, NEW p, Current(r, p), Written(p),
         r.op = "provision" => /\ tenant(r.tenant) = None
                               /\ account(r.tenant) = None
                               /\ profile(r.tenant) = None
  PROVE  World' /\ Growth(r)
<1>1. CASE r.op = "provision" /\ p \in provision(r)
  BY <1>1, ProvisionKeepsWorld
<1>2. CASE r.op = "updateStatus" /\ p \in updateStatus(r)
  BY <1>2, StatusKeepsWorld
<1>3. CASE r.op = "updateTenantStatus" /\ p \in updateTenantStatus(r)
  BY <1>3, TenantStatusKeepsWorld
<1>4. CASE r.op = "updateProfile" /\ p \in updateProfile(r)
  BY <1>4, ProfileKeepsWorld
<1>5. ASSUME r.op = "start",
             session(r.session) = None, account(r.tenant) # None,
             p = Plan([d \in {<<"session", r.session>>} |->
                        [status |-> "ACTIVE", expiresAt |-> r.now + SessionTTL,
                         tenant |-> r.tenant, exchanged |-> FALSE]],
                      SessionLifecycle("DELEGATED_SESSION_STARTED", r.tenant,
                                       r.session, "ACTIVE"))
      PROVE  World' /\ Growth(r)
  <2>1. r.tenant \in Tenants /\ r.session \in Sessions /\ r.now \in Nat
    BY <1>5 DEF Request
  <2>2. PICK d : d = [status |-> "ACTIVE", expiresAt |-> r.now + SessionTTL,
                      tenant |-> r.tenant, exchanged |-> FALSE]
    OBVIOUS
  <2>3. d \in SessionDoc /\ d.tenant = r.tenant
    BY <2>1, <2>2, TimeAssumption DEF SessionDoc
  <2>4. PICK s \in Sessions : s = r.session
    BY <2>1
  <2>5. p.put = [k \in {<<"session", s>>} |-> d]
    BY <1>5, <2>2, <2>4 DEF Plan
  <2>6. account(d.tenant) # None
    BY <1>5, <2>3
  <2>7. session(s) = None /\ r.op = "start" /\ r.session = s
    BY <1>5, <2>4
  <2> QED
    BY <2>3, <2>5, <2>6, <2>7, SessionKeepsWorld
<1>6. ASSUME r.op = "exchange",
             session(r.session) # None,
             p = Plan([d \in {<<"session", r.session>>} |->
                        [session(r.session) EXCEPT !.exchanged = TRUE]],
                      None)
      PROVE  World' /\ Growth(r)
  <2>1. PICK s \in Sessions : s = r.session
    BY <1>6 DEF Request
  <2>2. session(s) \in SessionDoc /\ account(session(s).tenant) # None
    BY <1>6, <2>1 DEF World, DbTyped
  <2>3. PICK d : d = [session(s) EXCEPT !.exchanged = TRUE]
    OBVIOUS
  <2>4. /\ d \in SessionDoc /\ d.tenant = session(s).tenant /\ d.exchanged
        /\ d.expiresAt = session(s).expiresAt /\ d.status = session(s).status
    BY <2>2, <2>3 DEF SessionDoc
  <2>5. p.put = [k \in {<<"session", s>>} |-> d]
    BY <1>6, <2>1, <2>3 DEF Plan
  <2>6. session(s).exchanged => d.exchanged
    BY <2>4
  <2>7. d.status = "ACTIVE" => session(s).status = "ACTIVE"
    BY <2>4
  <2>8. session(s) # None /\ account(d.tenant) # None
    BY <1>6, <2>1, <2>2, <2>4
  <2> QED
    BY <2>4, <2>5, <2>6, <2>7, <2>8, SessionKeepsWorld
<1>7. ASSUME NEW status \in {"EXPIRED", "REVOKED"}, r.op \in {"revoke", "expire"},
             session(r.session) # None, p \in endActive(r.session, status)
      PROVE  World' /\ Growth(r)
  <2>1. PICK s \in Sessions : s = r.session
    BY <1>7 DEF Request
  <2>2. session(s) \in SessionDoc /\ account(session(s).tenant) # None
    BY <1>7, <2>1 DEF World, DbTyped
  <2>3. PICK d : d = [session(s) EXCEPT !.status = status]
    OBVIOUS
  <2>4. /\ d \in SessionDoc /\ d.tenant = session(s).tenant /\ d.status = status
        /\ d.expiresAt = session(s).expiresAt /\ d.exchanged = session(s).exchanged
    BY <2>2, <2>3 DEF SessionDoc
  <2>5. p.put = [k \in {<<"session", s>>} |-> d]
    BY <1>7, <2>1, <2>3 DEF endActive, Plan
  <2> QED
    BY <1>7, <2>1, <2>2, <2>4, <2>5, SessionKeepsWorld
<1> QED
  BY <1>1, <1>2, <1>3, <1>4, <1>5, <1>6, <1>7 DEF Current

-----------------------------------------------------------------------------
(* Tenancy: what a request is doing *)

\* A request has its fields; who serves it decides where it goes and what it asks.
IsJob(x) ==
  /\ x = [r |-> x.r, actor |-> x.actor, principal |-> x.principal,
          stage |-> x.stage, held |-> x.held, up |-> x.up, unread |-> x.unread,
          plan |-> x.plan, overtaken |-> x.overtaken]
  /\ x.r \in Request
  /\ x.held \in BOOLEAN /\ x.up \in BOOLEAN /\ x.overtaken \in BOOLEAN
  /\ x.unread \subseteq {"account", "tenant"}
  /\ \/ /\ x.actor = "INTERNAL" /\ x.stage \in {"handler", "commit"}
        /\ x.r.op # "exchange"
     \/ /\ x.actor = "PUBLIC" /\ x.stage \in {"handler", "commit", "answer"}
        /\ x.r.op = "exchange" /\ x.principal = <<"session", x.r.session>>
     \/ /\ x.actor = "TENANT" /\ x.stage \in {"tenant", "handler", "commit"}
        /\ x.r.op = "updateProfile"
        /\ \E t \in Tenants : x.principal = <<"tenant", t>>
     \/ /\ x.actor = "DELEGATED"
        /\ x.stage \in {"session", "context", "admitted", "handler", "commit", "answer"}
        /\ x.r.op \in {"updateProfile", "revoke"}
        /\ \E s \in Sessions : x.principal = <<"session", s>>

\* The documents a request will bring are not there; those it speaks of are.
Placed(x) ==
  /\ x.r.op = "provision" => /\ tenant(x.r.tenant) = None
                             /\ account(x.r.tenant) = None
                             /\ profile(x.r.tenant) = None
  /\ x.r.op = "start" => session(x.r.session) = None
  /\ x.actor \in {"PUBLIC", "DELEGATED"} => session(x.principal[2]) # None

\* NoLateAuthority made inductive: up and held record what was true, and what was
\* found at each read was true when it was read.
Entitled(x) ==
  /\ x.actor = "TENANT" =>
       /\ x.held
       /\ TenantOpen(x.principal[2]) => x.up
       /\ x.stage # "tenant" => x.up
  /\ x.actor = "DELEGATED" =>
       /\ operational(session(x.principal[2]).tenant) => x.up
       /\ x.stage = "session" => (alive(x.principal[2]) => x.held)
       /\ x.stage # "session" => x.held
       /\ x.stage \in {"admitted", "handler", "commit", "answer"} => x.up

\* A plan nobody overtook is still current.
Decided(x) == (x.stage = "commit" /\ ~x.overtaken) => Current(x.r, x.plan)

Served(x) == IsJob(x) /\ Placed(x) /\ Entitled(x) /\ Decided(x)

\* No two requests bring the same document.
Apart(x, y) ==
  /\ (x.r.op = "provision" /\ y.r.op = "provision") => x.r.tenant # y.r.tenant
  /\ (x.r.op = "start" /\ y.r.op = "start") => x.r.session # y.r.session

Serving ==
  /\ clock \in Nat
  /\ job = [j \in Jobs |-> job[j]]
  /\ \A j \in Jobs : \A x : (x = job[j] /\ x # Idle) => Served(x)
  /\ \A i, j \in Jobs : (i # j /\ job[i] # Idle /\ job[j] # Idle) => Apart(job[i], job[j])

\* What is said of a request is said of the database and the clock.
LEMMA SameServed ==
  ASSUME NEW x, Served(x), UNCHANGED <<db, clock>>
  PROVE  Served(x)'
<1>1. IsJob(x)'
  BY DEF Served, IsJob
<1>2. Placed(x)'
  BY DEF Served, Placed, tenant, account, profile, session
<1>3. Entitled(x)'
  BY DEF Served, Entitled, TenantOpen, operational, alive, tenant, account, session
<1>4. Decided(x)'
  BY DEF Served, Decided, Current, provision, updateStatus, updateTenantStatus,
         updateProfile, endActive, tenant, account, profile, session
<1> QED
  BY <1>1, <1>2, <1>3, <1>4 DEF Served

\* One request moves, the database and the clock do not.
LEMMA OneMoves ==
  ASSUME Serving, NEW j \in Jobs, NEW y, job' = [job EXCEPT ![j] = y],
         UNCHANGED <<db, clock>>,
         y # Idle => Served(y),
         y # Idle => \A i \in Jobs : (i # j /\ job[i] # Idle) =>
           Apart(job[i], y) /\ Apart(y, job[i])
  PROVE  Serving'
<1>1. \A i \in Jobs : job'[i] = IF i = j THEN y ELSE job[i]
  BY DEF Serving
<1>2. \A i \in Jobs : \A x : (x = job'[i] /\ x # Idle) => Served(x)'
  <2> SUFFICES ASSUME NEW i \in Jobs, NEW x, x = job'[i], x # Idle PROVE Served(x)'
    OBVIOUS
  <2>1. Served(x)
    BY <1>1 DEF Serving
  <2> QED
    BY <2>1, SameServed
<1>3. \A i, k \in Jobs : (i # k /\ job'[i] # Idle /\ job'[k] # Idle) =>
                          Apart(job'[i], job'[k])
  BY <1>1 DEF Serving
<1>4. job' = [i \in Jobs |-> job'[i]] /\ clock' \in Nat
  BY DEF Serving
<1> QED
  BY <1>2, <1>3, <1>4 DEF Serving, Apart

\* A token is of a session that was started.
TokensOfSessions ==
  /\ token = [s \in Sessions |-> token[s]]
  /\ \A s \in Sessions : token[s] # 0 => session(s) # None

LEMMA InternalRequestServes ==
  ASSUME World, Serving, NEW j \in Jobs, InternalRequest(j)
  PROVE  Serving'
<1>1. PICK r, y :
        /\ r \in InternalRequests
        /\ y = Job("INTERNAL", None, r, "handler", TRUE, TRUE)
        /\ job' = [job EXCEPT ![j] = y]
  BY DEF InternalRequest
<1> r \in InternalRequests
  BY <1>1
<1>2. /\ y = [r |-> r, actor |-> "INTERNAL", principal |-> None, stage |-> "handler",
              held |-> TRUE, up |-> TRUE, unread |-> {}, plan |-> None,
              overtaken |-> FALSE]
      /\ UNCHANGED <<db, clock>>
  BY <1>1 DEF InternalRequest, Job, NoWrite
<1>3. /\ r \in Request
      /\ r.op \in {"provision", "updateStatus", "updateTenantStatus", "start", "revoke"}
  <2>1. CASE \E o \in Offers, t \in FreshTenants, x \in Slugs, w \in Owners :
               r = [status |-> o.status, booking |-> o.booking, tenant |-> t,
                    op |-> "provision", slug |-> x, owner |-> w]
    BY <2>1, RequestAssumption DEF Request, FreshTenants
  <2>2. CASE r \in [op : {"updateStatus", "updateTenantStatus"},
                    tenant : {t \in Tenants : tenant(t) # None},
                    status : {"ACTIVE", "SUSPENDED"}]
    BY <2>2 DEF Request
  <2>3. CASE r \in [op : {"start"}, tenant : {t \in Tenants : account(t) # None},
                    session : FreshSessions, now : {clock}]
    BY <2>3 DEF Request, FreshSessions, Serving
  <2>4. CASE r \in [op : {"revoke"}, session : {s \in Sessions : session(s) # None}]
    BY <2>4 DEF Request
  <2> QED
    BY <2>1, <2>2, <2>3, <2>4 DEF InternalRequests
<1>4. /\ r.op = "provision" => r.tenant \in FreshTenants
      /\ r.op = "start" => r.session \in FreshSessions
  BY DEF InternalRequests
<1>5. IsJob(y)
  BY <1>2, <1>3 DEF IsJob
<1>6. Placed(y)
  BY <1>2, <1>4 DEF Placed, FreshTenants, FreshSessions, World
<1>7. Entitled(y) /\ Decided(y)
  BY <1>2 DEF Entitled, Decided
<1>8. \A i \in Jobs : (i # j /\ job[i] # Idle) => Apart(job[i], y) /\ Apart(y, job[i])
  BY <1>2, <1>4 DEF Apart, FreshTenants, FreshSessions
<1> QED
  BY <1>1, <1>2, <1>5, <1>6, <1>7, <1>8, OneMoves DEF Served

LEMMA ExchangeServes ==
  ASSUME World, Serving, NEW j \in Jobs, exchangeDelegated(j)
  PROVE  Serving'
<1>1. PICK s, y :
        /\ s \in Sessions
        /\ session(s) # None
        /\ y = [r |-> [session |-> s, now |-> clock, op |-> "exchange"],
                actor |-> "PUBLIC", principal |-> <<"session", s>>, stage |-> "handler",
                held |-> TRUE, up |-> TRUE, unread |-> {}, plan |-> None,
                overtaken |-> FALSE]
        /\ job' = [job EXCEPT ![j] = y]
        /\ UNCHANGED <<db, clock>>
  BY DEF exchangeDelegated, Job, NoWrite
<1> s \in Sessions
  BY <1>1
<1>2. y.r \in Request /\ y.r.op = "exchange"
  BY <1>1 DEF Request, Serving
<1>3. IsJob(y)
  BY <1>1, <1>2 DEF IsJob
<1>4. Placed(y) /\ Entitled(y) /\ Decided(y)
  BY <1>1, <1>2 DEF Placed, Entitled, Decided
<1>5. \A i \in Jobs : (i # j /\ job[i] # Idle) => Apart(job[i], y) /\ Apart(y, job[i])
  BY <1>2 DEF Apart
<1> QED
  BY <1>1, <1>3, <1>4, <1>5, OneMoves DEF Served

LEMMA TenantRequestServes ==
  ASSUME World, Serving, NEW j \in Jobs, TenantRequest(j)
  PROVE  Serving'
<1>1. PICK t, r, y :
        /\ t \in Tenants
        /\ r \in TenantRequests(t)
        /\ y = [r |-> r, actor |-> "TENANT", principal |-> <<"tenant", t>>,
                stage |-> "tenant", held |-> TRUE, up |-> TenantOpen(t), unread |-> {},
                plan |-> None, overtaken |-> FALSE]
        /\ job' = [job EXCEPT ![j] = y]
        /\ UNCHANGED <<db, clock>>
  BY DEF TenantRequest, Job, NoWrite
<1> t \in Tenants
  BY <1>1
<1>2. r \in Request /\ r.op = "updateProfile"
  BY <1>1 DEF Request, TenantRequests
<1>3. TenantOpen(t) \in BOOLEAN
  BY DEF TenantOpen
<1>4. IsJob(y)
  BY <1>1, <1>2, <1>3 DEF IsJob
<1>5. Placed(y) /\ Entitled(y) /\ Decided(y)
  BY <1>1, <1>2 DEF Placed, Entitled, Decided
<1>6. \A i \in Jobs : (i # j /\ job[i] # Idle) => Apart(job[i], y) /\ Apart(y, job[i])
  BY <1>1, <1>2 DEF Apart
<1> QED
  BY <1>1, <1>4, <1>5, <1>6, OneMoves DEF Served

LEMMA DelegatedRequestServes ==
  ASSUME World, Serving, TokensOfSessions, NEW j \in Jobs, DelegatedRequest(j)
  PROVE  Serving'
<1>1. PICK s, r, y :
        /\ s \in Sessions
        /\ r \in DelegatedRequests(s)
        /\ verify(s)
        /\ y = [r |-> r, actor |-> "DELEGATED", principal |-> <<"session", s>>,
                stage |-> "session", held |-> alive(s),
                up |-> operational(session(s).tenant), unread |-> {},
                plan |-> None, overtaken |-> FALSE]
        /\ job' = [job EXCEPT ![j] = y]
        /\ UNCHANGED <<db, clock>>
  BY DEF DelegatedRequest, Job, NoWrite
<1> s \in Sessions
  BY <1>1
<1>2. session(s) # None
  BY <1>1 DEF verify, TokensOfSessions
<1>3. session(s).tenant \in Tenants
  BY <1>2 DEF World, DbTyped, SessionDoc
<1>4. r \in Request /\ r.op \in {"updateProfile", "revoke"}
  BY <1>1, <1>3 DEF Request, DelegatedRequests, TenantRequests
<1>5. alive(s) \in BOOLEAN /\ operational(session(s).tenant) \in BOOLEAN
  BY DEF alive, operational
<1>6. IsJob(y)
  BY <1>1, <1>4, <1>5 DEF IsJob
<1>7. Placed(y) /\ Entitled(y) /\ Decided(y)
  BY <1>1, <1>2, <1>4 DEF Placed, Entitled, Decided
<1>8. \A i \in Jobs : (i # j /\ job[i] # Idle) => Apart(job[i], y) /\ Apart(y, job[i])
  BY <1>1, <1>4 DEF Apart
<1> QED
  BY <1>1, <1>6, <1>7, <1>8, OneMoves DEF Served

\* One that was there goes on with what it asked for.
LEMMA GoesOn ==
  ASSUME Serving, NEW j \in Jobs, NEW x, x = job[j], x # Idle, NEW y, y.r = x.r
  PROVE  \A i \in Jobs : (i # j /\ job[i] # Idle) => Apart(job[i], y) /\ Apart(y, job[i])
  BY DEF Serving, Apart

LEMMA TenantAuthenticationServes ==
  ASSUME World, Serving, NEW j \in Jobs, authenticateTenant(j)
  PROVE  Serving'
<1>1. PICK x : x = job[j]
  OBVIOUS
<1>2. PICK y : y = IF TenantOpen(x.principal[2]) THEN [x EXCEPT !.stage = "handler"]
                                                 ELSE Idle
  OBVIOUS
<1>3. /\ x # Idle /\ x.stage = "tenant"
      /\ job' = [job EXCEPT ![j] = y]
      /\ UNCHANGED <<db, clock>>
  BY <1>1, <1>2 DEF authenticateTenant, NoWrite, Serving
<1>4. Served(x)
  BY <1>1, <1>3 DEF Serving
<1>5. CASE ~TenantOpen(x.principal[2])
  BY <1>2, <1>3, <1>5, OneMoves
<1>6. CASE TenantOpen(x.principal[2])
  <2>1. y = [x EXCEPT !.stage = "handler"]
    BY <1>2, <1>6
  <2>2. IsJob(y) /\ y.r = x.r
    BY <1>3, <1>4, <2>1 DEF Served, IsJob
  <2>3. Placed(y) /\ Entitled(y) /\ Decided(y)
    BY <1>3, <1>4, <1>6, <2>1 DEF Served, IsJob, Placed, Entitled, Decided
  <2> QED
    BY <1>1, <1>3, <2>2, <2>3, GoesOn, OneMoves DEF Served
<1> QED
  BY <1>5, <1>6

LEMMA SessionAuthenticationServes ==
  ASSUME World, Serving, NEW j \in Jobs, authenticateSession(j)
  PROVE  Serving'
<1>1. PICK x : x = job[j]
  OBVIOUS
<1>2. PICK s : s = x.principal[2]
  OBVIOUS
<1>3. PICK y :
        y = IF session(s).status # "ACTIVE" THEN Idle
            ELSE IF session(s).expiresAt <= clock
            THEN [x EXCEPT !.stage = "handler", !.actor = "INTERNAL",
                           !.r = [session |-> s, op |-> "expire"]]
            ELSE [x EXCEPT !.stage = "context", !.unread = {"account", "tenant"}]
  OBVIOUS
<1>4. /\ x # Idle /\ x.stage = "session"
      /\ job' = [job EXCEPT ![j] = y]
      /\ UNCHANGED <<db, clock>>
  BY <1>1, <1>2, <1>3 DEF authenticateSession, NoWrite, Serving
<1>5. Served(x)
  BY <1>1, <1>4 DEF Serving
<1>6. /\ s \in Sessions /\ x.principal = <<"session", s>> /\ session(s) # None
      /\ session(s).expiresAt \in Nat /\ x.actor = "DELEGATED"
  BY <1>2, <1>4, <1>5 DEF Served, IsJob, Placed, World, DbTyped, SessionDoc
<1>7. CASE session(s).status # "ACTIVE"
  BY <1>3, <1>4, <1>7, OneMoves
<1>8. CASE session(s).status = "ACTIVE" /\ session(s).expiresAt <= clock
  <2>1. y = [x EXCEPT !.stage = "handler", !.actor = "INTERNAL",
                      !.r = [session |-> s, op |-> "expire"]]
    BY <1>3, <1>8
  <2>2. [session |-> s, op |-> "expire"] \in Request
    BY <1>6 DEF Request
  <2>3. IsJob(y) /\ y.r.op = "expire" /\ y.actor = "INTERNAL" /\ y.stage = "handler"
    BY <1>4, <1>5, <2>1, <2>2 DEF Served, IsJob
  <2>4. Placed(y) /\ Entitled(y) /\ Decided(y)
    BY <2>3 DEF Placed, Entitled, Decided
  <2>5. \A i \in Jobs : (i # j /\ job[i] # Idle) => Apart(job[i], y) /\ Apart(y, job[i])
    BY <2>3 DEF Apart
  <2> QED
    BY <1>4, <2>3, <2>4, <2>5, OneMoves DEF Served
<1>9. CASE session(s).status = "ACTIVE" /\ ~(session(s).expiresAt <= clock)
  <2>1. y = [x EXCEPT !.stage = "context", !.unread = {"account", "tenant"}]
    BY <1>3, <1>9
  <2>2. IsJob(y) /\ y.r = x.r
    BY <1>4, <1>5, <2>1 DEF Served, IsJob
  <2>3. alive(x.principal[2])
    BY <1>2, <1>6, <1>9 DEF alive, Serving
  <2>4. Placed(y) /\ Entitled(y) /\ Decided(y)
    BY <1>4, <1>5, <1>6, <2>1, <2>3 DEF Served, IsJob, Placed, Entitled, Decided
  <2> QED
    BY <1>1, <1>4, <2>2, <2>4, GoesOn, OneMoves DEF Served
<1> QED
  BY <1>7, <1>8, <1>9

\* Either of the two reads is enough: an account and its tenant are open together.
LEMMA ContextServes ==
  ASSUME World, Serving, NEW j \in Jobs, operationalContext(j)
  PROVE  Serving'
<1>1. PICK x : x = job[j]
  OBVIOUS
<1>2. PICK t : t = session(x.principal[2]).tenant
  OBVIOUS
<1>3. PICK y :
        /\ \E d \in x.unread :
             y = IF \/ d = "account" /\ account(t).status \notin {"TRIAL", "ACTIVE"}
                    \/ d = "tenant" /\ tenant(t).status # "ACTIVE"
                 THEN Idle
                 ELSE [x EXCEPT !.unread = x.unread \ {d},
                                !.stage = IF x.unread = {d} THEN "admitted"
                                                            ELSE "context"]
        /\ job' = [job EXCEPT ![j] = y]
  <2>1. PICK d \in x.unread :
          job' = [job EXCEPT ![j] =
            IF \/ d = "account" /\ account(t).status \notin {"TRIAL", "ACTIVE"}
               \/ d = "tenant" /\ tenant(t).status # "ACTIVE"
            THEN Idle
            ELSE [x EXCEPT !.unread = x.unread \ {d},
                           !.stage = IF x.unread = {d} THEN "admitted" ELSE "context"]]
    BY <1>1, <1>2 DEF operationalContext
  <2>2. PICK y :
          y = IF \/ d = "account" /\ account(t).status \notin {"TRIAL", "ACTIVE"}
                 \/ d = "tenant" /\ tenant(t).status # "ACTIVE"
              THEN Idle
              ELSE [x EXCEPT !.unread = x.unread \ {d},
                             !.stage = IF x.unread = {d} THEN "admitted" ELSE "context"]
    OBVIOUS
  <2>3. job' = [job EXCEPT ![j] = y]
    BY <1>1, <2>1, <2>2 DEF Serving
  <2> QED
    BY <2>2, <2>3
<1>4. x # Idle /\ x.stage = "context" /\ UNCHANGED <<db, clock>>
  BY <1>1 DEF operationalContext, NoWrite
<1>5. Served(x)
  BY <1>1, <1>4 DEF Serving
<1>6. /\ x.actor = "DELEGATED" /\ session(x.principal[2]) # None
      /\ x.principal[2] \in Sessions
  BY <1>4, <1>5 DEF Served, IsJob, Placed
<1>7. t \in Tenants /\ account(t) # None
  BY <1>2, <1>6 DEF World, DbTyped, SessionDoc
<1>8. CASE y = Idle
  BY <1>3, <1>4, <1>8, OneMoves
<1>9. CASE y # Idle
  <2>0. PICK d \in x.unread :
          y = IF \/ d = "account" /\ account(t).status \notin {"TRIAL", "ACTIVE"}
                 \/ d = "tenant" /\ tenant(t).status # "ACTIVE"
              THEN Idle
              ELSE [x EXCEPT !.unread = x.unread \ {d},
                             !.stage = IF x.unread = {d} THEN "admitted" ELSE "context"]
    BY <1>3
  <2>1. y = [x EXCEPT !.unread = x.unread \ {d},
                      !.stage = IF x.unread = {d} THEN "admitted" ELSE "context"]
    BY <2>0, <1>9
  <2>2. /\ d = "account" => account(t).status \in {"TRIAL", "ACTIVE"}
        /\ d = "tenant" => tenant(t).status = "ACTIVE"
    BY <2>0, <1>9
  <2>3. d \in {"account", "tenant"}
    BY <1>5 DEF Served, IsJob
  <2>4. operational(t)
    BY <1>7, <2>2, <2>3 DEF operational, World
  <2>5. x.up /\ x.held
    BY <1>2, <1>4, <1>5, <1>6, <2>4 DEF Served, Entitled
  <2>6. IsJob(y) /\ y.r = x.r
    BY <1>4, <1>5, <1>6, <2>1 DEF Served, IsJob
  <2>7. /\ y.actor = x.actor /\ y.principal = x.principal /\ y.held = x.held
        /\ y.up = x.up /\ y.stage \in {"context", "admitted"}
    BY <1>4, <1>5, <2>1 DEF Served, IsJob
  <2>8. Placed(y) /\ Entitled(y) /\ Decided(y)
    BY <1>5, <1>6, <2>5, <2>6, <2>7 DEF Served, Placed, Entitled, Decided
  <2> QED
    BY <1>1, <1>3, <1>4, <2>6, <2>8, GoesOn, OneMoves DEF Served
<1> QED
  BY <1>8, <1>9

LEMMA InterceptServes ==
  ASSUME World, Serving, NEW j \in Jobs, intercept(j)
  PROVE  Serving'
<1>1. PICK x : x = job[j]
  OBVIOUS
<1>2. PICK y : y = [x EXCEPT !.stage = "handler"]
  OBVIOUS
<1>3. /\ x # Idle /\ x.stage = "admitted"
      /\ job' = [job EXCEPT ![j] = y]
      /\ UNCHANGED <<db, clock>>
  BY <1>1, <1>2 DEF intercept, NoWrite, Serving
<1>4. Served(x)
  BY <1>1, <1>3 DEF Serving
<1>5. IsJob(y) /\ y.r = x.r
  BY <1>2, <1>3, <1>4 DEF Served, IsJob
<1>6. Placed(y) /\ Entitled(y) /\ Decided(y)
  BY <1>2, <1>3, <1>4 DEF Served, IsJob, Placed, Entitled, Decided
<1> QED
  BY <1>1, <1>3, <1>5, <1>6, GoesOn, OneMoves DEF Served

\* What a handler decides is current when it decides it.
LEMMA DecidesCurrent ==
  ASSUME World, NEW r \in Request, NEW p \in handler(r),
         r.op = "start" => session(r.session) = None
  PROVE  Current(r, p)
<1>1. CASE r.op = "provision"
  BY <1>1 DEF handler, Current
<1>2. CASE r.op = "updateStatus"
  BY <1>2 DEF handler, Current
<1>3. CASE r.op = "updateTenantStatus"
  BY <1>3 DEF handler, Current
<1>4. CASE r.op = "updateProfile"
  BY <1>4 DEF handler, Current
<1>5. CASE r.op = "start"
  <2>1. p \in start(r)
    BY <1>5 DEF handler
  <2> QED
    BY <1>5, <2>1 DEF start, operational, Current
<1>6. CASE r.op = "exchange"
  <2>1. p \in exchange(r)
    BY <1>6 DEF handler
  <2> QED
    BY <1>6, <2>1 DEF exchange, Current
<1>7. CASE r.op = "revoke"
  <2>1. p \in revoke(r)
    BY <1>7 DEF handler
  <2> QED
    BY <1>7, <2>1 DEF revoke, Current
<1>8. CASE r.op = "expire"
  <2>1. p \in materializeExpiry(r)
    BY <1>8 DEF handler
  <2> QED
    BY <1>8, <2>1 DEF materializeExpiry, Current
<1> QED
  BY <1>1, <1>2, <1>3, <1>4, <1>5, <1>6, <1>7, <1>8 DEF Request

LEMMA DecideServes ==
  ASSUME World, Serving, NEW j \in Jobs, Decide(j)
  PROVE  Serving'
<1>1. PICK x : x = job[j]
  OBVIOUS
<1>2. PICK plans : plans = handler(x.r)
  OBVIOUS
<1>3. PICK p : p = CHOOSE q \in plans : TRUE
  OBVIOUS
<1>4. PICK y :
        y = IF plans = {}
            THEN IF x.actor = "DELEGATED" THEN [x EXCEPT !.stage = "answer"] ELSE Idle
            ELSE [x EXCEPT !.stage = "commit", !.overtaken = FALSE, !.plan = p]
  OBVIOUS
<1>5. /\ x # Idle /\ x.stage = "handler"
      /\ job' = [job EXCEPT ![j] = y]
      /\ UNCHANGED <<db, clock>>
  BY <1>1, <1>2, <1>3, <1>4 DEF Decide, NoWrite, Serving
<1>6. Served(x)
  BY <1>1, <1>5 DEF Serving
<1>7. CASE plans = {} /\ x.actor # "DELEGATED"
  BY <1>4, <1>5, <1>7, OneMoves
<1>8. CASE plans = {} /\ x.actor = "DELEGATED"
  <2>1. y = [x EXCEPT !.stage = "answer"]
    BY <1>4, <1>8
  <2>2. IsJob(y) /\ y.r = x.r
    BY <1>6, <1>8, <2>1 DEF Served, IsJob
  <2>3. Placed(y) /\ Entitled(y) /\ Decided(y)
    BY <1>5, <1>6, <1>8, <2>1 DEF Served, IsJob, Placed, Entitled, Decided
  <2> QED
    BY <1>1, <1>5, <2>2, <2>3, GoesOn, OneMoves DEF Served
<1>9. CASE plans # {}
  <2>1. y = [x EXCEPT !.stage = "commit", !.overtaken = FALSE, !.plan = p]
    BY <1>4, <1>9
  <2>2. IsJob(y) /\ y.r = x.r
    BY <1>5, <1>6, <2>1 DEF Served, IsJob
  <2>3. /\ y.actor = x.actor /\ y.principal = x.principal /\ y.held = x.held
        /\ y.up = x.up /\ y.stage = "commit" /\ y.plan = p
    BY <1>6, <2>1 DEF Served, IsJob
  <2>4. Placed(y) /\ Entitled(y)
    BY <1>5, <1>6, <2>2, <2>3 DEF Served, IsJob, Placed, Entitled
  <2>5. p \in handler(x.r)
    BY <1>2, <1>3, <1>9
  <2>6. Decided(y)
    BY <1>6, <2>2, <2>3, <2>5, DecidesCurrent DEF Served, IsJob, Placed, Decided
  <2> QED
    BY <1>1, <1>5, <2>2, <2>4, <2>6, GoesOn, OneMoves DEF Served
<1> QED
  BY <1>7, <1>8, <1>9

LEMMA RetryServes ==
  ASSUME World, Serving, NEW j \in Jobs, Retry(j)
  PROVE  Serving'
<1>1. PICK x : x = job[j]
  OBVIOUS
<1>2. PICK y : y = [x EXCEPT !.stage = "handler", !.plan = None]
  OBVIOUS
<1>3. /\ x # Idle /\ x.stage = "commit"
      /\ job' = [job EXCEPT ![j] = y]
      /\ UNCHANGED <<db, clock>>
  BY <1>1, <1>2 DEF Retry, NoWrite, Serving
<1>4. Served(x)
  BY <1>1, <1>3 DEF Serving
<1>5. IsJob(y) /\ y.r = x.r
  BY <1>2, <1>3, <1>4 DEF Served, IsJob
<1>6. Placed(y) /\ Entitled(y) /\ Decided(y)
  BY <1>2, <1>3, <1>4 DEF Served, IsJob, Placed, Entitled, Decided
<1> QED
  BY <1>1, <1>3, <1>5, <1>6, GoesOn, OneMoves DEF Served

LEMMA LeavingServes ==
  ASSUME Serving, NEW j \in Jobs, job' = [job EXCEPT ![j] = Idle],
         UNCHANGED <<db, clock>>
  PROVE  Serving'
  BY OneMoves

\* Time only ends sessions.
LEMMA TickServes ==
  ASSUME World, Serving, Tick
  PROVE  Serving'
<1>1. UNCHANGED <<db, job>> /\ clock' = clock + 1 /\ clock \in Nat
  BY DEF Tick, NoWrite, Serving
<1>2. ASSUME NEW j \in Jobs, NEW x, x = job[j], x # Idle
      PROVE  Served(x)'
  <2>1. Served(x)
    BY <1>2 DEF Serving
  <2>2. IsJob(x)'
    BY <2>1 DEF Served, IsJob
  <2>3. Placed(x)'
    BY <1>1, <2>1 DEF Served, Placed, tenant, account, profile, session
  <2>4. \A s \in Sessions : alive(s)' => alive(s)
    BY <1>1 DEF alive, session, World, DbTyped, SessionDoc
  <2>5. x.actor = "DELEGATED" => x.principal[2] \in Sessions
    BY <2>1 DEF Served, IsJob
  <2>6. Entitled(x)'
    BY <1>1, <2>1, <2>4, <2>5 DEF Served, Entitled, TenantOpen, operational, tenant,
                                  account, session
  <2>7. Decided(x)'
    BY <1>1, <2>1 DEF Served, Decided, Current, provision, updateStatus,
                      updateTenantStatus, updateProfile, endActive, tenant, account,
                      profile, session
  <2> QED
    BY <2>2, <2>3, <2>6, <2>7 DEF Served
<1> QED
  BY <1>1, <1>2 DEF Serving, Apart

-----------------------------------------------------------------------------
(* A commit, and those that were at it at the same time *)

\* A plan that writes none of the documents another has written is as current as it
\* was.  The one thing a plan is decided on and does not write, that a tenant has
\* no account, no commit changes.
LEMMA StaysCurrent ==
  ASSUME World, NEW r, NEW p, Written(p), Growth(r),
         NEW q \in Request, NEW plan, Current(q, plan),
         DOMAIN plan.put \cap DOMAIN p.put = {}
  PROVE  Current(q, plan)'
<1>1. \A d \in Doc : d \in DOMAIN plan.put => db'[d] = db[d]
  BY DEF Written
<1>2. CASE q.op = "provision" /\ plan \in provision(q)
  <2>1. q.tenant \in Tenants /\ q.slug \in Slugs /\ q.owner \in Owners
    BY <1>2 DEF Request
  <2>2. DOMAIN plan.put = {<<"account", q.tenant>>, <<"tenant", q.tenant>>,
                           <<"profile", q.tenant>>, <<"slug", q.slug>>,
                           <<"owner", q.owner>>}
    BY <1>2 DEF provision, Plan
  <2>3. /\ db'[<<"slug", q.slug>>] = db[<<"slug", q.slug>>]
        /\ db'[<<"owner", q.owner>>] = db[<<"owner", q.owner>>]
    BY <1>1, <2>1, <2>2 DEF Doc
  <2>4. provision(q)' = provision(q)
    BY <2>3 DEF provision
  <2> QED
    BY <1>2, <2>4 DEF Current
<1>3. CASE q.op = "updateStatus" /\ plan \in updateStatus(q)
  <2>1. q.tenant \in Tenants
    BY <1>3 DEF Request
  <2>2. DOMAIN plan.put = {<<"account", q.tenant>>, <<"tenant", q.tenant>>}
    BY <1>3 DEF updateStatus, Plan
  <2>3. account(q.tenant)' = account(q.tenant) /\ tenant(q.tenant)' = tenant(q.tenant)
    BY <1>1, <2>1, <2>2 DEF Doc, account, tenant
  <2>4. updateStatus(q)' = updateStatus(q)
    BY <2>3 DEF updateStatus
  <2> QED
    BY <1>3, <2>4 DEF Current
<1>4. CASE q.op = "updateTenantStatus" /\ plan \in updateTenantStatus(q)
  <2>1. q.tenant \in Tenants
    BY <1>4 DEF Request
  <2>2. /\ DOMAIN plan.put = {<<"tenant", q.tenant>>}
        /\ tenant(q.tenant) # None /\ account(q.tenant) = None
    BY <1>4 DEF updateTenantStatus, Plan
  <2>3. tenant(q.tenant)' = tenant(q.tenant)
    BY <1>1, <2>1, <2>2 DEF Doc, tenant
  <2>4. account(q.tenant)' = account(q.tenant)
    BY <2>1, <2>2 DEF Growth
  <2>5. updateTenantStatus(q)' = updateTenantStatus(q)
    BY <2>3, <2>4 DEF updateTenantStatus
  <2> QED
    BY <1>4, <2>5 DEF Current
<1>5. CASE q.op = "updateProfile" /\ plan \in updateProfile(q)
  <2>1. PICK t \in Tenants : t = q.tenant
    BY <1>5 DEF Request
  <2>2. /\ DOMAIN plan.put = {<<"profile", t>>}
        /\ account(t) # None
    BY <1>5, <2>1 DEF updateProfile, Plan
  <2>3. profile(t)' = profile(t)
    BY <1>1, <2>1, <2>2 DEF Doc, profile
  <2>4. account(t)' # None
    BY <2>1, <2>2 DEF Growth
  <2>5. plan \in updateProfile(q)'
    BY <1>5, <2>1, <2>2, <2>3, <2>4 DEF updateProfile
  <2> QED
    BY <1>5, <2>5 DEF Current
<1>6. ASSUME q.op = "start", session(q.session) = None, account(q.tenant) # None,
             plan = Plan([d \in {<<"session", q.session>>} |->
                           [status |-> "ACTIVE", expiresAt |-> q.now + SessionTTL,
                            tenant |-> q.tenant, exchanged |-> FALSE]],
                         SessionLifecycle("DELEGATED_SESSION_STARTED", q.tenant,
                                          q.session, "ACTIVE"))
      PROVE  Current(q, plan)'
  <2>1. q.tenant \in Tenants /\ q.session \in Sessions
    BY <1>6 DEF Request
  <2>2. DOMAIN plan.put = {<<"session", q.session>>}
    BY <1>6 DEF Plan
  <2>3. session(q.session)' = session(q.session)
    BY <1>1, <2>1, <2>2 DEF Doc, session
  <2>4. account(q.tenant)' # None
    BY <1>6, <2>1 DEF Growth
  <2> QED
    BY <1>6, <2>3, <2>4 DEF Current
<1>7. ASSUME q.op = "exchange", session(q.session) # None, ~session(q.session).exchanged,
             plan = Plan([d \in {<<"session", q.session>>} |->
                           [session(q.session) EXCEPT !.exchanged = TRUE]],
                         None)
      PROVE  Current(q, plan)'
  <2>1. PICK d : d = [session(q.session) EXCEPT !.exchanged = TRUE]
    OBVIOUS
  <2>2. q.session \in Sessions
    BY <1>7 DEF Request
  <2>3. plan = Plan([k \in {<<"session", q.session>>} |-> d], None)
    BY <1>7, <2>1
  <2>4. DOMAIN plan.put = {<<"session", q.session>>}
    BY <2>3 DEF Plan
  <2>5. session(q.session)' = session(q.session)
    BY <1>1, <2>2, <2>4 DEF Doc, session
  <2> QED
    BY <1>7, <2>5 DEF Current
<1>8. ASSUME NEW status \in {"EXPIRED", "REVOKED"}, q.op \in {"revoke", "expire"},
             session(q.session) # None, plan \in endActive(q.session, status)
      PROVE  Current(q, plan)'
  <2>1. PICK d : d = [session(q.session) EXCEPT !.status = status]
    OBVIOUS
  <2>2. q.session \in Sessions
    BY <1>8 DEF Request
  <2>3. plan = Plan([k \in {<<"session", q.session>>} |-> d],
                    SessionLifecycle("DELEGATED_SESSION_ENDED",
                                     session(q.session).tenant, q.session, status))
    BY <1>8, <2>1 DEF endActive
  <2>4. DOMAIN plan.put = {<<"session", q.session>>}
    BY <2>3 DEF Plan
  <2>5. session(q.session)' = session(q.session)
    BY <1>1, <2>2, <2>4 DEF Doc, session
  <2>6. account(session(q.session).tenant)' # None
    BY <1>8, <2>2 DEF World, DbTyped, SessionDoc, Growth
  <2>7. plan \in endActive(q.session, status)'
    BY <1>8, <2>5, <2>6 DEF endActive
  <2> QED
    BY <1>8, <2>5, <2>7 DEF Current
<1> QED
  BY <1>2, <1>3, <1>4, <1>5, <1>6, <1>7, <1>8 DEF Current

Wiser(z, a, b) == [z EXCEPT !.overtaken = a, !.up = b]

\* What another request notices of a commit is what it needs to know.
LEMMA NoticingServes ==
  ASSUME World, UNCHANGED clock, NEW x, NEW p, Written(p), Growth(x.r),
         NEW z, Served(z), Apart(x, z), NEW a \in BOOLEAN, NEW b \in BOOLEAN,
         (z.stage = "commit" /\ ~a) =>
           ~z.overtaken /\ DOMAIN z.plan.put \cap DOMAIN p.put = {},
         b <=> (z.up \/ FoundOpen(z)),
         NEW w, w = Wiser(z, a, b)
  PROVE  Served(w)' /\ w.r = z.r
<1>1. /\ w.r = z.r /\ w.actor = z.actor /\ w.principal = z.principal
      /\ w.stage = z.stage /\ w.held = z.held /\ w.up = b /\ w.unread = z.unread
      /\ w.plan = z.plan /\ w.overtaken = a
      /\ w = [r |-> w.r, actor |-> w.actor, principal |-> w.principal,
              stage |-> w.stage, held |-> w.held, up |-> w.up, unread |-> w.unread,
              plan |-> w.plan, overtaken |-> w.overtaken]
  BY DEF Served, IsJob, Wiser
<1>2. IsJob(w)'
  BY <1>1 DEF Served, IsJob
<1>3. /\ z.r \in Request
      /\ z.actor \in {"PUBLIC", "DELEGATED"} => z.principal[2] \in Sessions
      /\ z.actor = "TENANT" => z.principal[2] \in Tenants
  BY DEF Served, IsJob, Request
<1>4. Placed(w)'
  <2>1. z.r.op = "provision" => /\ tenant(z.r.tenant)' = None
                                /\ account(z.r.tenant)' = None
                                /\ profile(z.r.tenant)' = None
    BY <1>3 DEF Served, Placed, Growth, Apart, Request
  <2>2. z.r.op = "start" => session(z.r.session)' = None
    BY <1>3 DEF Served, Placed, Growth, Apart, Request
  <2>3. z.actor \in {"PUBLIC", "DELEGATED"} => session(z.principal[2])' # None
    BY <1>3 DEF Served, Placed, Growth
  <2> QED
    BY <1>1, <2>1, <2>2, <2>3 DEF Placed
<1>5. Entitled(w)'
  <2>1. ASSUME z.actor = "TENANT"
        PROVE  /\ w.held
               /\ TenantOpen(z.principal[2])' => w.up
               /\ w.stage # "tenant" => w.up
    BY <1>1, <2>1 DEF Served, Entitled, FoundOpen
  <2>2. ASSUME z.actor = "DELEGATED", NEW s \in Sessions, s = z.principal[2]
        PROVE  /\ \A t : t = session(s)'.tenant => (operational(t)' => w.up)
               /\ w.stage = "session" => (alive(s)' => w.held)
               /\ w.stage # "session" => w.held
               /\ w.stage \in {"admitted", "handler", "commit", "answer"} => w.up
    <3>1. session(s) # None
      BY <2>2 DEF Served, Placed
    <3>2. /\ session(s)'.tenant = session(s).tenant
          /\ session(s)'.expiresAt = session(s).expiresAt
          /\ session(s)'.status = "ACTIVE" => session(s).status = "ACTIVE"
      BY <3>1 DEF Growth
    <3>3. \A t : t = session(s)'.tenant => (operational(t)' => w.up)
      BY <1>1, <2>2, <3>2 DEF FoundOpen
    <3>4. alive(s)' => alive(s)
      BY <3>1, <3>2 DEF alive
    <3> QED
      BY <1>1, <2>2, <3>3, <3>4 DEF Served, Entitled
  <2> QED
    BY <1>1, <1>3, <2>1, <2>2 DEF Entitled
<1>6. Decided(w)'
  BY <1>1, <1>3, StaysCurrent DEF Served, Decided
<1> QED
  BY <1>1, <1>2, <1>4, <1>5, <1>6 DEF Served

\* The one that committed has its answer, or is gone.
LEMMA CommittingServes ==
  ASSUME World, NEW x, Served(x), x.stage = "commit", Growth(x.r),
         x.actor \in {"PUBLIC", "DELEGATED"},
         NEW w, w = [x EXCEPT !.stage = "answer"]
  PROVE  Served(w)' /\ w.r = x.r
<1>1. /\ w.r = x.r /\ w.actor = x.actor /\ w.principal = x.principal
      /\ w.stage = "answer" /\ w.held = x.held /\ w.up = x.up
      /\ w = [r |-> w.r, actor |-> w.actor, principal |-> w.principal,
              stage |-> w.stage, held |-> w.held, up |-> w.up, unread |-> w.unread,
              plan |-> w.plan, overtaken |-> w.overtaken]
      /\ w.overtaken = x.overtaken /\ w.unread = x.unread
  BY DEF Served, IsJob
<1>2. IsJob(w)'
  BY <1>1 DEF Served, IsJob
<1>3. /\ w.r.op \in {"updateProfile", "revoke", "exchange"}
      /\ w.principal[2] \in Sessions /\ session(w.principal[2]) # None
  BY <1>1 DEF Served, IsJob, Placed, Request
<1>4. Placed(w)'
  BY <1>3 DEF Placed, Growth
<1>5. Entitled(w)'
  BY <1>1 DEF Served, Entitled
<1>6. Decided(w)'
  BY <1>1 DEF Decided
<1> QED
  BY <1>1, <1>2, <1>4, <1>5, <1>6 DEF Served

LEMMA CommitServes ==
  ASSUME World, Serving, NEW j \in Jobs, Commit(j)
  PROVE  World' /\ Serving' /\ Growth(job[j].r) /\ Current(job[j].r, job[j].plan)
         /\ Written(job[j].plan)
<1>1. PICK x : x = job[j]
  OBVIOUS
<1>2. PICK p : p = x.plan
  OBVIOUS
<1>3. x # Idle /\ x.stage = "commit" /\ ~x.overtaken /\ UNCHANGED clock
  BY <1>1 DEF Commit
<1>4. Written(p)
  BY <1>1, <1>2 DEF Commit, Written
<1>5. Served(x)
  BY <1>1, <1>3 DEF Serving
<1>6. x.r \in Request /\ Current(x.r, p)
  BY <1>2, <1>3, <1>5 DEF Served, IsJob, Decided
<1>7. World' /\ Growth(x.r)
  BY <1>4, <1>5, <1>6, CommitKeepsWorld DEF Served, Placed
<1>8. ASSUME NEW i \in Jobs, NEW w, w = job'[i], w # Idle
      PROVE  Served(w)' /\ job[i] # Idle /\ w.r = job[i].r
  <2>1. CASE i = j
    <3>1. w = [x EXCEPT !.stage = "answer"] /\ x.actor \in {"PUBLIC", "DELEGATED"}
      BY <1>1, <1>8, <2>1 DEF Commit
    <3> QED
      BY <1>1, <1>3, <1>5, <1>7, <2>1, <3>1, CommittingServes
  <2>2. CASE i # j
    <3>1. PICK z : z = job[i]
      OBVIOUS
    <3>2. w = Noticed(i, DOMAIN p.put)
      BY <1>1, <1>2, <1>8, <2>2 DEF Commit
    <3>3. z # Idle
      BY <1>8, <3>1, <3>2 DEF Noticed
    <3>4. PICK a \in BOOLEAN :
            a = (z.overtaken \/ (z.stage = "commit" /\ DOMAIN z.plan.put \cap DOMAIN p.put # {}))
      OBVIOUS
    <3>5. PICK b \in BOOLEAN : b = (z.up \/ FoundOpen(z))
      OBVIOUS
    <3>6. w = Wiser(z, a, b)
      BY <3>1, <3>2, <3>3, <3>4, <3>5 DEF Noticed, Wiser
    <3>7. Served(z) /\ Apart(x, z)
      BY <1>1, <1>3, <2>2, <3>1, <3>3 DEF Serving
    <3>8. (z.stage = "commit" /\ ~a) =>
             ~z.overtaken /\ DOMAIN z.plan.put \cap DOMAIN p.put = {}
      BY <3>4
    <3>9. b <=> (z.up \/ FoundOpen(z))
      BY <3>5
    <3>10. Served(w)' /\ w.r = z.r
      BY <1>3, <1>4, <1>7, <3>6, <3>7, <3>8, <3>9, NoticingServes
    <3> QED
      BY <3>1, <3>3, <3>10
  <2> QED
    BY <2>1, <2>2
<1>9. \A i, k \in Jobs : (i # k /\ job'[i] # Idle /\ job'[k] # Idle) =>
                          Apart(job'[i], job'[k])
  BY <1>8 DEF Serving, Apart
<1>10. job' = [i \in Jobs |-> job'[i]] /\ clock' \in Nat
  BY <1>3 DEF Serving, Commit
<1>11. \A i \in Jobs : \A w : (w = job'[i] /\ w # Idle) => Served(w)'
  BY <1>8
<1>12. Serving'
  BY <1>9, <1>10, <1>11 DEF Serving, Apart
<1> QED
  BY <1>1, <1>2, <1>4, <1>6, <1>7, <1>12

\* Every step leaves the documents of their kind and the requests in order.
LEMMA StepServes ==
  ASSUME World, Serving, TokensOfSessions, [TenancyNext]_tenancyVars
  PROVE  World' /\ Serving'
<1>1. CASE UNCHANGED tenancyVars
  BY <1>1, SameServed DEF tenancyVars, World, DbTyped, Serving, Apart, tenant, account,
                          profile, session
<1>2. ASSUME UNCHANGED db PROVE World'
  BY <1>2 DEF World, DbTyped, tenant, account, profile, session
<1>3. ASSUME NEW j \in Jobs,
             \/ InternalRequest(j) \/ exchangeDelegated(j)
             \/ TenantRequest(j) \/ DelegatedRequest(j)
      PROVE  World' /\ Serving'
  <2>1. UNCHANGED db
    BY <1>3 DEF InternalRequest, exchangeDelegated, TenantRequest, DelegatedRequest,
                NoWrite
  <2> QED
    BY <1>2, <1>3, <2>1, InternalRequestServes, ExchangeServes, TenantRequestServes,
       DelegatedRequestServes
<1>4. ASSUME NEW j \in Jobs,
             \/ authenticateTenant(j) \/ authenticateSession(j)
             \/ operationalContext(j) \/ intercept(j)
      PROVE  World' /\ Serving'
  <2>1. UNCHANGED db
    BY <1>4 DEF authenticateTenant, authenticateSession, operationalContext, intercept,
                NoWrite
  <2> QED
    BY <1>2, <1>4, <2>1, TenantAuthenticationServes, SessionAuthenticationServes,
       ContextServes, InterceptServes
<1>5. ASSUME NEW j \in Jobs, Decide(j) \/ Retry(j)
      PROVE  World' /\ Serving'
  <2>1. UNCHANGED db
    BY <1>5 DEF Decide, Retry, NoWrite
  <2> QED
    BY <1>2, <1>5, <2>1, DecideServes, RetryServes
<1>6. ASSUME NEW j \in Jobs, Completed(j) \/ issue(j) \/ Lost(j)
      PROVE  World' /\ Serving'
  <2>1. UNCHANGED <<db, clock>> /\ job' = [job EXCEPT ![j] = Idle]
    BY <1>6 DEF Completed, issue, Lost, NoWrite
  <2> QED
    BY <1>2, <2>1, LeavingServes
<1>7. ASSUME NEW j \in Jobs, Commit(j)
      PROVE  World' /\ Serving'
  BY <1>7, CommitServes
<1>8. CASE Tick
  <2>1. UNCHANGED db
    BY <1>8 DEF Tick, NoWrite
  <2> QED
    BY <1>2, <1>8, <2>1, TickServes
<1> QED
  BY <1>1, <1>3, <1>4, <1>5, <1>6, <1>7, <1>8 DEF TenancyNext

-----------------------------------------------------------------------------
(* Tenancy: what was bought and what was announced *)

\* A request whose exchange committed and whose token is still to be issued; one of
\* an administrator inside a tenant that may still change it; one that was
\* announced and whose completion is not on record.
Answering(x, s) ==
  x # Idle /\ x.actor = "PUBLIC" /\ x.principal = <<"session", s>> /\ x.stage = "answer"
Busy(x, s) ==
  x # Idle /\ x.actor = "DELEGATED" /\ x.principal = <<"session", s>>
    /\ x.stage \in {"handler", "commit"}
Unfinished(x, s) ==
  x # Idle /\ x.actor = "DELEGATED" /\ x.principal = <<"session", s>>
    /\ x.stage \in {"handler", "commit", "answer"}

Working(s) == {j \in Jobs : Busy(job[j], s)}
Finishing(s) == {j \in Jobs : Unfinished(job[j], s)}

Exchanged(s) == session(s) # None /\ session(s).exchanged

\* One request at most has exchanged a code and not yet been given the token.
Bought ==
  /\ issued = [s \in Sessions |-> issued[s]]
  /\ \A s \in Sessions :
       /\ issued[s] \in {0, 1}
       /\ issued[s] = 1 => Exchanged(s)
       /\ \A j \in Jobs : Answering(job[j], s) => issued[s] = 0 /\ Exchanged(s)
       /\ \A i, j \in Jobs : (Answering(job[i], s) /\ Answering(job[j], s)) => i = j

\* What was announced covers what was made of it and what still may be.
Announced ==
  /\ actions \in [Sessions -> [attempted : Nat, changed : Nat, completed : Nat]]
  /\ \A s \in Sessions :
       /\ actions[s].changed + Cardinality(Working(s)) <= actions[s].attempted
       /\ actions[s].completed + Cardinality(Finishing(s)) <= actions[s].attempted

\* The request of j becomes y, and is no more than it was in any of these ways.
QuietFor(j, y) ==
  \A s \in Sessions : /\ Answering(y, s) => Answering(job[j], s)
                      /\ Busy(y, s) => Busy(job[j], s)
                      /\ Unfinished(y, s) => Unfinished(job[j], s)

\* A step that buys and announces nothing.
LEMMA QuietStep ==
  ASSUME Bought, Announced, UNCHANGED <<actions, issued>>,
         \A s \in Sessions : Exchanged(s) => Exchanged(s)',
         \A i \in Jobs : QuietFor(i, job'[i])
  PROVE  Bought' /\ Announced'
<1>1. Bought'
  BY DEF Bought, QuietFor, Answering
<1>2. Announced'
  <2> SUFFICES ASSUME NEW s \in Sessions
               PROVE  /\ actions[s].changed + Cardinality(Working(s)') <= actions[s].attempted
                      /\ actions[s].completed + Cardinality(Finishing(s)') <= actions[s].attempted
    BY DEF Announced
  <2>1. Working(s)' \subseteq Working(s) /\ Finishing(s)' \subseteq Finishing(s)
    BY DEF Working, Finishing, QuietFor, Busy, Unfinished
  <2>2. IsFiniteSet(Working(s)) /\ IsFiniteSet(Finishing(s))
    BY RequestAssumption, FS_Subset DEF Working, Finishing
  <2>3. /\ Cardinality(Working(s)') <= Cardinality(Working(s))
        /\ Cardinality(Finishing(s)') <= Cardinality(Finishing(s))
        /\ IsFiniteSet(Working(s)') /\ IsFiniteSet(Finishing(s)')
    BY <2>1, <2>2, FS_Subset
  <2>4. /\ Cardinality(Working(s)) \in Nat /\ Cardinality(Finishing(s)) \in Nat
        /\ Cardinality(Working(s)') \in Nat /\ Cardinality(Finishing(s)') \in Nat
    BY <2>2, <2>3, FS_CardinalityType
  <2>5. /\ actions[s].changed \in Nat /\ actions[s].attempted \in Nat
        /\ actions[s].completed \in Nat
        /\ actions[s].changed + Cardinality(Working(s)) <= actions[s].attempted
        /\ actions[s].completed + Cardinality(Finishing(s)) <= actions[s].attempted
    BY DEF Announced
  <2> QED
    BY <2>3, <2>4, <2>5
<1> QED
  BY <1>1, <1>2

\* Requests that arrive, are authenticated, are decided on, begin again or end.
LEMMA QuietMoves ==
  ASSUME Serving, NEW j \in Jobs,
         \/ InternalRequest(j) \/ exchangeDelegated(j) \/ TenantRequest(j)
         \/ DelegatedRequest(j) \/ authenticateTenant(j) \/ authenticateSession(j)
         \/ operationalContext(j) \/ Decide(j) \/ Retry(j) \/ Lost(j)
  PROVE  /\ UNCHANGED <<db, actions, issued>> /\ \A i \in Jobs : QuietFor(i, job'[i])
         /\ audit' = None /\ UNCHANGED token
<1>1. ASSUME NEW y, job' = [job EXCEPT ![j] = y], QuietFor(j, y)
      PROVE  \A i \in Jobs : QuietFor(i, job'[i])
  <2>1. \A i \in Jobs : job'[i] = IF i = j THEN y ELSE job[i]
    BY <1>1 DEF Serving
  <2> QED
    BY <1>1, <2>1 DEF QuietFor
<1>2. PICK x : x = job[j]
  OBVIOUS
<1>3. x # Idle => IsJob(x)
  BY <1>2 DEF Serving, Served
<1>4. CASE InternalRequest(j)
  <2>1. PICK r, y :
          /\ y = Job("INTERNAL", None, r, "handler", TRUE, TRUE)
          /\ job' = [job EXCEPT ![j] = y]
    BY <1>4 DEF InternalRequest
  <2>2. QuietFor(j, y)
    BY <2>1 DEF Job, QuietFor, Answering, Busy, Unfinished
  <2> QED
    BY <1>1, <1>4, <2>1, <2>2 DEF InternalRequest, NoWrite
<1>5. CASE exchangeDelegated(j)
  <2>1. PICK s, r, y :
          /\ y = Job("PUBLIC", s, r, "handler", TRUE, TRUE)
          /\ job' = [job EXCEPT ![j] = y]
    BY <1>5 DEF exchangeDelegated
  <2>2. QuietFor(j, y)
    BY <2>1 DEF Job, QuietFor, Answering, Busy, Unfinished
  <2> QED
    BY <1>1, <1>5, <2>1, <2>2 DEF exchangeDelegated, NoWrite
<1>6. CASE TenantRequest(j)
  <2>1. PICK t, r, up, y :
          /\ y = Job("TENANT", t, r, "tenant", TRUE, up)
          /\ job' = [job EXCEPT ![j] = y]
    BY <1>6 DEF TenantRequest
  <2>2. QuietFor(j, y)
    BY <2>1 DEF Job, QuietFor, Answering, Busy, Unfinished
  <2> QED
    BY <1>1, <1>6, <2>1, <2>2 DEF TenantRequest, NoWrite
<1>7. CASE DelegatedRequest(j)
  <2>1. PICK s, r, held, up, y :
          /\ y = Job("DELEGATED", s, r, "session", held, up)
          /\ job' = [job EXCEPT ![j] = y]
    BY <1>7 DEF DelegatedRequest
  <2>2. QuietFor(j, y)
    BY <2>1 DEF Job, QuietFor, Answering, Busy, Unfinished
  <2> QED
    BY <1>1, <1>7, <2>1, <2>2 DEF DelegatedRequest, NoWrite
<1>8. CASE authenticateTenant(j)
  <2>1. PICK y : /\ y = IF TenantOpen(x.principal[2]) THEN [x EXCEPT !.stage = "handler"]
                                                      ELSE Idle
                 /\ job' = [job EXCEPT ![j] = y]
    BY <1>2, <1>8 DEF authenticateTenant
  <2>2. IsJob(x) /\ x.actor = "TENANT"
    BY <1>2, <1>3, <1>8 DEF authenticateTenant, IsJob
  <2>3. QuietFor(j, y)
    BY <2>1, <2>2 DEF IsJob, QuietFor, Answering, Busy, Unfinished
  <2> QED
    BY <1>1, <1>8, <2>1, <2>3 DEF authenticateTenant, NoWrite
<1>9. CASE authenticateSession(j)
  <2>1. PICK y, r :
          /\ \/ y = Idle
             \/ y = [x EXCEPT !.stage = "handler", !.actor = "INTERNAL", !.r = r]
             \/ y = [x EXCEPT !.stage = "context", !.unread = {"account", "tenant"}]
          /\ job' = [job EXCEPT ![j] = y]
    BY <1>2, <1>9 DEF authenticateSession
  <2>2. IsJob(x)
    BY <1>2, <1>3, <1>9 DEF authenticateSession
  <2>3. QuietFor(j, y)
    BY <2>1, <2>2 DEF IsJob, QuietFor, Answering, Busy, Unfinished
  <2> QED
    BY <1>1, <1>9, <2>1, <2>3 DEF authenticateSession, NoWrite
<1>10. CASE operationalContext(j)
  <2>1. PICK y, d :
          /\ \/ y = Idle
             \/ y = [x EXCEPT !.unread = x.unread \ {d},
                              !.stage = IF x.unread = {d} THEN "admitted" ELSE "context"]
          /\ job' = [job EXCEPT ![j] = y]
    BY <1>2, <1>10 DEF operationalContext
  <2>2. IsJob(x)
    BY <1>2, <1>3, <1>10 DEF operationalContext
  <2>3. y = Idle \/ y.stage \in {"admitted", "context"}
    BY <2>1, <2>2 DEF IsJob
  <2>4. QuietFor(j, y)
    BY <2>3 DEF QuietFor, Answering, Busy, Unfinished
  <2> QED
    BY <1>1, <1>10, <2>1, <2>4 DEF operationalContext, NoWrite
<1>11. CASE Decide(j)
  <2>1. PICK y, p :
          /\ \/ y = Idle
             \/ x.actor = "DELEGATED" /\ y = [x EXCEPT !.stage = "answer"]
             \/ y = [x EXCEPT !.stage = "commit", !.overtaken = FALSE, !.plan = p]
          /\ job' = [job EXCEPT ![j] = y]
    BY <1>2, <1>11 DEF Decide
  <2>2. IsJob(x) /\ x # Idle /\ x.stage = "handler"
    BY <1>2, <1>3, <1>11 DEF Decide
  <2>3. QuietFor(j, y)
    BY <1>2, <2>1, <2>2 DEF IsJob, QuietFor, Answering, Busy, Unfinished
  <2> QED
    BY <1>1, <1>11, <2>1, <2>3 DEF Decide, NoWrite
<1>12. CASE Retry(j)
  <2>1. PICK y : /\ y = [x EXCEPT !.stage = "handler", !.plan = None]
                 /\ job' = [job EXCEPT ![j] = y]
    BY <1>2, <1>12 DEF Retry, Serving
  <2>2. IsJob(x) /\ x # Idle /\ x.stage = "commit"
    BY <1>2, <1>3, <1>12 DEF Retry
  <2>3. QuietFor(j, y)
    BY <1>2, <2>1, <2>2 DEF IsJob, QuietFor, Answering, Busy, Unfinished
  <2> QED
    BY <1>1, <1>12, <2>1, <2>3 DEF Retry, NoWrite
<1>13. CASE Lost(j)
  <2>1. QuietFor(j, Idle)
    BY DEF QuietFor, Answering, Busy, Unfinished
  <2> QED
    BY <1>1, <1>13, <2>1 DEF Lost, NoWrite
<1> QED
  BY <1>4, <1>5, <1>6, <1>7, <1>8, <1>9, <1>10, <1>11, <1>12, <1>13

\* The sets that count requests are finite, and one that is smaller counts less.
LEMMA CountsAreNumbers ==
  \A s \in Sessions :
    /\ IsFiniteSet(Working(s)) /\ Cardinality(Working(s)) \in Nat
    /\ IsFiniteSet(Finishing(s)) /\ Cardinality(Finishing(s)) \in Nat
    /\ IsFiniteSet(Working(s)') /\ Cardinality(Working(s)') \in Nat
    /\ IsFiniteSet(Finishing(s)') /\ Cardinality(Finishing(s)') \in Nat
  BY RequestAssumption, FS_Subset, FS_CardinalityType DEF Working, Finishing

\* The attempt is announced before its handler runs.
LEMMA InterceptAnnounces ==
  ASSUME World, Serving, Bought, Announced, NEW j \in Jobs, intercept(j)
  PROVE  Bought' /\ Announced'
<1>1. PICK x : x = job[j]
  OBVIOUS
<1>2. PICK y : y = [x EXCEPT !.stage = "handler"]
  OBVIOUS
<1>3. /\ x # Idle /\ x.stage = "admitted" /\ IsJob(x)
      /\ job' = [job EXCEPT ![j] = y]
      /\ UNCHANGED <<db, issued>>
  BY <1>1, <1>2 DEF intercept, NoWrite, Serving, Served
<1>4. PICK s \in Sessions : x.principal = <<"session", s>> /\ x.actor = "DELEGATED"
  BY <1>3 DEF IsJob
<1>5. actions' = [actions EXCEPT ![s].attempted = @ + 1]
  BY <1>1, <1>4 DEF intercept
<1>6. /\ y # Idle => y.actor = "DELEGATED" /\ y.principal = <<"session", s>>
      /\ \A i \in Jobs : job'[i] = IF i = j THEN y ELSE job[i]
  BY <1>2, <1>3, <1>4 DEF IsJob, Serving
<1>7. Bought'
  <2>1. \A i \in Jobs : \A e \in Sessions : Answering(job'[i], e) => Answering(job[i], e)
    BY <1>6 DEF Answering
  <2> QED
    BY <1>3, <2>1 DEF Bought, Exchanged, session
<1>8. Announced'
  <2>1. \A e \in Sessions :
          /\ actions'[e].attempted = IF e = s THEN actions[e].attempted + 1
                                              ELSE actions[e].attempted
          /\ actions'[e].changed = actions[e].changed
          /\ actions'[e].completed = actions[e].completed
    BY <1>5 DEF Announced
  <2>2. actions' \in [Sessions -> [attempted : Nat, changed : Nat, completed : Nat]]
    BY <1>5 DEF Announced
  <2> SUFFICES ASSUME NEW e \in Sessions
               PROVE  /\ actions'[e].changed + Cardinality(Working(e)')
                           <= actions'[e].attempted
                      /\ actions'[e].completed + Cardinality(Finishing(e)')
                           <= actions'[e].attempted
    BY <2>2 DEF Announced
  <2>3. /\ actions[e].changed \in Nat /\ actions[e].attempted \in Nat
        /\ actions[e].completed \in Nat
        /\ actions[e].changed + Cardinality(Working(e)) <= actions[e].attempted
        /\ actions[e].completed + Cardinality(Finishing(e)) <= actions[e].attempted
    BY DEF Announced
  <2>4. CASE e # s
    <3>1. Working(e)' \subseteq Working(e) /\ Finishing(e)' \subseteq Finishing(e)
      BY <1>6, <2>4 DEF Working, Finishing, Busy, Unfinished
    <3>2. /\ Cardinality(Working(e)') <= Cardinality(Working(e))
          /\ Cardinality(Finishing(e)') <= Cardinality(Finishing(e))
      BY <3>1, CountsAreNumbers, FS_Subset
    <3> QED
      BY <2>1, <2>3, <2>4, <3>2, CountsAreNumbers
  <2>5. CASE e = s
    <3>1. /\ Working(e)' \subseteq Working(e) \cup {j}
          /\ Finishing(e)' \subseteq Finishing(e) \cup {j}
      BY <1>6 DEF Working, Finishing, Busy, Unfinished
    <3>2. /\ IsFiniteSet(Working(e) \cup {j})
          /\ Cardinality(Working(e) \cup {j}) \in
               {Cardinality(Working(e)), Cardinality(Working(e)) + 1}
      <4>1. IsFiniteSet(Working(e))
        BY CountsAreNumbers
      <4> QED
        BY <4>1, FS_AddElement
    <3>4. /\ IsFiniteSet(Finishing(e) \cup {j})
          /\ Cardinality(Finishing(e) \cup {j}) \in
               {Cardinality(Finishing(e)), Cardinality(Finishing(e)) + 1}
      <4>1. IsFiniteSet(Finishing(e))
        BY CountsAreNumbers
      <4> QED
        BY <4>1, FS_AddElement
    <3>3. /\ Cardinality(Working(e)') <= Cardinality(Working(e) \cup {j})
          /\ Cardinality(Finishing(e)') <= Cardinality(Finishing(e) \cup {j})
          /\ Cardinality(Working(e) \cup {j}) \in Nat
          /\ Cardinality(Finishing(e) \cup {j}) \in Nat
      BY <3>1, <3>2, <3>4, FS_Subset, FS_CardinalityType
    <3> QED
      BY <2>1, <2>3, <2>5, <3>2, <3>3, <3>4, CountsAreNumbers
  <2> QED
    BY <2>4, <2>5
<1> QED
  BY <1>7, <1>8

\* A completion is of an action still to be completed.
LEMMA CompletedAnnounces ==
  ASSUME World, Serving, Bought, Announced, NEW j \in Jobs, Completed(j)
  PROVE  Bought' /\ Announced'
<1>1. PICK x : x = job[j]
  OBVIOUS
<1>2. /\ x # Idle /\ x.stage = "answer" /\ IsJob(x) /\ x.actor = "DELEGATED"
      /\ job' = [job EXCEPT ![j] = Idle]
      /\ UNCHANGED <<db, issued>>
  BY <1>1 DEF Completed, NoWrite, Serving, Served
<1>3. PICK s \in Sessions : x.principal = <<"session", s>>
  BY <1>2 DEF IsJob
<1>4. actions' = [actions EXCEPT ![s].completed = @ + 1]
  BY <1>1, <1>3 DEF Completed
<1>5. \A i \in Jobs : job'[i] = IF i = j THEN Idle ELSE job[i]
  BY <1>2 DEF Serving
<1>6. Bought'
  <2>1. \A i \in Jobs : \A e \in Sessions : Answering(job'[i], e) => Answering(job[i], e)
    BY <1>5 DEF Answering
  <2> QED
    BY <1>2, <2>1 DEF Bought, Exchanged, session
<1>7. Announced'
  <2>1. \A e \in Sessions :
          /\ actions'[e].completed = IF e = s THEN actions[e].completed + 1
                                              ELSE actions[e].completed
          /\ actions'[e].changed = actions[e].changed
          /\ actions'[e].attempted = actions[e].attempted
    BY <1>4 DEF Announced
  <2>2. actions' \in [Sessions -> [attempted : Nat, changed : Nat, completed : Nat]]
    BY <1>4 DEF Announced
  <2> SUFFICES ASSUME NEW e \in Sessions
               PROVE  /\ actions'[e].changed + Cardinality(Working(e)')
                           <= actions'[e].attempted
                      /\ actions'[e].completed + Cardinality(Finishing(e)')
                           <= actions'[e].attempted
    BY <2>2 DEF Announced
  <2>3. /\ actions[e].changed \in Nat /\ actions[e].attempted \in Nat
        /\ actions[e].completed \in Nat
        /\ actions[e].changed + Cardinality(Working(e)) <= actions[e].attempted
        /\ actions[e].completed + Cardinality(Finishing(e)) <= actions[e].attempted
    BY DEF Announced
  <2>4. Working(e)' \subseteq Working(e) /\ Finishing(e)' \subseteq Finishing(e)
    BY <1>5 DEF Working, Finishing, Busy, Unfinished
  <2>5. /\ Cardinality(Working(e)') <= Cardinality(Working(e))
        /\ Cardinality(Finishing(e)') <= Cardinality(Finishing(e))
    BY <2>4, CountsAreNumbers, FS_Subset
  <2>6. CASE e # s
    BY <2>1, <2>3, <2>5, <2>6, CountsAreNumbers
  <2>7. CASE e = s
    <3>1. j \in Finishing(e) /\ Finishing(e)' \subseteq Finishing(e) \ {j}
      BY <1>1, <1>2, <1>3, <1>5, <2>7 DEF Finishing, Unfinished
    <3>2. /\ IsFiniteSet(Finishing(e) \ {j})
          /\ Cardinality(Finishing(e) \ {j}) = Cardinality(Finishing(e)) - 1
      BY <3>1, CountsAreNumbers, FS_RemoveElement
    <3>3. Cardinality(Finishing(e)') <= Cardinality(Finishing(e) \ {j})
      BY <3>1, <3>2, FS_Subset
    <3> QED
      BY <2>1, <2>3, <2>5, <2>7, <3>2, <3>3, CountsAreNumbers
  <2> QED
    BY <2>6, <2>7
<1> QED
  BY <1>6, <1>7

\* The token a code bought is the first.
LEMMA IssueBuys ==
  ASSUME World, Serving, Bought, Announced, TokensOfSessions, NEW j \in Jobs, issue(j)
  PROVE  Bought' /\ Announced' /\ TokensOfSessions'
<1>1. PICK x : x = job[j]
  OBVIOUS
<1>2. /\ x # Idle /\ x.stage = "answer" /\ Served(x) /\ x.actor = "PUBLIC"
      /\ job' = [job EXCEPT ![j] = Idle]
      /\ UNCHANGED <<db, actions>>
  BY <1>1 DEF issue, NoWrite, Serving
<1>3. PICK s \in Sessions : x.principal = <<"session", s>> /\ session(s) # None
  BY <1>2 DEF Served, IsJob, Placed, Request
<1>4. \A i \in Jobs : job'[i] = IF i = j THEN Idle ELSE job[i]
  BY <1>2 DEF Serving
<1>5. \A i \in Jobs : QuietFor(i, job'[i])
  BY <1>4 DEF QuietFor, Answering, Busy, Unfinished
<1>6. Announced'
  <2> SUFFICES ASSUME NEW e \in Sessions
               PROVE  /\ actions[e].changed + Cardinality(Working(e)') <= actions[e].attempted
                      /\ actions[e].completed + Cardinality(Finishing(e)') <= actions[e].attempted
    BY <1>2 DEF Announced
  <2>1. Working(e)' \subseteq Working(e) /\ Finishing(e)' \subseteq Finishing(e)
    BY <1>5 DEF Working, Finishing, QuietFor
  <2>2. /\ Cardinality(Working(e)') <= Cardinality(Working(e))
        /\ Cardinality(Finishing(e)') <= Cardinality(Finishing(e))
    BY <2>1, CountsAreNumbers, FS_Subset
  <2>3. /\ actions[e].changed \in Nat /\ actions[e].attempted \in Nat
        /\ actions[e].completed \in Nat
        /\ actions[e].changed + Cardinality(Working(e)) <= actions[e].attempted
        /\ actions[e].completed + Cardinality(Finishing(e)) <= actions[e].attempted
    BY DEF Announced
  <2> QED
    BY <2>2, <2>3, CountsAreNumbers
<1>7. Answering(job[j], s)
  BY <1>1, <1>2, <1>3 DEF Answering
<1>8. CASE UNCHANGED <<token, issued>>
  <2>1. Bought'
    BY <1>2, <1>5, <1>8 DEF Bought, QuietFor, Exchanged, session
  <2>2. TokensOfSessions'
    BY <1>2, <1>8 DEF TokensOfSessions, session
  <2> QED
    BY <1>6, <2>1, <2>2
<1>9. ASSUME NEW expiration, token' = [token EXCEPT ![s] = expiration],
             issued' = [issued EXCEPT ![s] = @ + 1]
      PROVE  Bought' /\ TokensOfSessions'
  <2>1. \A e \in Sessions : issued'[e] = IF e = s THEN 1 ELSE issued[e]
    BY <1>7, <1>9 DEF Bought
  <2>2. \A i \in Jobs : ~Answering(job'[i], s)
    BY <1>4, <1>7 DEF Bought, Answering
  <2>3. \A e \in Sessions : Exchanged(e)' <=> Exchanged(e)
    BY <1>2 DEF Exchanged, session
  <2>4. Exchanged(s)
    BY <1>7 DEF Bought
  <2>5. Bought'
    BY <1>5, <1>9, <2>1, <2>2, <2>3, <2>4 DEF Bought, QuietFor
  <2>6. TokensOfSessions'
    BY <1>2, <1>3, <1>9 DEF TokensOfSessions, session
  <2> QED
    BY <2>5, <2>6
<1>10. \/ UNCHANGED <<token, issued>>
       \/ \E expiration : /\ token' = [token EXCEPT ![s] = expiration]
                          /\ issued' = [issued EXCEPT ![s] = @ + 1]
  BY <1>1, <1>3 DEF issue
<1> QED
  BY <1>6, <1>8, <1>9, <1>10

\* A commit of an administrator inside a tenant was announced; one of an exchange
\* finds the code not exchanged, so that nobody else waits for its token.
LEMMA CommitAnnounces ==
  ASSUME World, Serving, Bought, Announced, TokensOfSessions, NEW j \in Jobs, Commit(j)
  PROVE  Bought' /\ Announced' /\ TokensOfSessions'
<1>1. PICK x : x = job[j]
  OBVIOUS
<1>2. PICK p : p = x.plan
  OBVIOUS
<1>3. /\ x # Idle /\ x.stage = "commit" /\ Served(x)
      /\ UNCHANGED <<clock, token, issued>>
  BY <1>1 DEF Commit, Serving
<1>4. Growth(x.r) /\ Current(x.r, p) /\ Written(p)
  BY <1>1, <1>2, CommitServes
<1>5. \A e \in Sessions : Exchanged(e) => Exchanged(e)'
  BY <1>4 DEF Growth, Exchanged
<1>6. TokensOfSessions'
  BY <1>3, <1>4 DEF TokensOfSessions, Growth
<1>7. ASSUME NEW i \in Jobs, i # j
      PROVE  QuietFor(i, job'[i])
  <2>0. PICK z, y : z = job[i] /\ y = job'[i]
    OBVIOUS
  <2>1. PICK a, b : (z = Idle => y = Idle) /\ (z # Idle => y = Wiser(z, a, b))
    <3>1. y = Noticed(i, DOMAIN p.put)
      BY <1>1, <1>2, <1>7, <2>0 DEF Commit
    <3>2. PICK a, b :
            /\ a = (z.overtaken \/ (z.stage = "commit"
                                    /\ DOMAIN z.plan.put \cap DOMAIN p.put # {}))
            /\ b = (z.up \/ FoundOpen(z))
      OBVIOUS
    <3> QED
      BY <2>0, <3>1, <3>2 DEF Noticed, Wiser
  <2>2. z # Idle => IsJob(z)
    BY <2>0 DEF Serving, Served
  <2>3. z # Idle => /\ y.actor = z.actor /\ y.principal = z.principal
                    /\ y.stage = z.stage
    BY <2>1, <2>2 DEF IsJob, Wiser
  <2> QED
    BY <2>0, <2>1, <2>3 DEF QuietFor, Answering, Busy, Unfinished
<1>8. CASE x.actor \notin {"PUBLIC", "DELEGATED"}
  <2>1. job'[j] = Idle
    BY <1>1, <1>8 DEF Commit
  <2>2. UNCHANGED actions
    BY <1>1, <1>8 DEF Commit
  <2>3. QuietFor(j, job'[j])
    BY <2>1 DEF QuietFor, Answering, Busy, Unfinished
  <2>4. Bought' /\ Announced'
    BY <1>3, <1>5, <1>7, <2>2, <2>3, QuietStep
  <2> QED
    BY <1>6, <2>4
<1>9. CASE x.actor \in {"PUBLIC", "DELEGATED"}
  <2>1. PICK y : y = [x EXCEPT !.stage = "answer"] /\ y = job'[j]
    BY <1>1, <1>9 DEF Commit
  <2>2. y.actor = x.actor /\ y.principal = x.principal /\ y.stage = "answer"
    BY <1>3, <2>1 DEF Served, IsJob
  <2>3. PICK s \in Sessions : x.principal = <<"session", s>>
    BY <1>3, <1>9 DEF Served, IsJob, Request
  <2>4. \A i \in Jobs : \A e \in Sessions :
          Unfinished(job'[i], e) => Unfinished(job[i], e)
    <3>1. \A e \in Sessions : Unfinished(job'[j], e) => Unfinished(job[j], e)
      BY ZenonT(40), <1>1, <1>3, <2>1, <2>2 DEF Unfinished
    <3> QED
      BY <1>7, <3>1 DEF QuietFor
  <2>5. \A i \in Jobs : \A e \in Sessions :
          Busy(job'[i], e) => Busy(job[i], e) /\ i # j
    <3>1. \A e \in Sessions : ~Busy(job'[j], e)
      BY <2>1, <2>2 DEF Busy
    <3> QED
      BY <1>7, <3>1 DEF QuietFor
  <2>6. Bought'
    <3>1. CASE x.actor = "DELEGATED"
      <4>1. \A i \in Jobs : \A e \in Sessions :
              Answering(job'[i], e) => Answering(job[i], e)
        <5>1. \A e \in Sessions : ~Answering(job'[j], e)
          BY <2>1, <2>2, <3>1 DEF Answering
        <5> QED
          BY <1>7, <5>1 DEF QuietFor
      <4> QED
        BY <1>3, <1>5, <4>1 DEF Bought
    <3>2. CASE x.actor = "PUBLIC"
      <4>1. x.r.op = "exchange" /\ x.r.session = s
        BY <1>3, <2>3, <3>2 DEF Served, IsJob
      <4>2. /\ session(s) # None /\ ~session(s).exchanged
            /\ p = Plan([d \in {<<"session", s>>} |->
                          [session(s) EXCEPT !.exchanged = TRUE]], None)
        BY <1>4, <4>1 DEF Current
      <4>3. session(s) \in SessionDoc
        BY <4>2 DEF World, DbTyped
      <4>4. session(s)' = [session(s) EXCEPT !.exchanged = TRUE]
        BY <1>4, <4>2 DEF Written, Plan, Doc, session
      <4>5. session(s)'.exchanged
        BY <4>3, <4>4 DEF SessionDoc
      <4>6. Exchanged(s)'
        BY <1>4, <4>2, <4>5 DEF Exchanged, Growth
      <4>7. issued[s] = 0 /\ \A i \in Jobs : ~Answering(job[i], s)
        BY <4>2 DEF Bought, Exchanged
      <4>8. \A i \in Jobs : \A e \in Sessions :
              Answering(job'[i], e) => (e = s /\ i = j) \/ Answering(job[i], e)
        <5>1. \A e \in Sessions : Answering(job'[j], e) => e = s
          <6> SUFFICES ASSUME NEW e \in Sessions, Answering(y, e) PROVE e = s
            BY <2>1
          <6>1. <<"session", s>> = <<"session", e>>
            BY <2>2, <2>3 DEF Answering
          <6> QED
            BY <6>1
        <5> QED
          BY <1>7, <5>1 DEF QuietFor
      <4> QED
        BY <1>3, <1>5, <4>6, <4>7, <4>8 DEF Bought
    <3> QED
      BY <1>9, <3>1, <3>2
  <2>7. Announced'
    <3>1. CASE x.actor = "PUBLIC"
      <4>1. UNCHANGED actions
        BY <1>1, <3>1 DEF Commit
      <4> SUFFICES ASSUME NEW e \in Sessions
                   PROVE  /\ actions[e].changed + Cardinality(Working(e)')
                               <= actions[e].attempted
                          /\ actions[e].completed + Cardinality(Finishing(e)')
                               <= actions[e].attempted
        BY <4>1 DEF Announced
      <4>2. Working(e)' \subseteq Working(e) /\ Finishing(e)' \subseteq Finishing(e)
        BY <2>4, <2>5 DEF Working, Finishing
      <4>3. /\ Cardinality(Working(e)') <= Cardinality(Working(e))
            /\ Cardinality(Finishing(e)') <= Cardinality(Finishing(e))
        BY <4>2, CountsAreNumbers, FS_Subset
      <4>4. /\ actions[e].changed \in Nat /\ actions[e].attempted \in Nat
            /\ actions[e].completed \in Nat
            /\ actions[e].changed + Cardinality(Working(e)) <= actions[e].attempted
            /\ actions[e].completed + Cardinality(Finishing(e)) <= actions[e].attempted
        BY DEF Announced
      <4> QED
        BY <4>3, <4>4, CountsAreNumbers
    <3>2. CASE x.actor = "DELEGATED"
      <4>1. actions' = [actions EXCEPT ![s].changed = @ + 1]
        BY <1>1, <2>3, <3>2 DEF Commit
      <4>2. \A e \in Sessions :
              /\ actions'[e].changed = IF e = s THEN actions[e].changed + 1
                                                ELSE actions[e].changed
              /\ actions'[e].completed = actions[e].completed
              /\ actions'[e].attempted = actions[e].attempted
        BY <4>1 DEF Announced
      <4>3. actions' \in [Sessions -> [attempted : Nat, changed : Nat, completed : Nat]]
        BY <4>1 DEF Announced
      <4> SUFFICES ASSUME NEW e \in Sessions
                   PROVE  /\ actions'[e].changed + Cardinality(Working(e)')
                               <= actions'[e].attempted
                          /\ actions'[e].completed + Cardinality(Finishing(e)')
                               <= actions'[e].attempted
        BY <4>3 DEF Announced
      <4>4. /\ actions[e].changed \in Nat /\ actions[e].attempted \in Nat
            /\ actions[e].completed \in Nat
            /\ actions[e].changed + Cardinality(Working(e)) <= actions[e].attempted
            /\ actions[e].completed + Cardinality(Finishing(e)) <= actions[e].attempted
        BY DEF Announced
      <4>5. Working(e)' \subseteq Working(e) /\ Finishing(e)' \subseteq Finishing(e)
        BY <2>4, <2>5 DEF Working, Finishing
      <4>6. /\ Cardinality(Working(e)') <= Cardinality(Working(e))
            /\ Cardinality(Finishing(e)') <= Cardinality(Finishing(e))
        BY <4>5, CountsAreNumbers, FS_Subset
      <4>7. CASE e # s
        BY <4>2, <4>4, <4>6, <4>7, CountsAreNumbers
      <4>8. CASE e = s
        <5>1. j \in Working(e)
          BY <1>1, <1>3, <2>3, <3>2, <4>8 DEF Working, Busy
        <5>2. Working(e)' \subseteq Working(e) \ {j}
          BY <2>5 DEF Working
        <5>3. /\ IsFiniteSet(Working(e) \ {j})
              /\ Cardinality(Working(e) \ {j}) = Cardinality(Working(e)) - 1
          BY <5>1, CountsAreNumbers, FS_RemoveElement
        <5>4. Cardinality(Working(e)') <= Cardinality(Working(e) \ {j})
          BY <5>2, <5>3, FS_Subset
        <5> QED
          BY <4>2, <4>4, <4>6, <4>8, <5>3, <5>4, CountsAreNumbers
      <4> QED
        BY <4>7, <4>8
    <3> QED
      BY <1>9, <3>1, <3>2
  <2> QED
    BY <1>6, <2>6, <2>7
<1> QED
  BY <1>8, <1>9

-----------------------------------------------------------------------------
(* The invariant *)

TenancyInv == World /\ Serving /\ TokensOfSessions /\ Bought /\ Announced

LEMMA TenancyInitInv ==
  ASSUME TenancyInit
  PROVE  TenancyInv
<1>1. /\ db = [d \in Doc |-> db[d]]
      /\ \A t \in Tenants : tenant(t) = IF t \in Legacy
                                        THEN [status |-> "ACTIVE", slug |-> SlugOf[t]]
                                        ELSE None
      /\ \A t \in Tenants : account(t) = None /\ profile(t) = None
      /\ \A s \in Sessions : session(s) = None
  BY DEF TenancyInit, AccountsInit, Doc, tenant, account, profile, session
<1>2. \A x \in Slugs :
        /\ db[<<"slug", x>>] \in Tenants \cup {None}
        /\ \A t \in Legacy : SlugOf[t] = x => db[<<"slug", x>>] = t
  <2> SUFFICES ASSUME NEW x \in Slugs
               PROVE  /\ db[<<"slug", x>>] \in Tenants \cup {None}
                      /\ \A t \in Legacy : SlugOf[t] = x => db[<<"slug", x>>] = t
    OBVIOUS
  <2>1. db[<<"slug", x>>] = IF \E t \in Legacy : SlugOf[t] = x
                            THEN CHOOSE t \in Legacy : SlugOf[t] = x
                            ELSE None
    BY DEF TenancyInit, AccountsInit, Doc
  <2>2. CASE \E t \in Legacy : SlugOf[t] = x
    <3>1. PICK u : u = CHOOSE t \in Legacy : SlugOf[t] = x
      OBVIOUS
    <3>2. u \in Legacy /\ SlugOf[u] = x
      BY <2>2, <3>1
    <3> QED
      BY <2>1, <2>2, <3>1, <3>2, LegacyAssumption
  <2>3. CASE ~\E t \in Legacy : SlugOf[t] = x
    BY <2>1, <2>3
  <2> QED
    BY <2>2, <2>3
<1>3. \A t \in Legacy : [status |-> "ACTIVE", slug |-> SlugOf[t]] \in TenantDoc
  BY LegacyAssumption DEF TenantDoc
<1>4. World
  <2>1. \A t \in Tenants : tenant(t) \in TenantDoc \cup {None}
    BY <1>1, <1>3
  <2>2. DbTyped
    BY <1>1, <1>2, <2>1 DEF DbTyped
  <2>3. \A t \in Tenants : tenant(t) # None => db[<<"slug", tenant(t).slug>>] = t
    <3> SUFFICES ASSUME NEW t \in Tenants, tenant(t) # None
                 PROVE  db[<<"slug", tenant(t).slug>>] = t
      OBVIOUS
    <3>1. t \in Legacy /\ tenant(t).slug = SlugOf[t]
      BY <1>1
    <3> QED
      BY <1>2, <3>1, LegacyAssumption
  <2> QED
    BY <1>1, <2>2, <2>3 DEF World
<1>5. Serving
  BY DEF TenancyInit, Serving
<1>6. TokensOfSessions
  BY DEF TenancyInit, TokensOfSessions
<1>7. Bought
  BY DEF TenancyInit, Bought, Answering
<1>8. Announced
  <2>1. \A s \in Sessions : Working(s) = {} /\ Finishing(s) = {}
    BY DEF TenancyInit, Working, Finishing, Busy, Unfinished
  <2> QED
    BY <2>1, FS_EmptySet DEF TenancyInit, Announced
<1> QED
  BY <1>4, <1>5, <1>6, <1>7, <1>8 DEF TenancyInv

LEMMA TenancyStepInv ==
  ASSUME TenancyInv, [TenancyNext]_tenancyVars
  PROVE  TenancyInv'
<1>1. World /\ Serving /\ TokensOfSessions /\ Bought /\ Announced
  BY DEF TenancyInv
<1>2. World' /\ Serving'
  BY <1>1, StepServes
<1>3. ASSUME UNCHANGED <<db, token, actions, issued>>, \A i \in Jobs : QuietFor(i, job'[i])
      PROVE  TokensOfSessions' /\ Bought' /\ Announced'
  <2>1. \A s \in Sessions : Exchanged(s) => Exchanged(s)'
    BY <1>3 DEF Exchanged, session
  <2>2. TokensOfSessions'
    BY <1>1, <1>3 DEF TokensOfSessions, session
  <2> QED
    BY <1>1, <1>3, <2>1, <2>2, QuietStep
<1>4. CASE UNCHANGED tenancyVars
  <2>1. \A i \in Jobs : QuietFor(i, job'[i])
    BY <1>4 DEF tenancyVars, QuietFor
  <2> QED
    BY <1>2, <1>3, <1>4, <2>1 DEF tenancyVars, TenancyInv
<1>5. ASSUME NEW j \in Jobs,
             \/ InternalRequest(j) \/ exchangeDelegated(j) \/ TenantRequest(j)
             \/ DelegatedRequest(j) \/ authenticateTenant(j) \/ authenticateSession(j)
             \/ operationalContext(j) \/ Decide(j) \/ Retry(j) \/ Lost(j)
      PROVE  TenancyInv'
  BY <1>1, <1>2, <1>3, <1>5, QuietMoves DEF TenancyInv
<1>6. ASSUME NEW j \in Jobs, intercept(j)
      PROVE  TenancyInv'
  <2>1. TokensOfSessions'
    BY <1>1, <1>6 DEF intercept, NoWrite, TokensOfSessions, session
  <2> QED
    BY <1>1, <1>2, <1>6, <2>1, InterceptAnnounces DEF TenancyInv
<1>7. ASSUME NEW j \in Jobs, Completed(j)
      PROVE  TenancyInv'
  <2>1. TokensOfSessions'
    BY <1>1, <1>7 DEF Completed, NoWrite, TokensOfSessions, session
  <2> QED
    BY <1>1, <1>2, <1>7, <2>1, CompletedAnnounces DEF TenancyInv
<1>8. ASSUME NEW j \in Jobs, issue(j)
      PROVE  TenancyInv'
  BY <1>1, <1>2, <1>8, IssueBuys DEF TenancyInv
<1>9. ASSUME NEW j \in Jobs, Commit(j)
      PROVE  TenancyInv'
  BY <1>1, <1>2, <1>9, CommitAnnounces DEF TenancyInv
<1>10. CASE Tick
  <2>1. UNCHANGED <<db, token, actions, issued, job>>
    BY <1>10 DEF Tick, NoWrite
  <2>2. \A i \in Jobs : QuietFor(i, job'[i])
    BY <2>1 DEF QuietFor
  <2> QED
    BY <1>2, <1>3, <2>1, <2>2 DEF TenancyInv
<1> QED
  BY <1>4, <1>5, <1>6, <1>7, <1>8, <1>9, <1>10 DEF TenancyNext

THEOREM TenancyInvariant == TenancySpec => []TenancyInv
<1>1. TenancyInit => TenancyInv
  BY TenancyInitInv
<1>2. TenancyInv /\ [TenancyNext]_tenancyVars => TenancyInv'
  BY TenancyStepInv
<1> QED
  BY <1>1, <1>2, PTL DEF TenancySpec

\* The public page and the booking open and close together for a managed tenant,
\* and no two tenants share an address (GatesAgree).
THEOREM GatesOpenTogether == TenancySpec => []GatesAgree
<1>1. TenancyInv => GatesAgree
  <2> SUFFICES ASSUME World PROVE GatesAgree
    BY DEF TenancyInv
  <2>1. ASSUME NEW t \in Tenants, account(t) # None
        PROVE  assertTenantBookingEnabled(t) <=> t \in resolve(account(t).slug)
    BY <2>1 DEF World, assertTenantBookingEnabled, resolve
  <2>2. ASSUME NEW t \in Tenants, NEW u \in Tenants, tenant(t) # None, tenant(u) # None,
               tenant(t).slug = tenant(u).slug
        PROVE  t = u
    BY <2>2 DEF World
  <2> QED
    BY <2>1, <2>2 DEF GatesAgree
<1> QED
  BY <1>1, TenancyInvariant, PTL

\* Nobody is let through on authority that was over when the request arrived
\* (NoLateAuthority).
THEOREM AuthorityIsCurrent == TenancySpec => []NoLateAuthority
<1>1. TenancyInv => NoLateAuthority
  <2> SUFFICES ASSUME Serving, NEW j \in Jobs, NEW x, x = job[j], x # Idle,
                      x.actor \in {"TENANT", "DELEGATED"},
                      x.stage \in {"admitted", "handler", "commit", "answer"}
               PROVE  x.held /\ x.up
    BY DEF TenancyInv, NoLateAuthority
  <2>1. Entitled(x)
    BY DEF Serving, Served
  <2> QED
    BY <2>1 DEF Entitled
<1> QED
  BY <1>1, TenancyInvariant, PTL

\* A code buys one token, and what is done inside a tenant was announced
\* (DelegationAccounted).
THEOREM DelegationIsAccounted == TenancySpec => []DelegationAccounted
<1>1. TenancyInv => DelegationAccounted
  <2> SUFFICES ASSUME Bought, Announced, NEW s \in Sessions
               PROVE  /\ issued[s] <= 1
                      /\ actions[s].changed <= actions[s].attempted
                      /\ actions[s].completed <= actions[s].attempted
    BY DEF TenancyInv, DelegationAccounted
  <2>1. issued[s] <= 1
    BY DEF Bought
  <2>2. Cardinality(Working(s)) \in Nat /\ Cardinality(Finishing(s)) \in Nat
    BY CountsAreNumbers
  <2>3. /\ actions[s].changed \in Nat /\ actions[s].attempted \in Nat
        /\ actions[s].completed \in Nat
        /\ actions[s].changed + Cardinality(Working(s)) <= actions[s].attempted
        /\ actions[s].completed + Cardinality(Finishing(s)) <= actions[s].attempted
    BY DEF Announced
  <2> QED
    BY <2>1, <2>2, <2>3
<1> QED
  BY <1>1, TenancyInvariant, PTL

-----------------------------------------------------------------------------
(* The audit trail *)

\* A transaction leaves the documents outside D alone.
WritesOnly(D) == \A d \in Doc : d \notin D => db'[d] = db[d]

\* What a transaction of each kind changes, and what it reports.
Creates(t, x, w) ==
  /\ WritesOnly({<<"account", t>>, <<"tenant", t>>, <<"profile", t>>,
                 <<"slug", x>>, <<"owner", w>>})
  /\ account(t) = None /\ profile(t) = None
  /\ account(t)' # None
  /\ audit' = AccountCreated(t, account(t)'.status)
SetsStatus(t) ==
  /\ WritesOnly({<<"account", t>>, <<"tenant", t>>})
  /\ account(t) # None /\ account(t)' # None /\ tenant(t)' # None
  /\ audit' = AccountStatusChanged(t, account(t).status, account(t)'.status,
                                   tenant(t)'.status)
SetsTenantStatus(t) ==
  /\ WritesOnly({<<"tenant", t>>})
  /\ account(t) = None /\ tenant(t) # None /\ tenant(t)' # None
  /\ audit' = TenantStatusChanged(t, tenant(t).status, tenant(t)'.status)
Switches(t) ==
  /\ WritesOnly({<<"profile", t>>})
  /\ profile(t)' # profile(t)
  /\ audit' = ProfileUpdated(t, {"bookingEnabled"})
Starts(s) ==
  /\ WritesOnly({<<"session", s>>})
  /\ session(s) = None /\ session(s)' # None /\ session(s)'.status = "ACTIVE"
  /\ audit' = SessionLifecycle("DELEGATED_SESSION_STARTED", session(s)'.tenant, s,
                               session(s)'.status)
Exchanges(s) ==
  /\ WritesOnly({<<"session", s>>})
  /\ session(s) # None /\ session(s)' # None
  /\ session(s)'.status = session(s).status
  /\ audit' = None
Ends(s) ==
  /\ WritesOnly({<<"session", s>>})
  /\ session(s) # None /\ session(s)' # None
  /\ session(s).status = "ACTIVE" /\ session(s)'.status \in {"EXPIRED", "REVOKED"}
  /\ audit' = SessionLifecycle("DELEGATED_SESSION_ENDED", session(s)'.tenant, s,
                               session(s)'.status)
Reports ==
  \/ \E t \in Tenants, x \in Slugs, w \in Owners : Creates(t, x, w)
  \/ \E t \in Tenants : SetsStatus(t) \/ SetsTenantStatus(t) \/ Switches(t)
  \/ \E s \in Sessions : Starts(s) \/ Exchanges(s) \/ Ends(s)

\* Only the documents of a plan are written.
LEMMA PlanWritesOnly ==
  ASSUME NEW p, Written(p)
  PROVE  WritesOnly(DOMAIN p.put)
BY DEF Written, WritesOnly

\* A plan that is still current when it commits reports what it changes, as it
\* was just before.
LEMMA CommitReports ==
  ASSUME World, NEW r \in Request, NEW p, Current(r, p), Written(p),
         r.op = "provision" => /\ tenant(r.tenant) = None
                               /\ account(r.tenant) = None
                               /\ profile(r.tenant) = None,
         audit' = p.event
  PROVE  Reports
<1>0. WritesOnly(DOMAIN p.put)
  BY PlanWritesOnly
<1>1. CASE r.op = "provision" /\ p \in provision(r)
  <2>1. PICK t, a : /\ t \in Tenants
                    /\ t = r.tenant
                    /\ a = [status |-> r.status, booking |-> r.booking, slug |-> r.slug]
    BY <1>1 DEF Request
  <2> t \in Tenants
    BY <2>1
  <2>2. r.slug \in Slugs /\ r.owner \in Owners /\ a \in AccountDoc /\ a.status = r.status
    BY <1>1, <2>1 DEF Request, AccountDoc
  <2>3. /\ DOMAIN p.put = {<<"account", t>>, <<"tenant", t>>, <<"profile", t>>,
                           <<"slug", r.slug>>, <<"owner", r.owner>>}
        /\ p.put[<<"account", t>>] = a
        /\ p.event = AccountCreated(t, r.status)
    BY <1>1, <2>1 DEF provision, Plan
  <2>4. <<"account", t>> \in Doc
    BY DEF Doc
  <2>5. account(t)' = a
    BY <2>3, <2>4 DEF Written, account
  <2>6. a # None
    BY <2>2, NoneAssumption
  <2>7. account(t) = None /\ profile(t) = None
    BY <1>1, <2>1
  <2>8. WritesOnly({<<"account", t>>, <<"tenant", t>>, <<"profile", t>>,
                    <<"slug", r.slug>>, <<"owner", r.owner>>})
    BY <1>0, <2>3
  <2>9. audit' = AccountCreated(t, account(t)'.status)
    BY <2>2, <2>3, <2>5
  <2>10. Creates(t, r.slug, r.owner)
    BY <2>5, <2>6, <2>7, <2>8, <2>9 DEF Creates
  <2> QED
    BY <2>2, <2>10 DEF Reports
<1>2. CASE r.op = "updateStatus" /\ p \in updateStatus(r)
  <2>1. PICK t, a, u : /\ t \in Tenants
                       /\ t = r.tenant
                       /\ a = [account(t) EXCEPT !.status = r.status]
                       /\ u = [tenant(t) EXCEPT !.status = r.status]
    BY <1>2 DEF Request
  <2> t \in Tenants
    BY <2>1
  <2>2. /\ account(t) # None
        /\ DOMAIN p.put = {<<"account", t>>, <<"tenant", t>>}
        /\ p.put[<<"account", t>>] = a
        /\ p.event = AccountStatusChanged(t, account(t).status, r.status, r.status)
    BY <1>2, <2>1 DEF updateStatus, Plan
  <2>3. p.put[<<"tenant", t>>] = u
    <3>1. <<"tenant", t>> # <<"account", t>>
      OBVIOUS
    <3> QED
      BY <1>2, <2>1, <3>1 DEF updateStatus, Plan
  <2>4. account(t) \in AccountDoc /\ tenant(t) \in TenantDoc
    BY <2>2 DEF World, DbTyped
  <2>5. r.status \in {"ACTIVE", "SUSPENDED"}
    BY <1>2 DEF Request
  <2>6. a \in AccountDoc /\ a.status = r.status /\ u \in TenantDoc /\ u.status = r.status
    BY <2>1, <2>4, <2>5 DEF AccountDoc, TenantDoc
  <2>7. a # None /\ u # None
    BY <2>6, NoneAssumption
  <2>8. <<"account", t>> \in Doc /\ <<"tenant", t>> \in Doc
    BY DEF Doc
  <2>9. account(t)' = a /\ tenant(t)' = u
    BY <2>2, <2>3, <2>8 DEF Written, account, tenant
  <2>10. WritesOnly({<<"account", t>>, <<"tenant", t>>})
    BY <1>0, <2>2
  <2>11. audit' = AccountStatusChanged(t, account(t).status, account(t)'.status,
                                       tenant(t)'.status)
    BY <2>2, <2>6, <2>9
  <2>12. SetsStatus(t)
    BY <2>2, <2>7, <2>9, <2>10, <2>11 DEF SetsStatus
  <2> QED
    BY <2>12 DEF Reports
<1>3. CASE r.op = "updateTenantStatus" /\ p \in updateTenantStatus(r)
  <2>1. PICK t, u : /\ t \in Tenants
                    /\ t = r.tenant
                    /\ u = [tenant(t) EXCEPT !.status = r.status]
    BY <1>3 DEF Request
  <2> t \in Tenants
    BY <2>1
  <2>2. /\ tenant(t) # None /\ account(t) = None
        /\ p.put = [k \in {<<"tenant", t>>} |-> u]
        /\ p.event = TenantStatusChanged(t, tenant(t).status, r.status)
    BY <1>3, <2>1 DEF updateTenantStatus, Plan
  <2>3. tenant(t) \in TenantDoc /\ r.status \in {"ACTIVE", "SUSPENDED"}
    BY <1>3, <2>2 DEF World, DbTyped, Request
  <2>4. u \in TenantDoc /\ u.status = r.status
    BY <2>1, <2>3 DEF TenantDoc
  <2>5. u # None /\ <<"tenant", t>> \in Doc
    BY <2>4, NoneAssumption DEF Doc
  <2>6. tenant(t)' = u /\ DOMAIN p.put = {<<"tenant", t>>}
    BY <2>2, <2>5 DEF Written, tenant
  <2>7. SetsTenantStatus(t)
    BY <1>0, <2>2, <2>4, <2>5, <2>6 DEF SetsTenantStatus
  <2> QED
    BY <2>7 DEF Reports
<1>4. CASE r.op = "updateProfile" /\ p \in updateProfile(r)
  <2>1. PICK t, f : /\ t \in Tenants
                    /\ t = r.tenant
                    /\ f = [profile(t) EXCEPT !.booking = r.booking]
    BY <1>4 DEF Request
  <2> t \in Tenants
    BY <2>1
  <2>2. /\ profile(t) # None /\ profile(t).booking # r.booking
        /\ p.put = [k \in {<<"profile", t>>} |-> f]
        /\ p.event = ProfileUpdated(t, {"bookingEnabled"})
    BY <1>4, <2>1 DEF updateProfile, Plan
  <2>3. profile(t) \in ProfileDoc
    BY <2>2 DEF World, DbTyped
  <2>4. f.booking = r.booking
    BY <2>1, <2>3 DEF ProfileDoc
  <2>5. <<"profile", t>> \in Doc
    BY DEF Doc
  <2>6. profile(t)' = f /\ DOMAIN p.put = {<<"profile", t>>}
    BY <2>2, <2>5 DEF Written, profile
  <2>7. profile(t)' # profile(t)
    BY <2>2, <2>4, <2>6
  <2>8. Switches(t)
    BY <1>0, <2>2, <2>6, <2>7 DEF Switches
  <2> QED
    BY <2>8 DEF Reports
<1>5. ASSUME r.op = "start", session(r.session) = None,
             p = Plan([k \in {<<"session", r.session>>} |->
                        [status |-> "ACTIVE", expiresAt |-> r.now + SessionTTL,
                         tenant |-> r.tenant, exchanged |-> FALSE]],
                      SessionLifecycle("DELEGATED_SESSION_STARTED", r.tenant,
                                       r.session, "ACTIVE"))
      PROVE  Reports
  <2>1. PICK s, a : /\ s \in Sessions
                    /\ s = r.session
                    /\ a = [status |-> "ACTIVE", expiresAt |-> r.now + SessionTTL,
                            tenant |-> r.tenant, exchanged |-> FALSE]
    BY <1>5 DEF Request
  <2> s \in Sessions
    BY <2>1
  <2>2. /\ p.put = [k \in {<<"session", s>>} |-> a]
        /\ p.event = SessionLifecycle("DELEGATED_SESSION_STARTED", r.tenant, s, "ACTIVE")
    BY <1>5, <2>1 DEF Plan
  <2>3. a \in SessionDoc /\ a.status = "ACTIVE" /\ a.tenant = r.tenant
    BY <1>5, <2>1, TimeAssumption DEF SessionDoc, Request
  <2>4. a # None /\ <<"session", s>> \in Doc
    BY <2>3, NoneAssumption DEF Doc
  <2>5. session(s)' = a /\ DOMAIN p.put = {<<"session", s>>}
    BY <2>2, <2>4 DEF Written, session
  <2>6. Starts(s)
    BY <1>0, <1>5, <2>1, <2>2, <2>3, <2>4, <2>5 DEF Starts
  <2> QED
    BY <2>6 DEF Reports
<1>6. ASSUME r.op = "exchange", session(r.session) # None,
             p = Plan([k \in {<<"session", r.session>>} |->
                        [session(r.session) EXCEPT !.exchanged = TRUE]],
                      None)
      PROVE  Reports
  <2>1. PICK s, a : /\ s \in Sessions
                    /\ s = r.session
                    /\ a = [session(s) EXCEPT !.exchanged = TRUE]
    BY <1>6 DEF Request
  <2> s \in Sessions
    BY <2>1
  <2>2. p.put = [k \in {<<"session", s>>} |-> a] /\ p.event = None
    BY <1>6, <2>1 DEF Plan
  <2>3. session(s) # None /\ session(s) \in SessionDoc
    BY <1>6, <2>1 DEF World, DbTyped
  <2>4. a \in SessionDoc /\ a.status = session(s).status
    BY <2>1, <2>3 DEF SessionDoc
  <2>5. a # None /\ <<"session", s>> \in Doc
    BY <2>4, NoneAssumption DEF Doc
  <2>6. session(s)' = a /\ DOMAIN p.put = {<<"session", s>>}
    BY <2>2, <2>5 DEF Written, session
  <2>7. Exchanges(s)
    BY <1>0, <2>2, <2>3, <2>4, <2>5, <2>6 DEF Exchanges
  <2> QED
    BY <2>7 DEF Reports
<1>7. ASSUME NEW status \in {"EXPIRED", "REVOKED"}, r.op \in {"revoke", "expire"},
             session(r.session) # None, p \in endActive(r.session, status)
      PROVE  Reports
  <2>1. PICK s, a : /\ s \in Sessions
                    /\ s = r.session
                    /\ a = [session(s) EXCEPT !.status = status]
    BY <1>7 DEF Request
  <2> s \in Sessions
    BY <2>1
  <2>2. /\ session(s).status = "ACTIVE"
        /\ p.put = [k \in {<<"session", s>>} |-> a]
        /\ p.event = SessionLifecycle("DELEGATED_SESSION_ENDED", session(s).tenant, s,
                                      status)
    BY <1>7, <2>1 DEF endActive, Plan
  <2>3. session(s) # None /\ session(s) \in SessionDoc
    BY <1>7, <2>1 DEF World, DbTyped
  <2>4. a \in SessionDoc /\ a.status = status /\ a.tenant = session(s).tenant
    BY <2>1, <2>3 DEF SessionDoc
  <2>5. a # None /\ <<"session", s>> \in Doc
    BY <2>4, NoneAssumption DEF Doc
  <2>6. session(s)' = a /\ DOMAIN p.put = {<<"session", s>>}
    BY <2>2, <2>5 DEF Written, session
  <2>7. Ends(s)
    BY <1>0, <1>7, <2>2, <2>3, <2>4, <2>5, <2>6 DEF Ends
  <2> QED
    BY <2>7 DEF Reports
<1> QED
  BY <1>1, <1>2, <1>3, <1>4, <1>5, <1>6, <1>7 DEF Current

\* A step either reports what it changes, or writes nothing and reports nothing.
LEMMA StepReports ==
  ASSUME TenancyInv, [TenancyNext]_tenancyVars
  PROVE  Reports \/ (UNCHANGED db /\ (audit' = None \/ UNCHANGED audit))
<1>1. World /\ Serving
  BY DEF TenancyInv
<1>2. ASSUME NEW j \in Jobs, Commit(j) PROVE Reports
  <2>1. PICK x, p : x = job[j] /\ p = x.plan
    OBVIOUS
  <2>2. Current(x.r, p) /\ Written(p)
    BY <1>1, <1>2, <2>1, CommitServes
  <2>3. Served(x)
    BY <1>1, <1>2, <2>1 DEF Commit, Serving
  <2>4. /\ x.r \in Request
        /\ x.r.op = "provision" => /\ tenant(x.r.tenant) = None
                                   /\ account(x.r.tenant) = None
                                   /\ profile(x.r.tenant) = None
    BY <2>3 DEF Served, IsJob, Placed
  <2>5. audit' = p.event
    BY <1>2, <2>1 DEF Commit
  <2> QED
    BY <1>1, <2>2, <2>4, <2>5, CommitReports
<1>3. CASE NoWrite
  BY <1>3 DEF NoWrite
<1>4. CASE UNCHANGED tenancyVars
  BY <1>4 DEF tenancyVars
<1> QED
  BY <1>2, <1>3, <1>4 DEF TenancyNext, InternalRequest, exchangeDelegated, TenantRequest,
     DelegatedRequest, authenticateTenant, authenticateSession, operationalContext,
     intercept, Decide, Retry, Completed, issue, Lost, Tick

\* The status of a document that is not written stays.
LEMMA StatusStays ==
  ASSUME NEW D, WritesOnly(D), NEW d \in Doc, d \notin D
  PROVE  StatusOf(d)' = StatusOf(d)
BY DEF WritesOnly, StatusOf

\* What each kind of transaction reports is what AuditTrailIsPath asks for of a
\* status: of the account or tenant it is about, and of every other that it tells
\* nothing.
LEMMA ReportsStatus ==
  ASSUME Reports, NEW t \in Tenants
  PROVE  StatusReported(t)
<1> DEFINE a == <<"account", t>>
           u == <<"tenant", t>>
           Quiet == /\ StatusOf(a)' = StatusOf(a) /\ StatusOf(u)' = StatusOf(u)
                    /\ ~Told({"ACCOUNT_CREATED", "ACCOUNT_ACTIVATED",
                              "ACCOUNT_SUSPENDED"}, a)'
                    /\ ~Told({"TENANT_STATUS_CHANGED"}, u)'
           Answered ==
             audit' = IF account(t)' = None
                      THEN TenantStatusChanged(t, StatusOf(u), StatusOf(u)')
                      ELSE IF account(t) = None
                      THEN AccountCreated(t, StatusOf(a)')
                      ELSE AccountStatusChanged(t, StatusOf(a), StatusOf(a)',
                                                StatusOf(u)')
<1>0. a \in Doc /\ u \in Doc
  BY DEF Doc
<1>1. ASSUME NEW v \in Tenants, NEW x \in Slugs, NEW w \in Owners, Creates(v, x, w)
      PROVE  Quiet \/ Answered
  <2>1. CASE v = t
    <3>1. StatusOf(a)' = account(t)'.status
      BY <1>1, <2>1 DEF Creates, StatusOf, account
    <3>2. Answered
      BY <1>1, <2>1, <3>1 DEF Creates
    <3> QED
      BY <3>2
  <2>2. CASE v # t
    <3>1. StatusOf(a)' = StatusOf(a) /\ StatusOf(u)' = StatusOf(u)
      BY <1>0, <1>1, <2>2, StatusStays DEF Creates
    <3>2. audit'.entity = <<"account", v>>
      BY <1>1 DEF Creates, AccountCreated
    <3>3. audit'.entity # a /\ audit'.entity # u
      BY <2>2, <3>2
    <3> QED
      BY <3>1, <3>3 DEF Told
  <2> QED
    BY <2>1, <2>2
<1>2. ASSUME NEW v \in Tenants, SetsStatus(v)
      PROVE  Quiet \/ Answered
  <2>1. CASE v = t
    <3>1. /\ StatusOf(a) = account(t).status /\ StatusOf(a)' = account(t)'.status
          /\ StatusOf(u)' = tenant(t)'.status
      BY <1>2, <2>1 DEF SetsStatus, StatusOf, account, tenant
    <3>2. Answered
      BY <1>2, <2>1, <3>1 DEF SetsStatus
    <3> QED
      BY <3>2
  <2>2. CASE v # t
    <3>1. StatusOf(a)' = StatusOf(a) /\ StatusOf(u)' = StatusOf(u)
      BY <1>0, <1>2, <2>2, StatusStays DEF SetsStatus
    <3>2. audit'.entity = <<"account", v>>
      BY <1>2 DEF SetsStatus, AccountStatusChanged
    <3>3. audit'.entity # a /\ audit'.entity # u
      BY <2>2, <3>2
    <3> QED
      BY <3>1, <3>3 DEF Told
  <2> QED
    BY <2>1, <2>2
<1>3. ASSUME NEW v \in Tenants, SetsTenantStatus(v)
      PROVE  Quiet \/ Answered
  <2>1. CASE v = t
    <3>1. StatusOf(u) = tenant(t).status /\ StatusOf(u)' = tenant(t)'.status
      BY <1>3, <2>1 DEF SetsTenantStatus, StatusOf, tenant
    <3>2. account(t)' = account(t)
      BY <1>0, <1>3, <2>1 DEF SetsTenantStatus, WritesOnly, account
    <3>3. Answered
      BY <1>3, <2>1, <3>1, <3>2 DEF SetsTenantStatus
    <3> QED
      BY <3>3
  <2>2. CASE v # t
    <3>1. StatusOf(a)' = StatusOf(a) /\ StatusOf(u)' = StatusOf(u)
      BY <1>0, <1>3, <2>2, StatusStays DEF SetsTenantStatus
    <3>2. audit'.entity = <<"tenant", v>>
      BY <1>3 DEF SetsTenantStatus, TenantStatusChanged
    <3>3. audit'.entity # a /\ audit'.entity # u
      BY <2>2, <3>2
    <3> QED
      BY <3>1, <3>3 DEF Told
  <2> QED
    BY <2>1, <2>2
<1>4. ASSUME NEW v \in Tenants, Switches(v) PROVE Quiet
  <2>1. StatusOf(a)' = StatusOf(a) /\ StatusOf(u)' = StatusOf(u)
    BY <1>0, <1>4, StatusStays DEF Switches
  <2>2. audit'.action = "PUBLIC_PROFILE_UPDATED"
    BY <1>4 DEF Switches, ProfileUpdated
  <2> QED
    BY <2>1, <2>2 DEF Told
<1>5. ASSUME NEW s \in Sessions, Starts(s) \/ Exchanges(s) \/ Ends(s) PROVE Quiet
  <2>1. StatusOf(a)' = StatusOf(a) /\ StatusOf(u)' = StatusOf(u)
    BY <1>0, <1>5, StatusStays DEF Starts, Exchanges, Ends
  <2>2. \/ audit' = None
        \/ audit'.action \in {"DELEGATED_SESSION_STARTED", "DELEGATED_SESSION_ENDED"}
    BY <1>5 DEF Starts, Exchanges, Ends, SessionLifecycle
  <2> QED
    BY <2>1, <2>2 DEF Told
<1>6. Quiet \/ Answered
  BY <1>1, <1>2, <1>3, <1>4, <1>5 DEF Reports
<1> QED
  BY <1>6 DEF StatusReported

\* A kind of transaction names a delegated session only when it starts or ends
\* it.
LEMMA ReportsSessions ==
  ASSUME Reports, NEW s \in Sessions
  PROVE  SessionReported(s)
<1> SUFFICES ASSUME StatusOf(<<"session", s>>)' # StatusOf(<<"session", s>>)
                      \/ Named(s)'
             PROVE  Starts(s) \/ Ends(s)
  BY DEF SessionReported, Starts, Ends
<1>0. <<"session", s>> \in Doc
  BY DEF Doc
<1>1. ASSUME NEW t \in Tenants, NEW x \in Slugs, NEW w \in Owners, Creates(t, x, w)
      PROVE  FALSE
  <2>1. StatusOf(<<"session", s>>)' = StatusOf(<<"session", s>>)
    BY <1>0, <1>1, StatusStays DEF Creates
  <2>2. audit'.action = "ACCOUNT_CREATED"
    BY <1>1 DEF Creates, AccountCreated
  <2> QED
    BY <2>1, <2>2 DEF Named
<1>2. ASSUME NEW t \in Tenants, SetsStatus(t) \/ SetsTenantStatus(t) \/ Switches(t)
      PROVE  FALSE
  <2>1. StatusOf(<<"session", s>>)' = StatusOf(<<"session", s>>)
    BY <1>0, <1>2, StatusStays DEF SetsStatus, SetsTenantStatus, Switches
  <2>2. audit'.action \in {"ACCOUNT_ACTIVATED", "ACCOUNT_SUSPENDED",
                           "TENANT_STATUS_CHANGED", "PUBLIC_PROFILE_UPDATED"}
    BY <1>2 DEF SetsStatus, SetsTenantStatus, Switches, AccountStatusChanged,
                TenantStatusChanged, ProfileUpdated
  <2> QED
    BY <2>1, <2>2 DEF Named
<1>3. ASSUME NEW v \in Sessions, Starts(v) \/ Ends(v) \/ Exchanges(v), v # s
      PROVE  FALSE
  <2>1. StatusOf(<<"session", s>>)' = StatusOf(<<"session", s>>)
    BY <1>0, <1>3, StatusStays DEF Starts, Ends, Exchanges
  <2>2. audit' = None \/ audit'.sessionId = v
    BY <1>3 DEF Starts, Ends, Exchanges, SessionLifecycle
  <2> QED
    BY <1>3, <2>1, <2>2 DEF Named
<1>4. ~Exchanges(s)
  <2> SUFFICES ASSUME Exchanges(s) PROVE FALSE
    OBVIOUS
  <2>1. StatusOf(<<"session", s>>)' = StatusOf(<<"session", s>>)
    BY DEF Exchanges, StatusOf, session
  <2> QED
    BY <2>1 DEF Exchanges, Named
<1> QED
  BY <1>1, <1>2, <1>3, <1>4 DEF Reports

\* A kind of transaction changes a profile that exists only as it reports it.
LEMMA ReportsProfiles ==
  ASSUME Reports, NEW t \in Tenants
  PROVE  ProfileReported(t)
<1> SUFFICES ASSUME profile(t) # None
             PROVE  \/ /\ profile(t)' # profile(t)
                       /\ audit' = ProfileUpdated(t, {"bookingEnabled"})
                    \/ /\ profile(t)' = profile(t)
                       /\ ~Told({"PUBLIC_PROFILE_UPDATED"}, <<"account", t>>)'
  BY DEF ProfileReported
<1> DEFINE Quiet == /\ profile(t)' = profile(t)
                    /\ ~Told({"PUBLIC_PROFILE_UPDATED"}, <<"account", t>>)'
<1>0. <<"profile", t>> \in Doc
  BY DEF Doc
<1>1. ASSUME NEW v \in Tenants, NEW x \in Slugs, NEW w \in Owners, Creates(v, x, w)
      PROVE  Quiet
  <2>1. v # t
    BY <1>1 DEF Creates
  <2>2. audit'.action = "ACCOUNT_CREATED"
    BY <1>1 DEF Creates, AccountCreated
  <2>3. profile(t)' = profile(t)
    BY <1>0, <1>1, <2>1 DEF Creates, WritesOnly, profile
  <2> QED
    BY <2>2, <2>3 DEF Told
<1>2. ASSUME NEW v \in Tenants, SetsStatus(v) \/ SetsTenantStatus(v) PROVE Quiet
  <2>1. audit'.action \in {"ACCOUNT_ACTIVATED", "ACCOUNT_SUSPENDED",
                           "TENANT_STATUS_CHANGED"}
    BY <1>2 DEF SetsStatus, SetsTenantStatus, AccountStatusChanged, TenantStatusChanged
  <2>2. profile(t)' = profile(t)
    BY <1>0, <1>2 DEF SetsStatus, SetsTenantStatus, WritesOnly, profile
  <2> QED
    BY <2>1, <2>2 DEF Told
<1>3. ASSUME NEW v \in Tenants, Switches(v), v # t PROVE Quiet
  <2>1. audit'.entity = <<"account", v>>
    BY <1>3 DEF Switches, ProfileUpdated
  <2>2. profile(t)' = profile(t)
    BY <1>0, <1>3 DEF Switches, WritesOnly, profile
  <2> QED
    BY <1>3, <2>1, <2>2 DEF Told
<1>4. ASSUME NEW s \in Sessions, Starts(s) \/ Ends(s) \/ Exchanges(s) PROVE Quiet
  <2>1. \/ audit' = None
        \/ audit'.action \in {"DELEGATED_SESSION_STARTED", "DELEGATED_SESSION_ENDED"}
    BY <1>4 DEF Starts, Ends, Exchanges, SessionLifecycle
  <2>2. profile(t)' = profile(t)
    BY <1>0, <1>4 DEF Starts, Ends, Exchanges, WritesOnly, profile
  <2> QED
    BY <2>1, <2>2 DEF Told
<1>5. Switches(t) => /\ profile(t)' # profile(t)
                     /\ audit' = ProfileUpdated(t, {"bookingEnabled"})
  BY DEF Switches
<1> QED
  BY <1>1, <1>2, <1>3, <1>4, <1>5 DEF Reports

\* The audit trail tells the whole story: statuses as they were just before each
\* commit, sessions as they start and end, profiles when they change, and nothing
\* else (AuditTrailIsPath: provision, updateStatus, updateTenantStatus, start,
\* endActive, updateProfile).
THEOREM AuditTellsAll == TenancySpec => AuditTrailIsPath
<1>1. ASSUME TenancyInv, [TenancyNext]_tenancyVars
      PROVE  [/\ \A t \in Tenants : StatusReported(t) /\ ProfileReported(t)
              /\ \A s \in Sessions : SessionReported(s)]_<<db, audit>>
  <2>1. CASE Reports
    BY <2>1, ReportsStatus, ReportsProfiles, ReportsSessions
  <2>2. CASE UNCHANGED db /\ audit' = None
    BY <2>2 DEF StatusReported, ProfileReported, SessionReported, StatusOf, Named,
                Told, profile
  <2>3. CASE UNCHANGED <<db, audit>>
    BY <2>3
  <2> QED
    BY <1>1, <2>1, <2>2, <2>3, StepReports
<1> QED
  BY <1>1, TenancyInvariant, PTL DEF TenancySpec, AuditTrailIsPath
=============================================================================

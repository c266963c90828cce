------------------------------ MODULE Accounts ------------------------------
(***************************************************************************)
(* Accounts and the tenants they manage: provisioning, the status an       *)
(* administrator gives an account or an unmanaged tenant, the public       *)
(* profile, and the two gates the public side asks.                        *)
(*                                                                         *)
(* The database is a function from documents, and the unique index entries *)
(* they claim, to their contents.  A handler runs in a transaction and     *)
(* decides on a snapshot: it is modelled by the plan it makes, what it     *)
(* would write and the audit event it would append.  Tenancy runs them.    *)
(***************************************************************************)
EXTENDS Naturals

CONSTANTS
  Tenants,   \* tenant ids; a managed tenant's account shares its id here
  Legacy,    \* tenants that predate accounts: they have none
  SlugOf,    \* the slug of each of those
  Slugs,     \* addresses of public pages
  Reserved,  \* the slugs provisioning refuses
  Owners,    \* an owner's email and phone, unique among users
  Sessions,  \* delegated session ids
  None       \* no document

ASSUME LegacyAssumption ==
  /\ Legacy \subseteq Tenants
  /\ SlugOf \in [Legacy -> Slugs]
  /\ \A t, u \in Legacy : SlugOf[t] = SlugOf[u] => t = u

\* The documents and index entries, and what they hold: an entry holds the id of
\* the tenant that claimed it.
Doc == ({"tenant", "account", "profile"} \X Tenants) \cup ({"slug"} \X Slugs)
         \cup ({"owner"} \X Owners) \cup ({"session"} \X Sessions)
TenantDoc == [status : {"ACTIVE", "SUSPENDED"}, slug : Slugs]
AccountDoc == [status : {"TRIAL", "ACTIVE", "SUSPENDED"}, booking : BOOLEAN,
               slug : Slugs]
ProfileDoc == [booking : BOOLEAN]
SessionDoc == [status : {"ACTIVE", "EXPIRED", "REVOKED"}, expiresAt : Nat,
               tenant : Tenants, exchanged : BOOLEAN]

ASSUME NoneAssumption ==
  None \notin TenantDoc \cup AccountDoc \cup ProfileDoc \cup SessionDoc \cup Tenants
             \cup Doc

VARIABLES
  db,     \* what each document and unique index entry holds
  audit   \* the audit event the last step appended, if any

tenant(t) == db[<<"tenant", t>>]
account(t) == db[<<"account", t>>]
profile(t) == db[<<"profile", t>>]
session(s) == db[<<"session", s>>]

\* What a handler would write to the documents of put, and the audit event it
\* would append, None if it appends none.
Plan(put, event) == [put |-> put, event |-> event]

\* The audit events, with the metadata that tells what happened.  An account's
\* creation names the status it starts with; only the two changes of a status
\* name the status before.
AccountCreated(t, status) ==
  [action |-> "ACCOUNT_CREATED", entity |-> <<"account", t>>, initialStatus |-> status]
AccountStatusChanged(t, from, to, tenantStatus) ==
  [action |-> IF to = "ACTIVE" THEN "ACCOUNT_ACTIVATED" ELSE "ACCOUNT_SUSPENDED",
   entity |-> <<"account", t>>, tenantStatus |-> tenantStatus,
   previousStatus |-> from, newStatus |-> to]
TenantStatusChanged(t, from, to) ==
  [action |-> "TENANT_STATUS_CHANGED", entity |-> <<"tenant", t>>,
   previousStatus |-> from, newStatus |-> to]
ProfileUpdated(t, fields) ==
  [action |-> "PUBLIC_PROFILE_UPDATED", entity |-> <<"account", t>>,
   changedFields |-> fields]
SessionLifecycle(action, t, s, status) ==
  [status |-> status, action |-> action, entity |-> <<"account", t>>, sessionId |-> s]

operational(t) ==
  /\ account(t) # None /\ account(t).status \in {"TRIAL", "ACTIVE"}
  /\ tenant(t) # None /\ tenant(t).status = "ACTIVE"

-----------------------------------------------------------------------------
(* Handlers *)

\* Account, tenant, location, owner, membership and profile in one
\* transaction (the location and the membership are the tenant's and the
\* owner's own, read by nothing here); a slug or an owner already there is a
\* duplicate key.
provision(r) ==
  LET t == r.tenant
      new == [tenant |-> [status |-> IF r.status = "SUSPENDED" THEN "SUSPENDED"
                                                               ELSE "ACTIVE",
                          slug |-> r.slug],
              account |-> [status |-> r.status, booking |-> r.booking,
                           slug |-> r.slug],
              slug |-> t, owner |-> t,
              profile |-> [booking |-> r.booking]]
  IN IF \/ r.slug \in Reserved
        \/ db[<<"slug", r.slug>>] # None
        \/ db[<<"owner", r.owner>>] # None
     THEN {}
     ELSE {Plan([d \in {<<"account", t>>, <<"tenant", t>>, <<"profile", t>>,
                         <<"slug", r.slug>>, <<"owner", r.owner>>} |-> new[d[1]]],
                AccountCreated(t, r.status))}

assertTransition(from, to) ==
  \/ from = "TRIAL" /\ to \in {"ACTIVE", "SUSPENDED"}
  \/ from = "ACTIVE" /\ to = "SUSPENDED"
  \/ from = "SUSPENDED" /\ to = "ACTIVE"

\* Mutated form: the tenant keeps its status when the account is reactivated.
updateStatusOneWay(r) ==
  LET a == account(r.tenant)
      key == <<"account", r.tenant>>
  IN IF a = None \/ a.status = r.status \/ ~assertTransition(a.status, r.status)
     THEN {}
     ELSE {Plan([d \in {key} \cup (IF r.status = "SUSPENDED"
                                   THEN {<<"tenant", r.tenant>>} ELSE {}) |->
                  IF d = key THEN [a EXCEPT !.status = r.status]
                  ELSE [tenant(r.tenant) EXCEPT !.status = r.status]],
                AccountStatusChanged(r.tenant, a.status, r.status, r.status))}

updateStatus(r) ==
  LET a == account(r.tenant)
      key == <<"account", r.tenant>>
  IN IF a = None \/ a.status = r.status \/ ~assertTransition(a.status, r.status)
     THEN {}
     ELSE {Plan([d \in {key, <<"tenant", r.tenant>>} |->
                  IF d = key THEN [a EXCEPT !.status = r.status]
                  ELSE [tenant(r.tenant) EXCEPT !.status = r.status]],
                AccountStatusChanged(r.tenant, a.status, r.status, r.status))}

\* The backoffice changes the status of a tenant only if no account manages it.
updateTenantStatus(r) ==
  LET key == <<"tenant", r.tenant>>
  IN IF tenant(r.tenant) = None \/ account(r.tenant) # None
     THEN {}
     ELSE {Plan([d \in {key} |-> [tenant(r.tenant) EXCEPT !.status = r.status]],
                TenantStatusChanged(r.tenant, tenant(r.tenant).status, r.status))}

\* Of the profile only the switch that opens and closes public booking is
\* kept; an update that changes nothing writes and audits nothing.
updateProfile(r) ==
  LET key == <<"profile", r.tenant>>
      p == profile(r.tenant)
  IN IF account(r.tenant) = None \/ p = None \/ p.booking = r.booking
     THEN {}
     ELSE {Plan([d \in {key} |-> [p EXCEPT !.booking = r.booking]],
                ProfileUpdated(r.tenant, {"bookingEnabled"}))}

-----------------------------------------------------------------------------
(* Public access *)

\* resolve with requireAccount and requireBooking: what a slug leads to.
resolve(x) ==
  {t \in Tenants :
     /\ account(t) # None /\ account(t).slug = x
     /\ account(t).status \in {"TRIAL", "ACTIVE"}
     /\ tenant(t) # None /\ tenant(t).slug = account(t).slug
     /\ tenant(t).status = "ACTIVE"
     /\ profile(t) # None
     /\ account(t).booking /\ profile(t).booking}

\* The gate for callers that know the tenant; it does not look at the tenant.
assertTenantBookingEnabled(t) ==
  \/ account(t) = None
  \/ /\ profile(t) # None /\ profile(t).booking
     /\ account(t).booking
     /\ account(t).status \in {"TRIAL", "ACTIVE"}

-----------------------------------------------------------------------------
AccountsInit ==
  /\ db = [d \in Doc |->
             IF d[1] = "tenant" /\ d[2] \in Legacy
             THEN [status |-> "ACTIVE", slug |-> SlugOf[d[2]]]
             ELSE IF d[1] = "slug" /\ \E t \in Legacy : SlugOf[t] = d[2]
             THEN CHOOSE t \in Legacy : SlugOf[t] = d[2]
             ELSE None]
  /\ audit = None

-----------------------------------------------------------------------------
(* Properties *)

\* The two gates the public side asks (resolve by slug before a page is shown
\* or a slot offered, assertTenantBookingEnabled by tenant when a booking is
\* made) agree on every managed tenant, though only one looks at the tenant's
\* own status, and a slug leads to one tenant at most: whatever is suspended,
\* reactivated or provisioned at the same time.
GatesAgree ==
  /\ \A t \in Tenants :
       account(t) # None =>
         (assertTenantBookingEnabled(t) <=> t \in resolve(account(t).slug))
  /\ \A t, u \in Tenants :
       (tenant(t) # None /\ tenant(u) # None /\ tenant(t).slug = tenant(u).slug)
         => t = u

\* The status of a document, if there is one.
StatusOf(d) == IF db[d] = None THEN None ELSE db[d].status

\* The last step appended an event of one of these actions about x.
Told(actions, x) == audit # None /\ audit.action \in actions /\ audit.entity = x

\* The last step appended an event about a delegated session.
Named(s) ==
  /\ audit # None
  /\ audit.action \in {"DELEGATED_SESSION_STARTED", "DELEGATED_SESSION_ENDED"}
  /\ audit.sessionId = s

\* What a step writes of the status of an account, or of a tenant without one,
\* it reports with the status just before (a creation has none) and the one it
\* is now; a managed tenant's status is told with its account's.
StatusReported(t) ==
  LET a == <<"account", t>>
      u == <<"tenant", t>>
  IN \/ StatusOf(a)' # StatusOf(a) \/ StatusOf(u)' # StatusOf(u)
     \/ Told({"ACCOUNT_CREATED", "ACCOUNT_ACTIVATED", "ACCOUNT_SUSPENDED"}, a)'
     \/ Told({"TENANT_STATUS_CHANGED"}, u)'
     => audit' = IF account(t)' = None
                 THEN TenantStatusChanged(t, StatusOf(u), StatusOf(u)')
                 ELSE IF account(t) = None
                 THEN AccountCreated(t, StatusOf(a)')
                 ELSE AccountStatusChanged(t, StatusOf(a), StatusOf(a)', StatusOf(u)')

\* A session is reported with its present status only, in the log of the account
\* it is for: when it starts, and when it ends, which it has not before.
SessionReported(s) ==
  LET was == session(s)
      is == session(s)'
  IN StatusOf(<<"session", s>>)' # StatusOf(<<"session", s>>) \/ Named(s)'
     => \/ /\ was = None /\ is.status = "ACTIVE"
           /\ audit' = SessionLifecycle("DELEGATED_SESSION_STARTED", is.tenant, s,
                                        is.status)
        \/ /\ was # None /\ was.status = "ACTIVE"
           /\ is.status \in {"EXPIRED", "REVOKED"}
           /\ audit' = SessionLifecycle("DELEGATED_SESSION_ENDED", is.tenant, s,
                                        is.status)

\* Of the profile the fields that changed are reported: a second request that
\* finds the switch moved reports nothing.
ProfileReported(t) ==
  profile(t) # None =>
    /\ profile(t)' # profile(t) => audit' = ProfileUpdated(t, {"bookingEnabled"})
    /\ Told({"PUBLIC_PROFILE_UPDATED"}, <<"account", t>>)' => profile(t)' # profile(t)

\* The audit trail tells the whole story, whatever commits at the same time:
\* every change of a status, a session or a profile comes with its event, and no
\* event tells of anything that did not happen.  The events of an account, or of a
\* tenant without one, chain (updateStatus, updateTenantStatus): two concurrent
\* changes never report the same previous status.  Those of a session
\* are one start and one end (start, endActive), whoever ends it.
AuditTrailIsPath ==
  [][/\ \A t \in Tenants : StatusReported(t) /\ ProfileReported(t)
     /\ \A s \in Sessions : SessionReported(s)]_<<db, audit>>
=============================================================================

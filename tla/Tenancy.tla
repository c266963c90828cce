------------------------------ MODULE Tenancy -------------------------------
(***************************************************************************)
(* Who may act on a tenant, and when: requests of the platform             *)
(* administrator, of a tenant's owner and of an administrator delegated    *)
(* into a tenant, from the token they present to the transaction of their  *)
(* handler, together with the delegated sessions' own life.                *)
(*                                                                         *)
(* A request is a job of several steps, each a read, a transaction or an   *)
(* audit write of the code; other requests run in between.  Transactions   *)
(* are MongoDB's: a handler decides on a snapshot and its commit fails,    *)
(* and is retried, only if a document it writes was written meanwhile.     *)
(* No code path disables a user, so the reads of users always succeed.     *)
(***************************************************************************)
EXTENDS Accounts, FiniteSets

CONSTANTS
  Offers,        \* status and booking switch an account may start with
  Jobs,          \* requests served at the same time
  Idle,          \* no request
  SessionTTL,    \* life of a delegated session, 15 minutes in the code
  TokenTTL,      \* life of an access token
  ClockTolerance,\* how long after its expiry a token still verifies
  MaxTime,       \* bound: last moment
  MaxActions     \* bound: requests of one delegated session

ASSUME TimeAssumption ==
  {SessionTTL, TokenTTL, ClockTolerance, MaxTime, MaxActions} \subseteq Nat
ASSUME RequestAssumption ==
  /\ Offers \subseteq [status : {"TRIAL", "ACTIVE", "SUSPENDED"}, booking : BOOLEAN]
  /\ IsFiniteSet(Jobs)

VARIABLES
  clock,
  token,     \* when the token of a delegated session expires, 0: there is none
  job,       \* the request each job serves
  actions,   \* per session: audited attempts, committed changes, completions
  issued     \* per session: tokens its exchange code bought

tenancyVars == <<db, audit, clock, token, job, actions, issued>>

NoWrite == UNCHANGED db /\ audit' = None

alive(s) == session(s) # None /\ session(s).status = "ACTIVE"
              /\ session(s).expiresAt > clock

-----------------------------------------------------------------------------
(* Delegated sessions: the plans of their transactions *)

start(r) ==
  IF ~operational(r.tenant)
  THEN {}
  ELSE {Plan([d \in {<<"session", r.session>>} |->
               [status |-> "ACTIVE", expiresAt |-> r.now + SessionTTL,
                tenant |-> r.tenant, exchanged |-> FALSE]],
             SessionLifecycle("DELEGATED_SESSION_STARTED", r.tenant, r.session,
                              "ACTIVE"))}

\* Mutated form: a code that was exchanged is not filtered out.
exchangeAgain(r) ==
  LET d == session(r.session)
  IN IF d = None \/ d.status # "ACTIVE" \/ d.expiresAt <= r.now
          \/ ~operational(d.tenant)
     THEN {}
     ELSE {Plan([k \in {<<"session", r.session>>} |-> [d EXCEPT !.exchanged = TRUE]],
                None)}

exchange(r) ==
  LET d == session(r.session)
  IN IF d = None \/ d.status # "ACTIVE" \/ d.expiresAt <= r.now
          \/ d.exchanged \/ ~operational(d.tenant)
     THEN {}
     ELSE {Plan([k \in {<<"session", r.session>>} |-> [d EXCEPT !.exchanged = TRUE]],
                None)}

\* Guarded by the status once more than its callers need.
endActive(s, status) ==
  LET t == session(s).tenant
  IN IF account(t) = None \/ session(s).status # "ACTIVE"
     THEN {}
     ELSE {Plan([d \in {<<"session", s>>} |-> [session(s) EXCEPT !.status = status]],
                SessionLifecycle("DELEGATED_SESSION_ENDED", t, s, status))}

revoke(r) ==
  LET d == session(r.session)
  IN IF d = None \/ d.status # "ACTIVE"
     THEN {}
     ELSE endActive(r.session,
                    IF d.expiresAt <= clock THEN "EXPIRED" ELSE "REVOKED")

materializeExpiry(r) ==
  LET d == session(r.session)
  IN IF d = None \/ d.status # "ACTIVE" \/ d.expiresAt > clock
     THEN {}
     ELSE endActive(r.session, "EXPIRED")

\* What the handler of a request would write.
handler(r) ==
  CASE r.op = "provision" -> provision(r)
    [] r.op = "updateStatus" -> updateStatus(r)
    [] r.op = "updateTenantStatus" -> updateTenantStatus(r)
    [] r.op = "updateProfile" -> updateProfile(r)
    [] r.op = "start" -> start(r)
    [] r.op = "exchange" -> exchange(r)
    [] r.op = "revoke" -> revoke(r)
    [] r.op = "expire" -> materializeExpiry(r)

-----------------------------------------------------------------------------
(* Requests *)

\* Ids are fresh: no document and no open request has them.
FreshTenants ==
  {t \in Tenants : tenant(t) = None
                   /\ \A j \in Jobs : job[j] = Idle \/ job[j].r.op # "provision"
                                        \/ job[j].r.tenant # t}
FreshSessions ==
  {s \in Sessions : session(s) = None
                    /\ \A j \in Jobs : job[j] = Idle \/ job[j].r.op # "start"
                                         \/ job[j].r.session # s}

InternalRequests ==
  {[status |-> o.status, booking |-> o.booking, tenant |-> t,
    op |-> "provision", slug |-> x, owner |-> w] :
     o \in Offers, t \in FreshTenants, x \in Slugs, w \in Owners}
    \cup [op : {"updateStatus", "updateTenantStatus"},
          tenant : {t \in Tenants : tenant(t) # None},
          status : {"ACTIVE", "SUSPENDED"}]
    \cup [op : {"start"}, tenant : {t \in Tenants : account(t) # None},
          session : FreshSessions, now : {clock}]
    \cup [op : {"revoke"}, session : {s \in Sessions : session(s) # None}]

TenantRequests(t) ==
  [op : {"updateProfile"}, tenant : {t}, booking : BOOLEAN]

DelegatedRequests(s) ==
  TenantRequests(session(s).tenant) \cup [op : {"revoke"}, session : {s}]

\* A request of an actor (of a principal, when its authority must be read),
\* at a stage.  held and up are history: whether the session was alive when
\* the request arrived, and whether its tenant was open at some moment since.
Job(actor, principal, r, stage, held, up) ==
  [r |-> r, actor |-> actor, principal |-> principal, stage |-> stage,
   held |-> held, up |-> up, unread |-> {}, plan |-> None,
   overtaken |-> FALSE]

TenantOpen(t) == tenant(t) # None /\ tenant(t).status = "ACTIVE"

\* The administrator's own requests, and the public exchange of a code.
InternalRequest(j) ==
  /\ job[j] = Idle
  /\ \E r \in InternalRequests :
       job' = [job EXCEPT ![j] = Job("INTERNAL", None, r, "handler", TRUE, TRUE)]
  /\ NoWrite /\ UNCHANGED <<clock, token, actions, issued>>

exchangeDelegated(j) ==
  /\ job[j] = Idle
  /\ \E s \in Sessions :
       /\ session(s) # None
       /\ job' = [job EXCEPT ![j] =
            Job("PUBLIC", <<"session", s>>,
                [session |-> s, now |-> clock, op |-> "exchange"],
                "handler", TRUE, TRUE)]
  /\ NoWrite /\ UNCHANGED <<clock, token, actions, issued>>

verify(s) == token[s] # 0 /\ token[s] + ClockTolerance > clock

\* A request with the token of a tenant's owner, who may have logged in at any
\* time: the authority is read again, then the handler runs.
TenantRequest(j) ==
  /\ job[j] = Idle
  /\ \E t \in Tenants : \E r \in TenantRequests(t) :
       /\ account(t) # None
       /\ job' = [job EXCEPT ![j] = Job("TENANT", <<"tenant", t>>, r, "tenant",
                                        TRUE, TenantOpen(t))]
  /\ NoWrite /\ UNCHANGED <<clock, token, actions, issued>>

DelegatedRequest(j) ==
  /\ job[j] = Idle
  /\ \E s \in Sessions :
       /\ verify(s)
       /\ actions[s].attempted
            + Cardinality({i \in Jobs : job[i] # Idle
                                          /\ job[i].principal = <<"session", s>>})
            < MaxActions
       /\ \E r \in DelegatedRequests(s) :
            job' = [job EXCEPT ![j] =
              Job("DELEGATED", <<"session", s>>, r, "session",
                  alive(s), operational(session(s).tenant))]
  /\ NoWrite /\ UNCHANGED <<clock, token, actions, issued>>

authenticateTenant(j) ==
  /\ job[j] # Idle /\ job[j].stage = "tenant"
  /\ job' = [job EXCEPT ![j] =
       IF TenantOpen(@.principal[2]) THEN [@ EXCEPT !.stage = "handler"] ELSE Idle]
  /\ NoWrite /\ UNCHANGED <<clock, token, actions, issued>>

\* Mutated form: the status of the session is not looked at.
authenticateSessionUnended(j) ==
  /\ job[j] # Idle /\ job[j].stage = "session"
  /\ LET s == job[j].principal[2]
     IN job' = [job EXCEPT ![j] =
          IF session(s).expiresAt <= clock
          THEN [@ EXCEPT !.stage = "handler", !.actor = "INTERNAL",
                         !.r = [session |-> s, op |-> "expire"]]
          ELSE [@ EXCEPT !.stage = "context", !.unread = {"account", "tenant"}]]
  /\ NoWrite /\ UNCHANGED <<clock, token, actions, issued>>

\* A session past its expiry is marked so in a transaction of its own, and the
\* request is denied.
authenticateSession(j) ==
  /\ job[j] # Idle /\ job[j].stage = "session"
  /\ LET s == job[j].principal[2]
     IN job' = [job EXCEPT ![j] =
          IF session(s).status # "ACTIVE" THEN Idle
          ELSE IF session(s).expiresAt <= clock
          THEN [@ EXCEPT !.stage = "handler", !.actor = "INTERNAL",
                         !.r = [session |-> s, op |-> "expire"]]
          ELSE [@ EXCEPT !.stage = "context", !.unread = {"account", "tenant"}]]
  /\ NoWrite /\ UNCHANGED <<clock, token, actions, issued>>

\* Account and tenant are read at the same time, outside a transaction: in any
\* order, and after the session was.
operationalContext(j) ==
  /\ job[j] # Idle /\ job[j].stage = "context"
  /\ LET x == job[j]
         t == session(x.principal[2]).tenant
     IN \E d \in x.unread :
          job' = [job EXCEPT ![j] =
            IF \/ d = "account" /\ account(t).status \notin {"TRIAL", "ACTIVE"}
               \/ d = "tenant" /\ tenant(t).status # "ACTIVE"
            THEN Idle
            ELSE [x EXCEPT !.unread = x.unread \ {d},
                           !.stage = IF x.unread = {d} THEN "admitted" ELSE "context"]]
  /\ NoWrite /\ UNCHANGED <<clock, token, actions, issued>>

\* The interceptor: the attempt is on record before the handler runs.
intercept(j) ==
  /\ job[j] # Idle /\ job[j].stage = "admitted"
  /\ actions' = [actions EXCEPT ![job[j].principal[2]].attempted = @ + 1]
  /\ job' = [job EXCEPT ![j].stage = "handler"]
  /\ NoWrite /\ UNCHANGED <<clock, token, issued>>

-----------------------------------------------------------------------------
(* Transactions *)

\* The handler decides: it has a plan, or nothing to write.  The latter is a
\* refusal, except that what a delegated request asks for may be so already.
Decide(j) ==
  /\ job[j] # Idle /\ job[j].stage = "handler"
  /\ LET plans == handler(job[j].r)
     IN job' = [job EXCEPT ![j] =
          IF plans = {}
          THEN IF @.actor = "DELEGATED" THEN [@ EXCEPT !.stage = "answer"] ELSE Idle
          ELSE [@ EXCEPT !.stage = "commit", !.overtaken = FALSE,
                         !.plan = CHOOSE p \in plans : TRUE]]
  /\ NoWrite /\ UNCHANGED <<clock, token, actions, issued>>

\* Whether a commit leaves the tenant of a request open.
FoundOpen(x) ==
  \/ x.actor = "TENANT" /\ \E t \in {x.principal[2]} : TenantOpen(t)'
  \/ x.actor = "DELEGATED"
       /\ \E t \in {session(x.principal[2]).tenant} : operational(t)'

\* What the other requests notice of a commit that writes the documents D.
Noticed(i, D) ==
  IF job[i] = Idle THEN Idle
  ELSE [job[i] EXCEPT
         !.overtaken = @ \/ (job[i].stage = "commit"
                               /\ DOMAIN job[i].plan.put \cap D # {}),
         !.up = @ \/ FoundOpen(job[i])]

Commit(j) ==
  /\ job[j] # Idle /\ job[j].stage = "commit" /\ ~job[j].overtaken
  /\ LET p == job[j].plan
         delegated == job[j].actor = "DELEGATED"
     IN /\ db' = [d \in Doc |-> IF d \in DOMAIN p.put THEN p.put[d] ELSE db[d]]
        /\ audit' = p.event
        /\ actions' = IF delegated
                      THEN [actions EXCEPT ![job[j].principal[2]].changed = @ + 1]
                      ELSE actions
        /\ job' = [i \in Jobs |->
             IF i # j THEN Noticed(i, DOMAIN p.put)
             ELSE IF delegated \/ job[j].actor = "PUBLIC"
             THEN [job[j] EXCEPT !.stage = "answer"] ELSE Idle]
  /\ UNCHANGED <<clock, token, issued>>

\* Mutated form: only the commit is tried again, not the handler.
RetryCommit(j) ==
  /\ job[j] # Idle /\ job[j].stage = "commit" /\ job[j].overtaken
  /\ job' = [job EXCEPT ![j].overtaken = FALSE]
  /\ NoWrite /\ UNCHANGED <<clock, token, actions, issued>>

\* withTransaction runs the handler again after a write conflict.
Retry(j) ==
  /\ job[j] # Idle /\ job[j].stage = "commit" /\ job[j].overtaken
  /\ job' = [job EXCEPT ![j].stage = "handler", ![j].plan = None]
  /\ NoWrite /\ UNCHANGED <<clock, token, actions, issued>>

\* The completion of a delegated action is recorded after its handler.
Completed(j) ==
  /\ job[j] # Idle /\ job[j].stage = "answer" /\ job[j].actor = "DELEGATED"
  /\ actions' = [actions EXCEPT ![job[j].principal[2]].completed = @ + 1]
  /\ job' = [job EXCEPT ![j] = Idle]
  /\ NoWrite /\ UNCHANGED <<clock, token, issued>>

\* The token a code bought expires no later than its session; one that would
\* be expired already is refused.
issue(j) ==
  /\ job[j] # Idle /\ job[j].stage = "answer" /\ job[j].actor = "PUBLIC"
  /\ LET s == job[j].principal[2]
         last == session(s).expiresAt
         expiration == IF clock + TokenTTL < last THEN clock + TokenTTL ELSE last
     IN IF expiration <= clock
        THEN UNCHANGED <<token, issued>>
        ELSE /\ token' = [token EXCEPT ![s] = expiration]
             /\ issued' = [issued EXCEPT ![s] = @ + 1]
  /\ job' = [job EXCEPT ![j] = Idle]
  /\ NoWrite /\ UNCHANGED <<clock, actions>>

\* A process dies, an audit write fails, or the driver gives up on an open
\* transaction: the request ends where it is.
Lost(j) ==
  /\ job[j] # Idle
  /\ job' = [job EXCEPT ![j] = Idle]
  /\ NoWrite /\ UNCHANGED <<clock, token, actions, issued>>

Tick ==
  /\ clock < MaxTime
  /\ clock' = clock + 1
  /\ NoWrite /\ UNCHANGED <<token, job, actions, issued>>

-----------------------------------------------------------------------------
TenancyInit ==
  /\ AccountsInit
  /\ clock = 1
  /\ token = [s \in Sessions |-> 0]
  /\ job = [j \in Jobs |-> Idle]
  /\ actions = [s \in Sessions |-> [attempted |-> 0, changed |-> 0, completed |-> 0]]
  /\ issued = [s \in Sessions |-> 0]

TenancyNext ==
  \/ \E j \in Jobs :
       \/ InternalRequest(j) \/ exchangeDelegated(j)
       \/ TenantRequest(j) \/ DelegatedRequest(j)
       \/ authenticateTenant(j) \/ authenticateSession(j)
       \/ operationalContext(j) \/ intercept(j)
       \/ Decide(j) \/ Commit(j) \/ Retry(j)
       \/ Completed(j) \/ issue(j) \/ Lost(j)
  \/ Tick

TenancySpec == TenancyInit /\ [][TenancyNext]_tenancyVars

-----------------------------------------------------------------------------
(* Properties *)

\* No request is let through on authority that was over before it arrived: a
\* delegated session that had ended or expired then admits nothing, however
\* its end races the separate reads of authenticateSession, and a tenant's or
\* a session's request is let through only if the tenant was open at some
\* moment since the request arrived, though its token says otherwise.
NoLateAuthority ==
  \A j \in Jobs :
    (job[j] # Idle /\ job[j].actor \in {"TENANT", "DELEGATED"}
       /\ job[j].stage \in {"admitted", "handler", "commit", "answer"})
    => job[j].held /\ job[j].up

\* What an administrator does inside a tenant can be accounted for: the
\* session's code buys one token, however many exchanges of it run at once,
\* every change made with it was announced in the audit log before it was
\* made, and so was every action whose completion is on record.  A request
\* may die between any two of these.
DelegationAccounted ==
  \A s \in Sessions :
    /\ issued[s] <= 1
    /\ actions[s].changed <= actions[s].attempted
    /\ actions[s].completed <= actions[s].attempted
=============================================================================

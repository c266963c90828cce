------------------------------- MODULE Booking ------------------------------
(***************************************************************************)
(* Appointments of one tenant: creation (backoffice, public page, WhatsApp *)
(* conversation), rescheduling, cancellation and the start / complete /    *)
(* no-show lifecycle, with everything those handlers write in the same     *)
(* MongoDB transaction: interval locks, timeline, notification intents and *)
(* affiliate commissions.                                                  *)
(*                                                                         *)
(* Every handler runs inside DatabaseService.withTransaction: snapshot     *)
(* reads, write conflicts abort and re-run the handler.  A request is      *)
(* therefore two steps.  Opening it runs the handler's code against the    *)
(* current database and keeps the writes it decided on (a plan); Commit    *)
(* applies the plan, unless a document it writes was written by another    *)
(* commit since the snapshot, in which case Retry runs the handler again.  *)
(* Requests the handler refuses or answers from an earlier result write    *)
(* nothing and are not steps.                                              *)
(***************************************************************************)
EXTENDS Availability, Sequences, FiniteSets

CONSTANTS
  Workers,     \* requests being served concurrently
  Appts,       \* appointment ids (randomUUID)
  Staff,
  Customers,   \* customers, identified with their phone and WhatsApp thread
  Keys,        \* idempotency keys supplied by API clients
  Durations,   \* values of durationOverrideMinutes ?? durationMinutes
  Schedule,    \* [Staff -> SUBSET Interval]: schedule rows of the day
  ExceptionChoices, \* availability exceptions that may be created
  StartLead,   \* how early an appointment may be started (30 minutes)
  Sources,     \* where bookings come from
  Paths,       \* through which doors they are moved and cancelled
  Toggles,     \* which of the settings bookings read are changed meanwhile
  None,        \* no such document
  Idle         \* no open transaction

ASSUME ConstantsAssumption ==
  /\ Durations \subseteq Nat \ {0} /\ Durations # {}
  /\ Schedule \in [Staff -> SUBSET Interval]
  /\ ExceptionChoices \subseteq
       [staff : Staff, kind : {"AVAILABLE", "UNAVAILABLE"}, iv : Interval]
  /\ StartLead \in Nat
  /\ Sources \subseteq {"ADMIN", "WEB", "WHATSAPP"}
  /\ Paths \subseteq {"TENANT", "TOKEN", "CUSTOMER", "CHANNEL"}
  /\ Customers \cap Keys = {}

VARIABLES
  now,            \* the clock
  tenantActive,   \* tenant (and account) status is ACTIVE / TRIAL
  bookingEnabled, \* account.publicBookingEnabled /\ profile.bookingEnabled
  duration,       \* service duration of each staff member (staff_services)
  exceptions,     \* availability_exceptions
  appts,          \* appointments
  locks,          \* appointment_interval_locks
  timeline,       \* lifecycle events of appointment_timeline_events, in
                  \* commit order
  notices,        \* idempotency keys of the notification intents
  commissions,    \* appointments with a COMMISSION_EARNED ledger entry
  txn             \* the open transaction of each worker

settings == <<tenantActive, bookingEnabled, duration, exceptions>>
database == <<appts, locks, timeline, notices, commissions>>
vars == <<now, settings, database, txn>>

-----------------------------------------------------------------------------
(* Documents *)

Status == {"PENDING", "CONFIRMED", "IN_PROGRESS",
           "CANCELLED", "COMPLETED", "NO_SHOW"}
Changeable == {"PENDING", "CONFIRMED"}
Active == Changeable \cup {"IN_PROGRESS"}
Terminal == Status \ Active

\* A conversation books under the key conversation:<id>:booking; a customer
\* has one conversation, so the customer stands for that key.
CreateKeys == Keys \cup Customers

Appointment == [staff : Staff, customer : Customers,
                source : Sources, key : CreateKeys,
                referral : BOOLEAN, status : Status,
                startsAt : Nat, endsAt : Nat]
Lock == [staff : Staff, at : Nat, appt : Appts]
ASSUME NoneAssumption == None \notin Appointment

EventKey == ({"created", "rescheduled", "cancelled"} \X Nat)
            \cup ({"client"} \X Keys)
Event == [type : {"CREATED", "RESCHEDULED", "CANCELLED",
                  "STARTED", "COMPLETED", "NO_SHOW"},
          key : EventKey, from : Status \cup {None}, to : Status,
          startsAt : Nat, endsAt : Nat]
NoticeType == {"BOOKING_CONFIRMATION", "BOOKING_RESCHEDULED",
               "BOOKING_CANCELLED"}
Notice == [appt : Appts, type : NoticeType, at : Nat]

Exists(a) == appts[a] # None
Holds(a) == Exists(a) /\ appts[a].status \in Active
Span(d) == [from |-> d.startsAt, to |-> d.endsAt]

\* Mutated form: the last minute is forgotten.
minuteStartsShort(startsAt, endsAt) ==
  {m \in startsAt .. endsAt : m + 1 < endsAt}

\* The instants, one a minute, an appointment locks.
minuteStarts(startsAt, endsAt) == startsAt .. (endsAt - 1)

LocksOf(id, d) ==
  {[staff |-> d.staff, at |-> m, appt |-> id] :
     m \in minuteStarts(d.startsAt, d.endsAt)}

Elements(s) == {s[i] : i \in 1 .. Len(s)}
EventKeys(a) == {e.key : e \in Elements(timeline[a])}

-----------------------------------------------------------------------------
(* Reads shared by the handlers *)

ExceptionsOf(s, kind) ==
  {x.iv : x \in {e \in exceptions : e.staff = s /\ e.kind = kind}}

\* Mutated form: an appointment that has been started no longer counts.
BusyBeforeStart(s, exclude) ==
  ExceptionsOf(s, "UNAVAILABLE") \cup
  {Span(appts[a]) : a \in {b \in Appts \ exclude :
                             /\ Exists(b) /\ appts[b].status \in Changeable
                             /\ appts[b].staff = s}}

\* Intervals AvailabilityService.compute keeps free: UNAVAILABLE exceptions
\* and the staff member's active appointments, except the one being moved.
BusyFor(s, exclude) ==
  ExceptionsOf(s, "UNAVAILABLE") \cup
  {Span(appts[a]) : a \in {b \in Appts \ exclude :
                             Holds(b) /\ appts[b].staff = s}}

SlotAvailable(s, at, exclude) ==
  /\ tenantActive
  /\ at > now
  /\ at \in slots(workingIntervals(Schedule[s], ExceptionsOf(s, "AVAILABLE")),
                  BusyFor(s, exclude), duration[s])

\* insertMany into the unique (staff, minute) index, own locks released first.
Acquirable(id, d) ==
  \A m \in minuteStarts(d.startsAt, d.endsAt) :
    \A l \in locks : (l.staff = d.staff /\ l.at = m) => l.appt = id

\* ManagementAccess: who asks, and which appointments load() lets them touch.
\* CHANNEL is the conversation handler, run by the engine for active tenants.
LoadableBy(r) ==
  /\ Exists(r.id)
  /\ r.via # "TENANT" => tenantActive
  /\ r.via = "TOKEN" => appts[r.id].source = "WEB"
  /\ r.via \in {"CUSTOMER", "CHANNEL"} => appts[r.id].customer = r.customer

Access == [via : Paths \cap {"TENANT", "TOKEN"}, customer : {None}] \cup
          [via : Paths \cap {"CUSTOMER", "CHANNEL"}, customer : Customers]
publicOnly(r) == r.via \in {"TOKEN", "CUSTOMER"}

-----------------------------------------------------------------------------
(* What each handler decides: whether it writes, and its plan *)

NewDoc(r) == [staff |-> r.staff, customer |-> r.customer, source |-> r.source,
              key |-> r.key, referral |-> r.referral, status |-> "CONFIRMED",
              startsAt |-> r.at, endsAt |-> r.at + duration[r.staff]]

CreateAccepted(r) ==
  /\ ~Exists(r.id)
  /\ r.source = "WEB" => bookingEnabled /\ tenantActive
  /\ \A a \in Appts : Exists(a) => appts[a].key # r.key
  /\ SlotAvailable(r.staff, r.at, {})
  /\ Acquirable(r.id, NewDoc(r))

\* Mutated form: the intent is only left for a cancellation.
NoticeOfCancellation(id, type, at) ==
  IF type = "BOOKING_CANCELLED"
  THEN {[at |-> at, appt |-> id, type |-> type]} ELSE {}

\* The notification intent a change leaves, under its idempotency key.
NoticeOf(id, type, at) == {[at |-> at, appt |-> id, type |-> type]}

CreatePlan(r) ==
  LET doc == NewDoc(r)
  IN [id |-> r.id, doc |-> doc, drop |-> {}, add |-> LocksOf(r.id, doc),
      event |-> [from |-> None, to |-> doc.status, key |-> <<"created", 0>>,
                 startsAt |-> doc.startsAt, endsAt |-> doc.endsAt,
                 type |-> "CREATED"],
      notice |-> NoticeOf(r.id, "BOOKING_CONFIRMATION", 0),
      credit |-> {}]

OwnLocks(a) == {l \in locks : l.appt = a}

MovedTo(d, from, to) == [d EXCEPT !.startsAt = from, !.endsAt = to]
Moved(r) == MovedTo(appts[r.id], r.at, r.at + duration[appts[r.id].staff])

RescheduleAccepted(r) ==
  /\ LoadableBy(r)
  /\ publicOnly(r) => bookingEnabled /\ tenantActive
  /\ appts[r.id].status \in Changeable
  /\ r.via # "CHANNEL" => r.at # appts[r.id].startsAt
  /\ SlotAvailable(appts[r.id].staff, r.at, {r.id})
  /\ Acquirable(r.id, Moved(r))
  /\ <<"rescheduled", r.at>> \notin EventKeys(r.id)

\* The conversation handler passes no previous state to recordLifecycle, which
\* then reports the status after the change as the status before it.
PriorStatus(r, after) ==
  IF r.via = "CHANNEL" THEN after ELSE appts[r.id].status

\* Mutated form: the event carries the interval read before the update.
ReschedulePlanOldTimes(r) ==
  LET doc == Moved(r)
  IN [id |-> r.id, doc |-> doc, drop |-> OwnLocks(r.id),
      add |-> LocksOf(r.id, doc),
      event |-> [from |-> PriorStatus(r, doc.status), to |-> doc.status,
                 key |-> <<"rescheduled", r.at>>,
                 startsAt |-> appts[r.id].startsAt,
                 endsAt |-> appts[r.id].endsAt, type |-> "RESCHEDULED"],
      notice |-> NoticeOf(r.id, "BOOKING_RESCHEDULED", r.at),
      credit |-> {}]

ReschedulePlan(r) ==
  LET doc == Moved(r)
  IN [id |-> r.id, doc |-> doc, drop |-> OwnLocks(r.id),
      add |-> LocksOf(r.id, doc),
      event |-> [from |-> PriorStatus(r, doc.status), to |-> doc.status,
                 key |-> <<"rescheduled", r.at>>, startsAt |-> doc.startsAt,
                 endsAt |-> doc.endsAt, type |-> "RESCHEDULED"],
      notice |-> NoticeOf(r.id, "BOOKING_RESCHEDULED", r.at),
      credit |-> {}]

\* Mutated form: cancel does not look at the status.
CancelAnything(r) == LoadableBy(r) /\ appts[r.id].status # "CANCELLED"

CancelAccepted(r) == LoadableBy(r) /\ appts[r.id].status \in Changeable

CancelPlan(r) ==
  LET doc == [appts[r.id] EXCEPT !.status = "CANCELLED"]
  IN [id |-> r.id, doc |-> doc, drop |-> OwnLocks(r.id), add |-> {},
      event |-> [from |-> PriorStatus(r, doc.status), to |-> doc.status,
                 key |-> <<"cancelled", now>>, startsAt |-> doc.startsAt,
                 endsAt |-> doc.endsAt, type |-> "CANCELLED"],
      notice |-> NoticeOf(r.id, "BOOKING_CANCELLED", now),
      credit |-> {}]

TransitionTarget == [COMPLETED |-> "COMPLETED", NO_SHOW |-> "NO_SHOW",
                     STARTED |-> "IN_PROGRESS"]

\* Mutated form: a no-show may be reported whatever the status.
TransitionAnyNoShow(type, d) ==
  \/ type = "STARTED" /\ d.status \in Changeable
  \/ type = "COMPLETED" /\ d.status \in Active
  \/ type = "NO_SHOW" /\ d.startsAt <= now

\* start, complete and noShow: the update callbacks of the lifecycle service.
TransitionAllowed(type, d) ==
  \/ /\ type = "STARTED"
     /\ d.status \in Changeable
     /\ now + StartLead >= d.startsAt
  \/ /\ type = "COMPLETED"
     /\ \/ d.status = "IN_PROGRESS"
        \/ d.status \in Changeable /\ d.endsAt <= now
  \/ /\ type = "NO_SHOW"
     /\ d.status \in Active
     /\ d.startsAt <= now

\* Mutated form: the client's key is neither looked up nor held unique.
TransitionUnchecked(r) == Exists(r.id) /\ TransitionAllowed(r.type, appts[r.id])

TransitionAccepted(r) ==
  /\ Exists(r.id)
  /\ <<"client", r.key>> \notin EventKeys(r.id)
  /\ TransitionAllowed(r.type, appts[r.id])

\* Mutated form: only completing releases the locks.
ReleasedOnCompletion(r) == IF r.type = "COMPLETED" THEN OwnLocks(r.id) ELSE {}

\* Completing and no-show release the locks, starting keeps them.
ReleasedBy(r) == IF r.type = "STARTED" THEN {} ELSE OwnLocks(r.id)

\* Mutated form: a no-show pays the affiliate too.
CreditOnAnyOutcome(r) ==
  IF r.type # "STARTED" /\ appts[r.id].referral THEN {r.id} ELSE {}

\* The commission entry of a referred appointment.
earnCompletedCommission(r) ==
  IF r.type = "COMPLETED" /\ appts[r.id].referral THEN {r.id} ELSE {}

TransitionPlan(r) ==
  LET doc == [appts[r.id] EXCEPT !.status = TransitionTarget[r.type]]
  IN [id |-> r.id, doc |-> doc,
      drop |-> ReleasedBy(r), add |-> {},
      event |-> [from |-> appts[r.id].status, to |-> doc.status,
                 key |-> <<"client", r.key>>, startsAt |-> doc.startsAt,
                 endsAt |-> doc.endsAt, type |-> r.type],
      notice |-> {}, credit |-> earnCompletedCommission(r)]

-----------------------------------------------------------------------------
(* Transactions *)

Request ==
  [op : {"create"}, id : Appts, staff : Staff, at : Nat,
   source : Sources, customer : Customers,
   key : CreateKeys, referral : BOOLEAN] \cup
  [op : {"reschedule"}, id : Appts, at : Nat, via : Paths,
   customer : Customers \cup {None}] \cup
  [op : {"cancel"}, id : Appts, via : Paths,
   customer : Customers \cup {None}] \cup
  [op : {"transition"}, id : Appts, key : Keys,
   type : {"STARTED", "COMPLETED", "NO_SHOW"}]

Plan == [id : Appts, doc : Appointment, drop : SUBSET Lock, add : SUBSET Lock,
         event : Event, notice : SUBSET Notice, credit : SUBSET Appts]

Accepted(r) ==
  CASE r.op = "create"     -> CreateAccepted(r)
    [] r.op = "reschedule" -> RescheduleAccepted(r)
    [] r.op = "cancel"     -> CancelAccepted(r)
    [] r.op = "transition" -> TransitionAccepted(r)

PlanFor(r) ==
  CASE r.op = "create"     -> CreatePlan(r)
    [] r.op = "reschedule" -> ReschedulePlan(r)
    [] r.op = "cancel"     -> CancelPlan(r)
    [] r.op = "transition" -> TransitionPlan(r)

\* A transaction whose snapshot is the current database.
Snapshot(r) == [request |-> r, plan |-> PlanFor(r), overtaken |-> {}]

\* Mutated form: no unique index on (staff, minute).
WriteSetNoLocks(p) ==
  {<<"appt", p.id>>, <<"event", p.id, p.event.key>>} \cup
  (IF p.event.type = "CREATED" THEN {<<"key", p.doc.key>>} ELSE {})

\* Documents and unique index entries a plan writes.
WriteSet(p) ==
  {<<"appt", p.id>>, <<"event", p.id, p.event.key>>} \cup
  {<<"lock", l.staff, l.at>> : l \in p.drop \cup p.add} \cup
  (IF p.event.type = "CREATED" THEN {<<"key", p.doc.key>>} ELSE {})

Docs == ({"appt"} \X Appts) \cup ({"event"} \X Appts \X EventKey) \cup
        ({"lock"} \X Staff \X Nat) \cup ({"key"} \X CreateKeys)

Transaction == [request : Request, plan : Plan, overtaken : SUBSET Docs]

ASSUME IdleAssumption == Idle \notin Transaction

Conflict(w) == WriteSet(txn[w].plan) \cap txn[w].overtaken # {}

Open(w, r) ==
  /\ txn[w] = Idle
  /\ Accepted(r)
  /\ txn' = [txn EXCEPT ![w] = Snapshot(r)]
  /\ UNCHANGED <<now, settings, database>>

\* Ids are random, so no two open creations share one.
FreshIds == {a \in Appts : ~Exists(a) /\
               \A v \in Workers : txn[v] = Idle \/ txn[v].request.id # a}

CreateAppointment(w) ==
  \E a \in FreshIds, s \in Staff, t \in DayStart .. DayEnd, c \in Customers :
    \E src \in Sources \ {"WHATSAPP"}, k \in Keys, ref \in BOOLEAN :
      /\ ref => src = "WEB"
      /\ Open(w, [staff |-> s, customer |-> c, source |-> src, key |-> k,
                  referral |-> ref, at |-> t, id |-> a, op |-> "create"])

CreateFromConversation(w) ==
  /\ "WHATSAPP" \in Sources
  /\ \E a \in FreshIds, s \in Staff, t \in DayStart .. DayEnd, c \in Customers :
       Open(w, [staff |-> s, customer |-> c, source |-> "WHATSAPP", key |-> c,
                referral |-> FALSE, at |-> t, id |-> a, op |-> "create"])

Reschedule(w) ==
  \E a \in Appts, t \in DayStart .. DayEnd, x \in Access :
    Open(w, [customer |-> x.customer, at |-> t, id |-> a, via |-> x.via,
             op |-> "reschedule"])

Cancel(w) ==
  \E a \in Appts, x \in Access :
    Open(w, [customer |-> x.customer, id |-> a, via |-> x.via,
             op |-> "cancel"])

Transition(w) ==
  \E a \in Appts, k \in Keys, type \in {"STARTED", "COMPLETED", "NO_SHOW"} :
    Open(w, [key |-> k, type |-> type, id |-> a, op |-> "transition"])

Commit(w) ==
  /\ txn[w] # Idle
  /\ ~Conflict(w)
  /\ LET p == txn[w].plan
     IN /\ appts' = [appts EXCEPT ![p.id] = p.doc]
        /\ locks' = (locks \ p.drop) \cup p.add
        /\ timeline' = [timeline EXCEPT ![p.id] = Append(@, p.event)]
        /\ notices' = notices \cup p.notice
        /\ commissions' = commissions \cup p.credit
        /\ txn' = [v \in Workers |->
                     IF v = w THEN Idle
                     ELSE IF txn[v] = Idle THEN Idle
                     ELSE [txn[v] EXCEPT !.overtaken = @ \cup WriteSet(p)]]
  /\ UNCHANGED <<now, settings>>

\* A write conflict: withTransaction runs the handler again on a new snapshot,
\* which may now refuse the request or answer it from the earlier result.
Retry(w) ==
  /\ txn[w] # Idle
  /\ Conflict(w)
  /\ txn' = [txn EXCEPT ![w] = IF Accepted(txn[w].request)
                               THEN Snapshot(txn[w].request) ELSE Idle]
  /\ UNCHANGED <<now, settings, database>>

\* A statement fails, or the process dies: the transaction leaves nothing.
Abort(w) ==
  /\ txn[w] # Idle
  /\ txn' = [txn EXCEPT ![w] = Idle]
  /\ UNCHANGED <<now, settings, database>>

-----------------------------------------------------------------------------
(* The rest of the system, as far as bookings read it *)

Tick ==
  /\ now < DayEnd
  /\ now' = now + 1
  /\ UNCHANGED <<settings, database, txn>>

SetTenantStatus ==
  /\ "tenant" \in Toggles
  /\ tenantActive' = ~tenantActive
  /\ UNCHANGED <<now, bookingEnabled, duration, exceptions, database, txn>>

SetBookingEnabled ==
  /\ "booking" \in Toggles
  /\ bookingEnabled' = ~bookingEnabled
  /\ UNCHANGED <<now, tenantActive, duration, exceptions, database, txn>>

AddService ==
  /\ "service" \in Toggles
  /\ \E s \in Staff, d \in Durations : duration' = [duration EXCEPT ![s] = d]
  /\ UNCHANGED <<now, tenantActive, bookingEnabled, exceptions, database, txn>>

CreateException ==
  /\ \E x \in ExceptionChoices : /\ x.iv.from < x.iv.to
                                 /\ exceptions' = exceptions \cup {x}
  /\ UNCHANGED <<now, tenantActive, bookingEnabled, duration, database, txn>>

Init ==
  /\ now = DayStart
  /\ tenantActive = TRUE
  /\ bookingEnabled = TRUE
  /\ duration \in [Staff -> Durations]
  /\ exceptions = {}
  /\ appts = [a \in Appts |-> None]
  /\ locks = {}
  /\ timeline = [a \in Appts |-> <<>>]
  /\ notices = {}
  /\ commissions = {}
  /\ txn = [w \in Workers |-> Idle]

Next ==
  \/ \E w \in Workers :
       \/ CreateAppointment(w)
       \/ CreateFromConversation(w)
       \/ Reschedule(w)
       \/ Cancel(w)
       \/ Transition(w)
       \/ Commit(w)
       \/ Retry(w)
       \/ Abort(w)
  \/ Tick
  \/ SetTenantStatus
  \/ SetBookingEnabled
  \/ AddService
  \/ CreateException

Spec == Init /\ [][Next]_vars

\* What a client that repeats a lifecycle command is answered.
replay(a) == appts[a]

-----------------------------------------------------------------------------
(* Properties *)

\* Shape of the collections and of the open transactions.
TypeOK ==
  /\ now \in Nat
  /\ tenantActive \in BOOLEAN
  /\ bookingEnabled \in BOOLEAN
  /\ duration \in [Staff -> Durations]
  /\ exceptions \subseteq ExceptionChoices
  /\ appts \in [Appts -> Appointment \cup {None}]
  /\ locks \subseteq Lock
  /\ timeline \in [Appts -> Seq(Event)]
  /\ notices \subseteq Notice
  /\ commissions \subseteq Appts
  /\ txn \in [Workers -> Transaction \cup {Idle}]

\* No staff member has two active appointments at the same time, however the
\* transactions that create and move them interleave.
NoDoubleBooking ==
  \A a, b \in Appts :
    a # b /\ Holds(a) /\ Holds(b) /\ appts[a].staff = appts[b].staff =>
      ~overlaps(appts[a].startsAt, appts[a].endsAt, Span(appts[b]))

\* The interval locks are those of the active appointments, no more and no
\* fewer: cancelling, completing and no-show free exactly the appointment's
\* minutes, moving it leaves none behind, starting it keeps them.
LocksExact ==
  \A a \in Appts : OwnLocks(a) = IF Holds(a) THEN LocksOf(a, appts[a]) ELSE {}

\* The append-only history tells the appointment's present state: its last
\* lifecycle event has the current status and interval.
TimelineCurrent ==
  \A a \in Appts :
    IF ~Exists(a) THEN timeline[a] = <<>>
    ELSE /\ timeline[a] # <<>>
         /\ LET e == timeline[a][Len(timeline[a])]
            IN /\ e.to = appts[a].status
               /\ Span(e) = Span(appts[a])

\* Of the racing cancel, complete and no-show commands on an appointment one
\* commits, and no lifecycle event is recorded after it.
OneOutcome ==
  \A a \in Appts : \A i \in 1 .. Len(timeline[a]) :
    timeline[a][i].to \in Terminal => i = Len(timeline[a])

\* Retried or raced, an idempotency key creates one appointment, and a
\* lifecycle command with one key is recorded once in an appointment's history.
ExactlyOncePerKey ==
  /\ \A a, b \in Appts : Exists(a) /\ Exists(b) /\ a # b =>
                           appts[a].key # appts[b].key
  /\ \A a \in Appts : Cardinality(EventKeys(a)) = Len(timeline[a])

\* A slot the availability query offers can be taken: no interval lock of
\* another appointment stands in the way, for a new booking or for a move.
OfferedIsBookable ==
  \A s \in Staff, t \in DayStart .. DayEnd, a \in Appts :
    SlotAvailable(s, t, {a}) =>
      \A l \in locks : l.staff = s /\ l.at \in t .. (t + duration[s] - 1) =>
                       l.appt = a

\* An affiliate earns the commission of a referred appointment when, and only
\* when, it is completed.
CommissionExact ==
  commissions = {a \in Appts : /\ Exists(a) /\ appts[a].referral
                               /\ appts[a].status = "COMPLETED"}

\* Of a staff member's minute there is one lock (the unique index).
UniqueLocks ==
  \A l, m \in locks : l.staff = m.staff /\ l.at = m.at => l = m

\* Appointments last: the stored ones and those about to be written.
PositiveSpans ==
  /\ \A a \in Appts : Exists(a) => appts[a].startsAt < appts[a].endsAt
  /\ \A w \in Workers : txn[w] # Idle =>
       txn[w].plan.doc.startsAt < txn[w].plan.doc.endsAt

\* A plan touches the locks of its own appointment only; applied now it leaves
\* that appointment the locks its new state needs; nobody else holds lock l.
Owned(p) == \A l \in p.drop \cup p.add : l.appt = p.id
Fits(p) == (OwnLocks(p.id) \ p.drop) \cup p.add =
             IF p.doc.status \in Active THEN LocksOf(p.id, p.doc) ELSE {}
FreeFor(id, l) ==
  \A m \in locks : m.staff = l.staff /\ m.at = l.at => m.appt = id

\* Unless something it writes has been overtaken, what an open transaction
\* decided on its snapshot still fits the database.
PlansFit ==
  \A w \in Workers : txn[w] # Idle =>
    /\ Owned(txn[w].plan)
    /\ <<"appt", txn[w].plan.id>> \notin txn[w].overtaken => Fits(txn[w].plan)
    /\ \A l \in txn[w].plan.add :
         <<"lock", l.staff, l.at>> \notin txn[w].overtaken =>
           FreeFor(txn[w].plan.id, l)

\* Unless it has been overtaken, an open transaction is about an appointment
\* that is not over.
PlansConcernLive ==
  \A w \in Workers :
    /\ txn[w] # Idle
    /\ <<"appt", txn[w].plan.id>> \notin txn[w].overtaken
    /\ Exists(txn[w].plan.id)
    => appts[txn[w].plan.id].status \in Active

\* Together inductive: what makes snapshot isolation enough here.
LockProtocol ==
  TypeOK /\ LocksExact /\ UniqueLocks /\ PositiveSpans /\ PlansFit

\* Every committed booking, move and cancellation left the notification intent
\* that tells the customer, and no intent announces a change that did not
\* commit.
Announced == [CANCELLED |-> "BOOKING_CANCELLED",
              CREATED |-> "BOOKING_CONFIRMATION",
              RESCHEDULED |-> "BOOKING_RESCHEDULED"]
NoticePerChange ==
  notices = UNION {{[at |-> e.key[2], appt |-> a, type |-> Announced[e.type]] :
                      e \in {x \in Elements(timeline[a]) :
                               x.type \in DOMAIN Announced}} : a \in Appts}

\* docs/appointment-lifecycle.md: repeating a lifecycle command with its key
\* returns the original result.
ReplayReturnsOriginal ==
  \A a \in Appts : \A e \in Elements(timeline[a]) :
    e.key[1] = "client" => replay(a).status = e.to

\* README.md: operators can reschedule active appointments.  An active
\* appointment can be moved to every other slot the availability query offers.
MovableToOfferedSlot ==
  \A a \in Appts, t \in DayStart .. DayEnd :
    /\ Exists(a) /\ appts[a].status \in Changeable /\ appts[a].startsAt # t
    /\ SlotAvailable(appts[a].staff, t, {a})
    => RescheduleAccepted([customer |-> None, at |-> t, id |-> a,
                           via |-> "TENANT", op |-> "reschedule"])

\* A step never changes an appointment that is over, and never appends a
\* lifecycle event to its history.
TerminalFrozen ==
  [][\A a \in Appts : Exists(a) /\ appts[a].status \in Terminal =>
       appts'[a] = appts[a] /\ timeline'[a] = timeline[a]]_vars

\* The snapshot-isolated implementation is a serial calendar.
Phase(status) == IF status \in Changeable THEN "BOOKED"
                 ELSE IF status = "IN_PROGRESS" THEN "RUNNING" ELSE status
\* An appointment as the agenda shows it.
Entry == [from : Nat, to : Nat, staff : Staff,
          phase : {"BOOKED", "RUNNING"} \cup Terminal]
ASSUME EntryAssumption == None \notin Entry
calendarView ==
  [a \in Appts |-> IF ~Exists(a) THEN None
                   ELSE [from |-> appts[a].startsAt, to |-> appts[a].endsAt,
                         staff |-> appts[a].staff,
                         phase |-> Phase(appts[a].status)]]
Cal == INSTANCE Calendar WITH calendar <- calendarView

\* Booking, moving, starting and ending an appointment each take effect as one
\* step that is legal for the calendar at the moment it commits.
ImplementsCalendar == Cal!Spec

=============================================================================

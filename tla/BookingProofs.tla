---------------------------- MODULE BookingProofs ---------------------------
(***************************************************************************)
(* That the interval locks keep bookings apart, for any number of workers, *)
(* appointments, staff members, keys and instants.                         *)
(***************************************************************************)
EXTENDS Booking, TLAPS

USE DEF Changeable, Active, Status

\* What a handler decides on is a well-formed plan: creation.
LEMMA CreatePlanTyped ==
  ASSUME TypeOK, NEW r \in Request, r.op = "create"
  PROVE  CreatePlan(r) \in Plan
<1>1. /\ r.id \in Appts /\ r.staff \in Staff /\ r.at \in Nat
      /\ r.source \in Sources /\ r.customer \in Customers
      /\ r.key \in CreateKeys /\ r.referral \in BOOLEAN
  BY DEF Request
<1>2. duration[r.staff] \in Nat
  BY <1>1, ConstantsAssumption DEF TypeOK
<1>3. NewDoc(r) \in Appointment
  BY <1>1, <1>2 DEF NewDoc, Appointment
<1>4. LocksOf(r.id, NewDoc(r)) \subseteq Lock
  BY <1>1, <1>2, <1>3 DEF LocksOf, Lock, minuteStarts, Appointment
<1>5. NoticeOf(r.id, "BOOKING_CONFIRMATION", 0) \subseteq Notice
  BY <1>1 DEF NoticeOf, Notice, NoticeType
<1>6. <<"created", 0>> \in EventKey
  BY DEF EventKey
<1> QED
  BY <1>1, <1>3, <1>4, <1>5, <1>6 DEF CreatePlan, Plan, Event, Appointment

\* Moving an appointment document changes its interval and nothing else.
LEMMA MovedTyped ==
  ASSUME NEW d \in Appointment, NEW s \in Nat, NEW e \in Nat
  PROVE  /\ MovedTo(d, s, e) \in Appointment
         /\ MovedTo(d, s, e).status = d.status
         /\ MovedTo(d, s, e).staff = d.staff
         /\ MovedTo(d, s, e).startsAt = s
         /\ MovedTo(d, s, e).endsAt = e
<1> DEFINE m1 == [d EXCEPT !.startsAt = s]
<1>1. /\ m1 \in Appointment /\ m1.status = d.status /\ m1.staff = d.staff
      /\ m1.startsAt = s
  BY DEF Appointment
<1> HIDE DEF m1
<1> DEFINE m2 == [m1 EXCEPT !.endsAt = e]
<1>2. /\ m2 \in Appointment /\ m2.status = d.status /\ m2.staff = d.staff
      /\ m2.startsAt = s /\ m2.endsAt = e
  BY <1>1 DEF Appointment
<1>3. m2 = MovedTo(d, s, e)
  BY DEF m1, MovedTo
<1> QED
  BY <1>2, <1>3

\* What the reschedule handler writes into the appointment.
LEMMA MovedFacts ==
  ASSUME TypeOK, NEW r \in Request, r.op = "reschedule", RescheduleAccepted(r)
  PROVE  /\ r.id \in Appts /\ r.at \in Nat /\ r.via \in Paths
         /\ appts[r.id] \in Appointment
         /\ Moved(r) \in Appointment
         /\ Moved(r).status = appts[r.id].status
         /\ Moved(r).staff = appts[r.id].staff
         /\ Moved(r).startsAt < Moved(r).endsAt
<1>1. r.id \in Appts /\ r.at \in Nat /\ r.via \in Paths
  BY DEF Request
<1>2. appts[r.id] \in Appointment
  BY <1>1 DEF TypeOK, RescheduleAccepted, LoadableBy, Exists
<1>3. duration[appts[r.id].staff] \in Nat \ {0}
  BY <1>2, ConstantsAssumption DEF TypeOK, Appointment
<1>4. PICK d \in Appointment : d = appts[r.id]
  BY <1>2
<1>5. PICK s \in Nat : s = r.at
  BY <1>1
<1>6. PICK e \in Nat : e = r.at + duration[appts[r.id].staff]
  BY <1>1, <1>3
<1>7. s < e
  BY <1>1, <1>3, <1>5, <1>6
<1>8. Moved(r) = MovedTo(d, s, e)
  BY <1>4, <1>5, <1>6 DEF Moved
<1>9. /\ MovedTo(d, s, e) \in Appointment
      /\ MovedTo(d, s, e).status = d.status
      /\ MovedTo(d, s, e).staff = d.staff
      /\ MovedTo(d, s, e).startsAt = s
      /\ MovedTo(d, s, e).endsAt = e
  BY MovedTyped
<1>10. Moved(r).startsAt < Moved(r).endsAt
  BY <1>7, <1>8, <1>9
<1> QED
  BY <1>1, <1>2, <1>4, <1>8, <1>9, <1>10

\* ... a move,
LEMMA ReschedulePlanTyped ==
  ASSUME TypeOK, NEW r \in Request, r.op = "reschedule", RescheduleAccepted(r)
  PROVE  ReschedulePlan(r) \in Plan
<1>1. r.id \in Appts /\ r.at \in Nat /\ r.via \in Paths
  BY MovedFacts
<1>2. appts[r.id] \in Appointment
  BY MovedFacts
<1>4. Moved(r) \in Appointment /\ Moved(r).status = appts[r.id].status
  BY MovedFacts
<1>5. LocksOf(r.id, Moved(r)) \subseteq Lock
  BY <1>1, <1>4 DEF LocksOf, Lock, minuteStarts, Appointment
<1>6. OwnLocks(r.id) \subseteq Lock
  BY DEF OwnLocks, TypeOK
<1>7. NoticeOf(r.id, "BOOKING_RESCHEDULED", r.at) \subseteq Notice
  BY <1>1 DEF NoticeOf, Notice, NoticeType
<1>8. <<"rescheduled", r.at>> \in EventKey
  BY <1>1 DEF EventKey
<1>9. PriorStatus(r, Moved(r).status) \in Status
  BY <1>2, <1>4 DEF PriorStatus, Appointment
<1> QED
  BY <1>1, <1>4, <1>5, <1>6, <1>7, <1>8, <1>9
  DEF ReschedulePlan, Plan, Event, Appointment

\* ... a cancellation,
LEMMA CancelPlanTyped ==
  ASSUME TypeOK, NEW r \in Request, r.op = "cancel", CancelAccepted(r)
  PROVE  CancelPlan(r) \in Plan
<1> DEFINE doc == [appts[r.id] EXCEPT !.status = "CANCELLED"]
<1>1. r.id \in Appts /\ r.via \in Paths
  BY DEF Request
<1>2. appts[r.id] \in Appointment
  BY <1>1 DEF TypeOK, CancelAccepted, LoadableBy, Exists
<1>3. doc \in Appointment /\ doc.status = "CANCELLED"
  BY <1>2 DEF Appointment
<1>4. OwnLocks(r.id) \subseteq Lock
  BY DEF OwnLocks, TypeOK
<1>5. NoticeOf(r.id, "BOOKING_CANCELLED", now) \subseteq Notice
  BY <1>1 DEF NoticeOf, Notice, NoticeType, TypeOK
<1>6. <<"cancelled", now>> \in EventKey
  BY DEF EventKey, TypeOK
<1>7. PriorStatus(r, doc.status) \in Status
  BY <1>2, <1>3 DEF PriorStatus, Appointment
<1> QED
  BY <1>1, <1>3, <1>4, <1>5, <1>6, <1>7 DEF CancelPlan, Plan, Event, Appointment

\* ... and a start, completion or no-show.
LEMMA TransitionPlanTyped ==
  ASSUME TypeOK, NEW r \in Request, r.op = "transition", TransitionAccepted(r)
  PROVE  TransitionPlan(r) \in Plan
<1> DEFINE doc == [appts[r.id] EXCEPT !.status = TransitionTarget[r.type]]
<1>1. /\ r.id \in Appts /\ r.key \in Keys
      /\ r.type \in {"STARTED", "COMPLETED", "NO_SHOW"}
  BY DEF Request
<1>2. appts[r.id] \in Appointment
  BY <1>1 DEF TypeOK, TransitionAccepted, Exists
<1>3. TransitionTarget[r.type] \in Status
  BY <1>1 DEF TransitionTarget
<1>4. doc \in Appointment
  BY <1>2, <1>3 DEF Appointment
<1>5. ReleasedBy(r) \subseteq Lock
  BY DEF ReleasedBy, OwnLocks, TypeOK
<1>6. <<"client", r.key>> \in EventKey
  BY <1>1 DEF EventKey
<1>7. earnCompletedCommission(r) \subseteq Appts
  BY <1>1 DEF earnCompletedCommission
<1> QED
  BY <1>1, <1>2, <1>4, <1>5, <1>6, <1>7
  DEF TransitionPlan, Plan, Event, Appointment

\* What any handler decides on is a well-formed plan.
LEMMA PlanTyped ==
  ASSUME TypeOK, NEW r \in Request, Accepted(r)
  PROVE  PlanFor(r) \in Plan
<1>1. CASE r.op = "create"
  BY <1>1, CreatePlanTyped DEF PlanFor
<1>2. CASE r.op = "reschedule"
  BY <1>2, ReschedulePlanTyped DEF PlanFor, Accepted
<1>3. CASE r.op = "cancel"
  BY <1>3, CancelPlanTyped DEF PlanFor, Accepted
<1>4. CASE r.op = "transition"
  BY <1>4, TransitionPlanTyped DEF PlanFor, Accepted
<1>5. r.op \in {"create", "reschedule", "cancel", "transition"}
  BY DEF Request
<1> QED
  BY <1>1, <1>2, <1>3, <1>4, <1>5

\* The writes of a plan are documents of the database.
LEMMA WriteSetTyped ==
  ASSUME NEW p \in Plan
  PROVE  WriteSet(p) \subseteq Docs
<1>1. p.id \in Appts /\ p.event.key \in EventKey /\ p.doc.key \in CreateKeys
  BY DEF Plan, Event, Appointment
<1>2. {<<"lock", l.staff, l.at>> : l \in p.drop \cup p.add} \subseteq Docs
  BY DEF Plan, Lock, Docs
<1>3. <<"appt", p.id>> \in Docs /\ <<"key", p.doc.key>> \in Docs
  BY <1>1 DEF Docs
<1>4. <<"event", p.id, p.event.key>> \in Docs
  BY <1>1 DEF Docs
<1> QED
  BY <1>2, <1>3, <1>4 DEF WriteSet

\* A freshly made plan fits the database it was made on: creation takes locks
\* nobody holds, for an id that holds none,
LEMMA CreatePlanFits ==
  ASSUME TypeOK, LocksExact, NEW r \in Request, r.op = "create",
         CreateAccepted(r), NEW p, p = CreatePlan(r)
  PROVE  /\ p.doc.startsAt < p.doc.endsAt
         /\ Owned(p) /\ Fits(p)
         /\ \A l \in p.add : FreeFor(p.id, l)
<1>1. r.id \in Appts /\ r.staff \in Staff /\ r.at \in Nat
  BY DEF Request
<1>2. duration[r.staff] \in Nat \ {0}
  BY <1>1, ConstantsAssumption DEF TypeOK
<1>3. /\ p.id = r.id /\ p.doc = NewDoc(r) /\ p.drop = {}
      /\ p.add = LocksOf(r.id, NewDoc(r))
  BY DEF CreatePlan
<1>4. NewDoc(r).startsAt < NewDoc(r).endsAt /\ NewDoc(r).status \in Active
  BY <1>1, <1>2 DEF NewDoc
<1>5. OwnLocks(r.id) = {}
  BY <1>1 DEF LocksExact, CreateAccepted, Holds
<1>6. Owned(p)
  BY <1>3 DEF Owned, LocksOf
<1>7. Fits(p)
  BY <1>3, <1>4, <1>5 DEF Fits
<1>8. \A l \in p.add : FreeFor(p.id, l)
  BY <1>3 DEF CreateAccepted, Acquirable, FreeFor, LocksOf
<1> QED
  BY <1>3, <1>4, <1>6, <1>7, <1>8

\* ... a move trades the appointment's locks for those of its new interval,
LEMMA ReschedulePlanFits ==
  ASSUME TypeOK, NEW r \in Request, r.op = "reschedule",
         RescheduleAccepted(r), NEW p, p = ReschedulePlan(r)
  PROVE  /\ p.doc.startsAt < p.doc.endsAt
         /\ Owned(p) /\ Fits(p)
         /\ \A l \in p.add : FreeFor(p.id, l)
<1>1. /\ p.id = r.id /\ p.doc = Moved(r) /\ p.drop = OwnLocks(r.id)
      /\ p.add = LocksOf(r.id, Moved(r))
  BY DEF ReschedulePlan
<1>2. Moved(r).startsAt < Moved(r).endsAt
  BY MovedFacts
<1>3. Moved(r).status \in Active
  BY MovedFacts DEF RescheduleAccepted
<1>4. Owned(p)
  BY <1>1 DEF Owned, LocksOf, OwnLocks
<1>5. Fits(p)
  BY <1>1, <1>3 DEF Fits
<1>6. \A l \in p.add : FreeFor(p.id, l)
  BY <1>1 DEF RescheduleAccepted, Acquirable, FreeFor, LocksOf
<1> QED
  BY <1>1, <1>2, <1>4, <1>5, <1>6

\* ... a cancellation gives them up,
LEMMA CancelPlanFits ==
  ASSUME TypeOK, PositiveSpans, NEW r \in Request, r.op = "cancel",
         CancelAccepted(r), NEW p, p = CancelPlan(r)
  PROVE  /\ p.doc.startsAt < p.doc.endsAt
         /\ Owned(p) /\ Fits(p)
         /\ \A l \in p.add : FreeFor(p.id, l)
<1> DEFINE doc == [appts[r.id] EXCEPT !.status = "CANCELLED"]
<1>1. p.id = r.id /\ p.doc = doc /\ p.drop = OwnLocks(r.id) /\ p.add = {}
  BY DEF CancelPlan
<1>2. r.id \in Appts /\ Exists(r.id)
  BY DEF Request, CancelAccepted, LoadableBy
<1>3. appts[r.id] \in Appointment
  BY <1>2 DEF TypeOK, Exists
<1>4. /\ doc.status = "CANCELLED"
      /\ doc.startsAt = appts[r.id].startsAt /\ doc.endsAt = appts[r.id].endsAt
  BY <1>3 DEF Appointment
<1>5. appts[r.id].startsAt < appts[r.id].endsAt
  BY <1>2 DEF PositiveSpans
<1>6. Owned(p)
  BY <1>1 DEF Owned, OwnLocks
<1> HIDE DEF doc
<1>7. Fits(p)
  BY <1>1, <1>4 DEF Fits
<1> QED
  BY <1>1, <1>4, <1>5, <1>6, <1>7

\* ... and so do completing and no-show, while starting keeps them.
LEMMA TransitionPlanFits ==
  ASSUME TypeOK, LocksExact, PositiveSpans, NEW r \in Request,
         r.op = "transition", TransitionAccepted(r),
         NEW p, p = TransitionPlan(r)
  PROVE  /\ p.doc.startsAt < p.doc.endsAt
         /\ Owned(p) /\ Fits(p)
         /\ \A l \in p.add : FreeFor(p.id, l)
<1> DEFINE doc == [appts[r.id] EXCEPT !.status = TransitionTarget[r.type]]
<1>1. p.id = r.id /\ p.doc = doc /\ p.drop = ReleasedBy(r) /\ p.add = {}
  BY DEF TransitionPlan
<1>2. /\ r.id \in Appts /\ Exists(r.id)
      /\ r.type \in {"STARTED", "COMPLETED", "NO_SHOW"}
  BY DEF Request, TransitionAccepted
<1>3. appts[r.id] \in Appointment
  BY <1>2 DEF TypeOK, Exists
<1>4. /\ doc.status = TransitionTarget[r.type] /\ doc.staff = appts[r.id].staff
      /\ doc.startsAt = appts[r.id].startsAt /\ doc.endsAt = appts[r.id].endsAt
  BY <1>3 DEF Appointment
<1>5. appts[r.id].startsAt < appts[r.id].endsAt
  BY <1>2 DEF PositiveSpans
<1>6. Owned(p)
  BY <1>1 DEF Owned, OwnLocks, ReleasedBy
<1> HIDE DEF doc
<1>7. CASE r.type = "STARTED"
  <2>1. ReleasedBy(r) = {} /\ doc.status \in Active
    BY <1>4, <1>7 DEF ReleasedBy, TransitionTarget
  <2>2. Holds(r.id)
    BY <1>2, <1>7 DEF TransitionAccepted, TransitionAllowed, Holds
  <2>3. OwnLocks(r.id) = LocksOf(r.id, appts[r.id])
    BY <1>2, <2>2 DEF LocksExact
  <2>4. LocksOf(r.id, doc) = LocksOf(r.id, appts[r.id])
    BY <1>4 DEF LocksOf
  <2>5. Fits(p)
    BY <1>1, <2>1, <2>3, <2>4 DEF Fits
  <2> QED
    BY <1>1, <1>4, <1>5, <1>6, <2>5
<1>8. CASE r.type # "STARTED"
  <2>1. ReleasedBy(r) = OwnLocks(r.id) /\ doc.status \notin Active
    BY <1>2, <1>4, <1>8 DEF ReleasedBy, TransitionTarget
  <2>2. Fits(p)
    BY <1>1, <2>1 DEF Fits
  <2> QED
    BY <1>1, <1>4, <1>5, <1>6, <2>2
<1> QED
  BY <1>7, <1>8

\* What any handler decides on fits the database it was decided on: it leaves
\* the appointment its own locks, and takes none that another one holds.
LEMMA PlanFits ==
  ASSUME LockProtocol, NEW r \in Request, Accepted(r), NEW p, p = PlanFor(r)
  PROVE  /\ p.doc.startsAt < p.doc.endsAt
         /\ Owned(p) /\ Fits(p)
         /\ \A l \in p.add : FreeFor(p.id, l)
<1>0. TypeOK /\ LocksExact /\ PositiveSpans
  BY DEF LockProtocol
<1>1. CASE r.op = "create"
  BY <1>0, <1>1, CreatePlanFits DEF PlanFor, Accepted
<1>2. CASE r.op = "reschedule"
  BY <1>0, <1>2, ReschedulePlanFits DEF PlanFor, Accepted
<1>3. CASE r.op = "cancel"
  BY <1>0, <1>3, CancelPlanFits DEF PlanFor, Accepted
<1>4. CASE r.op = "transition"
  BY <1>0, <1>4, TransitionPlanFits DEF PlanFor, Accepted
<1>5. r.op \in {"create", "reschedule", "cancel", "transition"}
  BY DEF Request
<1> QED
  BY <1>1, <1>2, <1>3, <1>4, <1>5

\* The lock protocol holds at the start: nothing is booked, nothing is open.
LEMMA InitLockProtocol == Init => LockProtocol
<1> SUFFICES ASSUME Init PROVE LockProtocol
  OBVIOUS
<1>1. TypeOK
  BY DayAssumption, ConstantsAssumption DEF Init, TypeOK
<1>2. LocksExact
  BY DEF Init, LocksExact, OwnLocks, Holds, Exists
<1>3. UniqueLocks
  BY DEF Init, UniqueLocks
<1>4. PositiveSpans
  BY DEF Init, PositiveSpans, Exists
<1>5. PlansFit
  BY DEF Init, PlansFit
<1> QED
  BY <1>1, <1>2, <1>3, <1>4, <1>5 DEF LockProtocol

\* It survives a handler running on the current database, for the first time
\* or again.
LEMMA SnapshotKeepsLockProtocol ==
  ASSUME LockProtocol, NEW w \in Workers, NEW r \in Request, Accepted(r),
         txn' = [txn EXCEPT ![w] = Snapshot(r)],
         UNCHANGED <<now, settings, database>>
  PROVE  LockProtocol'
<1> USE DEF LockProtocol, settings, database
<1> DEFINE p == PlanFor(r)
<1>1. p \in Plan
  BY PlanTyped
<1>2. /\ p.doc.startsAt < p.doc.endsAt
      /\ Owned(p) /\ Fits(p)
      /\ \A l \in p.add : FreeFor(p.id, l)
  BY PlanFits
<1> HIDE DEF p
<1>3. /\ Snapshot(r) \in Transaction
      /\ Snapshot(r).plan = p /\ Snapshot(r).overtaken = {}
  BY <1>1 DEF Snapshot, Transaction, p
<1>4. txn' \in [Workers -> Transaction \cup {Idle}]
  BY <1>3 DEF TypeOK
<1>5. TypeOK'
  BY <1>4 DEF TypeOK
<1>6. LocksExact'
  BY DEF LocksExact, OwnLocks, Holds, Exists
<1>7. UniqueLocks'
  BY DEF UniqueLocks
<1>8. \A v \in Workers : txn'[v] = IF v = w THEN Snapshot(r) ELSE txn[v]
  BY DEF TypeOK
<1>9. PositiveSpans'
  BY <1>2, <1>3, <1>8 DEF PositiveSpans, Exists
<1>10. PlansFit'
  <2> SUFFICES ASSUME NEW v \in Workers, txn'[v] # Idle
               PROVE  /\ Owned(txn'[v].plan)
                      /\ <<"appt", txn'[v].plan.id>> \notin txn'[v].overtaken =>
                           Fits(txn[v].plan)'
                      /\ \A l \in txn'[v].plan.add :
                           <<"lock", l.staff, l.at>> \notin txn'[v].overtaken =>
                             FreeFor(txn[v].plan.id, l)'
    BY DEF PlansFit, Owned
  <2>1. CASE v = w
    BY <1>2, <1>3, <1>8, <2>1 DEF Owned, Fits, OwnLocks, FreeFor
  <2>2. CASE v # w
    BY <1>8, <2>2 DEF PlansFit, Owned, Fits, OwnLocks, FreeFor
  <2> QED
    BY <2>1, <2>2
<1> QED
  BY <1>5, <1>6, <1>7, <1>9, <1>10

\* Giving a transaction up changes no document.
LEMMA AbortKeepsLockProtocol ==
  ASSUME LockProtocol, NEW w \in Workers, txn' = [txn EXCEPT ![w] = Idle],
         UNCHANGED <<now, settings, database>>
  PROVE  LockProtocol'
<1> USE DEF LockProtocol, settings, database
<1>1. \A v \in Workers : txn'[v] = IF v = w THEN Idle ELSE txn[v]
  BY DEF TypeOK
<1>2. TypeOK'
  BY DEF TypeOK
<1>3. LocksExact'
  BY DEF LocksExact, OwnLocks, Holds, Exists
<1>4. UniqueLocks'
  BY DEF UniqueLocks
<1>5. PositiveSpans'
  BY <1>1 DEF PositiveSpans, Exists
<1>6. PlansFit'
  BY <1>1 DEF PlansFit, Owned, Fits, OwnLocks, FreeFor
<1> QED
  BY <1>2, <1>3, <1>4, <1>5, <1>6

\* The clock and the settings are no part of it.
LEMMA SettingsKeepLockProtocol ==
  ASSUME LockProtocol, UNCHANGED <<database, txn>>, TypeOK'
  PROVE  LockProtocol'
<1> USE DEF LockProtocol, database
<1>1. LocksExact'
  BY DEF LocksExact, OwnLocks, Holds, Exists
<1>2. UniqueLocks'
  BY DEF UniqueLocks
<1>3. PositiveSpans'
  BY DEF PositiveSpans, Exists
<1>4. PlansFit'
  BY DEF PlansFit, Owned, Fits, OwnLocks, FreeFor
<1> QED
  BY <1>1, <1>2, <1>3, <1>4

\* A commit that met no conflict keeps it: the committed plan fits, and every
\* transaction whose decision it invalidates sees one of its writes overtaken.
LEMMA CommitKeepsLockProtocol ==
  ASSUME LockProtocol, NEW w \in Workers, Commit(w)
  PROVE  LockProtocol'
<1> USE DEF LockProtocol
<1>0. PICK p : p = txn[w].plan
  OBVIOUS
<1>1. /\ txn[w] \in Transaction /\ p \in Plan
      /\ p.id \in Appts /\ p.doc \in Appointment /\ p.doc # None
      /\ p.drop \subseteq Lock /\ p.add \subseteq Lock
  BY <1>0, NoneAssumption DEF Commit, TypeOK, Transaction, Plan
<1>2. /\ appts' = [appts EXCEPT ![p.id] = p.doc]
      /\ locks' = (locks \ p.drop) \cup p.add
      /\ timeline' = [timeline EXCEPT ![p.id] = Append(@, p.event)]
      /\ notices' = notices \cup p.notice
      /\ commissions' = commissions \cup p.credit
      /\ now' = now /\ UNCHANGED settings
  BY <1>0 DEF Commit
<1>3. /\ <<"appt", p.id>> \notin txn[w].overtaken
      /\ \A l \in p.add : <<"lock", l.staff, l.at>> \notin txn[w].overtaken
  BY <1>0 DEF Commit, Conflict, WriteSet
<1>4. Owned(p) /\ Fits(p) /\ \A l \in p.add : FreeFor(p.id, l)
  BY <1>0, <1>3 DEF PlansFit, Commit
<1>5. p.doc.startsAt < p.doc.endsAt
  BY <1>0 DEF PositiveSpans, Commit
<1>6. WriteSet(p) \subseteq Docs
  BY <1>1, WriteSetTyped
<1>7. \A v \in Workers :
        txn'[v] = IF v = w \/ txn[v] = Idle THEN Idle
                  ELSE [txn[v] EXCEPT !.overtaken = @ \cup WriteSet(p)]
  BY <1>0 DEF Commit
<1>8. ASSUME NEW v \in Workers, v # w, txn[v] # Idle
      PROVE  /\ txn'[v] \in Transaction
             /\ txn'[v].plan = txn[v].plan
             /\ txn'[v].overtaken = txn[v].overtaken \cup WriteSet(p)
  <2>1. txn[v] \in Transaction
    BY <1>8 DEF TypeOK
  <2>2. txn'[v] = [txn[v] EXCEPT !.overtaken = @ \cup WriteSet(p)]
    BY <1>7, <1>8
  <2> HIDE DEF LockProtocol
  <2> QED
    BY <1>6, <2>1, <2>2 DEF Transaction
<1>9. TypeOK'
  <2>1. appts' \in [Appts -> Appointment \cup {None}]
    BY <1>1, <1>2 DEF TypeOK
  <2>2. locks' \subseteq Lock
    BY <1>1, <1>2 DEF TypeOK
  <2>3. p.event \in Event /\ p.notice \subseteq Notice /\ p.credit \subseteq Appts
    BY <1>1 DEF Plan
  <2>4. timeline' \in [Appts -> Seq(Event)]
    BY <1>1, <1>2, <2>3 DEF TypeOK
  <2>5. notices' \subseteq Notice /\ commissions' \subseteq Appts
    BY <1>2, <2>3 DEF TypeOK
  <2>6. txn' \in [Workers -> Transaction \cup {Idle}]
    BY <1>7, <1>8 DEF Commit
  <2> QED
    BY <1>2, <2>1, <2>2, <2>4, <2>5, <2>6 DEF TypeOK, settings
<1>10. /\ \A a \in Appts : a # p.id =>
            OwnLocks(a)' = OwnLocks(a) /\ appts'[a] = appts[a]
       /\ OwnLocks(p.id)' = (OwnLocks(p.id) \ p.drop) \cup p.add
       /\ appts'[p.id] = p.doc
  BY <1>1, <1>2, <1>4 DEF OwnLocks, Owned, TypeOK
<1>11. LocksExact'
  <2> SUFFICES ASSUME NEW a \in Appts
               PROVE  OwnLocks(a)' = IF Holds(a)' THEN LocksOf(a, appts'[a])
                                     ELSE {}
    BY DEF LocksExact, LocksOf, minuteStarts
  <2>1. CASE a = p.id
    BY <1>1, <1>4, <1>10, <2>1 DEF Fits, Holds, Exists
  <2>2. CASE a # p.id
    BY <1>10, <2>2 DEF LocksExact, Holds, Exists
  <2> QED
    BY <2>1, <2>2
<1>12. UniqueLocks'
  <2> SUFFICES ASSUME NEW l \in locks', NEW m \in locks',
                      l.staff = m.staff, l.at = m.at
               PROVE  l = m
    BY DEF UniqueLocks
  <2>1. l \in Lock /\ m \in Lock
    BY <1>9 DEF TypeOK
  <2>2. CASE l \notin p.add /\ m \notin p.add
    BY <1>2, <2>2 DEF UniqueLocks
  <2>3. CASE l \in p.add \/ m \in p.add
    <3>1. l.appt = p.id /\ m.appt = p.id
      BY <1>2, <1>4, <2>3 DEF Owned, FreeFor
    <3> QED
      BY <2>1, <3>1 DEF Lock
  <2> QED
    BY <2>2, <2>3
<1>13. PositiveSpans'
  BY <1>5, <1>7, <1>8, <1>10 DEF PositiveSpans, Exists
<1>14. PlansFit'
  <2> SUFFICES ASSUME NEW v \in Workers, txn'[v] # Idle
               PROVE  /\ Owned(txn[v].plan)'
                      /\ <<"appt", txn'[v].plan.id>> \notin txn'[v].overtaken =>
                           Fits(txn[v].plan)'
                      /\ \A l \in txn'[v].plan.add :
                           <<"lock", l.staff, l.at>> \notin txn'[v].overtaken =>
                             FreeFor(txn[v].plan.id, l)'
    BY DEF PlansFit
  <2>1. v # w /\ txn[v] # Idle
    BY <1>7
  <2>0. PICK q : q = txn[v].plan
    OBVIOUS
  <2>2. /\ txn'[v].plan = q
        /\ txn'[v].overtaken = txn[v].overtaken \cup WriteSet(p)
    BY <1>8, <2>0, <2>1
  <2>3. /\ q.id \in Appts
        /\ Owned(q)
        /\ <<"appt", q.id>> \notin txn[v].overtaken => Fits(q)
        /\ \A l \in q.add : <<"lock", l.staff, l.at>> \notin txn[v].overtaken
                              => FreeFor(q.id, l)
    BY <2>0, <2>1 DEF PlansFit, TypeOK, Transaction, Plan
  <2>4. Owned(txn[v].plan)'
    BY <2>2, <2>3 DEF Owned
  <2>5. ASSUME <<"appt", q.id>> \notin txn'[v].overtaken
        PROVE  Fits(txn[v].plan)'
    <3>1. q.id # p.id /\ Fits(q)
      BY <2>2, <2>3, <2>5 DEF WriteSet
    <3>2. OwnLocks(q.id)' = OwnLocks(q.id)
      BY <1>10, <2>3, <3>1
    <3> QED
      BY <2>2, <3>1, <3>2 DEF Fits, OwnLocks
  <2>6. ASSUME NEW l \in q.add, <<"lock", l.staff, l.at>> \notin txn'[v].overtaken
        PROVE  FreeFor(txn[v].plan.id, l)'
    <3>1. FreeFor(q.id, l)
      BY <2>2, <2>3, <2>6
    <3>2. \A m \in p.add : ~(m.staff = l.staff /\ m.at = l.at)
      BY <2>2, <2>6 DEF WriteSet
    <3> QED
      BY <1>2, <2>2, <3>1, <3>2 DEF FreeFor
  <2> QED
    BY <2>2, <2>4, <2>5, <2>6
<1> QED
  BY <1>9, <1>11, <1>12, <1>13, <1>14

\* Every request a handler is opened with is well formed.
LEMMA RequestsOpen ==
  ASSUME NEW w \in Workers,
         \/ CreateAppointment(w) \/ CreateFromConversation(w)
         \/ Reschedule(w) \/ Cancel(w) \/ Transition(w)
  PROVE  \E r \in Request : Open(w, r)
<1>0. DayStart .. DayEnd \subseteq Nat
  BY DayAssumption
<1>1. CASE CreateAppointment(w)
  <2>1. PICK a \in FreshIds, s \in Staff, t \in DayStart .. DayEnd,
             c \in Customers, src \in Sources \ {"WHATSAPP"}, k \in Keys,
             ref \in BOOLEAN :
          Open(w, [op |-> "create", id |-> a, staff |-> s, at |-> t,
                   source |-> src, customer |-> c, key |-> k,
                   referral |-> ref])
    BY <1>1 DEF CreateAppointment
  <2>2. [op |-> "create", id |-> a, staff |-> s, at |-> t, source |-> src,
         customer |-> c, key |-> k, referral |-> ref] \in Request
    BY <1>0 DEF Request, CreateKeys, FreshIds
  <2> QED
    BY <2>1, <2>2
<1>2. CASE CreateFromConversation(w)
  <2>1. PICK a \in FreshIds, s \in Staff, t \in DayStart .. DayEnd,
             c \in Customers :
          Open(w, [op |-> "create", id |-> a, staff |-> s, at |-> t,
                   source |-> "WHATSAPP", customer |-> c, key |-> c,
                   referral |-> FALSE])
    BY <1>2 DEF CreateFromConversation
  <2>2. "WHATSAPP" \in Sources
    BY <1>2 DEF CreateFromConversation
  <2>3. [op |-> "create", id |-> a, staff |-> s, at |-> t,
         source |-> "WHATSAPP", customer |-> c, key |-> c,
         referral |-> FALSE] \in Request
    BY <1>0, <2>2 DEF Request, CreateKeys, FreshIds
  <2> QED
    BY <2>1, <2>3
<1>3. CASE Reschedule(w)
  <2>1. PICK a \in Appts, t \in DayStart .. DayEnd, x \in Access :
          Open(w, [op |-> "reschedule", id |-> a, at |-> t, via |-> x.via,
                   customer |-> x.customer])
    BY <1>3 DEF Reschedule
  <2>2. x.via \in Paths /\ x.customer \in Customers \cup {None}
    BY DEF Access
  <2>3. [op |-> "reschedule", id |-> a, at |-> t, via |-> x.via,
         customer |-> x.customer] \in Request
    BY <1>0, <2>2 DEF Request
  <2> QED
    BY <2>1, <2>3
<1>4. CASE Cancel(w)
  <2>1. PICK a \in Appts, x \in Access :
          Open(w, [op |-> "cancel", id |-> a, via |-> x.via,
                   customer |-> x.customer])
    BY <1>4 DEF Cancel
  <2>2. x.via \in Paths /\ x.customer \in Customers \cup {None}
    BY DEF Access
  <2>3. [op |-> "cancel", id |-> a, via |-> x.via,
         customer |-> x.customer] \in Request
    BY <2>2 DEF Request
  <2> QED
    BY <2>1, <2>3
<1>5. CASE Transition(w)
  <2>1. PICK a \in Appts, k \in Keys,
             type \in {"STARTED", "COMPLETED", "NO_SHOW"} :
          Open(w, [op |-> "transition", id |-> a, key |-> k, type |-> type])
    BY <1>5 DEF Transition
  <2>2. [op |-> "transition", id |-> a, key |-> k, type |-> type] \in Request
    BY DEF Request
  <2> QED
    BY <2>1, <2>2
<1> QED
  BY <1>1, <1>2, <1>3, <1>4, <1>5

\* Every step of the system keeps the lock protocol.
LEMMA NextKeepsLockProtocol ==
  ASSUME LockProtocol, [Next]_vars
  PROVE  LockProtocol'
<1>0. TypeOK
  BY DEF LockProtocol
<1>1. CASE \E w \in Workers :
             \/ CreateAppointment(w) \/ CreateFromConversation(w)
             \/ Reschedule(w) \/ Cancel(w) \/ Transition(w)
  BY <1>1, RequestsOpen, SnapshotKeepsLockProtocol DEF Open
<1>2. CASE \E w \in Workers : Commit(w)
  BY <1>2, CommitKeepsLockProtocol
<1>3. CASE \E w \in Workers : Retry(w)
  <2>1. PICK w \in Workers : Retry(w)
    BY <1>3
  <2>2. txn[w].request \in Request
    BY <1>0, <2>1 DEF Retry, TypeOK, Transaction
  <2>3. CASE Accepted(txn[w].request)
    <3>1. PICK r \in Request : r = txn[w].request
      BY <2>2
    <3>2. Accepted(r) /\ txn' = [txn EXCEPT ![w] = Snapshot(r)]
      BY <2>1, <2>3, <3>1 DEF Retry
    <3> QED
      BY <2>1, <3>2, SnapshotKeepsLockProtocol DEF Retry
  <2>4. CASE ~Accepted(txn[w].request)
    BY <2>1, <2>4, AbortKeepsLockProtocol DEF Retry
  <2> QED
    BY <2>3, <2>4
<1>4. CASE \E w \in Workers : Abort(w)
  BY <1>4, AbortKeepsLockProtocol DEF Abort
<1>5. CASE Tick
  <2>1. TypeOK'
    BY <1>0, <1>5 DEF Tick, TypeOK, settings, database
  <2> QED
    BY <1>5, <2>1, SettingsKeepLockProtocol DEF Tick
<1>6. CASE SetTenantStatus \/ SetBookingEnabled \/ AddService \/ CreateException
  <2>1. TypeOK'
    BY <1>0, <1>6 DEF SetTenantStatus, SetBookingEnabled, AddService,
                      CreateException, TypeOK, database
  <2> QED
    BY <1>6, <2>1, SettingsKeepLockProtocol
    DEF SetTenantStatus, SetBookingEnabled, AddService, CreateException
<1>7. CASE UNCHANGED vars
  <2>1. TypeOK'
    BY <1>0, <1>7 DEF vars, TypeOK, settings, database
  <2> QED
    BY <1>7, <2>1, SettingsKeepLockProtocol DEF vars
<1> QED
  BY <1>1, <1>2, <1>3, <1>4, <1>5, <1>6, <1>7 DEF Next

\* The lock protocol is an invariant of the system.
THEOREM LockProtocolInvariant == Spec => []LockProtocol
<1>1. LockProtocol /\ [Next]_vars => LockProtocol'
  BY NextKeepsLockProtocol
<1> QED
  BY <1>1, InitLockProtocol, PTL DEF Spec

\* Type correctness, for every number of workers, appointments and instants.
THEOREM TypeCorrect == Spec => []TypeOK
<1>1. LockProtocol => TypeOK
  BY DEF LockProtocol
<1> QED
  BY <1>1, LockProtocolInvariant, PTL

\* The interval locks are always those of the active appointments.
THEOREM LocksAreExact == Spec => []LocksExact
<1>1. LockProtocol => LocksExact
  BY DEF LockProtocol
<1> QED
  BY <1>1, LockProtocolInvariant, PTL

\* Two active appointments of a staff member that overlapped would both lock
\* the later of their starts, but of that minute there is one lock.
LEMMA LocksKeepApart == LockProtocol => NoDoubleBooking
<1> SUFFICES ASSUME LockProtocol, NEW a \in Appts, NEW b \in Appts, a # b,
                    Holds(a), Holds(b), appts[a].staff = appts[b].staff,
                    overlaps(appts[a].startsAt, appts[a].endsAt, Span(appts[b]))
             PROVE  FALSE
  BY DEF NoDoubleBooking
<1> USE DEF LockProtocol
<1>1. appts[a] \in Appointment /\ appts[b] \in Appointment
  BY DEF TypeOK, Holds, Exists
<1>2. /\ appts[a].startsAt \in Nat /\ appts[a].endsAt \in Nat
      /\ appts[b].startsAt \in Nat /\ appts[b].endsAt \in Nat
  BY <1>1 DEF Appointment
<1>3. /\ appts[a].startsAt < appts[a].endsAt
      /\ appts[b].startsAt < appts[b].endsAt
  BY DEF PositiveSpans, Holds
<1>4. /\ appts[b].startsAt < appts[a].endsAt
      /\ appts[b].endsAt > appts[a].startsAt
  BY DEF overlaps, Span
<1>5. \E m \in Nat : /\ m \in minuteStarts(appts[a].startsAt, appts[a].endsAt)
                     /\ m \in minuteStarts(appts[b].startsAt, appts[b].endsAt)
  <2>1. CASE appts[a].startsAt <= appts[b].startsAt
    BY <1>2, <1>3, <1>4, <2>1 DEF minuteStarts
  <2>2. CASE appts[b].startsAt < appts[a].startsAt
    BY <1>2, <1>3, <1>4, <2>2 DEF minuteStarts
  <2> QED
    BY <1>2, <2>1, <2>2
<1>6. PICK m \in Nat :
        /\ m \in minuteStarts(appts[a].startsAt, appts[a].endsAt)
        /\ m \in minuteStarts(appts[b].startsAt, appts[b].endsAt)
  BY <1>5
<1>7. /\ [staff |-> appts[a].staff, at |-> m, appt |-> a] \in locks
      /\ [staff |-> appts[b].staff, at |-> m, appt |-> b] \in locks
  BY <1>6 DEF LocksExact, LocksOf, OwnLocks
<1> QED
  BY <1>7 DEF UniqueLocks

\* No staff member is ever booked twice at the same time.
THEOREM NeverDoubleBooked == Spec => []NoDoubleBooking
  BY LocksKeepApart, LockProtocolInvariant, PTL

-----------------------------------------------------------------------------
(* Appointments that are over stay as they are *)

\* A handler accepts a change of an appointment only while it is not over.
LEMMA AcceptedConcernsLive ==
  ASSUME NEW r \in Request, Accepted(r)
  PROVE  /\ PlanFor(r).id = r.id
         /\ Exists(r.id) => appts[r.id].status \in Active
<1>1. CASE r.op = "create"
  BY <1>1 DEF Accepted, PlanFor, CreateAccepted, CreatePlan
<1>2. CASE r.op = "reschedule"
  BY <1>2 DEF Accepted, PlanFor, RescheduleAccepted, ReschedulePlan
<1>3. CASE r.op = "cancel"
  BY <1>3 DEF Accepted, PlanFor, CancelAccepted, CancelPlan
<1>4. CASE r.op = "transition"
  BY <1>4 DEF Accepted, PlanFor, TransitionAccepted, TransitionAllowed,
              TransitionPlan
<1> QED
  BY <1>1, <1>2, <1>3, <1>4 DEF Request

\* A snapshot is about an appointment that is not over.
LEMMA SnapshotConcernsLive ==
  ASSUME TypeOK, PlansConcernLive, NEW w \in Workers, NEW r \in Request,
         Accepted(r), txn' = [txn EXCEPT ![w] = Snapshot(r)],
         UNCHANGED appts
  PROVE  PlansConcernLive'
<1>1. /\ Snapshot(r).plan.id = r.id
      /\ Exists(r.id) => appts[r.id].status \in Active
  BY AcceptedConcernsLive DEF Snapshot
<1>2. \A v \in Workers : txn'[v] = IF v = w THEN Snapshot(r) ELSE txn[v]
  BY DEF TypeOK
<1> QED
  BY <1>1, <1>2 DEF PlansConcernLive, Exists

\* A commit overtakes whoever else was about to change the same appointment.
LEMMA CommitConcernsLive ==
  ASSUME TypeOK, PlansConcernLive, NEW w \in Workers, Commit(w)
  PROVE  PlansConcernLive'
<1>1. PICK p \in Plan : p = txn[w].plan
  BY DEF Commit, TypeOK, Transaction
<1>2. /\ appts' = [appts EXCEPT ![p.id] = p.doc]
      /\ txn' = [v \in Workers |->
                   IF v = w THEN Idle
                   ELSE IF txn[v] = Idle THEN Idle
                   ELSE [txn[v] EXCEPT !.overtaken = @ \cup WriteSet(p)]]
  BY <1>1 DEF Commit
<1> SUFFICES ASSUME NEW v \in Workers, txn'[v] # Idle,
                    <<"appt", txn'[v].plan.id>> \notin txn'[v].overtaken,
                    Exists(txn[v].plan.id)'
             PROVE  appts'[txn'[v].plan.id].status \in Active
  BY DEF PlansConcernLive
<1>3. PICK t \in Transaction : t = txn[v]
  BY <1>2 DEF TypeOK
<1>4. /\ t # Idle
      /\ txn'[v] = [t EXCEPT !.overtaken = @ \cup WriteSet(p)]
  BY <1>2, <1>3
<1>5. txn'[v].plan = t.plan /\ txn'[v].overtaken = t.overtaken \cup WriteSet(p)
  BY <1>4 DEF Transaction
<1>6. t.plan.id # p.id
  BY <1>5 DEF WriteSet
<1>7. appts'[t.plan.id] = appts[t.plan.id]
  BY <1>2, <1>3, <1>6 DEF TypeOK, Transaction, Plan
<1> QED
  BY <1>3, <1>4, <1>5, <1>7 DEF PlansConcernLive, Exists

\* Every step keeps open transactions to appointments that are not over.
LEMMA NextConcernsLive ==
  ASSUME TypeOK, PlansConcernLive, [Next]_vars
  PROVE  PlansConcernLive'
<1>1. CASE \E w \in Workers :
             \/ CreateAppointment(w) \/ CreateFromConversation(w)
             \/ Reschedule(w) \/ Cancel(w) \/ Transition(w)
  BY <1>1, RequestsOpen, SnapshotConcernsLive DEF Open, database
<1>2. CASE \E w \in Workers : Commit(w)
  BY <1>2, CommitConcernsLive
<1>3. CASE \E w \in Workers : Retry(w)
  <2>1. PICK w \in Workers : Retry(w)
    BY <1>3
  <2>2. PICK r \in Request : r = txn[w].request
    BY <2>1 DEF Retry, TypeOK, Transaction
  <2>3. CASE Accepted(r)
    BY <2>1, <2>2, <2>3, SnapshotConcernsLive DEF Retry, database
  <2>4. CASE ~Accepted(r)
    BY <2>1, <2>2, <2>4 DEF Retry, database, PlansConcernLive, TypeOK, Exists
  <2> QED
    BY <2>3, <2>4
<1>4. CASE \E w \in Workers : Abort(w)
  BY <1>4 DEF Abort, database, PlansConcernLive, TypeOK, Exists
<1>5. CASE UNCHANGED <<database, txn>>
  BY <1>5 DEF database, PlansConcernLive, Exists
<1> QED
  BY <1>1, <1>2, <1>3, <1>4, <1>5
     DEF Next, vars, Tick, SetTenantStatus, SetBookingEnabled, AddService,
         CreateException

\* Only a commit writes appointments, and never one that is over.
LEMMA StepsLeaveOutcomes ==
  ASSUME TypeOK, PlansConcernLive, [Next]_vars,
         NEW a \in Appts, Exists(a), appts[a].status \in Terminal
  PROVE  appts'[a] = appts[a] /\ timeline'[a] = timeline[a]
<1>1. CASE \E w \in Workers : Commit(w)
  <2>1. PICK w \in Workers : Commit(w)
    BY <1>1
  <2>2. PICK p \in Plan : p = txn[w].plan
    BY <2>1 DEF Commit, TypeOK, Transaction
  <2>3. <<"appt", p.id>> \notin txn[w].overtaken
    BY <2>1, <2>2 DEF Commit, Conflict, WriteSet
  <2>4. p.id # a
    BY <2>1, <2>2, <2>3 DEF Commit, PlansConcernLive, Terminal
  <2> QED
    BY <2>1, <2>2, <2>4 DEF Commit, TypeOK
<1>2. CASE UNCHANGED database
  BY <1>2 DEF database
<1>3. \/ \E w \in Workers : Commit(w)
      \/ UNCHANGED database
  <2>1. ASSUME NEW w \in Workers,
               \/ CreateAppointment(w) \/ CreateFromConversation(w)
               \/ Reschedule(w) \/ Cancel(w) \/ Transition(w)
        PROVE  UNCHANGED database
    BY <2>1, RequestsOpen DEF Open
  <2>2. ASSUME NEW w \in Workers, Retry(w) \/ Abort(w)
        PROVE  UNCHANGED database
    BY <2>2 DEF Retry, Abort
  <2>3. CASE Tick \/ SetTenantStatus \/ SetBookingEnabled \/ AddService
             \/ CreateException \/ UNCHANGED vars
    BY <2>3 DEF Tick, SetTenantStatus, SetBookingEnabled, AddService,
                CreateException, vars
  <2> QED
    BY <2>1, <2>2, <2>3 DEF Next
<1> QED
  BY <1>1, <1>2, <1>3

\* Whichever of cancelling, completing and no-show commits first is the outcome:
\* no step changes the appointment or its lifecycle history afterwards.
THEOREM OutcomesAreFinal == Spec => TerminalFrozen
<1>1. Init => PlansConcernLive
  BY DEF Init, PlansConcernLive
<1>2. TypeOK /\ PlansConcernLive /\ [Next]_vars => PlansConcernLive'
  BY NextConcernsLive
<1>3. TypeOK /\ PlansConcernLive /\ [Next]_vars =>
        [\A a \in Appts : Exists(a) /\ appts[a].status \in Terminal =>
           appts'[a] = appts[a] /\ timeline'[a] = timeline[a]]_vars
  BY StepsLeaveOutcomes
<1> QED
  BY <1>1, <1>2, <1>3, TypeCorrect, PTL DEF Spec, TerminalFrozen
=============================================================================

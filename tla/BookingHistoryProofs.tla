------------------------- MODULE BookingHistoryProofs ------------------------
(***************************************************************************)
(* That the history, the notification intents, the commissions and the     *)
(* agenda seen from outside follow the appointments exactly, for any       *)
(* number of workers, appointments, staff members, keys and instants.      *)
(***************************************************************************)
EXTENDS BookingProofs, FiniteSetTheorems

\* A plan agrees with itself: its event and its intent tell what its document
\* says, and its commission is that of a completed referral.
Coherent(p) ==
  /\ p.event.to = p.doc.status
  /\ Span(p.event) = Span(p.doc)
  /\ p.notice = IF p.event.type \in DOMAIN Announced
                THEN {[at |-> p.event.key[2], appt |-> p.id,
                       type |-> Announced[p.event.type]]}
                ELSE {}
  /\ p.credit = IF p.doc.status = "COMPLETED" /\ p.doc.referral
                THEN {p.id} ELSE {}
  /\ p.event.key[1] = "cancelled" => p.doc.status = "CANCELLED"
  /\ p.event.type = "CREATED" => p.doc.status = "CONFIRMED"

\* What a change may make of the appointment d: move it, start it or end it.
MayBecome(d, e) ==
  /\ e.staff = d.staff /\ e.key = d.key
  /\ \/ d.status \in Changeable /\ e.status = d.status
     \/ /\ Span(e) = Span(d)
        /\ \/ d.status \in Changeable /\ e.status = "IN_PROGRESS"
           \/ e.status \in Terminal /\ (e.status = "CANCELLED" =>
                                          d.status \in Changeable)

\* Applied now, the plan records something new: it creates an appointment, or
\* changes one that is not over.
Follows(p) ==
  /\ p.event.key \notin EventKeys(p.id)
  /\ IF ~Exists(p.id) THEN p.event.type = "CREATED"
     ELSE /\ p.event.type # "CREATED"
          /\ appts[p.id].status \in Active
          /\ MayBecome(appts[p.id], p.doc)

\* No appointment was created with this key.
KeyFree(k) == \A a \in Appts : Exists(a) => appts[a].key # k

\* What an open transaction decided, unless what it writes was overtaken.
PlansAgree ==
  \A w \in Workers : txn[w] # Idle =>
    /\ Coherent(txn[w].plan)
    /\ <<"appt", txn[w].plan.id>> \notin txn[w].overtaken =>
         Follows(txn[w].plan)
    /\ /\ txn[w].plan.event.type = "CREATED"
       /\ <<"key", txn[w].plan.doc.key>> \notin txn[w].overtaken
       => KeyFree(txn[w].plan.doc.key)

KeysOnce ==
  \A a, b \in Appts : Exists(a) /\ Exists(b) /\ a # b =>
                        appts[a].key # appts[b].key

\* Every event of an appointment's history has a key of its own, and one under
\* the key of a cancellation records one.
EventsOnce ==
  \A a \in Appts :
    /\ IsFiniteSet(EventKeys(a))
    /\ Cardinality(EventKeys(a)) = Len(timeline[a])
CancellationsEnd ==
  \A a \in Appts : \A i \in 1 .. Len(timeline[a]) :
    timeline[a][i].key[1] = "cancelled" => timeline[a][i].to = "CANCELLED"

\* Together inductive: what the tables that follow the appointments say.
History ==
  /\ PlansAgree
  /\ TimelineCurrent
  /\ OneOutcome
  /\ KeysOnce
  /\ EventsOnce
  /\ CancellationsEnd
  /\ CommissionExact
  /\ NoticePerChange
-----------------------------------------------------------------------------
(* What a handler decides on agrees with the database it was decided on *)

USE DEF Changeable, Active, Status, Terminal

\* Creation: an appointment that is not there has no history.
LEMMA CreateAgrees ==
  ASSUME TypeOK, TimelineCurrent, NEW r \in Request, r.op = "create",
         CreateAccepted(r), NEW p, p = CreatePlan(r)
  PROVE  Coherent(p) /\ Follows(p) /\ KeyFree(p.doc.key)
<1>1. /\ p.id = r.id /\ p.doc = NewDoc(r)
      /\ p.notice = NoticeOf(r.id, "BOOKING_CONFIRMATION", 0) /\ p.credit = {}
  BY DEF CreatePlan
<1>2. /\ p.event.to = NewDoc(r).status /\ p.event.type = "CREATED"
      /\ p.event.key = <<"created", 0>>
      /\ p.event.startsAt = NewDoc(r).startsAt
      /\ p.event.endsAt = NewDoc(r).endsAt
  BY DEF CreatePlan
<1>3. NewDoc(r).status = "CONFIRMED" /\ NewDoc(r).key = r.key
  BY DEF NewDoc
<1>4. r.id \in Appts /\ ~Exists(r.id)
  BY DEF Request, CreateAccepted
<1>5. EventKeys(r.id) = {}
  BY <1>4 DEF TimelineCurrent, EventKeys, Elements
<1>6. Coherent(p)
  BY <1>1, <1>2, <1>3 DEF Coherent, Span, Announced, NoticeOf
<1>7. Follows(p)
  BY <1>1, <1>2, <1>4, <1>5 DEF Follows
<1>8. KeyFree(p.doc.key)
  BY <1>1, <1>3 DEF KeyFree, CreateAccepted
<1> QED
  BY <1>6, <1>7, <1>8

\* ... a move, whose key the history must not hold yet,
LEMMA RescheduleAgrees ==
  ASSUME TypeOK, NEW r \in Request, r.op = "reschedule",
         RescheduleAccepted(r), NEW p, p = ReschedulePlan(r)
  PROVE  Coherent(p) /\ Follows(p)
<1>1. /\ p.id = r.id /\ p.doc = Moved(r)
      /\ p.notice = NoticeOf(r.id, "BOOKING_RESCHEDULED", r.at)
      /\ p.credit = {}
  BY DEF ReschedulePlan
<1>2. /\ p.event.to = Moved(r).status /\ p.event.type = "RESCHEDULED"
      /\ p.event.key = <<"rescheduled", r.at>>
      /\ p.event.startsAt = Moved(r).startsAt
      /\ p.event.endsAt = Moved(r).endsAt
  BY DEF ReschedulePlan
<1>3. /\ r.id \in Appts /\ Exists(r.id)
      /\ appts[r.id].status \in Changeable
      /\ <<"rescheduled", r.at>> \notin EventKeys(r.id)
  BY DEF Request, RescheduleAccepted, LoadableBy
<1>4. /\ appts[r.id] \in Appointment
      /\ Moved(r).status = appts[r.id].status
      /\ Moved(r).staff = appts[r.id].staff
  BY MovedFacts
<1>5. Moved(r).key = appts[r.id].key
  BY <1>4 DEF Moved, MovedTo, Appointment
<1>6. Coherent(p)
  BY <1>1, <1>2, <1>3, <1>4 DEF Coherent, Span, Announced, NoticeOf
<1>7. Follows(p)
  BY <1>1, <1>2, <1>3, <1>4, <1>5 DEF Follows, MayBecome
<1> QED
  BY <1>6, <1>7

\* ... a cancellation: the history of an appointment that is not over holds
\* none, for the last of its events tells its status,
LEMMA CancelAgrees ==
  ASSUME TypeOK, TimelineCurrent, OneOutcome, CancellationsEnd,
         NEW r \in Request, r.op = "cancel", CancelAccepted(r),
         NEW p, p = CancelPlan(r)
  PROVE  Coherent(p) /\ Follows(p)
<1>1. PICK doc : doc = [appts[r.id] EXCEPT !.status = "CANCELLED"]
  OBVIOUS
<1>2. /\ p.id = r.id /\ p.doc = doc /\ p.credit = {}
      /\ p.notice = NoticeOf(r.id, "BOOKING_CANCELLED", now)
  BY <1>1 DEF CancelPlan
<1>3. /\ p.event.to = doc.status /\ p.event.type = "CANCELLED"
      /\ p.event.key = <<"cancelled", now>>
      /\ p.event.startsAt = doc.startsAt /\ p.event.endsAt = doc.endsAt
  BY <1>1 DEF CancelPlan
<1>4. /\ r.id \in Appts /\ Exists(r.id)
      /\ appts[r.id].status \in Changeable
  BY DEF Request, CancelAccepted, LoadableBy
<1>5. appts[r.id] \in Appointment
  BY <1>4 DEF TypeOK, Exists
<1>6. /\ doc.status = "CANCELLED" /\ doc.staff = appts[r.id].staff
      /\ doc.key = appts[r.id].key
      /\ doc.startsAt = appts[r.id].startsAt /\ doc.endsAt = appts[r.id].endsAt
  BY <1>1, <1>5 DEF Appointment
<1>7. <<"cancelled", now>> \notin EventKeys(r.id)
  <2> SUFFICES ASSUME NEW i \in 1 .. Len(timeline[r.id]),
                      timeline[r.id][i].key = <<"cancelled", now>>
               PROVE  FALSE
    BY DEF EventKeys, Elements
  <2>1. timeline[r.id][i].to = "CANCELLED"
    BY <1>4 DEF CancellationsEnd
  <2>2. i = Len(timeline[r.id])
    BY <1>4, <2>1 DEF OneOutcome
  <2> QED
    BY <1>4, <2>1, <2>2 DEF TimelineCurrent
<1>8. Coherent(p)
  BY <1>2, <1>3, <1>6 DEF Coherent, Span, Announced, NoticeOf
<1>9. Follows(p)
  BY <1>2, <1>3, <1>4, <1>6, <1>7 DEF Follows, MayBecome, Span
<1> QED
  BY <1>8, <1>9

\* ... and a lifecycle command, whose key the history must not hold yet.
LEMMA TransitionAgrees ==
  ASSUME TypeOK, NEW r \in Request, r.op = "transition",
         TransitionAccepted(r), NEW p, p = TransitionPlan(r)
  PROVE  Coherent(p) /\ Follows(p)
<1>1. PICK doc : doc = [appts[r.id] EXCEPT !.status = TransitionTarget[r.type]]
  OBVIOUS
<1>2. /\ p.id = r.id /\ p.doc = doc /\ p.notice = {}
      /\ p.credit = earnCompletedCommission(r)
  BY <1>1 DEF TransitionPlan
<1>3. /\ p.event.to = doc.status /\ p.event.type = r.type
      /\ p.event.key = <<"client", r.key>>
      /\ p.event.startsAt = doc.startsAt /\ p.event.endsAt = doc.endsAt
  BY <1>1 DEF TransitionPlan
<1>4. /\ r.id \in Appts /\ Exists(r.id)
      /\ r.type \in {"STARTED", "COMPLETED", "NO_SHOW"}
      /\ <<"client", r.key>> \notin EventKeys(r.id)
      /\ TransitionAllowed(r.type, appts[r.id])
  BY DEF Request, TransitionAccepted
<1>5. appts[r.id] \in Appointment
  BY <1>4 DEF TypeOK, Exists
<1>6. /\ doc.status = TransitionTarget[r.type]
      /\ doc.staff = appts[r.id].staff /\ doc.key = appts[r.id].key
      /\ doc.startsAt = appts[r.id].startsAt /\ doc.endsAt = appts[r.id].endsAt
      /\ doc.referral = appts[r.id].referral
  BY <1>1, <1>5 DEF Appointment
<1>7. TransitionTarget[r.type] = IF r.type = "STARTED" THEN "IN_PROGRESS"
                                 ELSE r.type
  BY <1>4 DEF TransitionTarget
<1>8. Coherent(p)
  BY <1>2, <1>3, <1>4, <1>6, <1>7
  DEF Coherent, Span, Announced, earnCompletedCommission
<1>9. Follows(p)
  BY <1>2, <1>3, <1>4, <1>6, <1>7
  DEF Follows, MayBecome, Span, TransitionAllowed
<1> QED
  BY <1>8, <1>9

\* What any handler decides on agrees with the database it was decided on.
LEMMA PlanAgrees ==
  ASSUME TypeOK, History, NEW r \in Request, Accepted(r),
         NEW p, p = PlanFor(r)
  PROVE  /\ Coherent(p) /\ Follows(p)
         /\ p.event.type = "CREATED" => KeyFree(p.doc.key)
<1>0. TimelineCurrent /\ OneOutcome /\ CancellationsEnd
  BY DEF History
<1>1. CASE r.op = "create"
  BY <1>0, <1>1, CreateAgrees DEF PlanFor, Accepted
<1>2. CASE r.op = "reschedule"
  <2>1. Coherent(p) /\ Follows(p)
    BY <1>2, RescheduleAgrees DEF PlanFor, Accepted
  <2>2. p.event.type # "CREATED"
    BY <1>2 DEF PlanFor, ReschedulePlan
  <2> QED
    BY <2>1, <2>2
<1>3. CASE r.op = "cancel"
  <2>1. Coherent(p) /\ Follows(p)
    BY <1>0, <1>3, CancelAgrees DEF PlanFor, Accepted
  <2>2. p.event.type # "CREATED"
    BY <1>3 DEF PlanFor, CancelPlan
  <2> QED
    BY <2>1, <2>2
<1>4. CASE r.op = "transition"
  <2>1. Coherent(p) /\ Follows(p)
    BY <1>4, TransitionAgrees DEF PlanFor, Accepted
  <2>2. p.event.type # "CREATED"
    BY <1>4 DEF PlanFor, TransitionPlan, Request
  <2> QED
    BY <2>1, <2>2
<1>5. r.op \in {"create", "reschedule", "cancel", "transition"}
  BY DEF Request
<1> QED
  BY <1>1, <1>2, <1>3, <1>4, <1>5

-----------------------------------------------------------------------------
(* Every step keeps it *)

\* What a step may be: a handler runs, a transaction commits or is given up, or
\* the clock and the settings go on.
LEMMA StepKinds ==
  ASSUME TypeOK, [Next]_vars
  PROVE  \/ \E w \in Workers, r \in Request :
              /\ Accepted(r)
              /\ txn' = [txn EXCEPT ![w] = Snapshot(r)]
              /\ UNCHANGED <<now, settings, database>>
         \/ \E w \in Workers : Commit(w)
         \/ \E w \in Workers : /\ txn' = [txn EXCEPT ![w] = Idle]
                                /\ UNCHANGED <<now, settings, database>>
         \/ UNCHANGED <<database, txn>>
<1>1. CASE \E w \in Workers :
             \/ CreateAppointment(w) \/ CreateFromConversation(w)
             \/ Reschedule(w) \/ Cancel(w) \/ Transition(w)
  BY <1>1, RequestsOpen DEF Open
<1>2. CASE \E w \in Workers : Retry(w)
  <2>1. PICK w \in Workers : Retry(w)
    BY <1>2
  <2>2. PICK r \in Request : r = txn[w].request
    BY <2>1 DEF Retry, TypeOK, Transaction
  <2>3. CASE Accepted(r)
    BY <2>1, <2>2, <2>3 DEF Retry
  <2>4. CASE ~Accepted(r)
    BY <2>1, <2>2, <2>4 DEF Retry
  <2> QED
    BY <2>3, <2>4
<1>3. CASE \E w \in Workers : Abort(w)
  BY <1>3 DEF Abort
<1>4. CASE Tick \/ SetTenantStatus \/ SetBookingEnabled \/ AddService
           \/ CreateException \/ UNCHANGED vars
  BY <1>4 DEF Tick, SetTenantStatus, SetBookingEnabled, AddService,
              CreateException, vars
<1> QED
  BY <1>1, <1>2, <1>3, <1>4 DEF Next

\* What PlansAgree says of one open transaction t.
Agrees(t) ==
  /\ Coherent(t.plan)
  /\ <<"appt", t.plan.id>> \notin t.overtaken => Follows(t.plan)
  /\ /\ t.plan.event.type = "CREATED"
     /\ <<"key", t.plan.doc.key>> \notin t.overtaken
     => KeyFree(t.plan.doc.key)

\* As long as no table changes, neither does what is said of them.
LEMMA TablesKeepHistory ==
  ASSUME History, UNCHANGED database
  PROVE  /\ TimelineCurrent' /\ OneOutcome' /\ KeysOnce' /\ EventsOnce'
         /\ CancellationsEnd' /\ CommissionExact' /\ NoticePerChange'
         /\ \A t : Agrees(t) => Agrees(t)'
<1> USE DEF History, database
<1>1. TimelineCurrent' /\ OneOutcome' /\ CancellationsEnd'
  BY DEF TimelineCurrent, OneOutcome, CancellationsEnd, Exists
<1>2. KeysOnce'
  BY DEF KeysOnce, Exists
<1>3. \A a : EventKeys(a)' = EventKeys(a)
  BY DEF EventKeys
<1>4. EventsOnce'
  BY <1>3 DEF EventsOnce
<1>5. CommissionExact' /\ NoticePerChange'
  BY DEF CommissionExact, NoticePerChange, Exists
<1>6. \A t : Agrees(t) => Agrees(t)'
  BY <1>3 DEF Agrees, Follows, KeyFree, Exists
<1> QED
  BY <1>1, <1>2, <1>4, <1>5, <1>6

\* A handler runs: its decision agrees with the database.
LEMMA SnapshotKeepsHistory ==
  ASSUME TypeOK, History, NEW w \in Workers, NEW r \in Request, Accepted(r),
         txn' = [txn EXCEPT ![w] = Snapshot(r)],
         UNCHANGED database
  PROVE  History'
<1>1. \A v \in Workers : txn'[v] = IF v = w THEN Snapshot(r) ELSE txn[v]
  BY DEF TypeOK
<1>2. Agrees(Snapshot(r))
  BY PlanAgrees DEF Agrees, Snapshot
<1>3. \A v \in Workers : txn[v] # Idle => Agrees(txn[v])
  BY DEF History, PlansAgree, Agrees
<1>4. \A t : Agrees(t) => Agrees(t)'
  BY TablesKeepHistory
<1>5. \A v \in Workers : txn'[v] # Idle => Agrees(txn'[v])
  BY <1>1, <1>2, <1>3
<1>6. PlansAgree'
  BY <1>4, <1>5 DEF PlansAgree, Agrees
<1> QED
  BY <1>6, TablesKeepHistory DEF History

\* A transaction is given up, or something else happens.
LEMMA OthersKeepHistory ==
  ASSUME TypeOK, History, UNCHANGED database,
         \A v \in Workers : txn'[v] \in {Idle, txn[v]}
  PROVE  History'
<1>1. \A v \in Workers : txn[v] # Idle => Agrees(txn[v])
  BY DEF History, PlansAgree, Agrees
<1>2. \A t : Agrees(t) => Agrees(t)'
  BY TablesKeepHistory
<1>3. \A v \in Workers : txn'[v] # Idle => Agrees(txn'[v])
  BY <1>1
<1>4. PlansAgree'
  BY <1>2, <1>3 DEF PlansAgree, Agrees
<1> QED
  BY <1>4, TablesKeepHistory DEF History

\* What a commit of plan p writes into the tables that say something.
Applied(p) ==
  /\ appts' = [appts EXCEPT ![p.id] = p.doc]
  /\ timeline' = [timeline EXCEPT ![p.id] = Append(@, p.event)]
  /\ notices' = notices \cup p.notice
  /\ commissions' = commissions \cup p.credit

\* A history grows by one event, at its end.
LEMMA AppendedEvent ==
  ASSUME NEW s \in Seq(Event), NEW e \in Event
  PROVE  /\ Elements(Append(s, e)) = Elements(s) \cup {e}
         /\ Len(Append(s, e)) = Len(s) + 1
         /\ Append(s, e)[Len(s) + 1] = e
         /\ \A i \in 1 .. Len(s) : Append(s, e)[i] = s[i]
         /\ Len(s) \in Nat
<1>1. /\ Len(Append(s, e)) = Len(s) + 1 /\ Len(s) \in Nat
      /\ Append(s, e)[Len(s) + 1] = e
      /\ \A i \in 1 .. Len(s) : Append(s, e)[i] = s[i]
  OBVIOUS
<1>2. 1 .. (Len(s) + 1) = (1 .. Len(s)) \cup {Len(s) + 1}
  BY <1>1
<1>3. Elements(Append(s, e)) = Elements(s) \cup {e}
  BY <1>1, <1>2 DEF Elements
<1> QED
  BY <1>1, <1>3

\* Of the appointments and their histories a commit changes its own only.
LEMMA AppliedFacts ==
  ASSUME TypeOK, NEW p \in Plan, Applied(p)
  PROVE  /\ p.id \in Appts /\ p.doc \in Appointment /\ p.event \in Event
         /\ p.doc # None
         /\ appts'[p.id] = p.doc
         /\ timeline'[p.id] = Append(timeline[p.id], p.event)
         /\ timeline[p.id] \in Seq(Event)
         /\ \A a \in Appts : a # p.id => /\ appts'[a] = appts[a]
                                        /\ timeline'[a] = timeline[a]
                                        /\ EventKeys(a)' = EventKeys(a)
         /\ EventKeys(p.id)' = EventKeys(p.id) \cup {p.event.key}
<1>1. /\ p.id \in Appts /\ p.doc \in Appointment /\ p.event \in Event
      /\ p.doc # None
  BY NoneAssumption DEF Plan
<1>2. /\ appts'[p.id] = p.doc
      /\ timeline'[p.id] = Append(timeline[p.id], p.event)
      /\ timeline[p.id] \in Seq(Event)
  BY <1>1 DEF TypeOK, Applied
<1>3. \A a \in Appts : a # p.id =>
        appts'[a] = appts[a] /\ timeline'[a] = timeline[a]
  BY <1>1 DEF TypeOK, Applied
<1>4. \A a \in Appts : a # p.id => EventKeys(a)' = EventKeys(a)
  BY <1>3 DEF EventKeys
<1>5. Elements(timeline'[p.id]) = Elements(timeline[p.id]) \cup {p.event}
  BY <1>1, <1>2, AppendedEvent
<1>6. EventKeys(p.id)' = EventKeys(p.id) \cup {p.event.key}
  BY <1>5 DEF EventKeys
<1> QED
  BY <1>1, <1>2, <1>3, <1>4, <1>6

\* The last event tells the new state.
LEMMA CommitKeepsTimeline ==
  ASSUME TypeOK, NEW p \in Plan, Applied(p), Coherent(p), TimelineCurrent
  PROVE  TimelineCurrent'
<1> SUFFICES ASSUME NEW a \in Appts
             PROVE  IF appts'[a] = None THEN timeline'[a] = <<>>
                    ELSE /\ timeline'[a] # <<>>
                         /\ LET e == timeline'[a][Len(timeline'[a])]
                            IN /\ e.to = appts'[a].status
                               /\ Span(e) = Span(appts'[a])
  BY DEF TimelineCurrent, Exists, Span
<1>1. CASE a # p.id
  BY <1>1, AppliedFacts DEF TimelineCurrent, Exists, Span
<1>2. CASE a = p.id
  <2>1. /\ p.event \in Event /\ p.doc # None /\ appts'[a] = p.doc
        /\ timeline'[a] = Append(timeline[a], p.event)
        /\ timeline[a] \in Seq(Event)
    BY <1>2, AppliedFacts
  <2>2. /\ timeline'[a][Len(timeline'[a])] = p.event
        /\ Len(timeline'[a]) = Len(timeline[a]) + 1 /\ Len(timeline[a]) \in Nat
    BY <2>1, AppendedEvent
  <2>3. timeline'[a] # <<>>
    BY <2>1, <2>2
  <2> QED
    BY <2>1, <2>2, <2>3 DEF Coherent
<1> QED
  BY <1>1, <1>2

\* An appointment that was over got no event, so the event that ends one is the
\* last.
LEMMA CommitKeepsOutcome ==
  ASSUME TypeOK, NEW p \in Plan, Applied(p), Follows(p), TimelineCurrent,
         OneOutcome
  PROVE  OneOutcome'
<1> SUFFICES ASSUME NEW a \in Appts, NEW i \in 1 .. Len(timeline'[a]),
                    timeline'[a][i].to \in Terminal
             PROVE  i = Len(timeline'[a])
  BY DEF OneOutcome
<1>1. CASE a # p.id
  BY <1>1, AppliedFacts DEF OneOutcome
<1>2. CASE a = p.id
  <2>1. /\ p.event \in Event
        /\ timeline'[a] = Append(timeline[a], p.event)
        /\ timeline[a] \in Seq(Event)
    BY <1>2, AppliedFacts
  <2>2. /\ Len(timeline'[a]) = Len(timeline[a]) + 1 /\ Len(timeline[a]) \in Nat
        /\ \A j \in 1 .. Len(timeline[a]) : timeline'[a][j] = timeline[a][j]
    BY <2>1, AppendedEvent
  <2>3. ASSUME i # Len(timeline'[a])
        PROVE  FALSE
    <3>1. i \in 1 .. Len(timeline[a]) /\ timeline[a][i].to \in Terminal
      BY <2>2, <2>3
    <3>2. i = Len(timeline[a])
      BY <3>1 DEF OneOutcome
    <3>3. Exists(a) /\ timeline[a][i].to = appts[a].status
      BY <2>1, <3>1, <3>2 DEF TimelineCurrent
    <3> QED
      BY <1>2, <3>1, <3>3 DEF Follows
  <2> QED
    BY <2>3
<1> QED
  BY <1>1, <1>2

\* An event is recorded under a key the history did not hold.
LEMMA CommitKeepsEvents ==
  ASSUME TypeOK, NEW p \in Plan, Applied(p), Follows(p), EventsOnce
  PROVE  EventsOnce'
<1> SUFFICES ASSUME NEW a \in Appts
             PROVE  /\ IsFiniteSet(EventKeys(a)')
                    /\ Cardinality(EventKeys(a)') = Len(timeline'[a])
  BY DEF EventsOnce
<1>0. /\ IsFiniteSet(EventKeys(a))
      /\ Cardinality(EventKeys(a)) = Len(timeline[a])
  BY DEF EventsOnce
<1>1. CASE a # p.id
  BY <1>0, <1>1, AppliedFacts
<1>2. CASE a = p.id
  <2>1. /\ p.event \in Event /\ timeline[a] \in Seq(Event)
        /\ timeline'[a] = Append(timeline[a], p.event)
        /\ EventKeys(a)' = EventKeys(a) \cup {p.event.key}
    BY <1>2, AppliedFacts
  <2>2. Len(timeline'[a]) = Len(timeline[a]) + 1
    BY <2>1, AppendedEvent
  <2>3. p.event.key \notin EventKeys(a)
    BY <1>2 DEF Follows
  <2>4. /\ IsFiniteSet(EventKeys(a) \cup {p.event.key})
        /\ Cardinality(EventKeys(a) \cup {p.event.key})
             = Cardinality(EventKeys(a)) + 1
    BY <1>0, <2>3, FS_AddElement
  <2> QED
    BY <1>0, <2>1, <2>2, <2>4
<1> QED
  BY <1>1, <1>2

\* Under the key of a cancellation a cancellation is recorded.
LEMMA CommitKeepsCancellations ==
  ASSUME TypeOK, NEW p \in Plan, Applied(p), Coherent(p), CancellationsEnd
  PROVE  CancellationsEnd'
<1> SUFFICES ASSUME NEW a \in Appts, NEW i \in 1 .. Len(timeline'[a]),
                    timeline'[a][i].key[1] = "cancelled"
             PROVE  timeline'[a][i].to = "CANCELLED"
  BY DEF CancellationsEnd
<1>1. CASE a # p.id
  BY <1>1, AppliedFacts DEF CancellationsEnd
<1>2. CASE a = p.id
  <2>1. /\ p.event \in Event
        /\ timeline'[a] = Append(timeline[a], p.event)
        /\ timeline[a] \in Seq(Event)
    BY <1>2, AppliedFacts
  <2>2. /\ Len(timeline'[a]) = Len(timeline[a]) + 1 /\ Len(timeline[a]) \in Nat
        /\ timeline'[a][Len(timeline[a]) + 1] = p.event
        /\ \A j \in 1 .. Len(timeline[a]) : timeline'[a][j] = timeline[a][j]
    BY <2>1, AppendedEvent
  <2>3. CASE i \in 1 .. Len(timeline[a])
    BY <2>2, <2>3 DEF CancellationsEnd
  <2>4. CASE i = Len(timeline[a]) + 1
    BY <2>2, <2>4 DEF Coherent
  <2> QED
    BY <2>2, <2>3, <2>4
<1> QED
  BY <1>1, <1>2

\* An appointment that changes keeps its key; a new one has a key of its own.
LEMMA CommitKeepsKeys ==
  ASSUME TypeOK, NEW p \in Plan, Applied(p), Follows(p),
         p.event.type = "CREATED" => KeyFree(p.doc.key), KeysOnce
  PROVE  KeysOnce'
<1>1. ASSUME NEW a \in Appts, appts[a] # None, a # p.id
      PROVE  appts[a].key # p.doc.key
  <2>1. CASE Exists(p.id)
    BY <1>1, <2>1, AppliedFacts DEF KeysOnce, Follows, MayBecome, Exists
  <2>2. CASE ~Exists(p.id)
    BY <1>1, <2>2 DEF Follows, KeyFree, Exists
  <2> QED
    BY <2>1, <2>2
<1> QED
  BY <1>1, AppliedFacts DEF KeysOnce, Exists

\* The commission of a referral is earned when it is completed: no appointment
\* that was not over has one.
LEMMA CommitKeepsCommissions ==
  ASSUME TypeOK, NEW p \in Plan, Applied(p), Coherent(p), Follows(p),
         CommissionExact
  PROVE  CommissionExact'
<1>1. p.id \notin commissions
  BY DEF CommissionExact, Follows
<1>2. \A a \in Appts :
        a \in commissions' <=> /\ appts'[a] # None /\ appts'[a].referral
                              /\ appts'[a].status = "COMPLETED"
  <2> SUFFICES ASSUME NEW a \in Appts
               PROVE  a \in commissions' <=>
                        /\ appts'[a] # None /\ appts'[a].referral
                        /\ appts'[a].status = "COMPLETED"
    OBVIOUS
  <2>1. commissions' = commissions \cup p.credit
    BY DEF Applied
  <2>2. CASE a = p.id
    <3>1. p.doc.referral \in BOOLEAN /\ p.doc # None /\ appts'[a] = p.doc
      BY <2>2, AppliedFacts DEF Appointment
    <3>2. a \in p.credit <=> p.doc.status = "COMPLETED" /\ p.doc.referral
      BY <2>2 DEF Coherent
    <3> QED
      BY <1>1, <2>1, <2>2, <3>1, <3>2
  <2>3. CASE a # p.id
    <3>1. a \notin p.credit
      BY <2>3 DEF Coherent
    <3>2. appts'[a] = appts[a]
      BY <2>3, AppliedFacts
    <3> QED
      BY <2>1, <3>1, <3>2 DEF CommissionExact, Exists
  <2> QED
    BY <2>2, <2>3
<1>3. commissions' \subseteq Appts
  BY AppliedFacts DEF CommissionExact, Applied, Plan
<1> QED
  BY <1>2, <1>3 DEF CommissionExact, Exists

\* The intents announced by the events of history s of appointment a.
AnnouncedBy(a, s) ==
  {[at |-> e.key[2], appt |-> a, type |-> Announced[e.type]] :
     e \in {x \in Elements(s) : x.type \in DOMAIN Announced}}

\* The intent of a change comes with its event.
LEMMA CommitKeepsNotices ==
  ASSUME TypeOK, NEW p \in Plan, Applied(p), Coherent(p), NoticePerChange
  PROVE  NoticePerChange'
<1>1. notices = UNION {AnnouncedBy(a, timeline[a]) : a \in Appts}
  BY DEF NoticePerChange, AnnouncedBy
<1>2. AnnouncedBy(p.id, timeline'[p.id])
        = AnnouncedBy(p.id, timeline[p.id]) \cup p.notice
  <2>1. /\ p.event \in Event /\ timeline[p.id] \in Seq(Event)
        /\ timeline'[p.id] = Append(timeline[p.id], p.event)
    BY AppliedFacts
  <2>2. Elements(timeline'[p.id]) = Elements(timeline[p.id]) \cup {p.event}
    BY <2>1, AppendedEvent
  <2> QED
    BY <2>2 DEF AnnouncedBy, Coherent
<1>3. \A a \in Appts : a # p.id =>
        AnnouncedBy(a, timeline'[a]) = AnnouncedBy(a, timeline[a])
  BY AppliedFacts
<1>4. notices' = notices \cup p.notice /\ p.id \in Appts
  BY AppliedFacts DEF Applied
<1>5. notices' = UNION {AnnouncedBy(a, timeline'[a]) : a \in Appts}
  BY <1>1, <1>2, <1>3, <1>4
<1> QED
  BY <1>5 DEF NoticePerChange, AnnouncedBy

\* A commit that met no conflict keeps the decisions of the others agreeing with
\* the database, or overtakes them.
LEMMA CommitKeepsPlans ==
  ASSUME TypeOK, PlansAgree, NEW w \in Workers, Commit(w),
         NEW p \in Plan, p = txn[w].plan, Applied(p), Follows(p)
  PROVE  PlansAgree'
<1> SUFFICES ASSUME NEW v \in Workers, txn'[v] # Idle
             PROVE  /\ Coherent(txn'[v].plan)
                    /\ <<"appt", txn'[v].plan.id>> \notin txn'[v].overtaken =>
                         Follows(txn[v].plan)'
                    /\ /\ txn'[v].plan.event.type = "CREATED"
                       /\ <<"key", txn'[v].plan.doc.key>> \notin txn'[v].overtaken
                       => KeyFree(txn[v].plan.doc.key)'
  BY DEF PlansAgree, Coherent
<1>1. PICK t \in Transaction : t = txn[v]
  BY DEF Commit, TypeOK
<1>2. /\ t # Idle
      /\ txn'[v] = [t EXCEPT !.overtaken = @ \cup WriteSet(p)]
  BY <1>1 DEF Commit
<1>3. PICK q \in Plan : q = t.plan
  BY DEF Transaction
<1>4. /\ txn'[v].plan = q
      /\ txn'[v].overtaken = t.overtaken \cup WriteSet(p)
  BY <1>2, <1>3 DEF Transaction
<1>5. /\ Coherent(q)
      /\ <<"appt", q.id>> \notin t.overtaken => Follows(q)
      /\ /\ q.event.type = "CREATED" /\ <<"key", q.doc.key>> \notin t.overtaken
         => KeyFree(q.doc.key)
  BY <1>1, <1>2, <1>3 DEF PlansAgree
<1>6. ASSUME <<"appt", q.id>> \notin txn'[v].overtaken
      PROVE  Follows(txn[v].plan)'
  <2>1. q.id # p.id /\ Follows(q)
    BY <1>4, <1>5, <1>6 DEF WriteSet
  <2>2. q.id \in Appts
    BY DEF Plan
  <2>3. appts'[q.id] = appts[q.id] /\ EventKeys(q.id)' = EventKeys(q.id)
    BY <2>1, <2>2, AppliedFacts
  <2>4. PICK K : K = EventKeys(q.id)
    OBVIOUS
  <2>5. EventKeys(txn[v].plan.id)' = K
    BY <1>4, <2>3, <2>4 DEF EventKeys
  <2> QED
    BY <1>4, <2>1, <2>3, <2>4, <2>5 DEF Follows, Exists
<1>7. ASSUME q.event.type = "CREATED", <<"key", q.doc.key>> \notin txn'[v].overtaken
      PROVE  KeyFree(txn[v].plan.doc.key)'
  <2>1. KeyFree(q.doc.key)
    BY <1>4, <1>5, <1>7
  <2>2. p.doc.key # q.doc.key
    <3>1. CASE p.event.type = "CREATED"
      BY <1>4, <1>7, <3>1 DEF WriteSet
    <3>2. CASE p.event.type # "CREATED"
      <4>1. Exists(p.id) /\ p.doc.key = appts[p.id].key
        BY <3>2 DEF Follows, MayBecome
      <4> QED
        BY <2>1, <4>1, AppliedFacts DEF KeyFree
    <3> QED
      BY <3>1, <3>2
  <2>3. \A a \in Appts : appts'[a] # None => appts'[a].key # q.doc.key
    BY <2>1, <2>2, AppliedFacts DEF KeyFree, Exists
  <2> QED
    BY <1>4, <2>3 DEF KeyFree, Exists
<1> QED
  BY <1>4, <1>5, <1>6, <1>7

\* A commit that met no conflict applies a plan that agrees with the database.
LEMMA CommitKeepsHistory ==
  ASSUME TypeOK, History, NEW w \in Workers, Commit(w)
  PROVE  History'
<1>1. PICK p \in Plan : p = txn[w].plan
  BY DEF Commit, TypeOK, Transaction
<1>2. Applied(p)
  BY <1>1 DEF Commit, Applied
<1>3. /\ <<"appt", p.id>> \notin txn[w].overtaken
      /\ p.event.type = "CREATED" =>
           <<"key", p.doc.key>> \notin txn[w].overtaken
  BY <1>1 DEF Commit, Conflict, WriteSet
<1>4. /\ Coherent(p) /\ Follows(p)
      /\ p.event.type = "CREATED" => KeyFree(p.doc.key)
  BY <1>1, <1>3 DEF History, PlansAgree, Commit
<1>5. PlansAgree'
  BY <1>1, <1>2, <1>4, CommitKeepsPlans DEF History
<1>6. TimelineCurrent' /\ OneOutcome' /\ CancellationsEnd'
  BY <1>2, <1>4, CommitKeepsTimeline, CommitKeepsOutcome,
     CommitKeepsCancellations DEF History
<1>7. KeysOnce' /\ EventsOnce'
  BY <1>2, <1>4, CommitKeepsKeys, CommitKeepsEvents DEF History
<1>8. CommissionExact' /\ NoticePerChange'
  BY <1>2, <1>4, CommitKeepsCommissions, CommitKeepsNotices DEF History
<1> QED
  BY <1>5, <1>6, <1>7, <1>8 DEF History

\* Before anything is booked there is nothing to tell.
LEMMA InitHistory == Init => History
<1> SUFFICES ASSUME Init PROVE History
  OBVIOUS
<1> USE DEF Init
<1>1. PlansAgree
  BY DEF PlansAgree
<1>2. TimelineCurrent /\ OneOutcome /\ CancellationsEnd
  BY DEF TimelineCurrent, OneOutcome, CancellationsEnd, Exists
<1>3. KeysOnce
  BY DEF KeysOnce, Exists
<1>4. \A a \in Appts : EventKeys(a) = {} /\ Len(timeline[a]) = 0
  BY DEF EventKeys, Elements
<1>5. EventsOnce
  BY <1>4, FS_EmptySet DEF EventsOnce
<1>6. CommissionExact
  BY DEF CommissionExact, Exists
<1>7. \A a \in Appts : Elements(timeline[a]) = {}
  BY DEF Elements
<1>8. NoticePerChange
  BY <1>7 DEF NoticePerChange
<1> QED
  BY <1>1, <1>2, <1>3, <1>5, <1>6, <1>8 DEF History

\* Every step keeps what the tables say of the appointments.
LEMMA NextKeepsHistory ==
  ASSUME TypeOK, History, [Next]_vars
  PROVE  History'
<1>1. CASE \E w \in Workers, r \in Request :
             /\ Accepted(r)
             /\ txn' = [txn EXCEPT ![w] = Snapshot(r)]
             /\ UNCHANGED <<now, settings, database>>
  BY <1>1, SnapshotKeepsHistory
<1>2. CASE \E w \in Workers : Commit(w)
  BY <1>2, CommitKeepsHistory
<1>3. CASE \E w \in Workers : /\ txn' = [txn EXCEPT ![w] = Idle]
                              /\ UNCHANGED <<now, settings, database>>
  <2>1. \A v \in Workers : txn'[v] \in {Idle, txn[v]}
    BY <1>3 DEF TypeOK
  <2> QED
    BY <1>3, <2>1, OthersKeepHistory
<1>4. CASE UNCHANGED <<database, txn>>
  BY <1>4, OthersKeepHistory
<1> QED
  BY <1>1, <1>2, <1>3, <1>4, StepKinds

\* The tables that follow the appointments agree with them in every reachable
\* state, for every instance.
THEOREM HistoryInvariant == Spec => []History
<1>1. TypeOK /\ History /\ [Next]_vars => History'
  BY NextKeepsHistory
<1> QED
  BY <1>1, InitHistory, TypeCorrect, PTL DEF Spec

\* The append-only history tells the appointment's present state
\* (recordLifecycle is called with what was written).
THEOREM HistoryTellsThePresent == Spec => []TimelineCurrent
<1>1. History => TimelineCurrent
  BY DEF History
<1> QED
  BY <1>1, HistoryInvariant, PTL

\* Of racing cancel, complete and no-show commands one commits, and no event
\* follows it.
THEOREM OneOutcomeEach == Spec => []OneOutcome
<1>1. History => OneOutcome
  BY DEF History
<1> QED
  BY <1>1, HistoryInvariant, PTL

\* Retried or raced, a key creates one appointment and is recorded once in an
\* appointment's history.
THEOREM KeysWorkOnce == Spec => []ExactlyOncePerKey
<1>1. History => ExactlyOncePerKey
  BY DEF History, ExactlyOncePerKey, KeysOnce, EventsOnce
<1> QED
  BY <1>1, HistoryInvariant, PTL

\* An affiliate has the commission of a referral exactly when it is completed.
THEOREM CommissionsAreExact == Spec => []CommissionExact
<1>1. History => CommissionExact
  BY DEF History
<1> QED
  BY <1>1, HistoryInvariant, PTL

\* Every booking, move and cancellation leaves its notification intent, and no
\* intent announces a change that did not commit.
THEOREM ChangesAreAnnounced == Spec => []NoticePerChange
<1>1. History => NoticePerChange
  BY DEF History
<1> QED
  BY <1>1, HistoryInvariant, PTL

-----------------------------------------------------------------------------
(* The slots that are offered *)

\* A lock of another appointment that stood in the way of an offered slot would
\* be one of its minutes, but the slot is clear of every active appointment.
LEMMA OfferedSlotsAreFree == LockProtocol => OfferedIsBookable
<1> SUFFICES ASSUME LockProtocol, NEW s \in Staff, NEW t \in DayStart .. DayEnd,
                    NEW a \in Appts, SlotAvailable(s, t, {a}),
                    NEW l \in locks, l.staff = s,
                    l.at \in t .. (t + duration[s] - 1), l.appt # a
             PROVE  FALSE
  BY DEF OfferedIsBookable
<1> USE DEF LockProtocol
<1>1. l \in Lock /\ l.appt \in Appts /\ l \in OwnLocks(l.appt)
  BY DEF TypeOK, Lock, OwnLocks
<1>2. Holds(l.appt) /\ l \in LocksOf(l.appt, appts[l.appt])
  BY <1>1 DEF LocksExact
<1>3. PICK d \in Appointment : d = appts[l.appt]
  BY <1>1, <1>2 DEF TypeOK, Holds, Exists
<1>4. /\ d.staff = s /\ d.startsAt \in Nat /\ d.endsAt \in Nat
      /\ l.at \in d.startsAt .. (d.endsAt - 1)
  BY <1>2, <1>3 DEF LocksOf, minuteStarts, Appointment
<1>5. Span(d) \in BusyFor(s, {a})
  BY <1>1, <1>2, <1>3, <1>4 DEF BusyFor
<1>6. ~overlaps(t, t + duration[s], Span(d))
  BY <1>5 DEF SlotAvailable, slots
<1>7. t \in Nat /\ duration[s] \in Nat
  <2>1. duration[s] \in Durations
    BY DEF TypeOK
  <2>2. DayStart .. DayEnd \subseteq Nat
    BY DayAssumption
  <2> QED
    BY <2>1, <2>2, ConstantsAssumption
<1> QED
  BY <1>4, <1>6, <1>7 DEF overlaps, Span

\* A slot the availability query offers can be taken: for no instance does an
\* interval lock of another appointment stand in the way.
THEOREM OffersAreBookable == Spec => []OfferedIsBookable
  BY OfferedSlotsAreFree, LockProtocolInvariant, PTL

-----------------------------------------------------------------------------
(* The agenda seen from outside *)

\* What the calendar shows of an appointment document.
EntryOf(d) ==
  IF d = None THEN None
  ELSE [from |-> d.startsAt, to |-> d.endsAt, staff |-> d.staff,
        phase |-> Phase(d.status)]

\* It shows whose time is taken, and for how long.
LEMMA EntryFacts ==
  ASSUME NEW d \in Appointment
  PROVE  /\ EntryOf(d) # None
         /\ EntryOf(d).from = d.startsAt /\ EntryOf(d).to = d.endsAt
         /\ EntryOf(d).staff = d.staff /\ EntryOf(d).phase = Phase(d.status)
         /\ EntryOf(d) \in Entry
         /\ Phase(d.status) \notin Cal!Ends <=> d.status \in Active
<1>1. d # None
  BY NoneAssumption
<1>2. EntryOf(d) = [from |-> d.startsAt, to |-> d.endsAt, staff |-> d.staff,
                    phase |-> Phase(d.status)]
  BY <1>1 DEF EntryOf
<1>3. /\ Phase(d.status) \in {"BOOKED", "RUNNING"} \cup Terminal
      /\ Phase(d.status) \notin Cal!Ends <=> d.status \in Active
  BY DEF Phase, Appointment, Cal!Ends
<1>4. EntryOf(d) \in Entry
  BY <1>2, <1>3 DEF Entry, Appointment
<1> QED
  BY <1>2, <1>3, <1>4, EntryAssumption

\* The calendar before and after a step.
LEMMA CalendarShows ==
  /\ calendarView = [a \in Appts |-> EntryOf(appts[a])]
  /\ calendarView' = [a \in Appts |-> EntryOf(appts'[a])]
BY DEF calendarView, EntryOf, Exists

\* As long as no appointment changes, the calendar does not.
LEMMA SameCalendar == UNCHANGED appts => UNCHANGED calendarView
BY CalendarShows

\* The interval a commit leaves an active appointment with was free of every
\* other one.
LEMMA CommittedTimeIsFree ==
  ASSUME TypeOK, TypeOK', NoDoubleBooking', NEW a \in Appts,
         NEW d \in Appointment, appts'[a] = d, d.status \in Active,
         \A b \in Appts : b # a => appts'[b] = appts[b]
  PROVE  Cal!Free(a, d.staff, d.startsAt, d.endsAt)
<1> SUFFICES ASSUME NEW b \in Appts \ {a}, Cal!Busy(b),
                    calendarView[b].staff = d.staff
             PROVE  \/ calendarView[b].to <= d.startsAt
                    \/ d.endsAt <= calendarView[b].from
  BY DEF Cal!Free
<1>1. calendarView[b] = EntryOf(appts[b])
  BY CalendarShows
<1>2. appts[b] # None
  BY <1>1 DEF Cal!Busy, EntryOf
<1>3. PICK e \in Appointment : e = appts[b]
  BY <1>2 DEF TypeOK
<1>4. /\ e.status \in Active /\ e.staff = d.staff
      /\ calendarView[b].from = e.startsAt /\ calendarView[b].to = e.endsAt
  BY <1>1, <1>3, EntryFacts DEF Cal!Busy
<1>5. appts'[b] = e /\ d # None /\ e # None
  BY <1>3, NoneAssumption
<1>6. ~overlaps(d.startsAt, d.endsAt, Span(e))
  BY <1>4, <1>5 DEF NoDoubleBooking, Holds, Exists, overlaps, Span
<1>7. /\ d.startsAt \in Nat /\ d.endsAt \in Nat
      /\ e.startsAt \in Nat /\ e.endsAt \in Nat
  BY DEF Appointment
<1> QED
  BY <1>4, <1>6, <1>7 DEF overlaps, Span

\* A commit books, moves, starts or ends one appointment, legally for the
\* calendar at that moment.
LEMMA CommitIsCalendarStep ==
  ASSUME LockProtocol, History, TypeOK', NoDoubleBooking',
         NEW w \in Workers, Commit(w)
  PROVE  Cal!Next
<1>0. TypeOK
  BY DEF LockProtocol
<1>1. PICK p \in Plan : p = txn[w].plan
  BY <1>0 DEF Commit, TypeOK, Transaction
<1>2. Applied(p)
  BY <1>1 DEF Commit, Applied
<1>3. <<"appt", p.id>> \notin txn[w].overtaken
  BY <1>1 DEF Commit, Conflict, WriteSet
<1>4. Coherent(p) /\ Follows(p)
  BY <1>1, <1>3 DEF History, PlansAgree, Commit
<1>5. p.doc.startsAt < p.doc.endsAt
  BY <1>1 DEF LockProtocol, PositiveSpans, Commit
<1>6. PICK a \in Appts : a = p.id
  BY DEF Plan
<1>7. PICK e \in Appointment : e = p.doc
  BY DEF Plan
<1>8. /\ appts'[a] = e
      /\ \A b \in Appts : b # a => appts'[b] = appts[b]
  BY <1>0, <1>2, <1>6, <1>7, AppliedFacts
<1>9. /\ calendarView[a] = EntryOf(appts[a]) /\ calendarView'[a] = EntryOf(e)
      /\ \A b \in Appts \ {a} : calendarView'[b] = calendarView[b]
  BY <1>8, CalendarShows
<1>10. /\ EntryOf(e) # None /\ EntryOf(e) \in Entry
       /\ EntryOf(e).from = e.startsAt /\ EntryOf(e).to = e.endsAt
       /\ EntryOf(e).staff = e.staff /\ EntryOf(e).phase = Phase(e.status)
  BY EntryFacts
<1>11. CASE ~Exists(a)
  <2>1. e.status = "CONFIRMED"
    BY <1>4, <1>6, <1>7, <1>11 DEF Follows, Coherent
  <2>2. Cal!Free(a, e.staff, e.startsAt, e.endsAt)
    BY <1>0, <1>8, <2>1, CommittedTimeIsFree
  <2>3. Cal!Book(a)
    BY <1>5, <1>7, <1>9, <1>10, <1>11, <2>1, <2>2
    DEF Cal!Book, EntryOf, Exists, Phase
  <2> QED
    BY <1>9, <2>3 DEF Cal!Next
<1>12. CASE Exists(a)
  <2>1. PICK d \in Appointment : d = appts[a]
    BY <1>0, <1>12 DEF TypeOK, Exists
  <2>2. MayBecome(d, e) /\ d.status \in Active
    BY <1>4, <1>6, <1>7, <1>12, <2>1 DEF Follows
  <2>3. /\ EntryOf(d) # None /\ EntryOf(d) \in Entry
        /\ EntryOf(d).from = d.startsAt /\ EntryOf(d).to = d.endsAt
        /\ EntryOf(d).staff = d.staff /\ EntryOf(d).phase = Phase(d.status)
        /\ Phase(d.status) \notin Cal!Ends
    BY <2>2, EntryFacts
  <2>4. CASE d.status \in Changeable /\ e.status = d.status
    <3>1. Cal!Free(a, e.staff, e.startsAt, e.endsAt)
      BY <1>0, <1>8, <2>4, CommittedTimeIsFree
    <3>2. Cal!Move(a)
      BY <1>5, <1>7, <1>9, <1>10, <2>1, <2>2, <2>3, <2>4, <3>1
      DEF Cal!Move, Phase, MayBecome
    <3> QED
      BY <1>9, <3>2 DEF Cal!Next
  <2>5. CASE Span(e) = Span(d) /\ d.status \in Changeable
             /\ e.status = "IN_PROGRESS"
    <3>1. EntryOf(e) = [EntryOf(d) EXCEPT !.phase = "RUNNING"]
      BY <1>10, <2>2, <2>3, <2>5 DEF MayBecome, Span, Entry, Phase
    <3>2. Cal!Begin(a)
      BY <1>9, <2>1, <2>3, <2>5, <3>1 DEF Cal!Begin, Phase
    <3> QED
      BY <1>9, <3>2 DEF Cal!Next
  <2>6. CASE Span(e) = Span(d) /\ e.status \in Terminal
             /\ (e.status = "CANCELLED" => d.status \in Changeable)
    <3>1. EntryOf(e) = [EntryOf(d) EXCEPT !.phase = e.status]
      BY <1>10, <2>2, <2>3, <2>6 DEF MayBecome, Span, Entry, Phase
    <3>2. e.status \in Cal!Ends
      BY <2>6 DEF Cal!Ends
    <3>3. e.status = "CANCELLED" => EntryOf(d).phase = "BOOKED"
      BY <2>3, <2>6 DEF Phase
    <3>4. Cal!End(a)
      BY <1>9, <2>1, <2>3, <3>1, <3>2, <3>3 DEF Cal!End, Cal!Busy
    <3> QED
      BY <1>9, <3>4 DEF Cal!Next
  <2> QED
    BY <2>2, <2>4, <2>5, <2>6 DEF MayBecome
<1> QED
  BY <1>11, <1>12

\* Every other step leaves the calendar as it is.
LEMMA StepsImplementCalendar ==
  ASSUME LockProtocol, History, TypeOK', NoDoubleBooking', [Next]_vars
  PROVE  [Cal!Next]_calendarView
<1>1. TypeOK
  BY DEF LockProtocol
<1>2. CASE \E w \in Workers : Commit(w)
  BY <1>2, CommitIsCalendarStep
<1>3. CASE UNCHANGED appts
  BY <1>3, SameCalendar
<1> QED
  BY <1>1, <1>2, <1>3, StepKinds DEF database

\* Nothing is booked at the start.
LEMMA InitIsEmptyCalendar == Init => Cal!Init
BY DEF Init, Cal!Init, calendarView, Exists

\* The snapshot-isolated implementation, with its locks, conflicts and retries,
\* is a serial calendar.
THEOREM BookingImplementsCalendar == Spec => ImplementsCalendar
<1>1. LockProtocol => TypeOK /\ NoDoubleBooking
  BY LocksKeepApart DEF LockProtocol
<1>2. /\ LockProtocol /\ History /\ TypeOK' /\ NoDoubleBooking'
      /\ [Next]_vars
      => [Cal!Next]_calendarView
  BY StepsImplementCalendar
<1> QED
  BY <1>1, <1>2, InitIsEmptyCalendar, LockProtocolInvariant, HistoryInvariant, PTL
     DEF Spec, ImplementsCalendar, Cal!Spec
=============================================================================

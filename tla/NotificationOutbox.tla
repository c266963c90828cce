------------------------- MODULE NotificationOutbox -------------------------
(***************************************************************************)
(* Delivery of the notification intents that bookings, moves and           *)
(* cancellations leave (notification.service.ts).  A worker claims an      *)
(* intent for five minutes, asks the provider to send it and records the   *)
(* outcome; attempts is the number of claims so far and fences off workers *)
(* whose claim has been taken over.  Nothing here is one transaction: the  *)
(* claim, the call of the provider and the record are three steps, and a   *)
(* process may die, or be overtaken by the end of its lease, between them. *)
(*                                                                         *)
(* Every writer of intents sets scheduledFor to the current time, so an    *)
(* intent is due when it appears; intents are numbered in the order of     *)
(* scheduledFor, which is the order they are claimed in.                   *)
(***************************************************************************)
EXTENDS Naturals, FiniteSets

CONSTANTS
  Intents,      \* notifications, numbered by scheduledFor
  Workers,      \* calls of processPending and processOne under way
  MaxAttempts,  \* maxAttempts (5)
  Free          \* a worker that holds no claim

ASSUME OutboxAssumption == Intents \subseteq Nat /\ MaxAttempts \in Nat \ {0}

VARIABLES
  status,    \* notification.status; "NONE" before the intent is committed
  attempts,  \* notification.attempts
  leased,    \* intents whose leaseUntil is in the future
  claim,     \* what each worker is delivering
  received,  \* per intent, the attempts whose message reached the customer
  audits     \* per intent, the attempts with a NOTIFICATION_SENT audit event

document == <<status, attempts, leased>>
vars == <<document, claim, received, audits>>

Attempt == 1 .. MaxAttempts
Claim == [intent : Intents, attempt : Attempt,
          step : {"sending", "sent", "failed"}]
ASSUME FreeAssumption == Free \notin Claim

-----------------------------------------------------------------------------
\* A booking, move or cancellation commits its intent.
createIntent(n) ==
  /\ status[n] = "NONE"
  /\ status' = [status EXCEPT ![n] = "PENDING"]
  /\ UNCHANGED <<attempts, leased, claim, received, audits>>

\* Mutated form: work left behind by a dead worker is not picked up.
ClaimableUnclaimed(n) ==
  attempts[n] < MaxAttempts /\ status[n] \in {"PENDING", "FAILED"}

\* The filter of claimOne.
Claimable(n) ==
  /\ attempts[n] < MaxAttempts
  /\ \/ status[n] \in {"PENDING", "FAILED"}
     \/ status[n] = "PROCESSING" /\ n \notin leased

\* Mutated form: taking over stale work does not count.
attemptUnlessStale(n) ==
  IF status[n] = "PROCESSING" THEN attempts[n] ELSE attempts[n] + 1

\* $inc: { attempts: 1 }
nextAttempt(n) == attempts[n] + 1

claimOne(w, n) ==
  /\ claim[w] = Free
  /\ Claimable(n)
  /\ status' = [status EXCEPT ![n] = "PROCESSING"]
  /\ attempts' = [attempts EXCEPT ![n] = nextAttempt(n)]
  /\ leased' = leased \cup {n}
  /\ claim' = [claim EXCEPT ![w] = [intent |-> n, attempt |-> nextAttempt(n),
                                    step |-> "sending"]]
  /\ UNCHANGED <<received, audits>>

\* The loop of processPending claims the oldest intent it may.
processPending(w) ==
  \E n \in Intents :
    /\ \A m \in Intents : Claimable(m) => n <= m
    /\ claimOne(w, n)

\* AppointmentLifecycleNotificationService.deliver asks for one intent.
processOne(w) == \E n \in Intents : claimOne(w, n)

\* NotificationDeliveryService.send: the provider is asked once.  The message
\* may reach the customer although the answer is lost or malformed; it does
\* not when there is no destination or the provider refuses.
send(w) ==
  /\ claim[w] # Free
  /\ claim[w].step = "sending"
  /\ \E reached \in BOOLEAN, answered \in BOOLEAN :
       /\ answered => reached
       /\ received' = [received EXCEPT ![claim[w].intent] =
                         IF reached THEN @ \cup {claim[w].attempt} ELSE @]
       /\ claim' = [claim EXCEPT ![w].step =
                      IF answered THEN "sent" ELSE "failed"]
  /\ UNCHANGED <<document, audits>>

\* Mutated form: the attempt is not compared.
StillMineByStatus(c) == status[c.intent] = "PROCESSING"

\* Mutated form: the filter names the document only.
StillMineById(c) == status[c.intent] # "NONE"

\* The filter of both updates of dispatch.
StillMine(c) == status[c.intent] = "PROCESSING" /\ attempts[c.intent] = c.attempt

\* The transaction that records a delivery, with its audit event.
recordSent(w) ==
  /\ claim[w] # Free
  /\ claim[w].step = "sent"
  /\ LET c == claim[w]
     IN IF StillMine(c)
        THEN /\ status' = [status EXCEPT ![c.intent] = "SENT"]
             /\ leased' = leased \ {c.intent}
             /\ audits' = [audits EXCEPT ![c.intent] = @ \cup {c.attempt}]
        ELSE UNCHANGED <<status, leased, audits>>
  /\ claim' = [claim EXCEPT ![w] = Free]
  /\ UNCHANGED <<attempts, received>>

\* That transaction fails, which the catch clause treats as a failed send.
recordThrows(w) ==
  /\ claim[w] # Free
  /\ claim[w].step = "sent"
  /\ claim' = [claim EXCEPT ![w].step = "failed"]
  /\ UNCHANGED <<document, received, audits>>

recordFailed(w) ==
  /\ claim[w] # Free
  /\ claim[w].step = "failed"
  /\ LET c == claim[w]
     IN IF StillMine(c)
        THEN /\ status' = [status EXCEPT ![c.intent] = "FAILED"]
             /\ leased' = leased \ {c.intent}
        ELSE UNCHANGED <<status, leased>>
  /\ claim' = [claim EXCEPT ![w] = Free]
  /\ UNCHANGED <<attempts, received, audits>>

\* The process dies, or the last update fails too.
crash(w) ==
  /\ claim[w] # Free
  /\ claim' = [claim EXCEPT ![w] = Free]
  /\ UNCHANGED <<document, received, audits>>

\* Five minutes pass since a claim.
leaseEnds(n) ==
  /\ n \in leased
  /\ leased' = leased \ {n}
  /\ UNCHANGED <<status, attempts, claim, received, audits>>

Init ==
  /\ status = [n \in Intents |-> "NONE"]
  /\ attempts = [n \in Intents |-> 0]
  /\ leased = {}
  /\ claim = [w \in Workers |-> Free]
  /\ received = [n \in Intents |-> {}]
  /\ audits = [n \in Intents |-> {}]

Next ==
  \/ \E n \in Intents : createIntent(n) \/ leaseEnds(n)
  \/ \E w \in Workers :
       \/ processPending(w)
       \/ processOne(w)
       \/ send(w)
       \/ recordSent(w)
       \/ recordThrows(w)
       \/ recordFailed(w)
       \/ crash(w)

Spec == Init /\ [][Next]_vars

\* A delivery under way goes on unless its process dies, leases run out with
\* the clock, and somebody keeps calling processPending (external: the
\* repository schedules no call of it).
Fairness ==
  /\ \A n \in Intents : WF_vars(leaseEnds(n))
  /\ \A w \in Workers :
       /\ WF_vars(processPending(w))
       /\ WF_vars(send(w) \/ recordSent(w) \/ recordFailed(w) \/ crash(w))

FairSpec == Spec /\ Fairness

-----------------------------------------------------------------------------
(* Properties *)

\* Shape of the notification documents and of the claims.
TypeOK ==
  /\ status \in [Intents -> {"NONE", "PENDING", "PROCESSING", "SENT", "FAILED"}]
  /\ attempts \in [Intents -> 0 .. MaxAttempts]
  /\ leased \subseteq Intents
  /\ claim \in [Workers -> Claim \cup {Free}]
  /\ received \in [Intents -> SUBSET Attempt]
  /\ audits \in [Intents -> SUBSET Attempt]

\* SENT is recorded and audited once, for the attempt that got the message to
\* the customer, however many workers overtook each other on the way.
SentOnce ==
  \A n \in Intents :
    /\ audits[n] = IF status[n] = "SENT" THEN {attempts[n]} ELSE {}
    /\ audits[n] \subseteq received[n]

\* No two workers ever make the same attempt, whoever took over from whom: the
\* customer is written to at most MaxAttempts times about one change.
AttemptsAreOwned ==
  \A w, v \in Workers :
    claim[w] # Free /\ claim[v] # Free /\ claim[w].intent = claim[v].intent
      /\ claim[w].attempt = claim[v].attempt => w = v

\* A worker whose lease ran out and whose intent was claimed again cannot end
\* the newer attempt: work leaves PROCESSING by the hand of its last claimant.
OnlyLastClaimantEnds ==
  [][\A n \in Intents : status[n] = "PROCESSING" /\ status'[n] # "PROCESSING" =>
       \E w \in Workers : /\ claim[w] # Free /\ claim'[w] = Free
                          /\ claim[w].intent = n
                          /\ claim[w].attempt = attempts[n]]_vars

\* Every committed intent is sent or has used up its attempts; one that keeps
\* failing does not hold up those behind it.
EventuallyResolved ==
  \A n \in Intents :
    status[n] = "PENDING" ~> (status[n] = "SENT" \/ attempts[n] = MaxAttempts)

-----------------------------------------------------------------------------
(* The inductive invariant *)

\* A claim is one of the attempts counted; the last one keeps its intent
\* PROCESSING; a delivery to be recorded did reach the customer.
ClaimsCounted ==
  \A w \in Workers : claim[w] # Free =>
    /\ claim[w].attempt <= attempts[claim[w].intent]
    /\ claim[w].attempt = attempts[claim[w].intent] =>
         status[claim[w].intent] = "PROCESSING"
    /\ claim[w].step = "sent" => claim[w].attempt \in received[claim[w].intent]

\* Before an intent exists nobody has claimed it.
Unborn == \A n \in Intents : status[n] = "NONE" => attempts[n] = 0

Fencing == TypeOK /\ SentOnce /\ AttemptsAreOwned /\ ClaimsCounted /\ Unborn
=============================================================================

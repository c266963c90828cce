---------------------- MODULE NotificationOutboxProofs ----------------------
(***************************************************************************)
(* Proofs about NotificationOutbox, for any number of intents, workers and *)
(* attempts.  Fencing is the inductive invariant: the attempt number of a  *)
(* claim is a fencing token, handed out once and compared before a result  *)
(* is recorded.                                                            *)
(***************************************************************************)
EXTENDS NotificationOutbox, TLAPS

\* The empty collection satisfies the invariant.
LEMMA InitFencing == Init => Fencing
BY OutboxAssumption, FreeAssumption
   DEF Init, Fencing, TypeOK, SentOnce, AttemptsAreOwned, ClaimsCounted, Unborn

\* Committing a new intent (createIntent) disturbs no claim.
LEMMA CreateKeepsFencing ==
  ASSUME Fencing, NEW n \in Intents, createIntent(n) PROVE Fencing'
BY OutboxAssumption, FreeAssumption
   DEF Fencing, TypeOK, SentOnce, AttemptsAreOwned, ClaimsCounted, Unborn,
       createIntent, Claim, Attempt

\* A claim (claimOne) takes an attempt number nobody has had before.
LEMMA ClaimKeepsFencing ==
  ASSUME Fencing, NEW w \in Workers, NEW n \in Intents, claimOne(w, n)
  PROVE  Fencing'
<1> USE OutboxAssumption, FreeAssumption
<1> DEFINE c == [intent |-> n, attempt |-> attempts[n] + 1, step |-> "sending"]
<1>1. /\ attempts[n] \in 0 .. MaxAttempts /\ attempts[n] < MaxAttempts
      /\ status[n] \in {"PENDING", "FAILED", "PROCESSING"}
      /\ claim' = [claim EXCEPT ![w] = c]
      /\ attempts' = [attempts EXCEPT ![n] = attempts[n] + 1]
      /\ status' = [status EXCEPT ![n] = "PROCESSING"]
      /\ UNCHANGED <<received, audits>>
      /\ leased' = leased \cup {n}
  BY DEF Fencing, TypeOK, claimOne, Claimable, nextAttempt
<1>2. attempts[n] + 1 \in Attempt /\ attempts[n] + 1 \in 0 .. MaxAttempts
  BY <1>1 DEF Attempt
<1>3. c \in Claim /\ c # Free
  BY <1>2 DEF Claim
<1> HIDE DEF c
<1>4. c.intent = n /\ c.attempt = attempts[n] + 1 /\ c.step = "sending"
  BY DEF c
<1>5. TypeOK'
  BY <1>1, <1>2, <1>3 DEF Fencing, TypeOK
<1>6. SentOnce'
  BY <1>1 DEF Fencing, TypeOK, SentOnce
<1>7. AttemptsAreOwned'
  <2>1. \A v \in Workers : claim[v] # Free /\ claim[v].intent = n =>
          /\ claim[v].attempt \in Nat /\ claim[v].attempt <= attempts[n]
    BY <1>1 DEF Fencing, TypeOK, ClaimsCounted, Claim, Attempt
  <2>2. \A v \in Workers \ {w} : claim'[v] = claim[v]
    BY <1>1 DEF Fencing, TypeOK
  <2>3. claim'[w] = c
    BY <1>1 DEF Fencing, TypeOK
  <2> QED
    BY <1>1, <1>3, <1>4, <2>1, <2>2, <2>3 DEF Fencing, AttemptsAreOwned
<1>8. ClaimsCounted'
  BY <1>1, <1>3, <1>4
     DEF Fencing, TypeOK, ClaimsCounted, Claim, Attempt
<1>9. Unborn'
  BY <1>1 DEF Fencing, TypeOK, Unborn
<1> QED
  BY <1>5, <1>6, <1>7, <1>8, <1>9 DEF Fencing

\* Calling the provider (send) changes the claimant's step and what the
\* customer received, and records nothing yet.
LEMMA SendKeepsFencing ==
  ASSUME Fencing, NEW w \in Workers, send(w) PROVE Fencing'
BY OutboxAssumption, FreeAssumption
   DEF Fencing, TypeOK, SentOnce, AttemptsAreOwned, ClaimsCounted, Unborn,
       send, Claim, Attempt, document

\* Recording a delivery (recordSent): only the last claimant passes the filter,
\* and once it has, no claim is current any more.
LEMMA RecordSentKeepsFencing ==
  ASSUME Fencing, NEW w \in Workers, recordSent(w) PROVE Fencing'
<1> USE OutboxAssumption, FreeAssumption
<1>1. PICK c \in Claim : c = claim[w]
  BY DEF Fencing, TypeOK, recordSent
<1>2. /\ c.intent \in Intents /\ c.attempt \in Attempt /\ c.step = "sent"
      /\ c.attempt \in received[c.intent]
      /\ claim' = [claim EXCEPT ![w] = Free]
      /\ UNCHANGED <<attempts, received>>
  BY <1>1 DEF Claim, recordSent, Fencing, ClaimsCounted
<1>3. TypeOK'
  BY <1>1, <1>2 DEF recordSent, Fencing, TypeOK
<1>4. SentOnce'
  <2>1. CASE ~StillMine(c)
    BY <1>1, <1>2, <2>1 DEF recordSent, Fencing, SentOnce
  <2>2. CASE StillMine(c)
    <3>1. /\ status' = [status EXCEPT ![c.intent] = "SENT"]
          /\ audits' = [audits EXCEPT ![c.intent] = @ \cup {c.attempt}]
          /\ audits[c.intent] = {} /\ attempts[c.intent] = c.attempt
      BY <1>1, <1>2, <2>2 DEF recordSent, StillMine, Fencing, SentOnce
    <3> QED
      BY <1>2, <3>1 DEF Fencing, TypeOK, SentOnce
  <2> QED
    BY <2>1, <2>2
<1>5. AttemptsAreOwned'
  BY <1>2 DEF Fencing, TypeOK, AttemptsAreOwned
<1>6. ClaimsCounted'
  <2> SUFFICES ASSUME NEW v \in Workers, claim'[v] # Free
               PROVE  ClaimsCounted!(v)'
    BY DEF ClaimsCounted
  <2>1. v # w /\ claim'[v] = claim[v] /\ claim[v] \in Claim
    BY <1>2 DEF Fencing, TypeOK
  <2>2. claim[v].intent = c.intent => claim[v].attempt # c.attempt
    BY <1>1, <2>1 DEF Fencing, AttemptsAreOwned
  <2>3. claim[v].intent # c.intent => status'[claim[v].intent] = status[claim[v].intent]
    BY <1>1, <2>1 DEF recordSent, Fencing, TypeOK, Claim
  <2>4. StillMine(c) \/ status' = status
    BY <1>1 DEF recordSent
  <2> QED
    BY <1>2, <2>1, <2>2, <2>3, <2>4
       DEF StillMine, Fencing, ClaimsCounted
<1>7. Unborn'
  BY <1>1, <1>2 DEF recordSent, Fencing, TypeOK, Unborn
<1> QED
  BY <1>3, <1>4, <1>5, <1>6, <1>7 DEF Fencing

\* Recording a failure (recordFailed): only the last claimant passes.
LEMMA RecordFailedKeepsFencing ==
  ASSUME Fencing, NEW w \in Workers, recordFailed(w) PROVE Fencing'
<1> USE OutboxAssumption, FreeAssumption
<1>1. PICK c \in Claim : c = claim[w]
  BY DEF Fencing, TypeOK, recordFailed
<1>2. /\ c.intent \in Intents /\ c.attempt \in Attempt
      /\ claim' = [claim EXCEPT ![w] = Free]
      /\ UNCHANGED <<attempts, received, audits>>
  BY <1>1 DEF Claim, recordFailed
<1>3. TypeOK'
  BY <1>1, <1>2 DEF recordFailed, Fencing, TypeOK
<1>4. SentOnce'
  BY <1>1, <1>2 DEF recordFailed, StillMine, Fencing, TypeOK, SentOnce
<1>5. AttemptsAreOwned'
  BY <1>2 DEF Fencing, TypeOK, AttemptsAreOwned
<1>6. ClaimsCounted'
  <2> SUFFICES ASSUME NEW v \in Workers, claim'[v] # Free
               PROVE  ClaimsCounted!(v)'
    BY DEF ClaimsCounted
  <2>1. v # w /\ claim'[v] = claim[v] /\ claim[v] \in Claim
    BY <1>2 DEF Fencing, TypeOK
  <2>2. claim[v].intent = c.intent => claim[v].attempt # c.attempt
    BY <1>1, <2>1 DEF Fencing, AttemptsAreOwned
  <2>3. claim[v].intent # c.intent => status'[claim[v].intent] = status[claim[v].intent]
    BY <1>1, <2>1 DEF recordFailed, Fencing, TypeOK, Claim
  <2>4. StillMine(c) \/ status' = status
    BY <1>1 DEF recordFailed
  <2> QED
    BY <1>2, <2>1, <2>2, <2>3, <2>4
       DEF StillMine, Fencing, ClaimsCounted
<1>7. Unborn'
  BY <1>1, <1>2 DEF recordFailed, Fencing, TypeOK, Unborn
<1> QED
  BY <1>3, <1>4, <1>5, <1>6, <1>7 DEF Fencing

\* A transaction that throws (recordThrows) turns a delivery into a failure.
LEMMA ThrowKeepsFencing ==
  ASSUME Fencing, NEW w \in Workers, recordThrows(w) PROVE Fencing'
BY OutboxAssumption, FreeAssumption
   DEF Fencing, TypeOK, SentOnce, AttemptsAreOwned, ClaimsCounted, Unborn,
       recordThrows, Claim, Attempt, document

\* A worker that dies (crash) leaves the documents alone.
LEMMA CrashKeepsFencing ==
  ASSUME Fencing, NEW w \in Workers, crash(w) PROVE Fencing'
BY OutboxAssumption, FreeAssumption
   DEF Fencing, TypeOK, SentOnce, AttemptsAreOwned, ClaimsCounted, Unborn,
       crash, Claim, Attempt, document

\* So does a lease that runs out.
LEMMA LeaseEndKeepsFencing ==
  ASSUME Fencing, NEW n \in Intents, leaseEnds(n) PROVE Fencing'
BY OutboxAssumption, FreeAssumption
   DEF Fencing, TypeOK, SentOnce, AttemptsAreOwned, ClaimsCounted, Unborn,
       leaseEnds, Claim, Attempt

\* Every step of the outbox keeps the invariant.
LEMMA NextKeepsFencing == Fencing /\ [Next]_vars => Fencing'
<1> SUFFICES ASSUME Fencing, [Next]_vars PROVE Fencing'
  OBVIOUS
<1>1. CASE UNCHANGED vars
  BY <1>1 DEF vars, document, Fencing, TypeOK, SentOnce, AttemptsAreOwned,
              ClaimsCounted, Unborn
<1>2. ASSUME NEW n \in Intents, createIntent(n) \/ leaseEnds(n) PROVE Fencing'
  BY <1>2, CreateKeepsFencing, LeaseEndKeepsFencing
<1>3. ASSUME NEW w \in Workers, processPending(w) \/ processOne(w)
      PROVE  Fencing'
  BY <1>3, ClaimKeepsFencing DEF processPending, processOne
<1>4. ASSUME NEW w \in Workers, send(w) \/ recordSent(w) \/ recordFailed(w)
      PROVE  Fencing'
  BY <1>4, SendKeepsFencing, RecordSentKeepsFencing, RecordFailedKeepsFencing
<1>5. ASSUME NEW w \in Workers, recordThrows(w) \/ crash(w) PROVE Fencing'
  BY <1>5, ThrowKeepsFencing, CrashKeepsFencing
<1> QED
  BY <1>1, <1>2, <1>3, <1>4, <1>5 DEF Next

\* The invariant holds always.
THEOREM FencingInvariant == Spec => []Fencing
BY InitFencing, NextKeepsFencing, PTL DEF Spec

\* Type correctness.
THEOREM OutboxTypeCorrect == Spec => []TypeOK
<1>1. Fencing => TypeOK
  BY DEF Fencing
<1> QED
  BY <1>1, FencingInvariant, PTL

\* A delivery is recorded and audited once, for an attempt that reached the
\* customer (recordSent with the filter StillMine).
THEOREM DeliveryRecordedOnce == Spec => []SentOnce
<1>1. Fencing => SentOnce
  BY DEF Fencing
<1> QED
  BY <1>1, FencingInvariant, PTL

\* No two workers make the same attempt (claimOne).
THEOREM AttemptsNeverShared == Spec => []AttemptsAreOwned
<1>1. Fencing => AttemptsAreOwned
  BY DEF Fencing
<1> QED
  BY <1>1, FencingInvariant, PTL

\* An overtaken worker never ends the attempt of the one that overtook it.
THEOREM OvertakenWorkersHarmless == Spec => OnlyLastClaimantEnds
<1>1. ASSUME Fencing, [Next]_vars, NEW n \in Intents,
             status[n] = "PROCESSING", status'[n] # "PROCESSING"
      PROVE  \E w \in Workers : /\ claim[w] # Free /\ claim'[w] = Free
                                /\ claim[w].intent = n
                                /\ claim[w].attempt = attempts[n]
  <2>1. PICK w \in Workers : recordSent(w) \/ recordFailed(w)
    BY <1>1 DEF Next, vars, document, createIntent, leaseEnds, processPending,
                processOne, claimOne, send, recordThrows, crash, Fencing, TypeOK
  <2>2. claim[w] # Free /\ claim'[w] = Free
    BY <2>1, <1>1 DEF recordSent, recordFailed, Fencing, TypeOK
  <2>3. claim[w].intent = n /\ claim[w].attempt = attempts[n]
    BY <2>1, <1>1 DEF recordSent, recordFailed, StillMine, Fencing, TypeOK
  <2> QED
    BY <2>2, <2>3
<1>2. Fencing /\ [Next]_vars =>
        [\A n \in Intents : status[n] = "PROCESSING" /\ status'[n] # "PROCESSING" =>
           \E w \in Workers : /\ claim[w] # Free /\ claim'[w] = Free
                              /\ claim[w].intent = n
                              /\ claim[w].attempt = attempts[n]]_vars
  BY <1>1
<1> QED
  BY <1>2, FencingInvariant, PTL DEF Spec, OnlyLastClaimantEnds
=============================================================================

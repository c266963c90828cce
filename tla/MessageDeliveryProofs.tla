----------------------- MODULE MessageDeliveryProofs ------------------------
(***************************************************************************)
(* Proofs about MessageDelivery, for any number of messages and workers    *)
(* and any batch limit.  Delivery is the inductive invariant: it adds to   *)
(* the properties what a call knows between its read and its write.        *)
(***************************************************************************)
EXTENDS MessageDelivery, WellFoundedInduction, TLAPS

\* A list of messages has an oldest one, which is where a worker starts.
LEMMA FirstIsListed ==
  ASSUME NEW list \in SUBSET Messages, list # {} PROVE First(list) \in list
<1> DEFINE R == OpToRel(<, Nat)
<1>0. \A n, m \in Nat : n < m => <<n, m>> \in R
  BY DEF OpToRel
<1>1. list \subseteq Nat
  BY DeliveryAssumption
<1>2. IsWellFoundedOn(R, Nat)
  BY NatLessThanWellFounded
<1> HIDE DEF R
<1>3. PICK m \in list : \A n \in list : ~(<<n, m>> \in R)
  BY <1>1, <1>2, WFMin
<1>4. ASSUME NEW n \in list PROVE m <= n
  <2>1. m \in Nat /\ n \in Nat /\ <<n, m>> \notin R
    BY <1>1, <1>3
  <2>2. ~(n < m)
    BY <1>0, <2>1
  <2> QED
    BY <2>1, <2>2
<1> QED
  BY <1>4 DEF First

\* Starting on a list (Start) leaves a worker well formed and at its first step.
LEMMA StartIsWork ==
  ASSUME NEW list \in SUBSET Messages
  PROVE  /\ Start(list) \in Work \cup {Idle}
         /\ Start(list) # Idle => Start(list).step = "read"
BY DEF Start, Work

\* Nothing is committed and nobody works: the invariant holds.
LEMMA InitDelivery == Init => Delivery
BY DEF Init, Delivery, TypeOK, SentMeansReceived, CallsHonest

\* A worker that goes on to another message, or starts on a list, knows nothing
\* yet: it keeps the part of the invariant about calls.
LEMMA TurnsKeepCalls ==
  ASSUME Delivery, NEW w \in Workers, NEW list \in SUBSET Messages,
         work' = [work EXCEPT ![w] = Start(list)], received \subseteq received'
  PROVE  CallsHonest' /\ work' \in [Workers -> Work \cup {Idle}]
<1>1. work' \in [Workers -> Work \cup {Idle}]
  BY StartIsWork DEF Delivery, TypeOK
<1>2. \A v \in Workers : work'[v] = IF v = w THEN Start(list) ELSE work[v]
  BY DEF Delivery, TypeOK
<1>3. CallsHonest'
  BY <1>2, StartIsWork DEF Delivery, CallsHonest, Current
<1> QED
  BY <1>1, <1>3

\* What a worker that is under way has in hand.
LEMMA WorkInHand ==
  ASSUME Delivery, NEW w \in Workers, work[w] # Idle
  PROVE  /\ work[w] \in Work
         /\ Current(w) \in Messages
         /\ work[w].todo \ {Current(w)} \in SUBSET Messages
<1>1. work[w] \in Work
  BY DEF Delivery, TypeOK
<1>2. work[w].todo \in SUBSET Messages /\ work[w].todo # {}
  BY <1>1 DEF Work
<1> QED
  BY <1>1, <1>2, FirstIsListed DEF Current

\* A call that takes a step at its message keeps the part about calls, if what
\* it comes to know is true.
LEMMA StepsKeepCalls ==
  ASSUME Delivery, NEW w \in Workers, work[w] # Idle,
         NEW seen \in Unsent,
         NEW step \in {"sending", "sent", "failed"},
         work' = [work EXCEPT ![w].seen = seen, ![w].step = step],
         received \subseteq received',
         step = "sent" => Current(w) \in received'
  PROVE  CallsHonest' /\ work' \in [Workers -> Work \cup {Idle}]
<1> DEFINE new == [work[w] EXCEPT !.seen = seen, !.step = step]
<1>1. work[w] \in Work
  BY WorkInHand
<1>2. /\ new \in Work /\ new.todo = work[w].todo
      /\ new.seen = seen /\ new.step = step
  BY <1>1 DEF Work
<1>3. \A v \in Workers : work'[v] = IF v = w THEN new ELSE work[v]
  BY DEF Delivery, TypeOK
<1>4. work' \in [Workers -> Work \cup {Idle}]
  BY <1>2 DEF Delivery, TypeOK
<1> HIDE DEF new
<1>5. CallsHonest'
  BY <1>2, <1>3 DEF Delivery, CallsHonest, Current
<1> QED
  BY <1>4, <1>5

\* Committing messages (queueReplies) marks none of them sent.
LEMMA QueueKeepsDelivery ==
  ASSUME Delivery, NEW w \in Workers, NEW new \in (SUBSET Messages) \ {{}},
         queueReplies(w, new)
  PROVE  Delivery'
<1>1. CallsHonest' /\ work' \in [Workers -> Work \cup {Idle}]
  BY TurnsKeepCalls DEF queueReplies
<1> QED
  BY <1>1 DEF queueReplies, Delivery, TypeOK, SentMeansReceived

\* Starting on a batch (processPending) changes no message.
LEMMA PendingKeepsDelivery ==
  ASSUME Delivery, NEW w \in Workers, processPending(w) PROVE Delivery'
<1>1. Batch \in SUBSET Messages
  BY DEF Batch, Oldest
<1>2. CallsHonest' /\ work' \in [Workers -> Work \cup {Idle}]
  BY <1>1, TurnsKeepCalls DEF processPending
<1> QED
  BY <1>2 DEF processPending, Delivery, TypeOK, SentMeansReceived

\* Reading a message (deliveryContext) notes a status that is not SENT, or goes
\* on to the next message.
LEMMA ReadKeepsDelivery ==
  ASSUME Delivery, NEW w \in Workers, read(w) PROVE Delivery'
<1>1. work[w] # Idle
  BY DEF read, Doing
<1>2. CallsHonest' /\ work' \in [Workers -> Work \cup {Idle}]
  <2>1. CASE status[Current(w)] \in Unsent
    BY <1>1, <2>1, StepsKeepCalls DEF read
  <2>2. CASE status[Current(w)] \notin Unsent
    BY <1>1, <2>2, WorkInHand, TurnsKeepCalls DEF read, Done
  <2> QED
    BY <2>1, <2>2
<1> QED
  BY <1>2 DEF read, Delivery, TypeOK, SentMeansReceived

\* The answer of the provider (send returned or threw) changes what the call
\* knows, and only a call that was answered will record a delivery.
LEMMA AnswerKeepsDelivery ==
  ASSUME Delivery, NEW w \in Workers, accept(w) \/ decline(w) PROVE Delivery'
<1>1. work[w] # Idle /\ work[w].step = "sending"
  BY DEF accept, decline, Doing
<1>2. work[w].seen \in Unsent /\ work[w] \in Work /\ Current(w) \in Messages
  BY <1>1, WorkInHand DEF Delivery, CallsHonest
<1>3. PICK step \in {"sent", "failed"} :
        /\ work' = [work EXCEPT ![w].step = step]
        /\ step = "sent" => Current(w) \in received'
        /\ received' \in {received, received \cup {Current(w)}}
        /\ status' = status
  BY DEF accept, decline, outcome
<1>4. work' = [work EXCEPT ![w].seen = work[w].seen, ![w].step = step]
  BY <1>1, <1>2, <1>3 DEF Delivery, TypeOK, Work
<1>5. CallsHonest' /\ work' \in [Workers -> Work \cup {Idle}]
  BY <1>1, <1>2, <1>3, <1>4, StepsKeepCalls
<1> QED
  BY <1>2, <1>3, <1>5 DEF Delivery, TypeOK, SentMeansReceived

\* Recording an outcome (the two conditional updates of dispatch): SENT is
\* written only by a call whose message the provider accepted.
LEMMA RecordKeepsDelivery ==
  ASSUME Delivery, NEW w \in Workers, recordSent(w) \/ markFailed(w)
  PROVE  Delivery'
<1>1. work[w] # Idle
  BY DEF recordSent, markFailed, Doing
<1>2. Current(w) \in Messages /\ work[w].todo \ {Current(w)} \in SUBSET Messages
  BY <1>1, WorkInHand
<1>3. CallsHonest' /\ work' \in [Workers -> Work \cup {Idle}]
  BY <1>2, TurnsKeepCalls DEF recordSent, markFailed, Done
<1>4. recordSent(w) => Current(w) \in received
  BY <1>1 DEF recordSent, Doing, Delivery, CallsHonest
<1> QED
  BY <1>2, <1>3, <1>4
     DEF recordSent, markFailed, Delivery, TypeOK, SentMeansReceived

\* A crash forgets what a call knew.
LEMMA CrashKeepsDelivery ==
  ASSUME Delivery, NEW w \in Workers, crash(w) PROVE Delivery'
<1>1. /\ {} \in SUBSET Messages /\ received \subseteq received'
      /\ work' = [work EXCEPT ![w] = Start({})] /\ UNCHANGED <<status, received>>
  BY DEF crash, Start
<1>2. CallsHonest' /\ work' \in [Workers -> Work \cup {Idle}]
  BY <1>1, TurnsKeepCalls
<1> QED
  BY <1>1, <1>2 DEF Delivery, TypeOK, SentMeansReceived

\* Every step of the delivery keeps the invariant.
LEMMA NextDelivery == Delivery /\ [Next]_vars => Delivery'
<1> SUFFICES ASSUME Delivery, [Next]_vars PROVE Delivery'
  OBVIOUS
<1>1. CASE Next
  BY <1>1, QueueKeepsDelivery, PendingKeepsDelivery, ReadKeepsDelivery,
     AnswerKeepsDelivery, RecordKeepsDelivery, CrashKeepsDelivery
     DEF Next, Going
<1>2. CASE UNCHANGED vars
  BY <1>2 DEF vars, Delivery, TypeOK, SentMeansReceived, CallsHonest, Current
<1> QED
  BY <1>1, <1>2

\* The inductive invariant: SENT messages were received, and every call under
\* way knows only what is true.
THEOREM DeliveryInvariant == Spec => []Delivery
BY InitDelivery, NextDelivery, PTL DEF Spec

\* The messages and the work of dispatch always have their shape.
THEOREM DeliveryTypeCorrect == Spec => []TypeOK
<1>1. Delivery => TypeOK
  BY DEF Delivery
<1> QED
  BY <1>1, DeliveryInvariant, PTL

\* However many calls of dispatch race on a message, it is marked SENT only if
\* the provider took it.
THEOREM SentWasReceived == Spec => []SentMeansReceived
<1>1. Delivery => SentMeansReceived
  BY DEF Delivery
<1> QED
  BY <1>1, DeliveryInvariant, PTL

\* The filter on deliveryStatus (recordSent, markFailed) makes SENT final: a call
\* that fails after another has succeeded does not reopen the message.
THEOREM SentIsFinal == Spec => SentStays
<1>1. Delivery /\ [Next]_vars =>
        [\A m \in Messages : status[m] = "SENT" => status'[m] = "SENT"]_vars
  <2> SUFFICES ASSUME Delivery, Next, NEW m \in Messages, status[m] = "SENT"
               PROVE  status'[m] = "SENT"
    BY DEF vars
  <2>1. PICK w \in Workers :
          \/ \E new \in (SUBSET Messages) \ {{}} : queueReplies(w, new)
          \/ status' = status
          \/ recordSent(w)
          \/ markFailed(w)
    BY DEF Next, Going, processPending, read, accept, decline, crash
  <2>2. CASE \E new \in (SUBSET Messages) \ {{}} : queueReplies(w, new)
    BY <2>2 DEF queueReplies
  <2>3. CASE recordSent(w)
    BY <2>3 DEF recordSent, Delivery, TypeOK
  <2>4. CASE markFailed(w)
    <3>1. work[w] # Idle /\ work[w].seen \in Unsent
      BY <2>4 DEF markFailed, Doing, Delivery, CallsHonest
    <3>2. Unchanged(w) => Current(w) # m
      BY <3>1 DEF Unchanged, Unsent
    <3> QED
      BY <2>4, <3>2 DEF markFailed, Delivery, TypeOK
  <2> QED
    BY <2>1, <2>2, <2>3, <2>4
<1> QED
  BY <1>1, DeliveryInvariant, PTL DEF Spec, SentStays
=============================================================================

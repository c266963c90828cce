--------------------------- MODULE CustomerProofs ---------------------------
(***************************************************************************)
(* Proofs about the parts customers meet besides the calendar, which share  *)
(* no state: CustomerAccess, for any number of challenges and concurrent    *)
(* requests and every choice of lifetimes and limits; Feedback, for any     *)
(* requests, keys and images; Referrals, for any codes, terms and prices.   *)
(* Each has an inductive invariant of its own.                              *)
(***************************************************************************)
EXTENDS CustomerAccess, Feedback, Referrals, FiniteSetTheorems, TLAPS

-----------------------------------------------------------------------------
(* CustomerAccess: codes and sessions *)

\* Nothing is stored and nothing was handed out: the invariant holds.
LEMMA InitAccess == AccessInit => Access
BY AccessAssumption
   DEF AccessInit, Access, AccessTypeOK, Stored, Verifying, Backed, OneSessionPerCode

\* requestCode, send and accessLost write no challenge and begin no verification.
LEMMA BystandersKeepAccess ==
  ASSUME Access, NEW w \in Callers, NEW next \in Serving \cup {Free},
         caller' = [caller EXCEPT ![w] = next],
         next # Free => next.stage # "consume",
         UNCHANGED <<tenantStatus, challenge, spent, time, granted>>
  PROVE  Access'
<1>1. AccessTypeOK'
  BY DEF Access, AccessTypeOK
<1>2. Stored' = Stored
  BY DEF Stored
<1>3. \A v \in Callers : Verifying(v)'
  BY <1>2 DEF Access, AccessTypeOK, Verifying
<1>4. \A g \in granted' : g.challenge \in spent' /\ g.until > 0 /\ Backed(g)'
  BY <1>2 DEF Access, Backed
<1>5. OneSessionPerCode'
  BY <1>2 DEF Access, OneSessionPerCode
<1> QED
  BY <1>1, <1>2, <1>3, <1>4, <1>5 DEF Access

\* A challenge that is not a session yet backs none: changing its code or its
\* attempts (discardCode, countAttempt) keeps what is known of the sessions.
LEMMA CodeChangesKeepAccess ==
  ASSUME Access, NEW w \in Callers, NEW next \in Serving \cup {Free},
         NEW c \in Stored, NEW doc \in Challenge,
         challenge[c].session = 0, doc.session = 0,
         doc.customer <=> challenge[c].customer, doc.attempts <= MaxCodeAttempts,
         challenge' = [challenge EXCEPT ![c] = doc],
         caller' = [caller EXCEPT ![w] = next],
         (next # Free /\ next.stage = "consume") =>
           next.challenge = c /\ next.until > 0 /\ doc.customer,
         UNCHANGED <<tenantStatus, spent, time, granted>>
  PROVE  Access'
<1>1. c \in Challenges /\ c \in spent
  BY DEF Access, Stored
<1>2. AccessTypeOK'
  BY <1>1 DEF Access, AccessTypeOK
<1>3. /\ \A d \in Challenges : challenge'[d] = IF d = c THEN doc ELSE challenge[d]
      /\ \A v \in Callers : caller'[v] = IF v = w THEN next ELSE caller[v]
  BY <1>1 DEF Access, AccessTypeOK
<1>4. Stored' = Stored
  BY <1>1, <1>3, FreeAssumption DEF Stored
<1>5. \A v \in Callers : Verifying(v)'
  BY <1>1, <1>3, <1>4 DEF Access, Verifying, Stored
<1>6. ASSUME NEW g \in granted PROVE g.challenge # c /\ Backed(g)'
  <2>1. g.until > 0 /\ Backed(g) /\ g.until \in Nat /\ g.challenge \in Challenges
    BY <1>6 DEF Access, AccessTypeOK
  <2>2. g.challenge # c
    BY <2>1 DEF Backed
  <2> QED
    BY <1>3, <1>4, <2>1, <2>2 DEF Backed
<1>7. \A g \in granted' : g.challenge \in spent' /\ g.until > 0 /\ Backed(g)'
  BY <1>6 DEF Access
<1>8. \A d \in Stored : challenge'[d].attempts <= MaxCodeAttempts
  BY <1>3 DEF Access, OneSessionPerCode, Stored
<1>9. OneSessionPerCode'
  BY <1>4, <1>8 DEF Access, OneSessionPerCode
<1> QED
  BY <1>2, <1>4, <1>5, <1>7, <1>9 DEF Access

\* Every request gets its challenge an id of its own (insertChallenge): no
\* session and no verification knows it yet.
LEMMA InsertKeepsAccess ==
  ASSUME Access, NEW w \in Callers, insertChallenge(w)
  PROVE  Access'
<1> DEFINE bucket == caller[w].now \div Cooldown
<1>1. /\ caller[w] \in Serving /\ caller[w].stage = "insert"
      /\ caller[w].requester \in Requesters /\ caller[w].now \in Nat
  BY DEF insertChallenge, Access, AccessTypeOK, Serving
<1>2. CASE \E c \in Stored : challenge[c].bucket = bucket
  <2>1. caller' = [caller EXCEPT ![w] = Free] /\ UNCHANGED <<tenantStatus, challenge, spent, time, granted>>
    BY <1>2 DEF insertChallenge
  <2> QED
    BY <2>1, BystandersKeepAccess
<1>3. CASE ~\E c \in Stored : challenge[c].bucket = bucket
  <2> DEFINE c == CHOOSE c \in Challenges \ spent : TRUE
             doc(known) == [requester |-> caller[w].requester, bucket |-> bucket,
                            customer |-> known, createdAt |-> time,
                            codeExpiresAt |-> caller[w].now + CodeTTL,
                            expiresAt |-> caller[w].now + CodeTTL,
                            attempts |-> 0, session |-> 0]
             next(known) == IF known THEN [stage |-> "send", challenge |-> c] ELSE Free
  <2>1. PICK known \in BOOLEAN :
          /\ spent # Challenges
          /\ challenge' = [challenge EXCEPT ![c] = doc(known)]
          /\ spent' = spent \cup {c}
          /\ caller' = [caller EXCEPT ![w] = next(known)]
          /\ UNCHANGED <<tenantStatus, time, granted>>
    BY <1>3 DEF insertChallenge
  <2>2. c \in Challenges \ spent
    BY <2>1 DEF Access, AccessTypeOK
  <2>3. bucket \in Nat
    BY <1>1, AccessAssumption
  <2>4. doc(known) \in Challenge /\ doc(known).attempts = 0
    BY <1>1, <2>3, AccessAssumption DEF Access, AccessTypeOK, Challenge
  <2>5. /\ next(known) \in Serving \cup {Free}
        /\ next(known) # Free => next(known).stage = "send"
    BY <2>2 DEF Serving
  <2> HIDE DEF c, doc, next, bucket
  <2>6. /\ \A d \in Challenges : challenge'[d] = IF d = c THEN doc(known) ELSE challenge[d]
        /\ \A v \in Callers : caller'[v] = IF v = w THEN next(known) ELSE caller[v]
    BY <2>1, <2>2 DEF Access, AccessTypeOK
  <2>7. AccessTypeOK'
    BY <2>1, <2>2, <2>4, <2>5 DEF Access, AccessTypeOK
  <2>8. Stored' = Stored \cup {c}
    BY <2>2, <2>4, <2>6, FreeAssumption DEF Stored
  <2>9. Stored' \subseteq spent'
    BY <2>1, <2>8 DEF Access
  <2>10. \A v \in Callers : Verifying(v)'
    BY <2>1, <2>2, <2>5, <2>6, <2>8 DEF Access, Verifying, Stored
  <2>11. ASSUME NEW g \in granted PROVE g.challenge \in spent' /\ g.until > 0 /\ Backed(g)'
    BY <2>1, <2>2, <2>6, <2>8, <2>11 DEF Access, AccessTypeOK, Backed
  <2>12. OneSessionPerCode'
    BY <2>1, <2>4, <2>6, <2>8, AccessAssumption DEF Access, OneSessionPerCode, Stored
  <2> QED
    BY <2>1, <2>7, <2>9, <2>10, <2>11, <2>12 DEF Access
<1> QED
  BY <1>2, <1>3

\* consume hands a session out only for a challenge that backs none.
LEMMA ConsumeKeepsAccess ==
  ASSUME Access, NEW w \in Callers, consume(w)
  PROVE  Access'
<1>1. PICK c \in Challenges, until \in Nat :
        /\ caller[w] \in Serving /\ caller[w].stage = "consume"
        /\ caller[w].challenge = c /\ caller[w].until = until
  BY DEF consume, Access, AccessTypeOK, Serving
<1>2. until > 0 /\ c \in spent /\ (c \in Stored => challenge[c].customer)
  BY <1>1, FreeAssumption DEF Access, Verifying
<1>3. /\ caller' = [caller EXCEPT ![w] = Free]
      /\ UNCHANGED <<tenantStatus, spent, time>>
  BY DEF consume
<1>4. CASE ~(c \in Stored /\ challenge[c].session = 0 /\ challenge[c].codeExpiresAt > time)
  BY <1>1, <1>3, <1>4, BystandersKeepAccess DEF consume
<1>5. CASE c \in Stored /\ challenge[c].session = 0 /\ challenge[c].codeExpiresAt > time
  <2> DEFINE new == [challenge |-> c, by |-> w, until |-> until]
  <2>1. /\ challenge' = [challenge EXCEPT ![c].session = until, ![c].expiresAt = until]
        /\ granted' = granted \cup {new}
    BY <1>1, <1>5 DEF consume
  <2>2. challenge[c] \in Challenge
    BY <1>1, <1>5 DEF Access, AccessTypeOK, Stored
  <2> DEFINE doc == [challenge[c] EXCEPT !.session = until, !.expiresAt = until]
  <2>3. /\ doc \in Challenge /\ doc.session = until /\ doc.expiresAt = until
        /\ doc.attempts = challenge[c].attempts
        /\ doc.customer <=> challenge[c].customer
    BY <1>1, <2>2 DEF Challenge
  <2> HIDE DEF doc
  <2>4. /\ \A d \in Challenges : challenge'[d] = IF d = c THEN doc ELSE challenge[d]
        /\ challenge' \in [Challenges -> Challenge \cup {Free}]
    BY <1>1, <2>1, <2>3 DEF Access, AccessTypeOK, doc
  <2>5. new \in [challenge : Challenges, by : Callers, until : Nat]
    BY <1>1
  <2>6. AccessTypeOK'
    BY <1>3, <2>1, <2>4, <2>5 DEF Access, AccessTypeOK
  <2>7. Stored' = Stored
    BY <1>5, <2>3, <2>4, FreeAssumption DEF Stored
  <2>8. ASSUME NEW g \in granted PROVE g.challenge # c /\ Backed(g)'
    <3>1. g.until > 0 /\ Backed(g) /\ g.until \in Nat /\ g.challenge \in Challenges
      BY <2>8 DEF Access, AccessTypeOK
    <3>2. g.challenge # c
      BY <1>5, <3>1 DEF Backed
    <3> QED
      BY <1>3, <2>4, <2>7, <3>1, <3>2 DEF Backed
  <2>9. Backed(new)'
    BY <1>1, <1>2, <1>5, <2>3, <2>4, <2>7 DEF Backed
  <2>10. \A g \in granted' : g.challenge \in spent' /\ g.until > 0 /\ Backed(g)'
    BY <1>2, <1>3, <2>1, <2>8, <2>9 DEF Access
  <2>11. \A v \in Callers : caller'[v] = IF v = w THEN Free ELSE caller[v]
    BY <1>3 DEF Access, AccessTypeOK
  <2>12. \A v \in Callers : Verifying(v)'
    <3>1. \A d \in Stored : challenge'[d].customer <=> challenge[d].customer
      BY <2>3, <2>4 DEF Stored
    <3> QED
      BY <1>3, <2>7, <2>11, <3>1 DEF Access, Verifying
  <2>13. OneSessionPerCode'
    BY <1>5, <2>1, <2>3, <2>4, <2>7, <2>8 DEF Access, OneSessionPerCode, Stored
  <2> QED
    BY <1>3, <2>6, <2>7, <2>10, <2>12, <2>13 DEF Access
<1> QED
  BY <1>4, <1>5

\* The index deletes a session only once its moment has passed.
LEMMA ExpiryKeepsAccess ==
  ASSUME Access, expireDocument
  PROVE  Access'
<1>1. PICK c \in Stored : /\ challenge[c].expiresAt <= time
                          /\ challenge' = [challenge EXCEPT ![c] = Free]
                          /\ UNCHANGED <<tenantStatus, spent, caller, time, granted>>
  BY DEF expireDocument
<1>2. c \in Challenges
  BY DEF Stored
<1>3. /\ AccessTypeOK'
      /\ \A d \in Challenges : challenge'[d] = IF d = c THEN Free ELSE challenge[d]
  BY <1>1, <1>2 DEF Access, AccessTypeOK
<1>4. Stored' = Stored \ {c}
  BY <1>2, <1>3 DEF Stored
<1>5. \A v \in Callers : Verifying(v)'
  BY <1>1, <1>3, <1>4 DEF Access, Verifying, Stored
<1>6. \A g \in granted' : g.challenge \in spent' /\ g.until > 0 /\ Backed(g)'
  BY <1>1, <1>3, <1>4 DEF Access, AccessTypeOK, Backed
<1>7. OneSessionPerCode'
  BY <1>1, <1>3, <1>4 DEF Access, OneSessionPerCode, Stored
<1> QED
  BY <1>1, <1>3, <1>4, <1>5, <1>6, <1>7 DEF Access

\* Time only makes sessions end that have ended, and a suspension touches none.
LEMMA SurroundingsKeepAccess ==
  ASSUME Access, accessTick \/ switchTenant \/ UNCHANGED accessVars
  PROVE  Access'
<1>1. /\ UNCHANGED <<challenge, spent, caller, granted>>
      /\ time' \in Nat /\ time <= time'
      /\ tenantStatus' \in {"ACTIVE", "SUSPENDED"}
  BY DEF accessTick, switchTenant, accessVars, Access, AccessTypeOK
<1>2. Stored' = Stored
  BY <1>1 DEF Stored
<1>3. \A g \in granted : Backed(g)'
  BY <1>1, <1>2 DEF Access, AccessTypeOK, Backed
<1> QED
  BY <1>1, <1>2, <1>3 DEF Access, AccessTypeOK, Verifying, OneSessionPerCode

\* Every step keeps the invariant.
LEMMA NextKeepsAccess ==
  ASSUME Access, [AccessNext]_accessVars
  PROVE  Access'
<1>1. ASSUME NEW w \in Callers, requestCode(w) PROVE Access'
  <2>1. PICK r \in Requesters :
          caller' = [caller EXCEPT ![w] = [stage |-> "insert", requester |-> r, now |-> time]]
    BY <1>1 DEF requestCode
  <2>2. [stage |-> "insert", requester |-> r, now |-> time] \in Serving
    BY DEF Serving, Access, AccessTypeOK
  <2> QED
    BY <1>1, <2>1, <2>2, BystandersKeepAccess DEF requestCode
<1>2. ASSUME NEW w \in Callers, send(w) PROVE Access'
  <2>1. caller[w].challenge \in Challenges
    BY <1>2 DEF send, Access, AccessTypeOK, Serving
  <2>2. PICK next \in {[stage |-> "discard", challenge |-> caller[w].challenge], Free} :
          caller' = [caller EXCEPT ![w] = next]
    BY <1>2 DEF send
  <2>3. next \in Serving \cup {Free} /\ (next # Free => next.stage # "consume")
    BY <2>1, <2>2 DEF Serving
  <2> QED
    BY <1>2, <2>2, <2>3, BystandersKeepAccess DEF send
<1>3. ASSUME NEW w \in Callers, discardCode(w) PROVE Access'
  <2> DEFINE c == caller[w].challenge
             doc == [challenge[c] EXCEPT !.codeExpiresAt = time]
  <2>1. CASE ~(c \in Stored /\ challenge[c].session = 0)
    BY <1>3, <2>1, BystandersKeepAccess DEF discardCode
  <2>2. CASE c \in Stored /\ challenge[c].session = 0
    <3>1. challenge[c] \in Challenge /\ time \in Nat
            /\ challenge[c].attempts <= MaxCodeAttempts
      BY <2>2 DEF Access, AccessTypeOK, Stored, OneSessionPerCode
    <3>2. /\ doc \in Challenge /\ doc.session = challenge[c].session
          /\ doc.attempts = challenge[c].attempts /\ doc.customer = challenge[c].customer
      BY <3>1 DEF Challenge
    <3>3. /\ challenge' = [challenge EXCEPT ![c] = doc]
          /\ caller' = [caller EXCEPT ![w] = Free]
          /\ UNCHANGED <<tenantStatus, spent, time, granted>>
      BY <1>3, <2>2 DEF discardCode
    <3> HIDE DEF doc
    <3> QED
      BY <2>2, <3>1, <3>2, <3>3, CodeChangesKeepAccess
  <2> QED
    BY <2>1, <2>2
<1>4. ASSUME NEW w \in Callers, countAttempt(w) PROVE Access'
  <2>1. PICK c \in Stored, typed \in inbox \cup {Free} :
          /\ CanBeVerified(c)
          /\ challenge' = [challenge EXCEPT ![c].attempts = @ + 1]
          /\ caller' = [caller EXCEPT ![w] =
               IF challenge[c].customer /\ typed = c
               THEN [stage |-> "consume", challenge |-> c, until |-> time + CustomerTTL]
               ELSE Free]
    BY <1>4 DEF countAttempt
  <2> DEFINE doc == [challenge[c] EXCEPT !.attempts = @ + 1]
             next == IF challenge[c].customer /\ typed = c
                     THEN [stage |-> "consume", challenge |-> c,
                           until |-> time + CustomerTTL]
                     ELSE Free
  <2>2. /\ challenge[c] \in Challenge /\ c \in Challenges /\ time \in Nat
        /\ challenge[c].session = 0 /\ challenge[c].attempts < MaxCodeAttempts
    BY <2>1 DEF Access, AccessTypeOK, Stored, CanBeVerified
  <2>3. /\ doc \in Challenge /\ doc.session = 0
        /\ doc.attempts <= MaxCodeAttempts /\ doc.customer = challenge[c].customer
    BY <2>2, AccessAssumption DEF Challenge
  <2>4. time + CustomerTTL \in Nat /\ time + CustomerTTL > 0
    BY <2>2, AccessAssumption
  <2>5. /\ next \in Serving \cup {Free}
        /\ (next # Free /\ next.stage = "consume") =>
             next.challenge = c /\ next.until > 0 /\ doc.customer
    BY <2>2, <2>3, <2>4 DEF Serving
  <2>6. /\ challenge' = [challenge EXCEPT ![c] = doc]
        /\ caller' = [caller EXCEPT ![w] = next]
        /\ UNCHANGED <<tenantStatus, spent, time, granted>>
    BY <1>4, <2>1 DEF countAttempt
  <2> HIDE DEF doc, next
  <2> QED
    BY <2>2, <2>3, <2>5, <2>6, CodeChangesKeepAccess
<1>5. ASSUME NEW w \in Callers, accessLost(w) PROVE Access'
  BY <1>5, BystandersKeepAccess DEF accessLost
<1> QED
  BY <1>1, <1>2, <1>3, <1>4, <1>5, InsertKeepsAccess, ConsumeKeepsAccess,
     ExpiryKeepsAccess, SurroundingsKeepAccess DEF AccessNext

\* The invariant holds in every reachable state, for every instance.
THEOREM AccessInvariant == AccessSpec => []Access
<1>1. Access /\ [AccessNext]_accessVars => Access'
  BY NextKeepsAccess
<1> QED
  BY InitAccess, <1>1, PTL DEF AccessSpec

\* A code buys one session and is guessed at no more often than the limit, for
\* any number of concurrent verifications (verifyCode).
THEOREM CodesBuyOneSession == AccessSpec => []OneSessionPerCode
<1>1. Access => OneSessionPerCode
  BY DEF Access
<1> QED
  BY AccessInvariant, <1>1, PTL

\* While its tenant is active (authenticate asks), a session lets its customer in
\* until the moment its answer named, whatever the TTL index, late failures of
\* the delivery, other requests and earlier suspensions do.
THEOREM SessionsAreKept == AccessSpec => []SessionKept
<1>1. Access => SessionKept
  BY DEF Access, AccessTypeOK, SessionKept, Backed, authenticate
<1> QED
  BY AccessInvariant, <1>1, PTL

-----------------------------------------------------------------------------
(* CustomerAccess: how far the limit per phone is exceeded *)

\* What is counted is finite, and counts no more than what it is part of.
LEMMA Countable ==
  ASSUME Access, Overshoot
  PROVE  /\ IsFiniteSet(Recent) /\ Cardinality(Recent) \in Nat
         /\ IsFiniteSet(Counted) /\ Cardinality(Counted) \in Nat
         /\ Cardinality(Callers) \in Nat /\ Cardinality(Callers) > 0
         /\ MaxPhoneRequests \in Nat
<1>1. Recent \subseteq spent /\ IsFiniteSet(spent)
  BY DEF Access, Overshoot, Recent
<1>2. Counted \subseteq Callers /\ IsFiniteSet(Callers) /\ Callers # {}
  BY AccessAssumption DEF Counted
<1>3. IsFiniteSet(Recent) /\ IsFiniteSet(Counted)
  BY <1>1, <1>2, FS_Subset
<1>4. Cardinality(Callers) # 0
  BY <1>2, FS_EmptySet
<1> QED
  BY <1>2, <1>3, <1>4, FS_CardinalityType, AccessAssumption

\* A step that gives no id away and after which no more is recent and no more
\* under way exceeds nothing.
LEMMA FewerKeepOvershoot ==
  ASSUME Access, Overshoot, Recent' \subseteq Recent, Counted' \subseteq Counted,
         spent' = spent
  PROVE  Overshoot'
<1>1. Cardinality(Recent') <= Cardinality(Recent) /\ Cardinality(Recent') \in Nat
  BY Countable, FS_Subset, FS_CardinalityType
<1>2. Cardinality(Counted') <= Cardinality(Counted) /\ Cardinality(Counted') \in Nat
  BY Countable, FS_Subset, FS_CardinalityType
<1> QED
  BY <1>1, <1>2, Countable DEF Overshoot

\* requestCode finds room: however many have found it before, they are no more
\* than the requests served at once.
LEMMA RequestKeepsOvershoot ==
  ASSUME Access, Overshoot, NEW w \in Callers, requestCode(w)
  PROVE  Overshoot'
<1>1. Cardinality(Recent) < MaxPhoneRequests
  BY DEF requestCode, mayRequest, Recent
<1>2. Recent' = Recent /\ spent' = spent
  BY DEF requestCode, Recent, Stored
<1>3. Counted' \subseteq Callers /\ IsFiniteSet(Callers)
  BY AccessAssumption DEF Counted
<1>4. Cardinality(Counted') <= Cardinality(Callers) /\ Cardinality(Counted') \in Nat
  BY <1>3, FS_Subset, FS_CardinalityType
<1> QED
  BY <1>1, <1>2, <1>4, Countable DEF Overshoot

\* insertChallenge uses the place its request had: one more is recent, one
\* fewer under way.
LEMMA InsertKeepsOvershoot ==
  ASSUME Access, Overshoot, NEW w \in Callers, insertChallenge(w)
  PROVE  Overshoot'
<1> DEFINE bucket == caller[w].now \div Cooldown
<1>1. w \in Counted /\ time' = time
  BY DEF insertChallenge, Counted
<1>2. CASE \E c \in Stored : challenge[c].bucket = bucket
  <2>1. /\ caller' = [caller EXCEPT ![w] = Free]
        /\ UNCHANGED <<challenge, spent, time>>
    BY <1>2 DEF insertChallenge
  <2>2. Recent' = Recent
    BY <2>1 DEF Recent, Stored
  <2>3. Counted' \subseteq Counted
    BY <2>1 DEF Counted, Access, AccessTypeOK
  <2> QED
    BY <2>1, <2>2, <2>3, FewerKeepOvershoot
<1>3. CASE ~\E c \in Stored : challenge[c].bucket = bucket
  <2> DEFINE c == CHOOSE c \in Challenges \ spent : TRUE
             next(known) == IF known THEN [stage |-> "send", challenge |-> c] ELSE Free
  <2>1. /\ \E doc : challenge' = [challenge EXCEPT ![c] = doc]
        /\ spent' = spent \cup {c}
        /\ \E known \in BOOLEAN : caller' = [caller EXCEPT ![w] = next(known)]
    BY <1>3 DEF insertChallenge
  <2>2. \A known \in BOOLEAN : next(known) # Free => next(known).stage = "send"
    OBVIOUS
  <2> HIDE DEF c, next
  <2>3. Recent' \subseteq Recent \cup {c}
    BY <1>1, <2>1 DEF Recent, Stored, Access, AccessTypeOK
  <2>4. Counted' = Counted \ {w}
    BY <2>1, <2>2 DEF Counted, Access, AccessTypeOK
  <2>5. IsFiniteSet(spent')
    BY <2>1, FS_AddElement DEF Overshoot
  <2>6. /\ IsFiniteSet(Recent \cup {c})
        /\ Cardinality(Recent \cup {c}) <= Cardinality(Recent) + 1
        /\ Cardinality(Recent \cup {c}) \in Nat
    <3>1. IsFiniteSet(Recent) /\ Cardinality(Recent) \in Nat
      BY Countable
    <3>2. /\ IsFiniteSet(Recent \cup {c})
          /\ Cardinality(Recent \cup {c})
               = IF c \in Recent THEN Cardinality(Recent) ELSE Cardinality(Recent) + 1
      BY <3>1, FS_AddElement
    <3> QED
      BY <3>1, <3>2
  <2>7. /\ Cardinality(Recent') <= Cardinality(Recent \cup {c})
        /\ Cardinality(Recent') \in Nat
    BY <2>3, <2>6, FS_Subset, FS_CardinalityType
  <2>8. Cardinality(Counted') = Cardinality(Counted) - 1
    BY <1>1, <2>4, Countable, FS_RemoveElement
  <2> QED
    BY <2>5, <2>6, <2>7, <2>8, Countable DEF Overshoot
<1> QED
  BY <1>2, <1>3

\* No other step makes a challenge younger or finds room for one.
LEMMA NextKeepsOvershoot ==
  ASSUME Access, Overshoot, [AccessNext]_accessVars
  PROVE  Overshoot'
<1>1. ASSUME NEW w \in Callers, NEW next, next # Free => next.stage # "insert",
             caller' = [caller EXCEPT ![w] = next], UNCHANGED <<spent, time>>,
             \A c \in Challenges :
               challenge'[c] # Free => /\ challenge[c] # Free
                                       /\ challenge'[c].createdAt = challenge[c].createdAt
      PROVE  Overshoot'
  <2>1. Recent' \subseteq Recent
    BY <1>1 DEF Recent, Stored
  <2>2. Counted' \subseteq Counted
    BY <1>1 DEF Counted, Access, AccessTypeOK
  <2> QED
    BY <1>1, <2>1, <2>2, FewerKeepOvershoot
<1>2. ASSUME NEW w \in Callers, send(w) PROVE Overshoot'
  <2>1. PICK next : /\ caller' = [caller EXCEPT ![w] = next]
                    /\ next # Free => next.stage # "insert"
    BY <1>2 DEF send
  <2> QED
    BY <1>1, <1>2, <2>1 DEF send
<1>3. ASSUME NEW w \in Callers, discardCode(w) PROVE Overshoot'
  <2>1. \A c \in Challenges :
          challenge'[c] # Free => /\ challenge[c] # Free
                                  /\ challenge'[c].createdAt = challenge[c].createdAt
    BY <1>3 DEF discardCode, Stored, Access, AccessTypeOK, Challenge
  <2> QED
    BY <1>1, <1>3, <2>1 DEF discardCode
<1>4. ASSUME NEW w \in Callers, countAttempt(w) PROVE Overshoot'
  <2>1. PICK c, next :
          /\ c \in Stored
          /\ challenge' = [challenge EXCEPT ![c].attempts = @ + 1]
          /\ caller' = [caller EXCEPT ![w] = next]
          /\ next # Free => next.stage # "insert"
          /\ UNCHANGED <<spent, time>>
    BY <1>4 DEF countAttempt
  <2>2. \A d \in Challenges :
          challenge'[d] # Free => /\ challenge[d] # Free
                                  /\ challenge'[d].createdAt = challenge[d].createdAt
    BY <2>1 DEF Stored, Access, AccessTypeOK, Challenge
  <2> QED
    BY <1>1, <2>1, <2>2
<1>5. ASSUME NEW w \in Callers, consume(w) PROVE Overshoot'
  <2>1. \A c \in Challenges :
          challenge'[c] # Free => /\ challenge[c] # Free
                                  /\ challenge'[c].createdAt = challenge[c].createdAt
    BY <1>5 DEF consume, Stored, Access, AccessTypeOK, Challenge
  <2> QED
    BY <1>1, <1>5, <2>1 DEF consume
<1>6. ASSUME NEW w \in Callers, accessLost(w) PROVE Overshoot'
  BY <1>1, <1>6 DEF accessLost
<1>7. ASSUME expireDocument PROVE Overshoot'
  <2>1. Recent' \subseteq Recent
    BY <1>7 DEF expireDocument, Recent, Stored, Access, AccessTypeOK
  <2>2. Counted' = Counted
    BY <1>7 DEF expireDocument, Counted
  <2> QED
    BY <1>7, <2>1, <2>2, FewerKeepOvershoot DEF expireDocument
<1>8. ASSUME accessTick \/ switchTenant \/ UNCHANGED accessVars PROVE Overshoot'
  <2>1. \A c \in Stored : challenge[c].createdAt \in Nat
    BY DEF Stored, Access, AccessTypeOK, Challenge
  <2>2. /\ UNCHANGED <<challenge, spent, caller>>
        /\ time' \in Nat /\ time \in Nat /\ time <= time'
    BY <1>8 DEF accessTick, switchTenant, accessVars, Access, AccessTypeOK
  <2>3. Recent' \subseteq Recent
    BY <2>1, <2>2, AccessAssumption DEF Recent, Stored
  <2>4. Counted' = Counted
    BY <2>2 DEF Counted
  <2> QED
    BY <2>2, <2>3, <2>4, FewerKeepOvershoot
<1> QED
  BY <1>2, <1>3, <1>4, <1>5, <1>6, <1>7, <1>8, RequestKeepsOvershoot,
     InsertKeepsOvershoot DEF AccessNext

\* The challenges still stored of one phone's window exceed the limit by no more
\* than the requests that were under way together, less one (requestCode counts
\* before it inserts).
THEOREM LimitHeldWithin == AccessSpec => []LimitOvershoot
<1>1. AccessInit => Overshoot
  <2> SUFFICES ASSUME AccessInit PROVE Overshoot
    OBVIOUS
  <2>1. Recent = {} /\ Counted = {} /\ spent = {}
    BY DEF AccessInit, Recent, Stored, Counted
  <2>2. Cardinality(Callers) \in Nat /\ Cardinality(Callers) # 0
    BY AccessAssumption, FS_EmptySet, FS_CardinalityType
  <2> QED
    BY <2>1, <2>2, FS_EmptySet, AccessAssumption DEF Overshoot
<1>2. Access /\ Overshoot /\ [AccessNext]_accessVars => Overshoot'
  BY NextKeepsOvershoot
<1>3. Access /\ Overshoot => LimitOvershoot
  <2> SUFFICES ASSUME Access, Overshoot PROVE LimitOvershoot
    OBVIOUS
  <2>1. Cardinality(Recent) < MaxPhoneRequests + Cardinality(Callers)
    BY Countable DEF Overshoot
  <2> QED
    BY <2>1 DEF LimitOvershoot, Recent
<1> QED
  BY AccessInvariant, <1>1, <1>2, <1>3, PTL DEF AccessSpec

-----------------------------------------------------------------------------
(* Feedback: images and answers *)

\* The requests that hold an image, and the images they hold.
Held == {w \in Clients : client[w] # Vacant /\ client[w].stage \in {"record", "undo"}}
Files == {client[w].file : w \in Held}

\* The answer under a key with evidence, and the answer about the survey.
EvidenceAnswer(k) == [key |-> k, print |-> evidence[k].print, kind |-> "evidence",
                      row |-> evidence[k]]
SurveyAnswer == [key |-> survey.key, print |-> survey.print, kind |-> "survey",
                 row |-> survey]

\* Documents and requests have their shape.
FeedbackTyped ==
  /\ evidence \in [EntryKeys -> EvidenceRow \cup {Vacant}]
  /\ survey \in SurveyRow \cup {Vacant}
  /\ client \in [Clients -> Handled \cup {Vacant}]

\* StoreMatchesRecords made inductive: an image held is in the store, no other
\* request holds it, and it is on record only if the commit went unacknowledged.
Pictures ==
  /\ recorded \ unacked \subseteq store
  /\ store \subseteq recorded \cup Files \cup strays
  /\ \A w \in Held :
       /\ client[w].file \in store
       /\ client[w].file \in recorded =>
            client[w].stage = "undo" /\ client[w].file \in unacked
       /\ \A v \in Held : client[v].file = client[w].file => v = w

\* FeedbackOnce made inductive: an answer is the document's, and a request told
\* that its key was taken will find the evidence that took it.
Replies ==
  /\ \A a \in answers :
       \/ \E k \in EntryKeys : evidence[k] # Vacant /\ a = EvidenceAnswer(k)
       \/ survey # Vacant /\ a = SurveyAnswer
  /\ \A w \in Held : (client[w].stage = "undo" /\ client[w].duplicate) =>
       evidence[client[w].key] # Vacant
  /\ timeline = {<<"evidence", k>> : k \in {k \in EntryKeys : evidence[k] # Vacant}}
                \cup (IF survey = Vacant THEN {} ELSE {<<"survey", survey.key>>})

FeedbackInv == FeedbackTyped /\ Pictures /\ Replies

\* A request goes from what holds no image to what holds none.
LEMMA EmptyHandsKeepPictures ==
  ASSUME FeedbackTyped, Pictures, NEW w \in Clients, NEW next,
         client[w] # Vacant => client[w].stage \notin {"record", "undo"},
         next # Vacant => next.stage \notin {"record", "undo"},
         client' = [client EXCEPT ![w] = next],
         UNCHANGED <<evidence, store, strays, unacked>>
  PROVE  Pictures' /\ Held' = Held /\ \A v \in Held : client'[v] = client[v]
<1>1. \A v \in Clients : client'[v] = IF v = w THEN next ELSE client[v]
  BY DEF FeedbackTyped
<1>2. Held' = Held /\ w \notin Held
  BY <1>1 DEF Held
<1>3. \A v \in Held : client'[v] = client[v]
  BY <1>1, <1>2 DEF Held
<1>4. Files' = Files
  BY <1>2, <1>3 DEF Files
<1>5. recorded' = recorded
  BY DEF recorded
<1> QED
  BY <1>2, <1>3, <1>4, <1>5 DEF Pictures

\* A request lets go of its image (undoUpload, feedbackLost): the image is
\* deleted or given up for lost.
LEMMA LettingGoKeepsPictures ==
  ASSUME FeedbackTyped, Pictures, NEW w \in Held, NEW f, f = client[w].file,
         client' = [client EXCEPT ![w] = Vacant],
         \/ /\ store' = store \ {f} /\ strays' = strays
            /\ client[w].stage = "undo"
         \/ strays' = strays \cup {f} /\ store' = store,
         UNCHANGED <<evidence, unacked>>
  PROVE  Pictures' /\ Held' = Held \ {w} /\ \A v \in Held' : client'[v] = client[v]
<1>1. w \in Clients
  BY DEF Held
<1>2. \A v \in Clients : client'[v] = IF v = w THEN Vacant ELSE client[v]
  BY <1>1 DEF FeedbackTyped
<1>3. Held' = Held \ {w}
  BY <1>2 DEF Held
<1>4. \A v \in Held' : client'[v] = client[v] /\ client[v].file # f
  BY <1>2, <1>3 DEF Held, Pictures
<1>5. Files \subseteq Files' \cup {f} /\ Files' \subseteq Files
  BY <1>3, <1>4 DEF Files
<1>6. recorded' = recorded
  BY DEF recorded
<1>7. /\ recorded' \ unacked' \subseteq store'
      /\ store' \subseteq recorded' \cup Files' \cup strays'
  BY <1>5, <1>6 DEF Pictures
<1>8. ASSUME NEW v \in Held'
      PROVE  /\ client'[v].file \in store'
             /\ client'[v].file \in recorded' =>
                  client'[v].stage = "undo" /\ client'[v].file \in unacked'
             /\ \A u \in Held' : client'[u].file = client'[v].file => u = v
  BY <1>3, <1>4, <1>6, <1>8 DEF Pictures
<1> QED
  BY <1>3, <1>4, <1>7, <1>8 DEF Pictures

\* The store gives an image a key nothing has, so nobody else holds it
\* (uploadPrivateImage).
LEMMA StoringKeepsFeedback ==
  ASSUME FeedbackInv, NEW w \in Clients, uploadPrivateImage(w)
  PROVE  FeedbackInv'
<1> DEFINE new == CHOOSE f \in FileIds \ (store \cup recorded) : TRUE
<1>1. PICK t \in Handled : t = client[w] /\ t.stage = "store"
  BY DEF uploadPrivateImage, FeedbackInv, FeedbackTyped
<1>2. t.scope \in Scopes /\ t.key \in EntryKeys /\ t.print \in Prints
  BY <1>1 DEF Handled
<1>3. w \notin Held
  BY <1>1 DEF Held
<1>4. UNCHANGED <<evidence, survey, timeline, answers, unacked>>
  BY DEF uploadPrivateImage
<1>5. CASE /\ client' = [client EXCEPT ![w] = Vacant]
           /\ UNCHANGED <<store, strays>>
  <2>1. FeedbackTyped'
    BY <1>4, <1>5 DEF FeedbackInv, FeedbackTyped
  <2>2. Pictures' /\ Held' = Held /\ \A v \in Held : client'[v] = client[v]
    BY <1>1, <1>4, <1>5, EmptyHandsKeepPictures DEF FeedbackInv
  <2>3. Replies'
    BY <1>4, <2>2 DEF FeedbackInv, Replies, EvidenceAnswer, SurveyAnswer
  <2> QED
    BY <2>1, <2>2, <2>3 DEF FeedbackInv
<1>6. CASE /\ FileIds \ (store \cup recorded) # {}
           /\ store' = store \cup {new}
           /\ client' = [client EXCEPT ![w] = Vacant]
           /\ strays' = strays \cup {new}
  <2>1. FeedbackTyped'
    BY <1>4, <1>6 DEF FeedbackInv, FeedbackTyped
  <2>2. \A v \in Clients : client'[v] = IF v = w THEN Vacant ELSE client[v]
    BY <1>6 DEF FeedbackInv, FeedbackTyped
  <2>3. Held' = Held /\ \A v \in Held : client'[v] = client[v]
    BY <1>3, <2>2 DEF Held
  <2>4. recorded' = recorded /\ Files' = Files
    BY <1>4, <2>3 DEF recorded, Files
  <2>5. Pictures'
    BY <1>4, <1>6, <2>3, <2>4 DEF FeedbackInv, Pictures
  <2>6. Replies'
    BY <1>4, <2>3 DEF FeedbackInv, Replies, EvidenceAnswer, SurveyAnswer
  <2> QED
    BY <2>1, <2>5, <2>6 DEF FeedbackInv
<1>7. CASE /\ FileIds \ (store \cup recorded) # {}
           /\ store' = store \cup {new}
           /\ client' = [client EXCEPT ![w] = [stage |-> "record", scope |-> @.scope,
                                               file |-> new, key |-> @.key,
                                               print |-> @.print]]
           /\ strays' = strays
  <2> DEFINE next == [stage |-> "record", scope |-> t.scope, file |-> new,
                      key |-> t.key, print |-> t.print]
  <2>1. new \in FileIds \ (store \cup recorded)
    BY <1>7
  <2>2. next \in Handled /\ next.stage = "record" /\ next.file = new /\ next # Vacant
    BY <1>2, <2>1, VacantAssumption DEF Handled
  <2>3. client' = [client EXCEPT ![w] = next] /\ store' = store \cup {new}
    BY <1>1, <1>7
  <2> HIDE DEF new, next
  <2>4. \A v \in Clients : client'[v] = IF v = w THEN next ELSE client[v]
    BY <2>3 DEF FeedbackInv, FeedbackTyped
  <2>5. FeedbackTyped'
    BY <1>4, <2>2, <2>3 DEF FeedbackInv, FeedbackTyped
  <2>6. Held' = Held \cup {w} /\ \A v \in Held : client'[v] = client[v]
    BY <1>3, <2>2, <2>4 DEF Held
  <2>7. recorded' = recorded /\ Files' = Files \cup {new}
    BY <1>4, <2>2, <2>4, <2>6 DEF recorded, Files
  <2>8. \A v \in Held : client[v].file # new
    BY <2>1 DEF FeedbackInv, Pictures
  <2>9. /\ recorded' \ unacked' \subseteq store'
        /\ store' \subseteq recorded' \cup Files' \cup strays'
    BY <1>4, <1>7, <2>3, <2>7 DEF FeedbackInv, Pictures
  <2>10. ASSUME NEW v \in Held'
         PROVE  /\ client'[v].file \in store'
                /\ client'[v].file \in recorded' =>
                     client'[v].stage = "undo" /\ client'[v].file \in unacked'
                /\ \A u \in Held' : client'[u].file = client'[v].file => u = v
    <3>1. CASE v = w
      BY <2>1, <2>2, <2>3, <2>4, <2>6, <2>7, <2>8, <3>1
    <3>2. CASE v # w
      BY <1>4, <2>2, <2>3, <2>4, <2>6, <2>7, <2>8, <2>10, <3>2 DEF FeedbackInv, Pictures
    <3> QED
      BY <3>1, <3>2
  <2>11. Pictures'
    BY <2>9, <2>10 DEF Pictures
  <2>12. Replies'
    BY <1>4, <2>2, <2>4, <2>6 DEF FeedbackInv, Replies, EvidenceAnswer, SurveyAnswer
  <2> QED
    BY <2>5, <2>11, <2>12 DEF FeedbackInv
<1> QED
  BY <1>5, <1>6, <1>7 DEF uploadPrivateImage

\* The transaction that records evidence (recordEvidence): the row takes its image
\* from the request's hands, or the request still holds it and means to undo.
LEMMA RecordingKeepsFeedback ==
  ASSUME FeedbackInv, NEW w \in Clients, recordEvidence(w)
  PROVE  FeedbackInv'
<1>1. PICK t \in Handled : t = client[w] /\ t.stage = "record"
  BY DEF recordEvidence, FeedbackInv, FeedbackTyped
<1>2. /\ t.scope \in Scopes /\ t.file \in FileIds
      /\ t.key \in EntryKeys /\ t.print \in Prints
  BY <1>1 DEF Handled
<1>3. w \in Held /\ t # Vacant /\ t.file \in store /\ t.file \notin recorded
  BY <1>1, VacantAssumption DEF Held, FeedbackInv, Pictures
<1> DEFINE row == [scope |-> t.scope, file |-> t.file, print |-> t.print,
                   actor |-> actorOf(t.scope)]
           undo(dup) == [stage |-> "undo", file |-> t.file, key |-> t.key,
                         print |-> t.print, duplicate |-> dup]
<1>4. row \in EvidenceRow /\ row.file = t.file /\ row.print = t.print /\ row # Vacant
  BY <1>2, VacantAssumption DEF EvidenceRow, actorOf
<1>5. \A dup \in BOOLEAN :
        /\ undo(dup) \in Handled /\ undo(dup).stage = "undo"
        /\ undo(dup).file = t.file /\ undo(dup).key = t.key
        /\ undo(dup).duplicate = dup /\ undo(dup) # Vacant
  BY <1>2, VacantAssumption DEF Handled
<1>6. UNCHANGED <<survey, store, strays>>
  BY DEF recordEvidence
<1>7. ASSUME evidence[t.key] = Vacant,
             evidence' = [evidence EXCEPT ![t.key] = row],
             timeline' = timeline \cup {<<"evidence", t.key>>},
             \/ /\ client' = [client EXCEPT ![w] = Vacant]
                /\ answers' = answers \cup {[key |-> t.key, print |-> t.print,
                                             kind |-> "evidence", row |-> row]}
                /\ UNCHANGED unacked
             \/ /\ client' = [client EXCEPT ![w] = undo(FALSE)]
                /\ unacked' = unacked \cup {t.file}
                /\ UNCHANGED answers
      PROVE  FeedbackInv'
  <2> HIDE DEF row, undo
  <2>1. PICK next \in {Vacant, undo(FALSE)} : client' = [client EXCEPT ![w] = next]
    BY <1>7
  <2>2. next \in Handled \cup {Vacant}
    BY <1>5, <2>1
  <2>3. /\ \A v \in Clients : client'[v] = IF v = w THEN next ELSE client[v]
        /\ \A k \in EntryKeys : evidence'[k] = IF k = t.key THEN row ELSE evidence[k]
    BY <1>2, <1>7, <2>1 DEF FeedbackInv, FeedbackTyped
  <2>4. FeedbackTyped'
    BY <1>2, <1>4, <1>6, <1>7, <2>1, <2>2 DEF FeedbackInv, FeedbackTyped
  <2>5. recorded' = recorded \cup {t.file}
    BY <1>2, <1>4, <1>7, <2>3 DEF recorded
  <2>6. \A v \in Held : v # w => v \in Held' /\ client'[v] = client[v]
                                 /\ client[v].file # t.file
    BY <1>1, <1>3, <2>3 DEF Held, FeedbackInv, Pictures
  <2>7. \A v \in Held' : v # w => v \in Held
    BY <2>3 DEF Held
  <2>8. w \in Held' => next = undo(FALSE) /\ t.file \in unacked'
    <3> SUFFICES ASSUME w \in Held' PROVE next = undo(FALSE) /\ t.file \in unacked'
      OBVIOUS
    <3>1. client'[w] # Vacant /\ client'[w] = next
      BY <2>3 DEF Held
    <3>2. client' # [client EXCEPT ![w] = Vacant]
      BY <3>1 DEF FeedbackInv, FeedbackTyped
    <3> QED
      BY <1>7, <2>1, <3>1, <3>2
  <2>9. Files \subseteq Files' \cup {t.file}
    BY <1>1, <2>6 DEF Files
  <2>10. /\ recorded' \ unacked' \subseteq store'
         /\ store' \subseteq recorded' \cup Files' \cup strays'
    BY <1>3, <1>6, <1>7, <2>5, <2>9 DEF FeedbackInv, Pictures
  <2>11. ASSUME NEW v \in Held'
         PROVE  /\ client'[v].file \in store'
                /\ client'[v].file \in recorded' =>
                     client'[v].stage = "undo" /\ client'[v].file \in unacked'
                /\ \A u \in Held' : client'[u].file = client'[v].file => u = v
    <3>1. v \in Clients /\ unacked \subseteq unacked'
      BY <1>7, <2>11 DEF Held
    <3>2. CASE v = w
      BY <1>3, <1>5, <1>6, <2>3, <2>6, <2>7, <2>8, <2>11, <3>1, <3>2
    <3>3. CASE v # w
      <4>1. v \in Held /\ client'[v] = client[v] /\ client[v].file # t.file
        BY <2>6, <2>7, <2>11, <3>3
      <4>2. w \in Held' => client'[w].file = t.file
        BY <1>5, <2>3, <2>8
      <4> QED
        BY <1>6, <2>5, <2>6, <2>7, <3>1, <4>1, <4>2 DEF FeedbackInv, Pictures
    <3> QED
      BY <3>2, <3>3
  <2>12. Pictures'
    BY <2>10, <2>11 DEF Pictures
  <2>13. \A k \in EntryKeys : evidence[k] # Vacant =>
           evidence'[k] = evidence[k] /\ EvidenceAnswer(k)' = EvidenceAnswer(k)
    BY <1>7, <2>3 DEF EvidenceAnswer
  <2>14. /\ evidence'[t.key] # Vacant
         /\ EvidenceAnswer(t.key)' = [key |-> t.key, print |-> t.print,
                                      kind |-> "evidence", row |-> row]
    BY <1>2, <1>4, <2>3 DEF EvidenceAnswer
  <2>15. ASSUME NEW a \in answers'
         PROVE  \/ \E k \in EntryKeys : evidence'[k] # Vacant /\ a = EvidenceAnswer(k)'
                \/ survey' # Vacant /\ a = SurveyAnswer'
    <3>1. CASE a \in answers
      <4>1. CASE \E k \in EntryKeys : evidence[k] # Vacant /\ a = EvidenceAnswer(k)
        BY <2>13, <4>1
      <4>2. CASE survey # Vacant /\ a = SurveyAnswer
        BY <1>6, <4>2 DEF SurveyAnswer
      <4> QED
        BY <3>1, <4>1, <4>2 DEF FeedbackInv, Replies
    <3>2. CASE a \notin answers
      <4>1. a = [key |-> t.key, print |-> t.print, kind |-> "evidence", row |-> row]
        BY <1>7, <2>15, <3>2
      <4> QED
        BY <1>2, <2>14, <4>1
    <3> QED
      BY <3>1, <3>2
  <2>16. \A v \in Held' : (client'[v].stage = "undo" /\ client'[v].duplicate) =>
           evidence'[client'[v].key] # Vacant
    <3> SUFFICES ASSUME NEW v \in Held', client'[v].stage = "undo", client'[v].duplicate
                 PROVE  evidence'[client'[v].key] # Vacant
      OBVIOUS
    <3>1. v # w
      BY <1>5, <2>3, <2>8 DEF Held
    <3>2. v \in Held /\ client'[v] = client[v]
      BY <2>6, <2>7, <3>1
    <3>3. client[v].key \in EntryKeys
      BY <3>2 DEF Held, FeedbackInv, FeedbackTyped, Handled
    <3> QED
      BY <2>13, <3>2, <3>3 DEF FeedbackInv, Replies
  <2>17. {k \in EntryKeys : evidence'[k] # Vacant}
           = {k \in EntryKeys : evidence[k] # Vacant} \cup {t.key}
    BY <1>2, <1>4, <2>3
  <2>18. timeline' = {<<"evidence", k>> : k \in {k \in EntryKeys : evidence'[k] # Vacant}}
                     \cup (IF survey' = Vacant THEN {} ELSE {<<"survey", survey'.key>>})
    BY <1>6, <1>7, <2>17 DEF FeedbackInv, Replies
  <2>19. Replies'
    BY <2>15, <2>16, <2>18 DEF Replies
  <2> QED
    BY <2>4, <2>12, <2>19 DEF FeedbackInv
<1>8. ASSUME NEW dup \in {FALSE, evidence[t.key] # Vacant},
             client' = [client EXCEPT ![w] = undo(dup)],
             UNCHANGED <<evidence, timeline, answers, unacked>>
      PROVE  FeedbackInv'
  <2>1. dup \in BOOLEAN /\ (dup => evidence[t.key] # Vacant)
    BY <1>8
  <2> DEFINE next == undo(dup)
  <2>2. /\ next \in Handled /\ next.stage = "undo" /\ next # Vacant
        /\ next.file = t.file /\ next.key = t.key /\ next.duplicate = dup
    BY <1>5, <2>1
  <2>3. client' = [client EXCEPT ![w] = next]
    BY <1>8
  <2> HIDE DEF row, undo, next
  <2>4. \A v \in Clients : client'[v] = IF v = w THEN next ELSE client[v]
    BY <2>3 DEF FeedbackInv, FeedbackTyped
  <2>5. FeedbackTyped'
    BY <1>6, <1>8, <2>2, <2>3 DEF FeedbackInv, FeedbackTyped
  <2>6. Held' = Held /\ \A v \in Held : client'[v].file = client[v].file
    BY <1>1, <1>3, <2>2, <2>4 DEF Held
  <2>7. recorded' = recorded /\ Files' = Files
    BY <1>8, <2>6 DEF recorded, Files
  <2>8. Pictures'
    BY <1>1, <1>3, <1>6, <1>8, <2>2, <2>4, <2>6, <2>7 DEF FeedbackInv, Pictures, Held
  <2>9. Replies'
    <3>1. \A v \in Held : (client'[v].stage = "undo" /\ client'[v].duplicate) =>
            evidence[client'[v].key] # Vacant
      BY <2>1, <2>2, <2>4 DEF Held, FeedbackInv, Replies
    <3> QED
      BY <1>6, <1>8, <2>6, <3>1 DEF FeedbackInv, Replies, EvidenceAnswer, SurveyAnswer
  <2> QED
    BY <2>5, <2>8, <2>9 DEF FeedbackInv
<1> HIDE DEF row, undo
<1> QED
  BY <1>1, <1>7, <1>8 DEF recordEvidence, recordEffects, row, undo

\* What a request that holds no image may do: end, begin, or go on, when every
\* answer it gives is the document's.
LEMMA EmptyHandsKeepFeedback ==
  ASSUME FeedbackInv, NEW w \in Clients, NEW next \in Handled \cup {Vacant},
         client[w] # Vacant => client[w].stage \notin {"record", "undo"},
         next # Vacant => next.stage \notin {"record", "undo"},
         client' = [client EXCEPT ![w] = next],
         UNCHANGED <<evidence, survey, timeline, store, strays, unacked>>,
         \A a \in answers' \ answers :
           \/ \E k \in EntryKeys : evidence[k] # Vacant /\ a = EvidenceAnswer(k)
           \/ survey # Vacant /\ a = SurveyAnswer
  PROVE  FeedbackInv'
<1>1. FeedbackTyped'
  BY DEF FeedbackInv, FeedbackTyped
<1>2. Pictures' /\ Held' = Held /\ \A v \in Held : client'[v] = client[v]
  BY EmptyHandsKeepPictures DEF FeedbackInv
<1>3. Replies'
  BY <1>2 DEF FeedbackInv, Replies, EvidenceAnswer, SurveyAnswer
<1> QED
  BY <1>1, <1>2, <1>3 DEF FeedbackInv

\* A request lets go of its image, and answers as the evidence that took its key
\* says (undoUpload, feedbackLost).
LEMMA LettingGoKeepsFeedback ==
  ASSUME FeedbackInv, NEW w \in Held, NEW f, f = client[w].file,
         client' = [client EXCEPT ![w] = Vacant],
         \/ /\ store' = store \ {f} /\ strays' = strays
            /\ client[w].stage = "undo"
         \/ strays' = strays \cup {f} /\ store' = store,
         UNCHANGED <<evidence, survey, timeline, unacked>>,
         \A a \in answers' \ answers :
           \E k \in EntryKeys : evidence[k] # Vacant /\ a = EvidenceAnswer(k)
  PROVE  FeedbackInv'
<1>1. FeedbackTyped'
  BY DEF FeedbackInv, FeedbackTyped
<1>2. Pictures' /\ Held' = Held \ {w} /\ \A v \in Held' : client'[v] = client[v]
  BY LettingGoKeepsPictures DEF FeedbackInv
<1>3. Replies'
  BY <1>2 DEF FeedbackInv, Replies, EvidenceAnswer, SurveyAnswer
<1> QED
  BY <1>1, <1>2, <1>3 DEF FeedbackInv

\* The first survey is recorded and answered for, every later one is compared
\* with it (createSurvey).
LEMMA SurveyKeepsFeedback ==
  ASSUME FeedbackInv, NEW w \in Clients, createSurvey(w)
  PROVE  FeedbackInv'
<1>1. PICK t \in Handled : t = client[w] /\ t.stage = "survey"
  BY DEF createSurvey, FeedbackInv, FeedbackTyped
<1>2. /\ t.evidence \in EntryKeys \cup {Vacant}
      /\ t.key \in EntryKeys /\ t.print \in Prints
  BY <1>1 DEF Handled
<1>3. /\ client' = [client EXCEPT ![w] = Vacant]
      /\ UNCHANGED <<evidence, store, strays, unacked>>
  BY DEF createSurvey
<1>4. CASE survey # Vacant
  <2>1. /\ answers' = answers \cup assertReplay(t.key, t.print)
        /\ UNCHANGED <<survey, timeline>>
    BY <1>1, <1>4 DEF createSurvey
  <2>2. \A a \in assertReplay(t.key, t.print) : a = SurveyAnswer
    BY DEF assertReplay, SurveyAnswer
  <2> QED
    BY <1>1, <1>3, <1>4, <2>1, <2>2, EmptyHandsKeepFeedback
<1>5. CASE survey = Vacant
  <2> DEFINE row == [evidence |-> t.evidence, key |-> t.key, print |-> t.print]
             new == [key |-> t.key, print |-> t.print, kind |-> "survey", row |-> row]
  <2>1. /\ survey' = row /\ answers' = answers \cup {new}
        /\ timeline' = timeline \cup {<<"survey", t.key>>}
    BY <1>1, <1>5 DEF createSurvey, recordEffects
  <2>2. row \in SurveyRow /\ row # Vacant /\ row.key = t.key /\ row.print = t.print
    BY <1>2, VacantAssumption DEF SurveyRow
  <2>3. new = SurveyAnswer'
    BY <2>1, <2>2 DEF SurveyAnswer
  <2> HIDE DEF row, new
  <2>4. FeedbackTyped'
    BY <1>3, <2>1, <2>2 DEF FeedbackInv, FeedbackTyped
  <2>5. Pictures' /\ Held' = Held /\ \A v \in Held : client'[v] = client[v]
    BY <1>1, <1>3, EmptyHandsKeepPictures DEF FeedbackInv
  <2>6. \A a \in answers : \E k \in EntryKeys : evidence[k] # Vacant /\ a = EvidenceAnswer(k)
    BY <1>5 DEF FeedbackInv, Replies
  <2>7. \A k \in EntryKeys : EvidenceAnswer(k)' = EvidenceAnswer(k)
    BY <1>3 DEF EvidenceAnswer
  <2>8. timeline' = {<<"evidence", k>> : k \in {k \in EntryKeys : evidence'[k] # Vacant}}
                    \cup (IF survey' = Vacant THEN {} ELSE {<<"survey", survey'.key>>})
    BY <1>3, <1>5, <2>1, <2>2 DEF FeedbackInv, Replies
  <2>9. \A v \in Held' : (client'[v].stage = "undo" /\ client'[v].duplicate) =>
          evidence'[client'[v].key] # Vacant
    BY <1>3, <2>5 DEF FeedbackInv, Replies
  <2>10. \A a \in answers' :
           \/ \E k \in EntryKeys : evidence'[k] # Vacant /\ a = EvidenceAnswer(k)'
           \/ survey' # Vacant /\ a = SurveyAnswer'
    <3> SUFFICES ASSUME NEW a \in answers'
                 PROVE  \/ \E k \in EntryKeys : evidence'[k] # Vacant /\ a = EvidenceAnswer(k)'
                        \/ survey' # Vacant /\ a = SurveyAnswer'
      OBVIOUS
    <3>1. CASE a = new
      BY <2>1, <2>2, <2>3, <3>1
    <3>2. CASE a \in answers
      BY <1>3, <2>6, <2>7, <3>2
    <3> QED
      BY <2>1, <3>1, <3>2
  <2>11. Replies'
    BY <2>8, <2>9, <2>10 DEF Replies
  <2> QED
    BY <2>4, <2>5, <2>11 DEF FeedbackInv
<1> QED
  BY <1>4, <1>5

\* Every step keeps the invariant.
LEMMA NextKeepsFeedback ==
  ASSUME FeedbackInv, [FeedbackNext]_feedbackVars
  PROVE  FeedbackInv'
<1>1. ASSUME NEW w \in Clients, upload(w) PROVE FeedbackInv'
  <2>1. PICK scope \in Scopes, key \in EntryKeys, content \in Contents :
          IF evidence[key] # Vacant
          THEN answers' = answers \cup replayView(key, <<scope, content>>) /\ UNCHANGED client
          ELSE /\ client' = [client EXCEPT ![w] =
                    [stage |-> "store", scope |-> scope, key |-> key,
                     print |-> <<scope, content>>]]
               /\ UNCHANGED answers
    BY <1>1 DEF upload
  <2>2. /\ client[w] = Vacant
        /\ UNCHANGED <<evidence, survey, timeline, store, strays, unacked>>
    BY <1>1 DEF upload
  <2>3. PICK print \in Prints : print = <<scope, content>>
    BY DEF Prints
  <2>4. CASE evidence[key] # Vacant
    <3>1. \A a \in replayView(key, print) : a = EvidenceAnswer(key)
      BY DEF replayView, EvidenceAnswer
    <3>2. client' = [client EXCEPT ![w] = Vacant]
      BY <2>1, <2>2, <2>4 DEF FeedbackInv, FeedbackTyped
    <3> QED
      BY <2>1, <2>2, <2>3, <2>4, <3>1, <3>2, EmptyHandsKeepFeedback
  <2>5. CASE evidence[key] = Vacant
    <3>1. PICK next : next = [stage |-> "store", scope |-> scope, key |-> key,
                              print |-> print]
      OBVIOUS
    <3>2. next \in Handled /\ next.stage = "store"
      BY <3>1 DEF Handled
    <3>3. client' = [client EXCEPT ![w] = next] /\ answers' = answers
      BY <2>1, <2>3, <2>5, <3>1
    <3> QED
      BY <2>2, <3>2, <3>3, EmptyHandsKeepFeedback
  <2> QED
    BY <2>4, <2>5
<1>2. ASSUME NEW w \in Clients, undoUpload(w) PROVE FeedbackInv'
  <2>1. PICK t \in Handled : t = client[w] /\ t.stage = "undo"
    BY <1>2 DEF undoUpload, FeedbackInv, FeedbackTyped
  <2>2. w \in Held /\ t.key \in EntryKeys
    BY <1>2, <2>1 DEF Held, undoUpload, Handled
  <2>3. PICK f : f = client[w].file
    OBVIOUS
  <2>4. /\ \/ store' = store \ {f} /\ strays' = strays
           \/ strays' = strays \cup {f} /\ store' = store
        /\ answers' = answers \cup
             (IF t.duplicate THEN replayView(t.key, t.print) ELSE {})
        /\ client' = [client EXCEPT ![w] = Vacant]
        /\ UNCHANGED <<evidence, survey, timeline, unacked>>
    BY <1>2, <2>1, <2>3 DEF undoUpload
  <2>5. t.duplicate => evidence[t.key] # Vacant
    BY <2>1, <2>2 DEF FeedbackInv, Replies
  <2>6. \A a \in replayView(t.key, t.print) : a = EvidenceAnswer(t.key)
    BY DEF replayView, EvidenceAnswer
  <2>7. \A a \in answers' \ answers :
          \E k \in EntryKeys : evidence[k] # Vacant /\ a = EvidenceAnswer(k)
    BY <2>2, <2>4, <2>5, <2>6
  <2> QED
    BY <2>1, <2>2, <2>3, <2>4, <2>7, LettingGoKeepsFeedback
<1>3. ASSUME NEW w \in Clients, submit(w) PROVE FeedbackInv'
  <2>1. PICK key \in EntryKeys, content \in Contents, e \in surveyEvidence :
          IF survey # Vacant
          THEN answers' = answers \cup assertReplay(key, <<content, e>>) /\ UNCHANGED client
          ELSE /\ client' = [client EXCEPT ![w] =
                    [stage |-> "survey", evidence |-> e, key |-> key,
                     print |-> <<content, e>>]]
               /\ UNCHANGED answers
    BY <1>3 DEF submit
  <2>2. /\ client[w] = Vacant
        /\ UNCHANGED <<evidence, survey, timeline, store, strays, unacked>>
    BY <1>3 DEF submit
  <2>3. e \in EntryKeys \cup {Vacant}
    BY DEF surveyEvidence
  <2>4. PICK print \in Prints : print = <<content, e>>
    BY <2>3 DEF Prints
  <2>5. CASE survey # Vacant
    <3>1. \A a \in assertReplay(key, print) : a = SurveyAnswer
      BY DEF assertReplay, SurveyAnswer
    <3>2. client' = [client EXCEPT ![w] = Vacant]
      BY <2>1, <2>2, <2>5 DEF FeedbackInv, FeedbackTyped
    <3> QED
      BY <2>1, <2>2, <2>4, <2>5, <3>1, <3>2, EmptyHandsKeepFeedback
  <2>6. CASE survey = Vacant
    <3>1. PICK next : next = [stage |-> "survey", evidence |-> e, key |-> key,
                              print |-> print]
      OBVIOUS
    <3>2. next \in Handled /\ next.stage = "survey"
      BY <2>3, <3>1 DEF Handled
    <3>3. client' = [client EXCEPT ![w] = next] /\ answers' = answers
      BY <2>1, <2>4, <2>6, <3>1
    <3> QED
      BY <2>2, <3>2, <3>3, EmptyHandsKeepFeedback
  <2> QED
    BY <2>5, <2>6
<1>4. ASSUME NEW w \in Clients, feedbackLost(w) PROVE FeedbackInv'
  <2>1. /\ client[w] # Vacant /\ client' = [client EXCEPT ![w] = Vacant]
        /\ UNCHANGED <<evidence, survey, timeline, store, answers, unacked>>
    BY <1>4 DEF feedbackLost
  <2>2. CASE client[w].stage \in {"record", "undo"}
    <3>1. PICK f : f = client[w].file
      OBVIOUS
    <3>2. w \in Held /\ strays' = strays \cup {f}
      BY <1>4, <2>1, <2>2, <3>1 DEF feedbackLost, Held
    <3> QED
      BY <2>1, <3>1, <3>2, LettingGoKeepsFeedback
  <2>3. CASE client[w].stage \notin {"record", "undo"}
    <3>1. strays' = strays
      BY <1>4, <2>3 DEF feedbackLost
    <3> QED
      BY <2>1, <2>3, <3>1, EmptyHandsKeepFeedback
  <2> QED
    BY <2>2, <2>3
<1>5. CASE UNCHANGED <<evidence, survey, timeline, store, client, answers, strays, unacked>>
  BY <1>5 DEF FeedbackInv, FeedbackTyped, Pictures, Replies, Held, Files, recorded,
              EvidenceAnswer, SurveyAnswer
<1> QED
  BY <1>1, <1>2, <1>3, <1>4, <1>5, StoringKeepsFeedback, RecordingKeepsFeedback,
     SurveyKeepsFeedback
     DEF FeedbackNext, feedbackVars, serveAppointment, toggleTenant

\* The invariant holds in every reachable state, for any requests, keys and images.
THEOREM FeedbackInvariant == FeedbackSpec => []FeedbackInv
<1>1. FeedbackInit => FeedbackInv
  BY DEF FeedbackInit, FeedbackInv, FeedbackTyped, Pictures, Replies, Held, recorded
<1>2. FeedbackInv /\ [FeedbackNext]_feedbackVars => FeedbackInv'
  BY NextKeepsFeedback
<1> QED
  BY <1>1, <1>2, PTL DEF FeedbackSpec

\* Store and records agree although no transaction spans them, whatever fails
\* between the upload, the record and the compensation (AppointmentEvidenceService).
THEOREM ImagesMatchRecords == FeedbackSpec => []StoreMatchesRecords
<1>1. FeedbackInv => StoreMatchesRecords
  BY DEF FeedbackInv, Pictures, StoreMatchesRecords, Files, Held
<1> QED
  BY <1>1, FeedbackInvariant, PTL

\* A key stands for one request and one document however uploads and surveys are
\* repeated and race, and there is one survey.
THEOREM FeedbackGivenOnce == FeedbackSpec => []FeedbackOnce
<1>1. FeedbackInv => FeedbackOnce
  <2> SUFFICES ASSUME FeedbackInv PROVE FeedbackOnce
    OBVIOUS
  <2>1. \A k \in EntryKeys : /\ EvidenceAnswer(k).kind = "evidence"
                             /\ EvidenceAnswer(k).key = k
                             /\ EvidenceAnswer(k).row = evidence[k]
    BY DEF EvidenceAnswer
  <2>2. SurveyAnswer.kind = "survey" /\ SurveyAnswer.row = survey
    BY DEF SurveyAnswer
  <2>3. \A a \in answers :
          \/ \E k \in EntryKeys : a = EvidenceAnswer(k)
          \/ a = SurveyAnswer
    BY DEF FeedbackInv, Replies
  <2>4. \A a, b \in answers :
          (a.kind = b.kind /\ (a.key = b.key \/ a.kind = "survey")) => a = b
    BY <2>1, <2>2, <2>3
  <2>5. \A a \in answers : a.row = IF a.kind = "survey" THEN survey ELSE evidence[a.key]
    BY <2>1, <2>2, <2>3
  <2> QED
    BY <2>4, <2>5 DEF FeedbackOnce, FeedbackInv, Replies
<1> QED
  BY <1>1, FeedbackInvariant, PTL

-----------------------------------------------------------------------------
(* Referrals: the money *)

\* What EconomicsSound says of one conversion's money.
Exact(part, value, base) ==
  part.type = "PERCENT" =>
    0 <= base * part.bp - value * 10000 /\ base * part.bp - value * 10000 < 10000

\* Money that adds up under the terms it was computed with.
Adds(terms, m) ==
  /\ m.gross = m.discount + m.final
  /\ 0 <= m.discount /\ 0 < m.commission /\ m.commission <= m.final
  /\ Exact(terms.discount, m.discount, m.gross)
  /\ Exact(terms.commission, m.commission, m.final)

\* A percentage loses less than one unit.
LEMMA PercentageFacts ==
  ASSUME NEW amount \in Nat, NEW bp \in Nat
  PROVE  /\ percentageOf(amount, bp) \in Nat
         /\ 0 <= amount * bp - percentageOf(amount, bp) * 10000
         /\ amount * bp - percentageOf(amount, bp) * 10000 < 10000
<1>1. PICK x \in Nat : x = amount * bp
  OBVIOUS
<1>2. percentageOf(amount, bp) = x \div 10000
  BY <1>1 DEF percentageOf
<1>3. /\ x \div 10000 \in Nat
      /\ 0 <= x - (x \div 10000) * 10000 /\ x - (x \div 10000) * 10000 < 10000
  OBVIOUS
<1> QED
  BY <1>1, <1>2, <1>3

\* An accepted part takes from or gives of an amount exactly what it says.
LEMMA ValueFacts ==
  ASSUME NEW part, Submitted(part), fieldsValid(part), NEW amount \in Nat
  PROVE  valueOf(part, amount) \in Nat /\ Exact(part, valueOf(part, amount), amount)
<1>1. CASE part.type = "NONE"
  BY <1>1 DEF valueOf, Exact
<1>2. CASE part.type = "PERCENT"
  <2>1. part.bp # Nothing
    BY <1>2 DEF fieldsValid
  <2>2. part.bp \in Nat
    BY <2>1 DEF Submitted
  <2>3. PICK x \in Nat : x = part.bp
    BY <2>2
  <2>4. PICK value : value = percentageOf(amount, x)
    OBVIOUS
  <2>5. /\ value \in Nat
        /\ 0 <= amount * x - value * 10000
        /\ amount * x - value * 10000 < 10000
    BY <2>4, PercentageFacts
  <2>6. valueOf(part, amount) = value
    BY <1>2, <2>3, <2>4 DEF valueOf
  <2> QED
    BY <2>3, <2>5, <2>6 DEF Exact
<1>3. CASE part.type = "FIXED"
  <2>1. part.amount # Nothing
    BY <1>3 DEF fieldsValid
  <2>2. part.amount \in Nat
    BY <2>1 DEF Submitted
  <2>3. valueOf(part, amount) = part.amount
    BY <1>3 DEF valueOf
  <2> QED
    BY <1>3, <2>2, <2>3 DEF Exact
<1>4. part.type \in {"NONE", "PERCENT", "FIXED"}
  BY DEF Submitted
<1> QED
  BY <1>1, <1>2, <1>3, <1>4

\* What a booking at a price comes to adds up.
LEMMA EconomicsAdd ==
  ASSUME NEW d \in TermInputs, fieldsValid(d.discount), fieldsValid(d.commission),
         NEW price \in Prices, NEW m \in calculateAffiliateEconomics(d, price)
  PROVE  m \in Money /\ Adds(d, m)
<1>1. PICK gross \in Nat : gross = price.amount
  BY PriceAssumption
<1>2. PICK discount \in Nat : /\ discount = valueOf(d.discount, gross)
                              /\ Exact(d.discount, discount, gross)
  BY <1>1, ValueFacts, TermsAssumption
<1>3. discount <= gross
  BY <1>1, <1>2 DEF calculateAffiliateEconomics
<1>4. PICK final \in Nat : final = gross - discount
  BY <1>3
<1>5. PICK commission \in Nat : /\ commission = valueOf(d.commission, final)
                                /\ Exact(d.commission, commission, final)
  BY <1>4, ValueFacts, TermsAssumption
<1>6. /\ m = [discount |-> discount, commission |-> commission, gross |-> gross,
              final |-> final]
      /\ ~(commission <= 0) /\ ~(commission > final)
  BY <1>1, <1>2, <1>4, <1>5 DEF calculateAffiliateEconomics
<1> QED
  BY <1>2, <1>4, <1>5, <1>6 DEF Money, Adds

-----------------------------------------------------------------------------
(* Referrals: codes and bookings *)

\* A booking's code is still there, with the text and the owner it had.
Grounded(b) ==
  b.of \in Kept /\ code[b.of].text = b.text /\ code[b.of].owner = b.affiliate

\* What EconomicsSound says of one conversion.
Fair(b) ==
  /\ b.affiliate # b.referred
  /\ Adds(b.terms, b.money)
  /\ fieldsValid(b.terms.discount) /\ fieldsValid(b.terms.commission)

\* OneCurrentCode and EconomicsSound made inductive: a code in use holds its
\* owner's slot, and what is on a desk is as good as what is recorded.
ReferralInv ==
  /\ code \in [Codes -> Code \cup {Nothing}]
  /\ conversion \in [Visits -> Booked \cup {Nothing}]
  /\ desk \in [Visits -> Booked \cup {Nothing}]
  /\ \A c \in Kept : /\ code[c].status # "RETIRED" => code[c].slot = "CURRENT"
                     /\ fieldsValid(code[c].terms.discount)
                     /\ fieldsValid(code[c].terms.commission)
  /\ \A c, k \in Kept :
       /\ code[c].text = code[k].text => c = k
       /\ (code[c].owner = code[k].owner /\ code[c].slot = "CURRENT"
             /\ code[k].slot = "CURRENT") => c = k
  /\ \A v \in Visits :
       /\ conversion[v] # Nothing => Grounded(conversion[v]) /\ Fair(conversion[v])
       /\ desk[v] # Nothing => Grounded(desk[v]) /\ Fair(desk[v])

\* One code becomes doc, which has the text and the owner the code had and
\* takes no slot, or it is new and its text and its slot are free: no booking
\* notices.
LEMMA CodeChangeKeepsReferrals ==
  ASSUME ReferralInv, NEW c \in Codes, NEW doc \in Code,
         code' = [code EXCEPT ![c] = doc], UNCHANGED <<conversion, desk>>,
         doc.status # "RETIRED" => doc.slot = "CURRENT",
         fieldsValid(doc.terms.discount), fieldsValid(doc.terms.commission),
         \/ /\ c \in Kept /\ doc.text = code[c].text /\ doc.owner = code[c].owner
            /\ doc.slot = "CURRENT" => code[c].slot = "CURRENT"
         \/ /\ c \notin Kept
            /\ \A k \in Kept :
                 /\ code[k].text # doc.text
                 /\ ~(code[k].owner = doc.owner /\ code[k].slot = "CURRENT")
  PROVE  ReferralInv'
<1>1. /\ code' \in [Codes -> Code \cup {Nothing}]
      /\ \A k \in Codes : code'[k] = IF k = c THEN doc ELSE code[k]
  BY DEF ReferralInv
<1>2. Kept' = Kept \cup {c}
  BY <1>1, NothingAssumption DEF Kept
<1>3. \A k \in Kept' : /\ code'[k].status # "RETIRED" => code'[k].slot = "CURRENT"
                       /\ fieldsValid(code'[k].terms.discount)
                       /\ fieldsValid(code'[k].terms.commission)
  BY <1>1, <1>2 DEF ReferralInv, Kept
<1>4. \A h, k \in Kept' :
        /\ code'[h].text = code'[k].text => h = k
        /\ (code'[h].owner = code'[k].owner /\ code'[h].slot = "CURRENT"
              /\ code'[k].slot = "CURRENT") => h = k
  BY <1>1, <1>2 DEF ReferralInv, Kept
<1>5. ASSUME NEW b, Grounded(b) PROVE Grounded(b)'
  BY <1>1, <1>2, <1>5 DEF Grounded, Kept
<1> QED
  BY <1>1, <1>3, <1>4, <1>5 DEF ReferralInv

\* create gives its owner the only slot and the text to nobody else.
LEMMA CreateKeepsReferrals ==
  ASSUME ReferralInv, NEW a \in Affiliates, NEW x \in Texts, NEW d \in TermInputs,
         create(a, x, d)
  PROVE  ReferralInv'
<1>1. PICK c : c = CHOOSE k \in Codes \ Kept : TRUE
  OBVIOUS
<1>2. c \in Codes /\ c \notin Kept
  BY <1>1 DEF create, Kept
<1>3. PICK t \in normalizeAffiliateTerms(d) :
        code' = [code EXCEPT ![c] = [terms |-> t, status |-> "ACTIVE", owner |-> a,
                                     text |-> x, slot |-> "CURRENT"]]
  BY <1>1 DEF create
<1>4. t = d /\ fieldsValid(d.discount) /\ fieldsValid(d.commission)
  BY DEF normalizeAffiliateTerms
<1>5. PICK doc \in Code : doc = [terms |-> t, status |-> "ACTIVE", owner |-> a,
                                 text |-> x, slot |-> "CURRENT"]
  BY <1>4 DEF Code
<1>6. \A k \in Kept : /\ code[k].text # doc.text
                      /\ ~(code[k].owner = doc.owner /\ code[k].slot = "CURRENT")
  BY <1>5 DEF create
<1> QED
  BY <1>2, <1>3, <1>4, <1>5, <1>6, CodeChangeKeepsReferrals DEF create

\* Terms and status change while text and owner stay (updateTerms, activate,
\* deactivate, retire).
LEMMA MutationKeepsReferrals ==
  ASSUME ReferralInv, NEW c \in Codes,
         activate(c) \/ deactivate(c) \/ retire(c)
           \/ \E d \in TermInputs : updateTerms(c, d)
  PROVE  ReferralInv'
<1>1. /\ c \in Kept /\ code[c] \in Code
      /\ code[c].status # "RETIRED" => code[c].slot = "CURRENT"
      /\ fieldsValid(code[c].terms.discount) /\ fieldsValid(code[c].terms.commission)
  <2>1. code[c] # Nothing
    BY DEF activate, deactivate, retire, updateTerms
  <2> QED
    BY <2>1 DEF ReferralInv, Kept
<1>2. PICK old \in Code : old = code[c]
  BY <1>1
<1>3. ASSUME NEW doc \in Code, mutate(c, doc),
             doc.status # "RETIRED" => doc.slot = "CURRENT",
             fieldsValid(doc.terms.discount), fieldsValid(doc.terms.commission),
             doc.text = old.text, doc.owner = old.owner,
             doc.slot = "CURRENT" => old.slot = "CURRENT"
      PROVE  ReferralInv'
  BY <1>1, <1>2, <1>3, CodeChangeKeepsReferrals DEF mutate
<1>4. CASE activate(c)
  <2>1. PICK doc : doc = [old EXCEPT !.status = "ACTIVE"]
    OBVIOUS
  <2>2. /\ doc \in Code /\ doc.text = old.text /\ doc.owner = old.owner
        /\ doc.slot = old.slot /\ doc.terms = old.terms
    BY <2>1 DEF Code
  <2>3. mutate(c, doc) /\ old.status = "INACTIVE"
    BY <1>2, <1>4, <2>1 DEF activate
  <2> QED
    BY <1>1, <1>2, <1>3, <2>2, <2>3
<1>5. CASE deactivate(c)
  <2>1. PICK doc : doc = [old EXCEPT !.status = "INACTIVE"]
    OBVIOUS
  <2>2. /\ doc \in Code /\ doc.text = old.text /\ doc.owner = old.owner
        /\ doc.slot = old.slot /\ doc.terms = old.terms
    BY <2>1 DEF Code
  <2>3. mutate(c, doc) /\ old.status = "ACTIVE"
    BY <1>2, <1>5, <2>1 DEF deactivate
  <2> QED
    BY <1>1, <1>2, <1>3, <2>2, <2>3
<1>6. CASE retire(c)
  <2>1. PICK doc : doc = [old EXCEPT !.status = "RETIRED", !.slot = Nothing]
    OBVIOUS
  <2>2. /\ doc \in Code /\ doc.text = old.text /\ doc.owner = old.owner
        /\ doc.status = "RETIRED" /\ doc.terms = old.terms
        /\ doc.slot = Nothing
    BY <2>1 DEF Code
  <2>3. mutate(c, doc) /\ old.slot = "CURRENT"
    BY <1>1, <1>2, <1>6, <2>1 DEF retire
  <2> QED
    BY <1>1, <1>2, <1>3, <2>2, <2>3
<1>7. ASSUME NEW d \in TermInputs, updateTerms(c, d) PROVE ReferralInv'
  <2>1. PICK t \in normalizeAffiliateTerms(d) :
          mutate(c, [old EXCEPT !.terms = t]) /\ old.status # "RETIRED"
    BY <1>2, <1>7 DEF updateTerms
  <2>2. t = d /\ fieldsValid(d.discount) /\ fieldsValid(d.commission)
    BY DEF normalizeAffiliateTerms
  <2>3. PICK doc : doc = [old EXCEPT !.terms = d]
    OBVIOUS
  <2>4. /\ doc \in Code /\ doc.text = old.text /\ doc.owner = old.owner
        /\ doc.slot = old.slot /\ doc.status = old.status /\ doc.terms = d
    BY <2>3 DEF Code
  <2> QED
    BY <1>1, <1>2, <1>3, <2>1, <2>2, <2>3, <2>4
<1> QED
  BY <1>4, <1>5, <1>6, <1>7

\* The bookings of one visit change, the codes do not.
LEMMA BookingKeepsReferrals ==
  ASSUME ReferralInv, NEW v \in Visits, NEW b, NEW d,
         conversion' = [conversion EXCEPT ![v] = b], desk' = [desk EXCEPT ![v] = d],
         code' = code,
         b # Nothing => b \in Booked /\ Grounded(b) /\ Fair(b),
         d # Nothing => d \in Booked /\ Grounded(d) /\ Fair(d)
  PROVE  ReferralInv'
<1>1. Kept' = Kept /\ \A x : Grounded(x)' <=> Grounded(x)
  BY DEF Kept, Grounded
<1>2. /\ conversion' \in [Visits -> Booked \cup {Nothing}]
      /\ desk' \in [Visits -> Booked \cup {Nothing}]
  BY DEF ReferralInv
<1>3. \A u \in Visits :
        /\ conversion'[u] = IF u = v THEN b ELSE conversion[u]
        /\ desk'[u] = IF u = v THEN d ELSE desk[u]
  BY DEF ReferralInv
<1>4. \A u \in Visits :
        /\ conversion'[u] # Nothing => Grounded(conversion'[u]) /\ Fair(conversion'[u])
        /\ desk'[u] # Nothing => Grounded(desk'[u]) /\ Fair(desk'[u])
  BY <1>3 DEF ReferralInv
<1> QED
  BY <1>1, <1>2, <1>4 DEF ReferralInv

\* What prepare puts on the desk is fair and leads to the code's owner.
LEMMA PrepareKeepsReferrals ==
  ASSUME ReferralInv, NEW v \in Visits, NEW x \in Texts, NEW a \in Affiliates,
         NEW p \in Prices, prepare(v, x, a, p)
  PROVE  ReferralInv'
<1>1. PICK r \in resolveForBooking(x, p) :
        /\ r.code.owner # a
        /\ desk' = [desk EXCEPT ![v] =
             [terms |-> r.code.terms, text |-> r.code.text, of |-> r.of,
              money |-> r.money, affiliate |-> r.code.owner, referred |-> a]]
  BY DEF prepare
<1>2. PICK c \in Kept :
        \E e \in calculateAffiliateEconomics(code[c].terms, p) :
          r = [code |-> code[c], of |-> c, money |-> e]
  BY DEF resolveForBooking
<1>3. PICK e \in calculateAffiliateEconomics(code[c].terms, p) :
        r.code = code[c] /\ r.of = c /\ r.money = e
  BY <1>2
<1>4. c \in Codes /\ code[c] \in Code
  BY DEF Kept, ReferralInv
<1>5. /\ code[c].terms \in TermInputs /\ code[c].owner \in Affiliates
      /\ code[c].text \in Texts
      /\ fieldsValid(code[c].terms.discount) /\ fieldsValid(code[c].terms.commission)
  BY <1>4 DEF Code, ReferralInv
<1>6. e \in Money /\ Adds(code[c].terms, e)
  BY <1>5, EconomicsAdd
<1>7. PICK b : b = [terms |-> code[c].terms, text |-> code[c].text, of |-> c,
                    money |-> e, affiliate |-> code[c].owner, referred |-> a]
  OBVIOUS
<1>8. b \in Booked
  BY <1>4, <1>5, <1>6, <1>7 DEF Booked
<1>9. Grounded(b) /\ Fair(b)
  BY <1>1, <1>3, <1>5, <1>6, <1>7 DEF Grounded, Fair
<1>10. desk' = [desk EXCEPT ![v] = b]
  BY <1>1, <1>3, <1>7
<1>11. conversion' = [conversion EXCEPT ![v] = conversion[v]] /\ code' = code
  BY DEF prepare, ReferralInv
<1>12. conversion[v] = Nothing
  BY DEF prepare
<1> QED
  BY <1>8, <1>9, <1>10, <1>11, <1>12, BookingKeepsReferrals

\* Every step keeps the invariant.
LEMMA NextKeepsReferrals ==
  ASSUME ReferralInv, [ReferralsNext]_referralVars
  PROVE  ReferralInv'
<1>1. ASSUME NEW v \in Visits, record(v) PROVE ReferralInv'
  <2>1. PICK b, d : b = desk[v] /\ d = Nothing
    OBVIOUS
  <2>2. b \in Booked /\ Grounded(b) /\ Fair(b)
    BY <1>1, <2>1 DEF record, ReferralInv
  <2> QED
    BY <1>1, <2>1, <2>2, BookingKeepsReferrals DEF record
<1>2. ASSUME NEW v \in Visits, abandon(v) PROVE ReferralInv'
  <2>1. PICK b, d : b = conversion[v] /\ d = Nothing
    OBVIOUS
  <2>2. b # Nothing => b \in Booked /\ Grounded(b) /\ Fair(b)
    BY <2>1 DEF ReferralInv
  <2>3. conversion' = [conversion EXCEPT ![v] = b]
    BY <1>2, <2>1 DEF abandon, ReferralInv
  <2> QED
    BY <1>2, <2>1, <2>2, <2>3, BookingKeepsReferrals DEF abandon
<1>3. CASE UNCHANGED <<code, conversion, desk>>
  BY <1>3 DEF ReferralInv, Kept, Grounded
<1> QED
  BY <1>1, <1>2, <1>3, CreateKeepsReferrals, MutationKeepsReferrals,
     PrepareKeepsReferrals DEF ReferralsNext, NextDay, referralVars

\* The invariant holds in every reachable state, for any codes, terms and prices.
THEOREM ReferralInvariant == ReferralsSpec => []ReferralInv
<1>1. ReferralsInit => ReferralInv
  BY DEF ReferralsInit, ReferralInv, Kept
<1>2. ReferralInv /\ [ReferralsNext]_referralVars => ReferralInv'
  BY NextKeepsReferrals
<1> QED
  BY <1>1, <1>2, PTL DEF ReferralsSpec

\* A customer has one code that can be used again and a text leads to one owner
\* for good, in whatever order codes are created, changed and retired.
THEOREM CodesLeadToOneOwner == ReferralsSpec => []OneCurrentCode
<1>1. ReferralInv => OneCurrentCode
  BY DEF ReferralInv, OneCurrentCode, Grounded
<1> QED
  BY <1>1, ReferralInvariant, PTL

\* The money of every conversion adds up, whatever its code's terms were before
\* (calculateAffiliateEconomics, updateTerms).
THEOREM ConversionsAreSound == ReferralsSpec => []EconomicsSound
<1>1. ReferralInv => EconomicsSound
  BY DEF ReferralInv, EconomicsSound, Fair, Adds, Exact
<1> QED
  BY <1>1, ReferralInvariant, PTL
=============================================================================

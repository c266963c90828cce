--------------------------- MODULE CustomerAccess ---------------------------
(***************************************************************************)
(* A customer's way in by phone: a code is asked for, sent over WhatsApp,  *)
(* typed in, and exchanged for a session.  A challenge is one document     *)
(* that is first the code and then the session; the database deletes it    *)
(* once its expiresAt has passed.  One tenant and one phone.               *)
(***************************************************************************)
EXTENDS Naturals, FiniteSets

CONSTANTS
  Challenges,      \* challenge ids; also stand for the code each was made with
  Requesters,      \* addresses codes are asked from
  Callers,         \* requests served at the same time
  Free,            \* a caller that serves none; also an id without document
  Cooldown,        \* between two codes, and the width of a bucket
  CodeTTL,         \* life of a code
  RequestWindow,   \* how far back requests are counted
  CustomerTTL,     \* life of a session
  MaxPhoneRequests,
  MaxRequesterRequests,
  MaxCodeAttempts,
  LastMoment       \* bound: last moment

ASSUME AccessAssumption ==
  /\ {Cooldown, CodeTTL, RequestWindow, CustomerTTL, LastMoment} \subseteq Nat \ {0}
  /\ {MaxPhoneRequests, MaxRequesterRequests, MaxCodeAttempts} \subseteq Nat
  /\ IsFiniteSet(Callers) /\ Callers # {}

\* A challenge document, and what a request keeps between two of its awaits.
\* session is the end of the session the challenge became, 0 before.
Challenge ==
  [requester : Requesters, bucket : Nat, customer : BOOLEAN, createdAt : Nat,
   codeExpiresAt : Nat, expiresAt : Nat, attempts : Nat, session : Nat]
Serving ==
  [stage : {"insert"}, requester : Requesters, now : Nat]
    \cup [stage : {"send", "discard"}, challenge : Challenges]
    \cup [stage : {"consume"}, challenge : Challenges, until : Nat]

ASSUME FreeAssumption == Free \notin Challenge /\ Free \notin Serving

VARIABLES
  tenantStatus,
  challenge,  \* the document of each id
  spent,      \* ids ever given to a document
  inbox,      \* challenges whose code reached the phone
  caller,     \* what each request is doing
  time,
  granted     \* session tokens handed out: of which challenge, until when

accessVars == <<tenantStatus, challenge, spent, inbox, caller, time, granted>>

Stored == {c \in Challenges : challenge[c] # Free}

CanBeVerified(c) ==
  /\ challenge[c].codeExpiresAt > time
  /\ challenge[c].session = 0
  /\ challenge[c].attempts < MaxCodeAttempts

-----------------------------------------------------------------------------
(* requestCode *)

\* Mutated form: requests of the phone are not counted.
mayRequestUncounted(now, requester) ==
  LET recent == {c \in Stored : challenge[c].createdAt + RequestWindow > now}
  IN /\ \A c \in Stored : challenge[c].createdAt + Cooldown <= now
     /\ Cardinality({c \in recent : challenge[c].requester = requester})
          < MaxRequesterRequests

\* The cooldown and the two counts, read together before anything is written.
mayRequest(now, requester) ==
  LET recent == {c \in Stored : challenge[c].createdAt + RequestWindow > now}
  IN /\ \A c \in Stored : challenge[c].createdAt + Cooldown <= now
     /\ Cardinality(recent) < MaxPhoneRequests
     /\ Cardinality({c \in recent : challenge[c].requester = requester})
          < MaxRequesterRequests

\* Only an active tenant hands codes out; nothing looks at it again.
requestCode(w) ==
  /\ caller[w] = Free /\ tenantStatus = "ACTIVE"
  /\ \E r \in Requesters :
       /\ mayRequest(time, r)
       /\ caller' = [caller EXCEPT ![w] =
                       [requester |-> r, stage |-> "insert", now |-> time]]
  /\ UNCHANGED <<tenantStatus, challenge, spent, inbox, time, granted>>

\* A second challenge in the bucket of the request's arrival is a duplicate
\* key, answered as if a code had been sent; a phone without appointments gets
\* a challenge without customer, and no code.
insertChallenge(w) ==
  /\ caller[w] # Free /\ caller[w].stage = "insert"
  /\ LET bucket == caller[w].now \div Cooldown
     IN IF \E c \in Stored : challenge[c].bucket = bucket
        THEN /\ caller' = [caller EXCEPT ![w] = Free]
             /\ UNCHANGED <<challenge, spent>>
        ELSE \E known \in BOOLEAN :
               LET c == CHOOSE c \in Challenges \ spent : TRUE IN
               /\ spent # Challenges
               /\ challenge' = [challenge EXCEPT ![c] =
                    [expiresAt |-> caller[w].now + CodeTTL,
                     requester |-> caller[w].requester, bucket |-> bucket,
                     customer |-> known, createdAt |-> time,
                     codeExpiresAt |-> caller[w].now + CodeTTL,
                     attempts |-> 0, session |-> 0]]
               /\ spent' = spent \cup {c}
               /\ caller' = [caller EXCEPT ![w] =
                    IF known THEN [stage |-> "send", challenge |-> c] ELSE Free]
  /\ UNCHANGED <<tenantStatus, inbox, time, granted>>

\* The adapter may fail after the message went out; so may the audit write.
send(w) ==
  /\ caller[w] # Free /\ caller[w].stage = "send"
  /\ \E arrives, fails \in BOOLEAN :
       /\ ~fails => arrives
       /\ inbox' = IF arrives THEN inbox \cup {caller[w].challenge} ELSE inbox
       /\ caller' = [caller EXCEPT ![w] =
            IF fails THEN [stage |-> "discard", challenge |-> @.challenge] ELSE Free]
  /\ UNCHANGED <<tenantStatus, challenge, spent, time, granted>>

\* After a failed delivery the code is made to expire, unless it was used.
discardCode(w) ==
  /\ caller[w] # Free /\ caller[w].stage = "discard"
  /\ LET c == caller[w].challenge
     IN challenge' =
          IF c \in Stored /\ challenge[c].session = 0
          THEN [challenge EXCEPT ![c].codeExpiresAt = time] ELSE challenge
  /\ caller' = [caller EXCEPT ![w] = Free]
  /\ UNCHANGED <<tenantStatus, spent, inbox, time, granted>>

-----------------------------------------------------------------------------
(* verifyCode *)

\* The newest challenge that can still be verified pays for the attempt, in one
\* atomic update, whichever code was typed (Free: a wrong one).
countAttempt(w) ==
  /\ caller[w] = Free /\ tenantStatus = "ACTIVE"
  /\ \E c \in Stored, typed \in inbox \cup {Free} :
       /\ CanBeVerified(c)
       /\ \A d \in Stored :
            CanBeVerified(d) => challenge[d].createdAt <= challenge[c].createdAt
       /\ challenge' = [challenge EXCEPT ![c].attempts = @ + 1]
       /\ caller' = [caller EXCEPT ![w] =
            IF challenge[c].customer /\ typed = c
            THEN [stage |-> "consume", challenge |-> c, until |-> time + CustomerTTL]
            ELSE Free]
  /\ UNCHANGED <<tenantStatus, spent, inbox, time, granted>>

\* Mutated form: the document keeps the expiry of the code.
consumeKeepingExpiry(w) ==
  /\ caller[w] # Free /\ caller[w].stage = "consume"
  /\ LET c == caller[w].challenge
         until == caller[w].until
     IN IF c \in Stored /\ challenge[c].session = 0
             /\ challenge[c].codeExpiresAt > time
        THEN /\ challenge' = [challenge EXCEPT ![c].session = until]
             /\ granted' = granted \cup {[challenge |-> c, until |-> until,
                                          by |-> w]}
        ELSE UNCHANGED <<challenge, granted>>
  /\ caller' = [caller EXCEPT ![w] = Free]
  /\ UNCHANGED <<tenantStatus, spent, inbox, time>>

\* Mutated form: a challenge is consumed whatever happened since the attempt.
consumeUnchecked(w) ==
  /\ caller[w] # Free /\ caller[w].stage = "consume"
  /\ LET c == caller[w].challenge
         until == caller[w].until
     IN IF c \in Stored
        THEN /\ challenge' = [challenge EXCEPT ![c].session = until,
                                               ![c].expiresAt = until]
             /\ granted' = granted \cup {[challenge |-> c, until |-> until,
                                          by |-> w]}
        ELSE UNCHANGED <<challenge, granted>>
  /\ caller' = [caller EXCEPT ![w] = Free]
  /\ UNCHANGED <<tenantStatus, spent, inbox, time>>

\* One transaction turns the challenge into the session, if it is still
\* unconsumed and unexpired, and the token is handed out.
consume(w) ==
  /\ caller[w] # Free /\ caller[w].stage = "consume"
  /\ LET c == caller[w].challenge
         until == caller[w].until
     IN IF c \in Stored /\ challenge[c].session = 0
             /\ challenge[c].codeExpiresAt > time
        THEN /\ challenge' = [challenge EXCEPT ![c].session = until,
                                               ![c].expiresAt = until]
             /\ granted' = granted \cup {[challenge |-> c, until |-> until,
                                          by |-> w]}
        ELSE UNCHANGED <<challenge, granted>>
  /\ caller' = [caller EXCEPT ![w] = Free]
  /\ UNCHANGED <<tenantStatus, spent, inbox, time>>

\* Whether a token handed out lets its bearer in.
authenticate(g) ==
  /\ tenantStatus = "ACTIVE"
  /\ g.challenge \in Stored
  /\ challenge[g.challenge].session = g.until
  /\ challenge[g.challenge].customer
  /\ challenge[g.challenge].expiresAt > time

-----------------------------------------------------------------------------
(* The surroundings *)

\* The tenant is suspended or reactivated.
switchTenant ==
  /\ tenantStatus' \in {"ACTIVE", "SUSPENDED"} \ {tenantStatus}
  /\ UNCHANGED <<challenge, spent, inbox, caller, time, granted>>

\* The TTL index: expired documents go, some time after they expired.
expireDocument ==
  /\ \E c \in Stored : /\ challenge[c].expiresAt <= time
                       /\ challenge' = [challenge EXCEPT ![c] = Free]
  /\ UNCHANGED <<tenantStatus, spent, inbox, caller, time, granted>>

\* A request dies between two of its steps.
accessLost(w) ==
  /\ caller[w] # Free
  /\ caller' = [caller EXCEPT ![w] = Free]
  /\ UNCHANGED <<tenantStatus, challenge, spent, inbox, time, granted>>

accessTick ==
  /\ time < LastMoment
  /\ time' = time + 1
  /\ UNCHANGED <<tenantStatus, challenge, spent, inbox, caller, granted>>

AccessInit ==
  /\ tenantStatus = "ACTIVE"
  /\ challenge = [c \in Challenges |-> Free]
  /\ spent = {} /\ inbox = {} /\ granted = {}
  /\ caller = [w \in Callers |-> Free]
  /\ time = 0

AccessNext ==
  \/ \E w \in Callers :
       \/ requestCode(w) \/ insertChallenge(w) \/ send(w) \/ discardCode(w)
       \/ countAttempt(w) \/ consume(w) \/ accessLost(w)
  \/ switchTenant
  \/ expireDocument
  \/ accessTick

AccessSpec == AccessInit /\ [][AccessNext]_accessVars

-----------------------------------------------------------------------------
(* Properties *)

\* Until the moment its answer named, and while its tenant is active, a session
\* that was handed out lets its customer in: neither the index that deletes
\* expired challenges, nor a delivery of the code reported as failed only
\* later, nor another verification, nor a suspension lifted since takes it away.
SessionKept ==
  tenantStatus = "ACTIVE" => \A g \in granted : g.until > time => authenticate(g)

\* One code buys one session, and is guessed at no more often than the limit,
\* however the two steps of concurrent verifications interleave.
OneSessionPerCode ==
  /\ \A g, h \in granted : g.challenge = h.challenge => g = h
  /\ \A c \in Stored : challenge[c].attempts <= MaxCodeAttempts

\* The limit of codes per phone is read before the challenge is inserted and
\* nothing holds it in between: of the challenges still stored (the index has
\* deleted others, which no count sees any more) the window holds more than the
\* limit when requests counted together, but only by what was under way, one
\* less than the requests served at once.
LimitOvershoot ==
  Cardinality({c \in Stored : challenge[c].createdAt + RequestWindow > time})
    < MaxPhoneRequests + Cardinality(Callers)

-----------------------------------------------------------------------------
(* The inductive invariant *)

\* Documents, requests under way and tokens have their shape.
AccessTypeOK ==
  /\ tenantStatus \in {"ACTIVE", "SUSPENDED"}
  /\ challenge \in [Challenges -> Challenge \cup {Free}]
  /\ spent \subseteq Challenges
  /\ caller \in [Callers -> Serving \cup {Free}]
  /\ time \in Nat
  /\ granted \subseteq [challenge : Challenges, by : Callers, until : Nat]

\* What a session handed out rests on: its challenge is still there as a session
\* until the moment named, or that moment has passed.
Backed(g) ==
  IF g.challenge \in Stored
  THEN /\ challenge[g.challenge].session = g.until
       /\ challenge[g.challenge].expiresAt = g.until
       /\ challenge[g.challenge].customer
  ELSE g.until <= time

\* A verification between its two steps was of a customer's challenge.
Verifying(w) ==
  (caller[w] # Free /\ caller[w].stage = "consume") =>
    /\ caller[w].until > 0
    /\ caller[w].challenge \in spent
    /\ caller[w].challenge \in Stored => challenge[caller[w].challenge].customer

\* OneSessionPerCode and SessionKept with what makes them inductive: ids are used
\* once, every session handed out is backed, verifications are of customers.
Access ==
  /\ AccessTypeOK
  /\ Stored \subseteq spent
  /\ \A g \in granted : g.challenge \in spent /\ g.until > 0 /\ Backed(g)
  /\ \A w \in Callers : Verifying(w)
  /\ OneSessionPerCode

\* The challenges the limit counts, and the requests that counted them and have
\* yet to insert their own.
Recent == {c \in Stored : challenge[c].createdAt + RequestWindow > time}
Counted == {w \in Callers : caller[w] # Free /\ caller[w].stage = "insert"}

\* LimitOvershoot made inductive: what is under way already has its place.
Overshoot ==
  /\ IsFiniteSet(spent)
  /\ Cardinality(Recent) + Cardinality(Counted)
       < MaxPhoneRequests + Cardinality(Callers)
=============================================================================

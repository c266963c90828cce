------------------------ MODULE AffiliateLedgerProofs -----------------------
(***************************************************************************)
(* That racing payouts and reversals never overdraw an affiliate, for any  *)
(* number of workers, commissions, payouts, currencies and amounts, and    *)
(* that the transactions implement a wallet with atomic operations.        *)
(*                                                                         *)
(* The balance is a sum over the ledger, so the proof begins with sums     *)
(* over finite sets.  An induction over sets is an argument about a        *)
(* minimal counterexample: the order of strict inclusion is well founded.  *)
(***************************************************************************)
EXTENDS AffiliateLedger, FiniteSetTheorems, WellFoundedInduction, TLAPS

-----------------------------------------------------------------------------
(* Sums over finite sets *)

\* The element MapThenSumSet takes next.
Pick(S) == CHOOSE x \in S : TRUE

\* h sums the values v over every subset of S, an element at a time.
SumsOver(h, v, S) ==
  h = [s \in SUBSET S |-> IF s = {} THEN 0
                          ELSE v[Pick(s)] + h[s \ {Pick(s)}]]

\* Among subsets of a finite set one is minimal: what the inductions over sets
\* below rest on.
LEMMA MinimalSubset ==
  ASSUME NEW S, IsFiniteSet(S), NEW B \in SUBSET SUBSET S, B # {}
  PROVE  \E m \in B : \A n \in B : n \subseteq m => n = m
<1>1. B \subseteq FiniteSubsetsOf(S)
  BY FS_Subset DEF FiniteSubsetsOf
<1>2. \E m \in B : \A n \in B : ~(<<n, m>> \in StrictSubsetOrdering(S))
  BY <1>1, FS_StrictSubsetOrderingWellFounded, WFMin
<1> QED
  BY <1>2 DEF StrictSubsetOrdering

\* What is picked from a set is in it.
LEMMA PickIn ==
  ASSUME NEW S, S # {}
  PROVE  Pick(S) \in S
BY DEF Pick

\* One step of the recursion.
LEMMA SumsOverAt ==
  ASSUME NEW h, NEW v, NEW S, SumsOver(h, v, S), NEW s \in SUBSET S
  PROVE  /\ s = {} => h[s] = 0
         /\ s # {} => /\ h[s] = v[Pick(s)] + h[s \ {Pick(s)}]
                      /\ Pick(s) \in s
                      /\ s \ {Pick(s)} \in SUBSET S
                      /\ s \ {Pick(s)} # s
<1>1. h = [t \in SUBSET S |-> IF t = {} THEN 0
                              ELSE v[Pick(t)] + h[t \ {Pick(t)}]]
  BY DEF SumsOver
<1>2. h[s] = IF s = {} THEN 0 ELSE v[Pick(s)] + h[s \ {Pick(s)}]
  BY <1>1
<1> QED
  BY <1>2, PickIn

\* Two sums of the same values over the same set are equal.
LEMMA SumsAgree ==
  ASSUME NEW S, IsFiniteSet(S), NEW T, NEW v, NEW w, NEW h, NEW g,
         SumsOver(h, v, S), SumsOver(g, w, T),
         NEW U \in SUBSET (S \cap T), \A x \in U : v[x] = w[x]
  PROVE  h[U] = g[U]
<1> DEFINE B == {s \in SUBSET U : h[s] # g[s]}
<1> SUFFICES ASSUME B # {} PROVE FALSE
  OBVIOUS
<1>1. IsFiniteSet(U)
  BY FS_Subset
<1>2. PICK m \in B : \A n \in B : n \subseteq m => n = m
  <2>1. B \in SUBSET SUBSET U
    OBVIOUS
  <2> HIDE DEF B
  <2> QED
    BY <1>1, <2>1, MinimalSubset
<1>3. m \in SUBSET S /\ m \in SUBSET T /\ m \subseteq U
  OBVIOUS
<1>4. m # {}
  BY <1>3, SumsOverAt
<1>5. /\ h[m] = v[Pick(m)] + h[m \ {Pick(m)}]
      /\ g[m] = w[Pick(m)] + g[m \ {Pick(m)}]
      /\ Pick(m) \in m /\ m \ {Pick(m)} # m
  BY <1>3, <1>4, SumsOverAt
<1>6. h[m \ {Pick(m)}] = g[m \ {Pick(m)}]
  BY <1>2, <1>3, <1>5
<1>7. v[Pick(m)] = w[Pick(m)]
  BY <1>3, <1>5
<1> QED
  BY <1>2, <1>5, <1>6, <1>7

\* The recursion of MapThenSumSet defines a function.
LEMMA SumsExist ==
  ASSUME NEW S, IsFiniteSet(S), NEW v
  PROVE  \E h : SumsOver(h, v, S)
<1> DEFINE B == {T \in SUBSET S : ~ \E h : SumsOver(h, v, T)}
<1> SUFFICES ASSUME B # {} PROVE FALSE
  OBVIOUS
<1>1. PICK m \in B : \A n \in B : n \subseteq m => n = m
  <2>1. B \in SUBSET SUBSET S
    OBVIOUS
  <2> HIDE DEF B
  <2> QED
    BY IsFiniteSet(S), <2>1, MinimalSubset
<1> DEFINE H(s) == CHOOSE h : SumsOver(h, v, s)
           g == [s \in SUBSET m |->
                   IF s = {} THEN 0
                   ELSE v[Pick(s)] + H(s \ {Pick(s)})[s \ {Pick(s)}]]
<1>2. \A s \in SUBSET m : s # m => SumsOver(H(s), v, s)
  BY <1>1
<1>3. ASSUME NEW s \in SUBSET m, s # m
      PROVE  g[s] = H(s)[s]
  <2>1. SumsOver(H(s), v, s)
    BY <1>2, <1>3
  <2>2. CASE s = {}
    <3>1. H(s)[s] = 0
      BY <2>1, <2>2, SumsOverAt
    <3> QED
      BY <2>2, <3>1
  <2>3. CASE s # {}
    <3> DEFINE r == s \ {Pick(s)}
    <3>1. H(s)[s] = v[Pick(s)] + H(s)[r] /\ r \in SUBSET s
      <4> HIDE DEF H
      <4> QED
        BY <2>1, <2>3, SumsOverAt
    <3>2. r \in SUBSET m /\ r # m
      BY <1>3, <3>1
    <3>3. SumsOver(H(r), v, r)
      BY <1>2, <3>2
    <3>4. IsFiniteSet(s) /\ IsFiniteSet(r)
      BY <1>1, <3>1, FS_Subset
    <3>5. H(s)[r] = H(r)[r]
      <4>1. r \in SUBSET (s \cap r)
        BY <3>1
      <4> HIDE DEF r, H
      <4> QED
        BY <2>1, <3>3, <3>4, <4>1, SumsAgree
    <3>6. g[s] = v[Pick(s)] + H(r)[r]
      BY <2>3, <1>3
    <3> QED
      BY <3>1, <3>5, <3>6
  <2> QED
    BY <2>2, <2>3
<1>4. SumsOver(g, v, m)
  <2>1. ASSUME NEW s \in SUBSET m
        PROVE  g[s] = IF s = {} THEN 0 ELSE v[Pick(s)] + g[s \ {Pick(s)}]
    <3>1. CASE s = {}
      BY <3>1
    <3>2. CASE s # {}
      <4>1. s \ {Pick(s)} \in SUBSET m /\ s \ {Pick(s)} # m
        BY <2>1, <3>2, PickIn
      <4>2. g[s \ {Pick(s)}] = H(s \ {Pick(s)})[s \ {Pick(s)}]
        BY <1>3, <4>1
      <4>3. g[s] = v[Pick(s)] + H(s \ {Pick(s)})[s \ {Pick(s)}]
        BY <2>1, <3>2
      <4> QED
        BY <3>2, <4>2, <4>3
    <3> QED
      BY <3>1, <3>2
  <2>2. g = [s \in SUBSET m |-> g[s]]
    OBVIOUS
  <2> HIDE DEF g
  <2>3. g = [s \in SUBSET m |-> IF s = {} THEN 0
                                ELSE v[Pick(s)] + g[s \ {Pick(s)}]]
    BY <2>1, <2>2
  <2> QED
    BY <2>3 DEF SumsOver
<1> QED
  BY <1>1, <1>4

\* Sums of naturals are naturals, sums of integers integers.
LEMMA SumsTyped ==
  ASSUME NEW S, IsFiniteSet(S), NEW v, NEW h, SumsOver(h, v, S),
         NEW N \in {Nat, Int}, \A x \in S : v[x] \in N
  PROVE  \A s \in SUBSET S : h[s] \in N
<1> DEFINE B == {s \in SUBSET S : h[s] \notin N}
<1> SUFFICES ASSUME B # {} PROVE FALSE
  OBVIOUS
<1>1. PICK m \in B : \A n \in B : n \subseteq m => n = m
  <2>1. B \in SUBSET SUBSET S
    OBVIOUS
  <2> HIDE DEF B
  <2> QED
    BY <2>1, MinimalSubset
<1>2. m \in SUBSET S /\ m # {}
  <2>1. m \in SUBSET S /\ h[m] \notin N /\ 0 \in N
    OBVIOUS
  <2> QED
    BY <2>1, SumsOverAt
<1>3. /\ h[m] = v[Pick(m)] + h[m \ {Pick(m)}]
      /\ Pick(m) \in m /\ m \ {Pick(m)} \in SUBSET S /\ m \ {Pick(m)} # m
  BY <1>2, SumsOverAt
<1>4. h[m \ {Pick(m)}] \in N
  BY <1>1, <1>3
<1>5. v[Pick(m)] \in N
  BY <1>3
<1>6. v[Pick(m)] + h[m \ {Pick(m)}] \in N
  BY <1>4, <1>5
<1> QED
  BY <1>1, <1>3, <1>6

\* Which element is added last does not matter.
LEMMA SumsAnyOrder ==
  ASSUME NEW S, IsFiniteSet(S), NEW v, NEW h, SumsOver(h, v, S),
         \A x \in S : v[x] \in Int
  PROVE  \A s \in SUBSET S : \A y \in s : h[s] = v[y] + h[s \ {y}]
<1> DEFINE B == {s \in SUBSET S : \E y \in s : h[s] # v[y] + h[s \ {y}]}
<1> SUFFICES ASSUME B # {} PROVE FALSE
  OBVIOUS
<1>1. PICK m \in B : \A n \in B : n \subseteq m => n = m
  <2>1. B \in SUBSET SUBSET S
    OBVIOUS
  <2> HIDE DEF B
  <2> QED
    BY <2>1, MinimalSubset
<1>2. /\ m \in SUBSET S
      /\ \E y \in m : h[m] # v[y] + h[m \ {y}]
      /\ \A n \in SUBSET S : n \subseteq m /\ n # m =>
           \A z \in n : h[n] = v[z] + h[n \ {z}]
  BY <1>1
<1> HIDE DEF B
<1>3. PICK y \in m : h[m] # v[y] + h[m \ {y}]
  BY <1>2
<1>4. h[m] = v[Pick(m)] + h[m \ {Pick(m)}] /\ Pick(m) \in m
  BY <1>2, <1>3, SumsOverAt
<1>5. PICK p \in m : p = Pick(m)
  BY <1>4
<1>6. h[m] = v[p] + h[m \ {p}]
  BY <1>4, <1>5
<1>7. p # y
  BY <1>3, <1>6
<1>8. PICK r \in SUBSET S : r = (m \ {p}) \ {y} /\ r = (m \ {y}) \ {p}
  BY <1>2
<1>9. h[m \ {p}] = v[y] + h[r]
  <2>1. m \ {p} \in SUBSET S /\ m \ {p} \subseteq m /\ m \ {p} # m /\ y \in m \ {p}
    BY <1>2, <1>7
  <2>2. h[m \ {p}] = v[y] + h[(m \ {p}) \ {y}]
    BY <2>1, <1>2
  <2> QED
    BY <2>2, <1>8
<1>10. h[m \ {y}] = v[p] + h[r]
  <2>1. m \ {y} \in SUBSET S /\ m \ {y} \subseteq m /\ m \ {y} # m /\ p \in m \ {y}
    BY <1>2, <1>7
  <2>2. h[m \ {y}] = v[p] + h[(m \ {y}) \ {p}]
    BY <2>1, <1>2
  <2> QED
    BY <2>2, <1>8
<1>11. v[p] \in Int /\ v[y] \in Int
  BY <1>2
<1>12. h[r] \in Int
  BY SumsTyped
<1>13. h[m] # v[y] + (v[p] + h[r])
  BY <1>3, <1>10
<1>14. h[m] = v[p] + (v[y] + h[r])
  BY <1>6, <1>9
<1> QED
  BY ONLY <1>11, <1>12, <1>13, <1>14

\* The sum of the values v over the set S.
SumOf(v, S) == (CHOOSE h : SumsOver(h, v, S))[S]

\* SumOf is the value of any such function.
LEMMA SumOfIs ==
  ASSUME NEW S, IsFiniteSet(S), NEW T, IsFiniteSet(T), T \subseteq S,
         NEW v, NEW h, SumsOver(h, v, S)
  PROVE  SumOf(v, T) = h[T]
<1>1. PICK g : SumsOver(g, v, T) /\ SumOf(v, T) = g[T]
  BY SumsExist DEF SumOf
<1> QED
  BY <1>1, SumsAgree

\* The sum over nothing,
LEMMA SumOfEmpty ==
  ASSUME NEW v
  PROVE  SumOf(v, {}) = 0
<1>1. PICK h : SumsOver(h, v, {})
  BY SumsExist, FS_EmptySet
<1>2. SumOf(v, {}) = h[{}]
  BY <1>1, SumOfIs, FS_EmptySet
<1> QED
  BY <1>1, <1>2, SumsOverAt

\* ... its type,
LEMMA SumOfTyped ==
  ASSUME NEW S, IsFiniteSet(S), NEW v, NEW N \in {Nat, Int},
         \A x \in S : v[x] \in N
  PROVE  SumOf(v, S) \in N
<1>1. PICK h : SumsOver(h, v, S)
  BY SumsExist
<1>2. SumOf(v, S) = h[S]
  BY <1>1, SumOfIs
<1> QED
  BY <1>1, <1>2, SumsTyped

\* ... an element more,
LEMMA SumOfAdd ==
  ASSUME NEW S, IsFiniteSet(S), NEW v, NEW x, x \notin S,
         \A y \in S \cup {x} : v[y] \in Int
  PROVE  SumOf(v, S \cup {x}) = SumOf(v, S) + v[x]
<1> DEFINE T == S \cup {x}
<1>1. IsFiniteSet(T)
  BY FS_AddElement
<1>2. T \ {x} = S /\ x \in T /\ S \subseteq T
  OBVIOUS
<1>3. \A y \in T : v[y] \in Int
  OBVIOUS
<1> HIDE DEF T
<1>4. PICK h : SumsOver(h, v, T)
  BY <1>1, SumsExist
<1>5. SumOf(v, T) = h[T] /\ SumOf(v, S) = h[S]
  BY <1>1, <1>2, <1>4, SumOfIs
<1>6. h[T] = v[x] + h[S]
  BY <1>1, <1>2, <1>3, <1>4, SumsAnyOrder
<1>7. h[S] \in Int /\ v[x] \in Int
  BY <1>1, <1>2, <1>3, <1>4, SumsTyped
<1> QED
  BY <1>5, <1>6, <1>7 DEF T

\* ... and other values that agree on the set.
LEMMA SumOfSame ==
  ASSUME NEW S, IsFiniteSet(S), NEW v, NEW w, \A x \in S : v[x] = w[x]
  PROVE  SumOf(v, S) = SumOf(w, S)
<1>1. PICK h : SumsOver(h, v, S)
  BY SumsExist
<1>2. PICK g : SumsOver(g, w, S)
  BY SumsExist
<1>3. SumOf(v, S) = h[S] /\ SumOf(w, S) = g[S]
  BY <1>1, <1>2, SumOfIs
<1> QED
  BY <1>1, <1>2, <1>3, SumsAgree
-----------------------------------------------------------------------------
(* Types *)

\* What a handler decides on is a well-formed plan: a commission,
LEMMA EarnPlanTyped ==
  ASSUME NEW r \in Request, r.op = "earn"
  PROVE  EarnPlan(r) \in Plan
<1>1. r.ref \in Commissions
  BY DEF Request
<1>2. PICK c \in [currency : Currencies, amount : Nat \ {0}] :
        c = CommissionOf[r.ref]
  BY <1>1, LedgerAssumption
<1>3. <<"commission", r.ref>> \in EntryKey
  BY <1>1 DEF EntryKey
<1> QED
  BY <1>1, <1>2, <1>3 DEF EarnPlan, Plan, Entry, LockDoc, Doc

\* ... its reversal,
LEMMA ReversePlanTyped ==
  ASSUME NEW r \in Request, r.op = "reverse"
  PROVE  ReversePlan(r) \in Plan
<1>1. r.ref \in Commissions /\ r.key \in Keys
  BY DEF Request
<1>2. PICK c \in [currency : Currencies, amount : Nat \ {0}] :
        c = CommissionOf[r.ref]
  BY <1>1, LedgerAssumption
<1>3. <<"client", r.key>> \in EntryKey
  BY <1>1 DEF EntryKey
<1> QED
  BY <1>1, <1>2, <1>3 DEF ReversePlan, ReverseLocks, Plan, Entry, LockDoc, Doc

\* ... a payout,
LEMMA CreatePlanTyped ==
  ASSUME NEW r \in Request, r.op = "create"
  PROVE  CreatePlan(r) \in Plan
<1>1. /\ r.ref \in Payouts /\ r.currency \in Currencies
      /\ r.amount \in Amounts /\ r.key \in CreateKeys
  BY DEF Request
<1> QED
  BY <1>1 DEF CreatePlan, CreateLocks, Plan, Payout, PayoutStatus, LockDoc, Doc

\* What the end of a payout finds.
LEMMA EndedTyped ==
  ASSUME TypeOK, NEW r \in Request, r.op = "end", EndAccepted(r)
  PROVE  /\ r.ref \in Payouts /\ r.key \in Keys
         /\ r.status \in PayoutStatus \ {"PROCESSING"}
         /\ payouts[r.ref] \in Payout
<1>1. /\ r.ref \in Payouts /\ r.key \in Keys
      /\ r.status \in PayoutStatus \ {"PROCESSING"}
  BY DEF Request
<1> QED
  BY <1>1 DEF TypeOK, EndAccepted, Exists

\* ... and its end.
LEMMA EndPlanTyped ==
  ASSUME TypeOK, NEW r \in Request, r.op = "end", EndAccepted(r)
  PROVE  EndPlan(r) \in Plan
<1>1. /\ r.ref \in Payouts /\ r.key \in Keys
      /\ r.status \in PayoutStatus \ {"PROCESSING"}
  BY EndedTyped
<1>2. PICK d \in Payout : d = payouts[r.ref]
  BY EndedTyped
<1>3. <<"payout", r.ref>> \in EntryKey /\ d.amount \in Nat
  BY <1>1, LedgerAssumption DEF EntryKey, Payout
<1>4. PaidEntry(r) \in SUBSET Entry
  BY <1>1, <1>2, <1>3 DEF PaidEntry, Entry, Payout
<1>5. \A e \in PaidEntry(r) : <<"entry", e.key>> \in Doc
  BY <1>4 DEF Entry, Doc
<1>6. [d EXCEPT !.status = r.status, !.endKey = r.key] \in Payout
  BY <1>1 DEF Payout
<1>7. EndPlan(r).writes \in SUBSET Doc
  BY <1>1, <1>2, <1>5 DEF EndPlan, Doc, LockDoc, Payout
<1> QED
  BY <1>2, <1>4, <1>6, <1>7 DEF EndPlan, Plan

\* Every accepted request has a well-formed plan.
LEMMA PlanTyped ==
  ASSUME TypeOK, NEW r \in Request, Accepted(r)
  PROVE  PlanFor(r) \in Plan
<1>1. r.op \in {"earn", "reverse", "create", "end"}
  BY DEF Request
<1>2. CASE r.op = "earn"
  BY <1>2, EarnPlanTyped DEF PlanFor
<1>3. CASE r.op = "reverse"
  BY <1>3, ReversePlanTyped DEF PlanFor
<1>4. CASE r.op = "create"
  BY <1>4, CreatePlanTyped DEF PlanFor
<1>5. CASE r.op = "end"
  BY <1>5, EndPlanTyped DEF PlanFor, Accepted
<1> QED
  BY <1>1, <1>2, <1>3, <1>4, <1>5

\* What a step that commits nothing does: one transaction is prepared by its
\* handler, or given up.
Prepare(w) ==
  /\ UNCHANGED database
  /\ \/ txn' = [txn EXCEPT ![w] = Idle]
     \/ \E r \in Request :
          Accepted(r) /\ txn' = [txn EXCEPT ![w] = Snapshot(r)]

\* A step prepares a transaction, gives one up, commits one, or stutters.
LEMMA StepKinds ==
  ASSUME TypeOK, [Next]_vars
  PROVE  \/ \E w \in Workers : Prepare(w)
         \/ \E w \in Workers : Commit(w)
         \/ UNCHANGED vars
<1> SUFFICES ASSUME NEW w \in Workers,
                    \/ earnCompletedCommission(w)
                    \/ reverseCommission(w)
                    \/ create(w)
                    \/ markPaid(w)
                    \/ markUnpaid(w)
                    \/ Retry(w)
                    \/ Abort(w)
             PROVE  Prepare(w)
  BY DEF Next
<1>1. ASSUME NEW r \in Request, Open(w, r) PROVE Prepare(w)
  BY <1>1 DEF Open, Prepare
<1>2. CASE earnCompletedCommission(w)
  BY <1>1, <1>2 DEF earnCompletedCommission, Request
<1>3. CASE reverseCommission(w)
  BY <1>1, <1>3 DEF reverseCommission, Request
<1>4. CASE create(w)
  BY <1>1, <1>4 DEF create, FreshIds, Request
<1>5. CASE markPaid(w)
  BY <1>1, <1>5 DEF markPaid, Request, PayoutStatus
<1>6. CASE markUnpaid(w)
  BY <1>1, <1>6 DEF markUnpaid, Request, PayoutStatus
<1>7. CASE Retry(w)
  <2>1. txn[w].request \in Request
    BY <1>7 DEF Retry, TypeOK, Transaction
  <2> QED
    BY <1>7, <2>1 DEF Retry, Prepare
<1>8. CASE Abort(w)
  BY <1>8 DEF Abort, Prepare
<1> QED
  BY <1>2, <1>3, <1>4, <1>5, <1>6, <1>7, <1>8

\* No step breaks the types.
LEMMA TypeInductive ==
  ASSUME TypeOK, [Next]_vars
  PROVE  TypeOK'
<1>1. CASE UNCHANGED vars
  BY <1>1 DEF TypeOK, vars
<1>2. ASSUME NEW w \in Workers, Prepare(w) PROVE TypeOK'
  <2>1. ASSUME NEW r \in Request, Accepted(r)
        PROVE  Snapshot(r) \in Transaction
    BY <2>1, PlanTyped DEF Snapshot, Transaction
  <2> QED
    BY <1>2, <2>1 DEF Prepare, TypeOK, database
<1>3. ASSUME NEW w \in Workers, Commit(w) PROVE TypeOK'
  <2>1. PICK t \in Transaction : t = txn[w]
    BY <1>3 DEF Commit, TypeOK
  <2>2. /\ entries' = entries \cup t.plan.entry
        /\ payouts' = [p \in Payouts |->
                         IF p = t.request.ref /\ t.plan.payout # {}
                         THEN CHOOSE d \in t.plan.payout : TRUE
                         ELSE payouts[p]]
        /\ lockDocs' = lockDocs \cup t.plan.create
        /\ txn' = [v \in Workers |->
                     IF v = w \/ txn[v] = Idle THEN Idle
                     ELSE [txn[v] EXCEPT !.overtaken = @ \cup t.plan.writes]]
    BY <1>3, <2>1 DEF Commit
  <2>3. t.plan \in Plan
    BY DEF Transaction
  <2>4. PICK q \in Plan : q = t.plan
    BY <2>3
  <2>5. /\ q.entry \subseteq Entry /\ q.payout \subseteq Payout
        /\ q.create \subseteq LockDoc /\ q.writes \subseteq Doc
    BY DEF Plan
  <2>6. entries' \subseteq Entry /\ lockDocs' \subseteq LockDoc
    BY <2>2, <2>4, <2>5 DEF TypeOK
  <2>7. payouts' \in [Payouts -> Payout \cup {None}]
    BY <2>2, <2>4, <2>5 DEF TypeOK
  <2>8. txn' \in [Workers -> Transaction \cup {Idle}]
    <3>1. ASSUME NEW u \in Transaction
          PROVE  [u EXCEPT !.overtaken = @ \cup q.writes] \in Transaction
      BY <2>5 DEF Transaction
    <3> QED
      BY <2>2, <2>4, <3>1 DEF TypeOK
  <2> QED
    BY <2>6, <2>7, <2>8 DEF TypeOK
<1> QED
  BY <1>1, <1>2, <1>3, StepKinds

\* The collections keep their shape and every open transaction a well-formed
\* plan, whatever the handlers of affiliate-ledger.service.ts and
\* affiliate-payout.service.ts do.
THEOREM LedgerTyped == Spec => []TypeOK
<1>1. Init => TypeOK
  BY DEF Init, TypeOK
<1>2. TypeOK /\ [Next]_vars => TypeOK'
  BY TypeInductive
<1> QED
  BY <1>1, <1>2, PTL DEF Spec

-----------------------------------------------------------------------------
(* What a commit does *)

\* A transaction that nothing conflicts with is the one its handler would
\* decide on now.
Serial ==
  \A w \in Workers, r \in Request :
    txn[w] # Idle /\ txn[w].request = r /\ ~Conflict(w) =>
      Accepted(r) /\ txn[w].plan = PlanFor(r)

\* The commit by w of what the handler decides on r.
Applied(w, r) ==
  /\ entries' = entries \cup PlanFor(r).entry
  /\ payouts' = [p \in Payouts |->
                   IF p = r.ref /\ PlanFor(r).payout # {}
                   THEN CHOOSE d \in PlanFor(r).payout : TRUE
                   ELSE payouts[p]]
  /\ lockDocs' = lockDocs \cup PlanFor(r).create
  /\ txn' = [v \in Workers |->
               IF v = w \/ txn[v] = Idle THEN Idle
               ELSE [txn[v] EXCEPT !.overtaken = @ \cup PlanFor(r).writes]]

\* A commit applies what its handler would decide on now.
LEMMA CommitApplies ==
  ASSUME TypeOK, Serial, NEW w \in Workers, Commit(w)
  PROVE  \E r \in Request : Accepted(r) /\ Applied(w, r)
<1>1. PICK t \in Transaction : t = txn[w]
  BY DEF Commit, TypeOK
<1>2. PICK r \in Request : r = t.request
  BY DEF Transaction
<1>3. Accepted(r) /\ t.plan = PlanFor(r)
  BY <1>1, <1>2 DEF Commit, Serial
<1>4. /\ entries' = entries \cup t.plan.entry
      /\ payouts' = [p \in Payouts |->
                       IF p = t.request.ref /\ t.plan.payout # {}
                       THEN CHOOSE d \in t.plan.payout : TRUE
                       ELSE payouts[p]]
      /\ lockDocs' = lockDocs \cup t.plan.create
      /\ txn' = [v \in Workers |->
                   IF v = w \/ txn[v] = Idle THEN Idle
                   ELSE [txn[v] EXCEPT !.overtaken = @ \cup t.plan.writes]]
  BY <1>1 DEF Commit
<1>5. Applied(w, r)
  BY <1>2, <1>3, <1>4 DEF Applied
<1> QED
  BY <1>3, <1>5

\* The writes of a commission,
LEMMA EarnEffect ==
  ASSUME TypeOK, NEW w \in Workers, NEW r \in Request, Applied(w, r),
         Accepted(r), r.op = "earn"
  PROVE  /\ r.ref \in Commissions
         /\ EntriesOf("COMMISSION_EARNED", r.ref) = {}
         /\ payouts' = payouts
         /\ \E e \in Entry :
              /\ e.type = "COMMISSION_EARNED" /\ e.ref = r.ref
              /\ e.currency = CommissionOf[r.ref].currency
              /\ e.amount = CommissionOf[r.ref].amount
              /\ e.key = <<"commission", r.ref>>
              /\ e \notin entries /\ entries' = entries \cup {e}
<1>1. r.ref \in Commissions
  BY DEF Request
<1>2. EntriesOf("COMMISSION_EARNED", r.ref) = {}
  BY DEF Accepted, EarnAccepted
<1>3. PlanFor(r) = EarnPlan(r)
  BY DEF PlanFor
<1>4. PlanFor(r).payout = {}
  BY <1>3 DEF EarnPlan
<1>5. payouts' = payouts
  BY <1>4 DEF Applied, TypeOK
<1>6. PICK e : e = [currency |-> CommissionOf[r.ref].currency,
                    amount |-> CommissionOf[r.ref].amount,
                    type |-> "COMMISSION_EARNED", ref |-> r.ref,
                    key |-> <<"commission", r.ref>>]
  OBVIOUS
<1>7. PlanFor(r).entry = {e}
  BY <1>3, <1>6 DEF EarnPlan
<1>8. e \in Entry
  <2>1. EarnPlan(r) \in Plan
    BY EarnPlanTyped
  <2> QED
    BY <2>1, <1>3, <1>7 DEF Plan
<1>9. e \notin entries
  BY <1>2, <1>6 DEF EntriesOf
<1> QED
  BY <1>1, <1>2, <1>5, <1>6, <1>7, <1>8, <1>9 DEF Applied

\* ... of a reversal,
LEMMA ReverseEffect ==
  ASSUME TypeOK, NEW w \in Workers, NEW r \in Request, Applied(w, r),
         Accepted(r), r.op = "reverse"
  PROVE  /\ r.ref \in Commissions /\ r.key \in Keys
         /\ EntriesOf("COMMISSION_EARNED", r.ref) # {}
         /\ EntriesOf("COMMISSION_REVERSAL", r.ref) = {}
         /\ available(CommissionOf[r.ref].currency)
              >= CommissionOf[r.ref].amount
         /\ payouts' = payouts
         /\ \E e \in Entry :
              /\ e.type = "COMMISSION_REVERSAL" /\ e.ref = r.ref
              /\ e.currency = CommissionOf[r.ref].currency
              /\ e.amount = CommissionOf[r.ref].amount
              /\ e.key = <<"client", r.key>>
              /\ e \notin entries /\ entries' = entries \cup {e}
<1>1. r.ref \in Commissions /\ r.key \in Keys
  BY DEF Request
<1>2. /\ EntriesOf("COMMISSION_EARNED", r.ref) # {}
      /\ EntriesOf("COMMISSION_REVERSAL", r.ref) = {}
      /\ available(CommissionOf[r.ref].currency) >= CommissionOf[r.ref].amount
  BY DEF Accepted, ReverseAccepted
<1>3. PlanFor(r) = ReversePlan(r)
  BY DEF PlanFor
<1>4. PlanFor(r).payout = {}
  BY <1>3 DEF ReversePlan
<1>5. payouts' = payouts
  BY <1>4 DEF Applied, TypeOK
<1>6. PICK e : e = [currency |-> CommissionOf[r.ref].currency,
                    amount |-> CommissionOf[r.ref].amount,
                    type |-> "COMMISSION_REVERSAL", ref |-> r.ref,
                    key |-> <<"client", r.key>>]
  OBVIOUS
<1>7. PlanFor(r).entry = {e}
  BY <1>3, <1>6 DEF ReversePlan
<1>8. e \in Entry
  <2>1. ReversePlan(r) \in Plan
    BY ReversePlanTyped
  <2> QED
    BY <2>1, <1>3, <1>7 DEF Plan
<1>9. e \notin entries
  BY <1>2, <1>6 DEF EntriesOf
<1>10. entries' = entries \cup {e}
  BY <1>7 DEF Applied
<1>11. /\ e.type = "COMMISSION_REVERSAL" /\ e.ref = r.ref
       /\ e.currency = CommissionOf[r.ref].currency
       /\ e.amount = CommissionOf[r.ref].amount
       /\ e.key = <<"client", r.key>>
  BY <1>6
<1> QED
  BY <1>1, <1>2, <1>5, <1>8, <1>9, <1>10, <1>11

\* ... of a new payout,
LEMMA CreateEffect ==
  ASSUME TypeOK, NEW w \in Workers, NEW r \in Request, Applied(w, r),
         Accepted(r), r.op = "create"
  PROVE  /\ r.ref \in Payouts /\ r.currency \in Currencies
         /\ r.amount \in Amounts
         /\ ~Exists(r.ref)
         /\ assertProcessingCapacity
         /\ available(r.currency) >= r.amount
         /\ entries' = entries
         /\ \E d \in Payout :
              /\ d.status = "PROCESSING" /\ d.currency = r.currency
              /\ d.amount = r.amount /\ d.endKey = None
              /\ d.createKey = r.key
              /\ payouts' = [payouts EXCEPT ![r.ref] = d]
<1>1. /\ r.ref \in Payouts /\ r.currency \in Currencies
      /\ r.amount \in Amounts
  BY DEF Request
<1>2. /\ ~Exists(r.ref) /\ assertProcessingCapacity
      /\ available(r.currency) >= r.amount
  BY DEF Accepted, CreateAccepted
<1>3. PlanFor(r) = CreatePlan(r)
  BY DEF PlanFor
<1>4. PlanFor(r).entry = {}
  BY <1>3 DEF CreatePlan
<1>5. entries' = entries
  BY <1>4 DEF Applied
<1>6. PICK d : d = [currency |-> r.currency, amount |-> r.amount,
                    status |-> "PROCESSING", createKey |-> r.key,
                    endKey |-> None]
  OBVIOUS
<1>7. PlanFor(r).payout = {d}
  BY <1>3, <1>6 DEF CreatePlan
<1>8. d \in Payout
  <2>1. CreatePlan(r) \in Plan
    BY CreatePlanTyped
  <2> QED
    BY <2>1, <1>3, <1>7 DEF Plan
<1>9. PlanFor(r).payout # {} /\ (CHOOSE x \in PlanFor(r).payout : TRUE) = d
  BY <1>7
<1>10. payouts' = [payouts EXCEPT ![r.ref] = d]
  BY <1>1, <1>9 DEF Applied, TypeOK
<1>11. /\ d.status = "PROCESSING" /\ d.currency = r.currency
       /\ d.amount = r.amount /\ d.endKey = None /\ d.createKey = r.key
  BY <1>6
<1> QED
  BY <1>1, <1>2, <1>5, <1>8, <1>10, <1>11

\* ... and of the end of a payout.
LEMMA EndEffect ==
  ASSUME TypeOK, NEW w \in Workers, NEW r \in Request, Applied(w, r),
         Accepted(r), r.op = "end"
  PROVE  /\ r.ref \in Payouts /\ r.key \in Keys
         /\ r.status \in PayoutStatus \ {"PROCESSING"}
         /\ payouts[r.ref] \in Payout
         /\ payouts[r.ref].status = "PROCESSING"
         /\ \E d \in Payout :
              /\ d.status = r.status
              /\ d.currency = payouts[r.ref].currency
              /\ d.amount = payouts[r.ref].amount
              /\ d.createKey = payouts[r.ref].createKey
              /\ d.endKey = r.key
              /\ payouts' = [payouts EXCEPT ![r.ref] = d]
         /\ PaidEntry(r) \subseteq Entry
         /\ entries' = entries \cup PaidEntry(r)
<1>1. EndAccepted(r)
  BY DEF Accepted
<1>2. /\ r.ref \in Payouts /\ r.key \in Keys
      /\ r.status \in PayoutStatus \ {"PROCESSING"}
      /\ payouts[r.ref] \in Payout
  BY <1>1, EndedTyped
<1>3. payouts[r.ref].status = "PROCESSING"
  BY <1>1 DEF EndAccepted
<1>4. PlanFor(r) = EndPlan(r)
  BY DEF PlanFor
<1>5. PlanFor(r).entry = PaidEntry(r)
  BY <1>4 DEF EndPlan
<1>6. PICK b \in Payout : b = payouts[r.ref]
  BY <1>2
<1>7. PICK d \in Payout : d = [b EXCEPT !.status = r.status, !.endKey = r.key]
  BY <1>2 DEF Payout
<1>8. /\ d.status = r.status /\ d.currency = b.currency
      /\ d.amount = b.amount /\ d.createKey = b.createKey
      /\ d.endKey = r.key
  BY <1>7 DEF Payout
<1>9. PlanFor(r).payout = {d}
  BY <1>4, <1>6, <1>7 DEF EndPlan
<1>10. PlanFor(r).payout # {} /\ (CHOOSE x \in PlanFor(r).payout : TRUE) = d
  BY <1>9
<1>11. payouts' = [payouts EXCEPT ![r.ref] = d]
  BY <1>2, <1>10 DEF Applied, TypeOK
<1>12. EndPlan(r) \in Plan
  BY <1>1, EndPlanTyped
<1>13. PaidEntry(r) \subseteq Entry
  BY <1>4, <1>5, <1>12 DEF Plan
<1>14. entries' = entries \cup PaidEntry(r)
  BY <1>5 DEF Applied
<1> QED
  BY <1>2, <1>3, <1>6, <1>8, <1>11, <1>13, <1>14

-----------------------------------------------------------------------------
(* What a commit moves *)

\* The sum inside balance is SumOf.
LEMMA SignedSum ==
  ASSUME NEW E \in SUBSET Entry, IsFiniteSet(E)
  PROVE  MapThenSumSet(signed, E) = SumOf([e \in Entry |-> signed(e)], E)
<1> DEFINE v == [e \in Entry |-> signed(e)]
<1>1. MapThenSumSet(signed, E) =
        (CHOOSE it :
           it = [s \in SUBSET E |->
                   IF s = {} THEN 0
                   ELSE signed(CHOOSE x \in s : TRUE)
                          + it[s \ {CHOOSE x \in s : TRUE}]])[E]
  BY DEF MapThenSumSet, MapThenFoldSet
<1>2. ASSUME NEW h
      PROVE  SumsOver(h, v, E) <=>
             h = [s \in SUBSET E |->
                    IF s = {} THEN 0
                    ELSE signed(CHOOSE x \in s : TRUE)
                           + h[s \ {CHOOSE x \in s : TRUE}]]
  <2>1. ASSUME NEW s \in SUBSET E, s # {}
        PROVE  v[Pick(s)] = signed(CHOOSE x \in s : TRUE)
    BY <2>1, PickIn DEF Pick
  <2> HIDE DEF v
  <2>2. ASSUME NEW s \in SUBSET E
        PROVE  (IF s = {} THEN 0 ELSE v[Pick(s)] + h[s \ {Pick(s)}]) =
               (IF s = {} THEN 0
                ELSE signed(CHOOSE x \in s : TRUE)
                       + h[s \ {CHOOSE x \in s : TRUE}])
    BY <2>1 DEF Pick
  <2>3. [s \in SUBSET E |-> IF s = {} THEN 0
                            ELSE v[Pick(s)] + h[s \ {Pick(s)}]] =
        [s \in SUBSET E |->
           IF s = {} THEN 0
           ELSE signed(CHOOSE x \in s : TRUE)
                  + h[s \ {CHOOSE x \in s : TRUE}]]
    BY <2>2
  <2> QED
    BY <2>3 DEF SumsOver
<1> HIDE DEF v
<1>3. \E h : SumsOver(h, v, E)
  BY SumsExist
<1>4. \E it :
        /\ it = [s \in SUBSET E |->
                  IF s = {} THEN 0
                  ELSE signed(CHOOSE x \in s : TRUE)
                         + it[s \ {CHOOSE x \in s : TRUE}]]
        /\ MapThenSumSet(signed, E) = it[E]
  <2>1. \E it :
          it = [s \in SUBSET E |->
                    IF s = {} THEN 0
                    ELSE signed(CHOOSE x \in s : TRUE)
                           + it[s \ {CHOOSE x \in s : TRUE}]]
    <3>1. PICK h : SumsOver(h, v, E)
      BY <1>3
    <3>2. h = [s \in SUBSET E |->
                  IF s = {} THEN 0
                  ELSE signed(CHOOSE x \in s : TRUE)
                         + h[s \ {CHOOSE x \in s : TRUE}]]
      BY <1>2, <3>1
    <3> QED
      BY ONLY <3>2
  <2> QED
    BY <2>1, <1>1
<1>5. \E h : SumsOver(h, v, E) /\ MapThenSumSet(signed, E) = h[E]
  BY <1>2, <1>4
<1>6. MapThenSumSet(signed, E) = SumOf(v, E)
  BY <1>5, SumOfIs
<1> QED
  BY <1>6 DEF v

\* A commission counts for, everything else against the affiliate.
LEMMA SignedTyped ==
  ASSUME NEW e \in Entry
  PROVE  /\ signed(e) \in Int
         /\ e.type = "COMMISSION_EARNED" => signed(e) = e.amount
         /\ e.type # "COMMISSION_EARNED" => signed(e) = -e.amount
BY DEF signed, Entry

\* A new entry changes the balance of its currency by its signed amount.
LEMMA BalanceAdds ==
  ASSUME TypeOK, IsFiniteSet(entries), NEW cur,
         NEW e \in Entry, e \notin entries, entries' = entries \cup {e}
  PROVE  /\ balance(cur) \in Int
         /\ balance(cur)' = IF e.currency = cur THEN balance(cur) + signed(e)
                            ELSE balance(cur)
<1> DEFINE E == {x \in entries : x.currency = cur}
           F == {x \in entries' : x.currency = cur}
           v == [x \in Entry |-> signed(x)]
<1>1. E \in SUBSET Entry /\ IsFiniteSet(E) /\ e \notin E
  BY FS_Subset DEF TypeOK
<1>2. F = IF e.currency = cur THEN E \cup {e} ELSE E
  OBVIOUS
<1>3. F \in SUBSET Entry /\ IsFiniteSet(F)
  <2>1. IsFiniteSet(E \cup {e}) /\ E \cup {e} \in SUBSET Entry
    BY <1>1, FS_AddElement
  <2> HIDE DEF E, F
  <2> QED
    BY <1>1, <1>2, <2>1
<1>4. balance(cur) = MapThenSumSet(signed, E)
  BY DEF balance
<1>5. balance(cur)' = MapThenSumSet(signed, F)
  BY DEF balance
<1>6. \A x \in Entry : v[x] = signed(x) /\ v[x] \in Int
  BY SignedTyped
<1> HIDE DEF E, F, v
<1>7. balance(cur) = SumOf(v, E) /\ balance(cur)' = SumOf(v, F)
  BY <1>1, <1>3, <1>4, <1>5, SignedSum DEF v
<1>8. SumOf(v, E) \in Int
  BY <1>1, <1>6, SumOfTyped
<1>9. SumOf(v, E \cup {e}) = SumOf(v, E) + v[e]
  BY <1>1, <1>6, SumOfAdd
<1> QED
  BY <1>2, <1>6, <1>7, <1>8, <1>9

\* The payouts in progress of a currency.
Reserving(cur) == {p \in Processing : payouts[p].currency = cur}

\* The sum inside reserved is SumOf,
LEMMA AmountSum ==
  \A S : IsFiniteSet(S) =>
    MapThenSumSet(amountOf, S) = SumOf([p \in S |-> payouts[p].amount], S)
<1> SUFFICES ASSUME NEW S, IsFiniteSet(S)
             PROVE  MapThenSumSet(amountOf, S) =
                      SumOf([p \in S |-> payouts[p].amount], S)
  OBVIOUS
<1> DEFINE v == [p \in S |-> payouts[p].amount]
<1>1. MapThenSumSet(amountOf, S) =
        (CHOOSE it :
           it = [s \in SUBSET S |->
                   IF s = {} THEN 0
                   ELSE amountOf(CHOOSE x \in s : TRUE)
                          + it[s \ {CHOOSE x \in s : TRUE}]])[S]
  BY DEF MapThenSumSet, MapThenFoldSet
<1>2. ASSUME NEW h
      PROVE  SumsOver(h, v, S) <=>
             h = [s \in SUBSET S |->
                    IF s = {} THEN 0
                    ELSE amountOf(CHOOSE x \in s : TRUE)
                           + h[s \ {CHOOSE x \in s : TRUE}]]
  <2>1. ASSUME NEW s \in SUBSET S, s # {}
        PROVE  v[Pick(s)] = amountOf(CHOOSE x \in s : TRUE)
    BY <2>1, PickIn DEF Pick, amountOf
  <2> HIDE DEF v
  <2>2. ASSUME NEW s \in SUBSET S
        PROVE  (IF s = {} THEN 0 ELSE v[Pick(s)] + h[s \ {Pick(s)}]) =
               (IF s = {} THEN 0
                ELSE amountOf(CHOOSE x \in s : TRUE)
                       + h[s \ {CHOOSE x \in s : TRUE}])
    BY <2>1 DEF Pick
  <2>3. [s \in SUBSET S |-> IF s = {} THEN 0
                            ELSE v[Pick(s)] + h[s \ {Pick(s)}]] =
        [s \in SUBSET S |->
           IF s = {} THEN 0
           ELSE amountOf(CHOOSE x \in s : TRUE)
                  + h[s \ {CHOOSE x \in s : TRUE}]]
    BY <2>2
  <2> QED
    BY <2>3 DEF SumsOver
<1> HIDE DEF v
<1>3. \E h : SumsOver(h, v, S)
  BY SumsExist
<1>4. \E it :
        /\ it = [s \in SUBSET S |->
                  IF s = {} THEN 0
                  ELSE amountOf(CHOOSE x \in s : TRUE)
                         + it[s \ {CHOOSE x \in s : TRUE}]]
        /\ MapThenSumSet(amountOf, S) = it[S]
  <2>1. \E it :
          it = [s \in SUBSET S |->
                    IF s = {} THEN 0
                    ELSE amountOf(CHOOSE x \in s : TRUE)
                           + it[s \ {CHOOSE x \in s : TRUE}]]
    <3>1. PICK h : SumsOver(h, v, S)
      BY <1>3
    <3>2. h = [s \in SUBSET S |->
                  IF s = {} THEN 0
                  ELSE amountOf(CHOOSE x \in s : TRUE)
                         + h[s \ {CHOOSE x \in s : TRUE}]]
      BY <1>2, <3>1
    <3> QED
      BY ONLY <3>2
  <2> QED
    BY <2>1, <1>1
<1>5. \E h : SumsOver(h, v, S) /\ MapThenSumSet(amountOf, S) = h[S]
  BY <1>2, <1>4
<1>6. MapThenSumSet(amountOf, S) = SumOf(v, S)
  BY <1>5, SumOfIs
<1> QED
  BY <1>6 DEF v

\* ... over the payouts in progress of the currency,
LEMMA ReservedIs ==
  \A cur : IsFiniteSet(Reserving(cur)) =>
    reserved(cur) = SumOf([p \in Reserving(cur) |-> payouts[p].amount],
                          Reserving(cur))
<1> SUFFICES ASSUME NEW cur, IsFiniteSet(Reserving(cur))
             PROVE  reserved(cur) =
                      SumOf([p \in Reserving(cur) |-> payouts[p].amount],
                            Reserving(cur))
  OBVIOUS
<1>1. reserved(cur) = MapThenSumSet(amountOf, Reserving(cur))
  BY DEF reserved, Reserving
<1> QED
  BY <1>1, AmountSum

\* ... in the next state too.
LEMMA ReservedNext ==
  \A cur : IsFiniteSet(Reserving(cur)') =>
    reserved(cur)' = SumOf([p \in Reserving(cur)' |-> payouts'[p].amount],
                           Reserving(cur)')
<1>1. (\A cur : IsFiniteSet(Reserving(cur)) =>
          reserved(cur) = SumOf([p \in Reserving(cur) |-> payouts[p].amount],
                                Reserving(cur)))'
  BY ReservedIs, PTL
<1> QED
  BY <1>1

\* A payout is for a positive amount.
LEMMA AmountTyped ==
  ASSUME NEW d \in Payout
  PROVE  d.amount \in Nat /\ d.amount > 0 /\ d.currency \in Currencies
<1>1. d.amount \in Amounts /\ d.currency \in Currencies
  BY DEF Payout
<1>2. \A n \in Amounts : n \in Nat /\ n > 0
  BY LedgerAssumption
<1> QED
  BY <1>1, <1>2

\* What is reserved is a natural number.
LEMMA ReservedTyped ==
  ASSUME TypeOK, IsFiniteSet(Processing), NEW cur
  PROVE  /\ IsFiniteSet(Reserving(cur)) /\ Reserving(cur) \subseteq Payouts
         /\ \A p \in Reserving(cur) : payouts[p] \in Payout
                                      /\ payouts[p].amount \in Nat
         /\ reserved(cur) \in Nat
<1>1. Reserving(cur) \subseteq Processing
  BY DEF Reserving
<1>2. IsFiniteSet(Reserving(cur)) /\ Reserving(cur) \subseteq Payouts
  BY <1>1, FS_Subset DEF Processing
<1>3. \A p \in Reserving(cur) : payouts[p] \in Payout
  BY <1>1 DEF Processing, Exists, TypeOK
<1>4. \A p \in Reserving(cur) : payouts[p].amount \in Nat
  BY <1>3, AmountTyped
<1> DEFINE v == [p \in Reserving(cur) |-> payouts[p].amount]
<1>5. reserved(cur) = SumOf(v, Reserving(cur))
  BY <1>2, ReservedIs
<1>6. \A p \in Reserving(cur) : v[p] \in Nat
  BY <1>4
<1> HIDE DEF v
<1>7. SumOf(v, Reserving(cur)) \in Nat
  BY <1>2, <1>6, SumOfTyped
<1> QED
  BY <1>2, <1>3, <1>4, <1>5, <1>7

\* Payouts untouched, nothing more or less is reserved.
LEMMA ReservedSame ==
  ASSUME TypeOK, IsFiniteSet(Processing), payouts' = payouts, NEW cur
  PROVE  Processing' = Processing /\ reserved(cur)' = reserved(cur)
<1>1. Processing' = Processing
  BY DEF Processing, Exists
<1>2. PICK R : R = Reserving(cur)
  OBVIOUS
<1>3. Reserving(cur)' = R
  BY <1>1, <1>2 DEF Reserving
<1>4. IsFiniteSet(R)
  BY <1>2, ReservedTyped
<1>5. reserved(cur) = SumOf([p \in R |-> payouts[p].amount], R)
  BY <1>2, <1>4, ReservedIs
<1>6. reserved(cur)' = SumOf([p \in R |-> payouts'[p].amount], R)
  <2>1. IsFiniteSet(Reserving(cur)')
    BY <1>3, <1>4
  <2>2. reserved(cur)' = SumOf([p \in Reserving(cur)' |-> payouts'[p].amount],
                               Reserving(cur)')
    BY <2>1, ReservedNext
  <2> QED
    BY <2>2, <1>3
<1> QED
  BY <1>1, <1>5, <1>6

\* A new payout reserves its amount,
LEMMA ReservedGrows ==
  ASSUME TypeOK, IsFiniteSet(Processing), NEW p \in Payouts, ~Exists(p),
         NEW d \in Payout, d.status = "PROCESSING",
         payouts' = [payouts EXCEPT ![p] = d]
  PROVE  /\ p \notin Processing
         /\ Processing' = Processing \cup {p}
         /\ \A cur : reserved(cur)' = IF d.currency = cur
                                      THEN reserved(cur) + d.amount
                                      ELSE reserved(cur)
<1>1. p \notin Processing
  BY DEF Processing
<1>2. payouts'[p] = d /\ \A q \in Payouts : q # p => payouts'[q] = payouts[q]
  BY DEF TypeOK
<1>3. d # None
  BY SentinelAssumption
<1>4. Processing' = Processing \cup {p}
  BY <1>1, <1>2, <1>3 DEF Processing, Exists
<1>5. ASSUME NEW cur
      PROVE  reserved(cur)' = IF d.currency = cur THEN reserved(cur) + d.amount
                              ELSE reserved(cur)
  <2>1. PICK R : R = Reserving(cur)
    OBVIOUS
  <2>2. /\ IsFiniteSet(R) /\ R \subseteq Payouts
        /\ \A q \in R : payouts[q].amount \in Nat
    BY <2>1, ReservedTyped
  <2>3. p \notin R
    BY <1>1, <2>1 DEF Reserving
  <2>4. PICK T : T = IF d.currency = cur THEN R \cup {p} ELSE R
    OBVIOUS
  <2>5. Reserving(cur)' = T
    BY <1>2, <1>4, <2>1, <2>3, <2>4 DEF Reserving, Processing
  <2>6. IsFiniteSet(R \cup {p})
    BY <2>2, FS_AddElement
  <2>7. IsFiniteSet(T)
    BY <2>2, <2>4, <2>6
  <2>8. PICK v : v = [q \in R |-> payouts[q].amount]
    OBVIOUS
  <2>9. PICK u : u = [q \in T |-> payouts'[q].amount]
    OBVIOUS
  <2>10. reserved(cur) = SumOf(v, R)
    BY <2>1, <2>2, <2>8, ReservedIs
  <2>11. reserved(cur)' = SumOf(u, T)
    <3>1. IsFiniteSet(Reserving(cur)')
      BY <2>5, <2>7
    <3>2. reserved(cur)' = SumOf([q \in Reserving(cur)' |-> payouts'[q].amount],
                                 Reserving(cur)')
      BY <3>1, ReservedNext
    <3> QED
      BY <3>2, <2>5, <2>9
  <2>12. \A q \in R : v[q] = u[q] /\ u[q] \in Nat
    BY <1>2, <2>2, <2>3, <2>4, <2>8, <2>9
  <2>13. SumOf(v, R) = SumOf(u, R)
    BY <2>2, <2>12, SumOfSame
  <2>14. CASE d.currency = cur
    <3>1. T = R \cup {p}
      BY <2>4, <2>14
    <3>2. u[p] = d.amount
      BY <1>2, <2>9, <3>1
    <3>3. d.amount \in Int
      BY AmountTyped
    <3>4. \A y \in R \cup {p} : u[y] \in Int
      BY <2>12, <3>2, <3>3
    <3>5. SumOf(u, R \cup {p}) = SumOf(u, R) + u[p]
      BY <2>2, <2>3, <3>4, SumOfAdd
    <3> QED
      BY <2>10, <2>11, <2>13, <2>14, <3>1, <3>2, <3>5
  <2>15. CASE d.currency # cur
    BY <2>4, <2>10, <2>11, <2>13, <2>15
  <2> QED
    BY <2>14, <2>15
<1> QED
  BY <1>1, <1>4, <1>5

\* ... and one that ends releases it.
LEMMA ReservedShrinks ==
  ASSUME TypeOK, IsFiniteSet(Processing),
         NEW p \in Payouts, payouts[p] \in Payout,
         payouts[p].status = "PROCESSING",
         NEW d \in Payout, d.status # "PROCESSING",
         payouts' = [payouts EXCEPT ![p] = d]
  PROVE  /\ p \in Processing
         /\ Processing' = Processing \ {p}
         /\ \A cur : reserved(cur)' = IF payouts[p].currency = cur
                                      THEN reserved(cur) - payouts[p].amount
                                      ELSE reserved(cur)
<1>1. p \in Processing
  BY SentinelAssumption DEF Processing, Exists
<1>2. payouts'[p] = d /\ \A q \in Payouts : q # p => payouts'[q] = payouts[q]
  BY DEF TypeOK
<1>3. PICK b \in Payout : b = payouts[p]
  OBVIOUS
<1>4. Processing' = Processing \ {p}
  BY <1>2 DEF Processing, Exists
<1>5. ASSUME NEW cur
      PROVE  reserved(cur)' = IF b.currency = cur THEN reserved(cur) - b.amount
                              ELSE reserved(cur)
  <2>1. PICK R : R = Reserving(cur)
    OBVIOUS
  <2>2. /\ IsFiniteSet(R) /\ R \subseteq Payouts
        /\ \A q \in R : payouts[q].amount \in Nat
    BY <2>1, ReservedTyped
  <2>3. p \in R <=> b.currency = cur
    BY <1>1, <1>3, <2>1 DEF Reserving
  <2>4. PICK T : T = R \ {p}
    OBVIOUS
  <2>5. Reserving(cur)' = T
    BY <1>2, <1>4, <2>1, <2>4 DEF Reserving, Processing
  <2>6. IsFiniteSet(T) /\ p \notin T
    BY <2>2, <2>4, FS_RemoveElement
  <2>7. PICK v : v = [q \in R |-> payouts[q].amount]
    OBVIOUS
  <2>8. PICK u : u = [q \in T |-> payouts'[q].amount]
    OBVIOUS
  <2>9. reserved(cur) = SumOf(v, R)
    BY <2>1, <2>2, <2>7, ReservedIs
  <2>10. reserved(cur)' = SumOf(u, T)
    <3>1. IsFiniteSet(Reserving(cur)')
      BY <2>5, <2>6
    <3>2. reserved(cur)' = SumOf([q \in Reserving(cur)' |-> payouts'[q].amount],
                                 Reserving(cur)')
      BY <3>1, ReservedNext
    <3> QED
      BY <3>2, <2>5, <2>8
  <2>11. \A q \in T : v[q] = u[q] /\ v[q] \in Nat
    BY <1>2, <2>2, <2>4, <2>7, <2>8
  <2>12. SumOf(v, T) = SumOf(u, T)
    BY <2>6, <2>11, SumOfSame
  <2>13. CASE b.currency = cur
    <3>1. R = T \cup {p}
      BY <2>3, <2>4, <2>13
    <3>2. v[p] = b.amount
      BY <1>3, <2>7, <3>1
    <3>3. b.amount \in Int
      BY AmountTyped
    <3>4. \A y \in T \cup {p} : v[y] \in Int
      BY <2>11, <3>2, <3>3
    <3>5. SumOf(v, T \cup {p}) = SumOf(v, T) + v[p]
      BY <2>6, <3>4, SumOfAdd
    <3>6. SumOf(v, T) \in Int
      BY <2>6, <2>11, SumOfTyped
    <3> QED
      BY <2>9, <2>10, <2>12, <2>13, <3>1, <3>2, <3>3, <3>5, <3>6
  <2>14. CASE b.currency # cur
    <3>1. R = T
      BY <2>3, <2>4, <2>14
    <3> QED
      BY <2>9, <2>10, <2>12, <2>14, <3>1
  <2> QED
    BY <2>13, <2>14
<1> QED
  BY <1>1, <1>3, <1>4, <1>5

\* Only finitely much was ever written.
Finite == IsFiniteSet(entries) /\ IsFiniteSet(Processing)

\* The money a request is about.
CurrencyOf(r) == IF r.op \in {"earn", "reverse"}
                 THEN CommissionOf[r.ref].currency
                 ELSE IF r.op = "create" THEN r.currency
                      ELSE payouts[r.ref].currency
AmountFor(r) == IF r.op \in {"earn", "reverse"}
                THEN CommissionOf[r.ref].amount
                ELSE IF r.op = "create" THEN r.amount
                     ELSE payouts[r.ref].amount

\* In currency c, what becomes free and what becomes held.
Moves(c, free, held) ==
  \A cur :
    /\ available(cur)' = IF cur = c THEN available(cur) + free
                         ELSE available(cur)
    /\ reserved(cur)' = IF cur = c THEN reserved(cur) + held
                        ELSE reserved(cur)

\* The sums are numbers.
LEMMA MoneyTyped ==
  ASSUME TypeOK, Finite, NEW cur
  PROVE  /\ balance(cur) \in Int /\ reserved(cur) \in Nat
         /\ available(cur) \in Int
<1>1. reserved(cur) \in Nat
  BY ReservedTyped DEF Finite
<1> DEFINE E == {x \in entries : x.currency = cur}
           v == [x \in Entry |-> signed(x)]
<1>2. E \in SUBSET Entry /\ IsFiniteSet(E)
  BY FS_Subset DEF TypeOK, Finite
<1>3. \A x \in E : v[x] \in Int
  BY <1>2, SignedTyped
<1>4. balance(cur) = MapThenSumSet(signed, E)
  BY DEF balance
<1> HIDE DEF E
<1>5. balance(cur) = SumOf(v, E)
  BY <1>2, <1>4, SignedSum
<1> HIDE DEF v
<1>6. balance(cur) \in Int
  BY <1>2, <1>3, <1>5, SumOfTyped
<1> QED
  BY <1>1, <1>6 DEF available

\* The ledger stays finite.
LEMMA FiniteAdd ==
  ASSUME IsFiniteSet(entries), NEW e, entries' = entries \cup {e}
  PROVE  IsFiniteSet(entries')
BY FS_AddElement

\* A commission becomes free,
LEMMA EarnMoves ==
  ASSUME TypeOK, Finite, NEW w \in Workers, NEW r \in Request, Applied(w, r),
         Accepted(r), r.op = "earn"
  PROVE  /\ AmountFor(r) \in Nat /\ AmountFor(r) > 0
         /\ CurrencyOf(r) \in Currencies
         /\ Moves(CurrencyOf(r), AmountFor(r), 0) /\ Finite'
<1>1. r.ref \in Commissions /\ payouts' = payouts
  BY EarnEffect
<1>2. PICK e \in Entry :
        /\ e.type = "COMMISSION_EARNED"
        /\ e.currency = CommissionOf[r.ref].currency
        /\ e.amount = CommissionOf[r.ref].amount
        /\ e \notin entries /\ entries' = entries \cup {e}
  BY EarnEffect
<1>3. e.currency = CurrencyOf(r) /\ e.amount = AmountFor(r)
  BY <1>2 DEF CurrencyOf, AmountFor
<1>4. PICK c \in [currency : Currencies, amount : Nat \ {0}] :
        c = CommissionOf[r.ref]
  BY <1>1, LedgerAssumption
<1>5. AmountFor(r) \in Nat /\ AmountFor(r) > 0 /\ CurrencyOf(r) \in Currencies
  BY <1>4 DEF AmountFor, CurrencyOf
<1>6. signed(e) = AmountFor(r)
  BY <1>2, <1>3, SignedTyped
<1>7. ASSUME NEW cur
      PROVE  /\ balance(cur) \in Int /\ reserved(cur) \in Nat
             /\ balance(cur)' = IF e.currency = cur
                                THEN balance(cur) + signed(e) ELSE balance(cur)
             /\ reserved(cur)' = reserved(cur)
  BY <1>1, <1>2, MoneyTyped, BalanceAdds, ReservedSame DEF Finite
<1>8. Moves(CurrencyOf(r), AmountFor(r), 0)
  BY <1>3, <1>5, <1>6, <1>7 DEF Moves, available
<1>9. Finite'
  BY <1>1, <1>2, FiniteAdd, ReservedSame DEF Finite
<1> QED
  BY <1>5, <1>8, <1>9

\* ... its reversal takes it back out of what is free,
LEMMA ReverseMoves ==
  ASSUME TypeOK, Finite, NEW w \in Workers, NEW r \in Request, Applied(w, r),
         Accepted(r), r.op = "reverse"
  PROVE  /\ AmountFor(r) \in Nat /\ AmountFor(r) > 0
         /\ CurrencyOf(r) \in Currencies
         /\ available(CurrencyOf(r)) >= AmountFor(r)
         /\ Moves(CurrencyOf(r), -AmountFor(r), 0) /\ Finite'
<1>1. /\ r.ref \in Commissions /\ payouts' = payouts
      /\ available(CommissionOf[r.ref].currency) >= CommissionOf[r.ref].amount
  BY ReverseEffect
<1>2. PICK e \in Entry :
        /\ e.type = "COMMISSION_REVERSAL"
        /\ e.currency = CommissionOf[r.ref].currency
        /\ e.amount = CommissionOf[r.ref].amount
        /\ e \notin entries /\ entries' = entries \cup {e}
  BY ReverseEffect
<1>3. e.currency = CurrencyOf(r) /\ e.amount = AmountFor(r)
  BY <1>2 DEF CurrencyOf, AmountFor
<1>4. PICK c \in [currency : Currencies, amount : Nat \ {0}] :
        c = CommissionOf[r.ref]
  BY <1>1, LedgerAssumption
<1>5. AmountFor(r) \in Nat /\ AmountFor(r) > 0 /\ CurrencyOf(r) \in Currencies
  BY <1>4 DEF AmountFor, CurrencyOf
<1>6. signed(e) = -AmountFor(r)
  BY <1>2, <1>3, SignedTyped
<1>7. ASSUME NEW cur
      PROVE  /\ balance(cur) \in Int /\ reserved(cur) \in Nat
             /\ balance(cur)' = IF e.currency = cur
                                THEN balance(cur) + signed(e) ELSE balance(cur)
             /\ reserved(cur)' = reserved(cur)
  BY <1>1, <1>2, MoneyTyped, BalanceAdds, ReservedSame DEF Finite
<1>8. Moves(CurrencyOf(r), -AmountFor(r), 0)
  BY <1>3, <1>5, <1>6, <1>7 DEF Moves, available
<1>9. Finite'
  BY <1>1, <1>2, FiniteAdd, ReservedSame DEF Finite
<1>10. available(CurrencyOf(r)) >= AmountFor(r)
  BY <1>1 DEF CurrencyOf, AmountFor
<1> QED
  BY <1>5, <1>8, <1>9, <1>10

\* ... a payout moves what is free to what is held,
LEMMA CreateMoves ==
  ASSUME TypeOK, Finite, NEW w \in Workers, NEW r \in Request, Applied(w, r),
         Accepted(r), r.op = "create"
  PROVE  /\ AmountFor(r) \in Nat /\ AmountFor(r) > 0
         /\ CurrencyOf(r) \in Currencies
         /\ available(CurrencyOf(r)) >= AmountFor(r)
         /\ Moves(CurrencyOf(r), -AmountFor(r), AmountFor(r)) /\ Finite'
         /\ Cardinality(Processing') <= MaxProcessing
<1>1. /\ r.ref \in Payouts /\ r.currency \in Currencies
      /\ ~Exists(r.ref) /\ assertProcessingCapacity
      /\ available(r.currency) >= r.amount /\ entries' = entries
  BY CreateEffect
<1>2. PICK d \in Payout :
        /\ d.status = "PROCESSING" /\ d.currency = r.currency
        /\ d.amount = r.amount
        /\ payouts' = [payouts EXCEPT ![r.ref] = d]
  BY CreateEffect
<1>3. d.currency = CurrencyOf(r) /\ d.amount = AmountFor(r)
  BY <1>2 DEF CurrencyOf, AmountFor
<1>4. AmountFor(r) \in Nat /\ AmountFor(r) > 0 /\ CurrencyOf(r) \in Currencies
  BY <1>3, AmountTyped
<1>5. /\ r.ref \notin Processing
      /\ Processing' = Processing \cup {r.ref}
      /\ \A cur : reserved(cur)' = IF d.currency = cur
                                   THEN reserved(cur) + d.amount
                                   ELSE reserved(cur)
  BY <1>1, <1>2, ReservedGrows DEF Finite
<1>6. \A cur : balance(cur)' = balance(cur)
  BY <1>1 DEF balance
<1>7. \A cur : balance(cur) \in Int /\ reserved(cur) \in Nat
  BY MoneyTyped
<1>8. Moves(CurrencyOf(r), -AmountFor(r), AmountFor(r))
  BY <1>3, <1>4, <1>5, <1>6, <1>7 DEF Moves, available
<1>9. /\ IsFiniteSet(Processing')
      /\ Cardinality(Processing') = Cardinality(Processing) + 1
      /\ Cardinality(Processing) \in Nat
  BY <1>5, FS_AddElement, FS_CardinalityType DEF Finite
<1>10. Finite'
  BY <1>1, <1>9 DEF Finite
<1>11. Cardinality(Processing') <= MaxProcessing
  BY <1>1, <1>9, LedgerAssumption DEF assertProcessingCapacity
<1>12. available(CurrencyOf(r)) >= AmountFor(r)
  BY <1>1 DEF CurrencyOf, AmountFor
<1> QED
  BY <1>4, <1>8, <1>10, <1>11, <1>12

\* ... and its end takes that away, or gives it back.
LEMMA EndMoves ==
  ASSUME TypeOK, Finite, NEW w \in Workers, NEW r \in Request, Applied(w, r),
         Accepted(r), r.op = "end",
         EntriesOf("PAYOUT_PAID", r.ref) = {}
  PROVE  /\ AmountFor(r) \in Nat /\ AmountFor(r) > 0
         /\ CurrencyOf(r) \in Currencies
         /\ Moves(CurrencyOf(r), IF r.status = "PAID" THEN 0 ELSE AmountFor(r),
                  -AmountFor(r))
         /\ Finite'
         /\ Processing' = Processing \ {r.ref}
<1>1. /\ r.ref \in Payouts /\ payouts[r.ref] \in Payout
      /\ r.status \in PayoutStatus \ {"PROCESSING"}
      /\ payouts[r.ref].status = "PROCESSING"
      /\ PaidEntry(r) \subseteq Entry
      /\ entries' = entries \cup PaidEntry(r)
  BY EndEffect
<1>2. PICK d \in Payout :
        /\ d.status = r.status
        /\ payouts' = [payouts EXCEPT ![r.ref] = d]
  BY EndEffect
<1>3. payouts[r.ref].currency = CurrencyOf(r)
      /\ payouts[r.ref].amount = AmountFor(r)
  BY DEF CurrencyOf, AmountFor
<1>4. AmountFor(r) \in Nat /\ AmountFor(r) > 0 /\ CurrencyOf(r) \in Currencies
  BY <1>1, <1>3, AmountTyped
<1>5. d.status # "PROCESSING"
  BY <1>1, <1>2
<1>6. /\ Processing' = Processing \ {r.ref}
      /\ \A cur : reserved(cur)' = IF CurrencyOf(r) = cur
                                   THEN reserved(cur) - AmountFor(r)
                                   ELSE reserved(cur)
  BY <1>1, <1>2, <1>3, <1>5, ReservedShrinks DEF Finite
<1>7. IsFiniteSet(Processing')
  BY <1>6, FS_RemoveElement DEF Finite
<1>8. \A cur : balance(cur) \in Int /\ reserved(cur) \in Nat
  BY MoneyTyped
<1>9. CASE r.status = "PAID"
  <2>1. PICK e : e = [currency |-> payouts[r.ref].currency,
                      amount |-> payouts[r.ref].amount,
                      type |-> "PAYOUT_PAID", ref |-> r.ref,
                      key |-> <<"payout", r.ref>>]
    OBVIOUS
  <2>2. PaidEntry(r) = {e}
    BY <1>9, <2>1 DEF PaidEntry
  <2>3. e \in Entry /\ e.type = "PAYOUT_PAID" /\ e.ref = r.ref
        /\ e.currency = CurrencyOf(r) /\ e.amount = AmountFor(r)
    BY <1>1, <1>3, <2>1, <2>2
  <2>4. e \notin entries
    BY <2>3 DEF EntriesOf
  <2>5. entries' = entries \cup {e}
    BY <1>1, <2>2
  <2>6. signed(e) = -AmountFor(r)
    BY <2>3, SignedTyped
  <2>7. \A cur : balance(cur)' = IF CurrencyOf(r) = cur
                                 THEN balance(cur) - AmountFor(r)
                                 ELSE balance(cur)
    <3> SUFFICES ASSUME NEW cur
                 PROVE  balance(cur)' = IF CurrencyOf(r) = cur
                                        THEN balance(cur) - AmountFor(r)
                                        ELSE balance(cur)
      OBVIOUS
    <3>1. balance(cur)' = IF e.currency = cur THEN balance(cur) + signed(e)
                          ELSE balance(cur)
      BY <2>3, <2>4, <2>5, BalanceAdds DEF Finite
    <3> QED
      BY <3>1, <1>4, <1>8, <2>3, <2>6
  <2>8. Moves(CurrencyOf(r), 0, -AmountFor(r))
    BY <1>4, <1>6, <1>8, <2>7 DEF Moves, available
  <2>9. Finite'
    BY <1>7, <2>5, FiniteAdd DEF Finite
  <2> QED
    BY <1>4, <1>6, <1>9, <2>8, <2>9
<1>10. CASE r.status # "PAID"
  <2>1. entries' = entries
    BY <1>1, <1>10 DEF PaidEntry
  <2>2. \A cur : balance(cur)' = balance(cur)
    BY <2>1 DEF balance
  <2>3. Moves(CurrencyOf(r), AmountFor(r), -AmountFor(r))
    BY <1>4, <1>6, <1>8, <2>2 DEF Moves, available
  <2>4. Finite'
    BY <1>7, <2>1 DEF Finite
  <2> QED
    BY <1>4, <1>6, <1>10, <2>3, <2>4
<1> QED
  BY <1>9, <1>10

-----------------------------------------------------------------------------
(* What a commit leaves alone *)

\* Nothing that hangs on a document changes unless the document is written.
Untouched(writes) ==
  /\ entries \subseteq entries' /\ lockDocs \subseteq lockDocs'
  /\ \A cur : <<"balance", cur>> \notin writes =>
       available(cur)' = available(cur)
  /\ <<"capacity">> \notin writes => Processing' \subseteq Processing
  /\ \A p \in Payouts : <<"payout", p>> \notin writes =>
       payouts'[p] = payouts[p]
  /\ \A p \in Payouts : payouts[p] # None =>
       payouts'[p] # None /\ payouts'[p].createKey = payouts[p].createKey
  /\ \A p \in Payouts, k \in CreateKeys :
       <<"createKey", k>> \notin writes
         /\ payouts'[p] # None /\ payouts'[p].createKey = k =>
       payouts[p] # None /\ payouts[p].createKey = k
  /\ \A p \in Payouts, k \in Keys :
       <<"endKey", k>> \notin writes
         /\ payouts'[p] # None /\ payouts'[p].endKey = k =>
       payouts[p] # None /\ payouts[p].endKey = k
  /\ \A e \in entries' \ entries :
       /\ <<"entry", e.key>> \in writes
       /\ e.type = "COMMISSION_EARNED" => e.key = <<"commission", e.ref>>
       /\ e.type = "COMMISSION_REVERSAL" => <<"reversal", e.ref>> \in writes

\* Every commit declares what it changes: a commission,
LEMMA EarnTouches ==
  ASSUME TypeOK, Finite, NEW w \in Workers, NEW r \in Request, Applied(w, r),
         Accepted(r), r.op = "earn"
  PROVE  Untouched(PlanFor(r).writes)
<1>1. PICK W : W = PlanFor(r).writes
  OBVIOUS
<1>2. W = {<<"capacity">>, <<"balance", CurrencyOf(r)>>,
           <<"entry", <<"commission", r.ref>>>>}
  BY <1>1 DEF PlanFor, EarnPlan, CurrencyOf
<1>3. payouts' = payouts
  BY EarnEffect
<1>4. PICK e \in Entry :
        /\ e.type = "COMMISSION_EARNED" /\ e.ref = r.ref
        /\ e.key = <<"commission", r.ref>>
        /\ entries' = entries \cup {e}
  BY EarnEffect
<1>5. \A cur : <<"balance", cur>> \notin W => available(cur)' = available(cur)
  BY <1>2, EarnMoves DEF Moves
<1>6. lockDocs \subseteq lockDocs'
  BY DEF Applied
<1>7. <<"capacity">> \in W
  BY <1>2
<1>8. Untouched(W)
  BY <1>2, <1>3, <1>4, <1>5, <1>6, <1>7 DEF Untouched
<1> QED
  BY <1>1, <1>8

\* ... a reversal,
LEMMA ReverseTouches ==
  ASSUME TypeOK, Finite, NEW w \in Workers, NEW r \in Request, Applied(w, r),
         Accepted(r), r.op = "reverse"
  PROVE  Untouched(PlanFor(r).writes)
<1>1. PICK W : W = PlanFor(r).writes
  OBVIOUS
<1>2. W = {<<"balance", CurrencyOf(r)>>, <<"reversal", r.ref>>,
           <<"entry", <<"client", r.key>>>>}
  BY <1>1 DEF PlanFor, ReversePlan, ReverseLocks, CurrencyOf
<1>3. payouts' = payouts
  BY ReverseEffect
<1>4. PICK e \in Entry :
        /\ e.type = "COMMISSION_REVERSAL" /\ e.ref = r.ref
        /\ e.key = <<"client", r.key>>
        /\ entries' = entries \cup {e}
  BY ReverseEffect
<1>5. \A cur : <<"balance", cur>> \notin W => available(cur)' = available(cur)
  BY <1>2, ReverseMoves DEF Moves
<1>6. lockDocs \subseteq lockDocs'
  BY DEF Applied
<1>7. Processing' = Processing
  BY <1>3, ReservedSame DEF Finite
<1>8. Untouched(W)
  BY <1>2, <1>3, <1>4, <1>5, <1>6, <1>7 DEF Untouched
<1> QED
  BY <1>1, <1>8

\* ... a new payout,
LEMMA CreateTouches ==
  ASSUME TypeOK, Finite, NEW w \in Workers, NEW r \in Request, Applied(w, r),
         Accepted(r), r.op = "create"
  PROVE  Untouched(PlanFor(r).writes)
<1>1. PICK W : W = PlanFor(r).writes
  OBVIOUS
<1>2. W = {<<"capacity">>, <<"balance", CurrencyOf(r)>>,
           <<"payout", r.ref>>, <<"createKey", r.key>>}
  BY <1>1 DEF PlanFor, CreatePlan, CreateLocks, CurrencyOf
<1>3. entries' = entries /\ r.ref \in Payouts /\ ~Exists(r.ref)
  BY CreateEffect
<1>4. PICK d \in Payout :
        /\ d.endKey = None /\ d.createKey = r.key
        /\ payouts' = [payouts EXCEPT ![r.ref] = d]
  BY CreateEffect
<1>5. \A cur : <<"balance", cur>> \notin W => available(cur)' = available(cur)
  BY <1>2, CreateMoves DEF Moves
<1>6. lockDocs \subseteq lockDocs'
  BY DEF Applied
<1>7. /\ payouts'[r.ref] = d
      /\ \A p \in Payouts : p # r.ref => payouts'[p] = payouts[p]
      /\ payouts[r.ref] = None
  BY <1>3, <1>4 DEF TypeOK, Exists
<1>8. \A p \in Payouts, k \in Keys :
        payouts'[p] # None /\ payouts'[p].endKey = k =>
        payouts[p] # None /\ payouts[p].endKey = k
  BY <1>4, <1>7, SentinelAssumption
<1>9. \A p \in Payouts, k \in CreateKeys :
        <<"createKey", k>> \notin W
          /\ payouts'[p] # None /\ payouts'[p].createKey = k =>
        payouts[p] # None /\ payouts[p].createKey = k
  BY <1>2, <1>4, <1>7
<1>10. <<"capacity">> \in W
  BY <1>2
<1>11. \A p \in Payouts : <<"payout", p>> \notin W => payouts'[p] = payouts[p]
  BY <1>2, <1>7
<1>12. Untouched(W)
  BY <1>3, <1>5, <1>6, <1>7, <1>8, <1>9, <1>10, <1>11 DEF Untouched
<1> QED
  BY <1>1, <1>12

\* ... the end of a payout,
LEMMA EndTouches ==
  ASSUME TypeOK, Finite, NEW w \in Workers, NEW r \in Request, Applied(w, r),
         Accepted(r), r.op = "end",
         EntriesOf("PAYOUT_PAID", r.ref) = {}
  PROVE  Untouched(PlanFor(r).writes)
<1>1. PICK W : W = PlanFor(r).writes
  OBVIOUS
<1>2. /\ W = {<<"balance", CurrencyOf(r)>>, <<"payout", r.ref>>,
              <<"endKey", r.key>>} \cup {<<"entry", e.key>> : e \in PaidEntry(r)}
      /\ <<"capacity">> \notin W
  BY <1>1 DEF PlanFor, EndPlan, CurrencyOf
<1>3. /\ r.ref \in Payouts /\ payouts[r.ref] \in Payout
      /\ entries' = entries \cup PaidEntry(r)
  BY EndEffect
<1>4. PICK d \in Payout :
        /\ d.createKey = payouts[r.ref].createKey /\ d.endKey = r.key
        /\ payouts' = [payouts EXCEPT ![r.ref] = d]
  BY EndEffect
<1>5. \A cur : <<"balance", cur>> \notin W => available(cur)' = available(cur)
  BY <1>2, EndMoves DEF Moves
<1>6. lockDocs \subseteq lockDocs'
  BY DEF Applied
<1>7. /\ payouts'[r.ref] = d
      /\ \A p \in Payouts : p # r.ref => payouts'[p] = payouts[p]
      /\ d # None /\ payouts[r.ref] # None
  BY <1>3, <1>4, SentinelAssumption DEF TypeOK
<1>8. \A p \in Payouts, k \in Keys :
        <<"endKey", k>> \notin W
          /\ payouts'[p] # None /\ payouts'[p].endKey = k =>
        payouts[p] # None /\ payouts[p].endKey = k
  BY <1>2, <1>4, <1>7
<1>9. \A p \in Payouts : payouts[p] # None =>
        payouts'[p] # None /\ payouts'[p].createKey = payouts[p].createKey
  BY <1>4, <1>7
<1>10. \A p \in Payouts, k \in CreateKeys :
        payouts'[p] # None /\ payouts'[p].createKey = k =>
        payouts[p] # None /\ payouts[p].createKey = k
  BY <1>4, <1>7
<1>11. \A p \in Payouts : <<"payout", p>> \notin W => payouts'[p] = payouts[p]
  BY <1>2, <1>7
<1>12. \A e \in entries' \ entries :
         <<"entry", e.key>> \in W /\ e.type = "PAYOUT_PAID"
  BY <1>2, <1>3 DEF PaidEntry
<1>13. Processing' \subseteq Processing
  BY EndMoves
<1>14. entries \subseteq entries'
  BY <1>3
<1>15. Untouched(W)
  BY <1>5, <1>6, <1>8, <1>9, <1>10, <1>11, <1>12, <1>13, <1>14 DEF Untouched
<1> QED
  BY <1>1, <1>15

\* ... and so each of them.
LEMMA CommitTouches ==
  ASSUME TypeOK, Finite, PaidExactlyOnce, NEW w \in Workers, NEW r \in Request,
         Applied(w, r), Accepted(r)
  PROVE  Untouched(PlanFor(r).writes)
<1>1. r.op \in {"earn", "reverse", "create", "end"}
  BY DEF Request
<1>2. CASE r.op = "earn"
  BY <1>2, EarnTouches
<1>3. CASE r.op = "reverse"
  BY <1>3, ReverseTouches
<1>4. CASE r.op = "create"
  BY <1>4, CreateTouches
<1>5. CASE r.op = "end"
  <2>1. r.ref \in Payouts /\ payouts[r.ref].status = "PROCESSING"
    BY <1>5, EndEffect
  <2>2. EntriesOf("PAYOUT_PAID", r.ref) = {}
    BY <2>1 DEF PaidExactlyOnce
  <2> QED
    BY <1>5, <2>2, EndTouches
<1> QED
  BY <1>1, <1>2, <1>3, <1>4, <1>5

-----------------------------------------------------------------------------
(* A decision stands until a document it writes is written *)

\* An earning decided on and not conflicted with is still what the handler
\* would decide on: its commission has no entry,
LEMMA EarnStands ==
  ASSUME NEW W, Untouched(W), NEW r \in Request, r.op = "earn", Accepted(r),
         PlanFor(r).writes \cap W = {}
  PROVE  Accepted(r)' /\ PlanFor(r)' = PlanFor(r)
<1>1. PlanFor(r) = EarnPlan(r) /\ PlanFor(r)' = EarnPlan(r)
  BY DEF PlanFor, EarnPlan
<1>2. <<"entry", <<"commission", r.ref>>>> \notin W
  BY <1>1 DEF EarnPlan
<1>3. EntriesOf("COMMISSION_EARNED", r.ref) = {}
  BY DEF Accepted, EarnAccepted
<1>4. EntriesOf("COMMISSION_EARNED", r.ref)' = {}
  <2> SUFFICES ASSUME NEW e \in entries', e.type = "COMMISSION_EARNED",
                      e.ref = r.ref
               PROVE  FALSE
    BY DEF EntriesOf
  <2>1. e \notin entries
    BY <1>3 DEF EntriesOf
  <2>2. <<"entry", e.key>> \in W /\ e.key = <<"commission", e.ref>>
    BY <2>1 DEF Untouched
  <2> QED
    BY <1>2, <2>2
<1> QED
  BY <1>1, <1>4 DEF Accepted, EarnAccepted

\* ... a reversal: the commission is not reversed and the money still free,
LEMMA ReverseStands ==
  ASSUME NEW W, Untouched(W), NEW r \in Request, r.op = "reverse", Accepted(r),
         PlanFor(r).writes \cap W = {}
  PROVE  Accepted(r)' /\ PlanFor(r)' = PlanFor(r)
<1>1. PlanFor(r) = ReversePlan(r) /\ PlanFor(r)' = ReversePlan(r)
  BY DEF PlanFor, ReversePlan, ReverseLocks
<1>2. PICK c : c = CommissionOf[r.ref]
  OBVIOUS
<1>3. /\ <<"reversal", r.ref>> \notin W
      /\ <<"entry", <<"client", r.key>>>> \notin W
      /\ <<"balance", c.currency>> \notin W
  BY <1>1, <1>2 DEF ReversePlan, ReverseLocks
<1>4. /\ EntriesOf("COMMISSION_EARNED", r.ref) # {}
      /\ EntriesOf("COMMISSION_REVERSAL", r.ref) = {}
      /\ \A e \in entries : e.key # <<"client", r.key>>
      /\ <<"balance", c.currency>> \in lockDocs
      /\ available(c.currency) >= c.amount
  BY <1>2 DEF Accepted, ReverseAccepted
<1>5. EntriesOf("COMMISSION_EARNED", r.ref)' # {}
  BY <1>4 DEF EntriesOf, Untouched
<1>6. EntriesOf("COMMISSION_REVERSAL", r.ref)' = {}
  BY <1>3, <1>4 DEF EntriesOf, Untouched
<1>7. \A e \in entries' : e.key # <<"client", r.key>>
  BY <1>3, <1>4 DEF Untouched
<1>8. <<"balance", c.currency>> \in lockDocs'
  BY <1>4 DEF Untouched
<1>9. available(c.currency)' = available(c.currency)
  BY <1>3 DEF Untouched
<1>10. ReverseAccepted(r)'
  BY <1>2, <1>4, <1>5, <1>6, <1>7, <1>8, <1>9 DEF ReverseAccepted
<1> QED
  BY <1>1, <1>10 DEF Accepted

\* ... a payout: neither its key nor its money nor its place is taken,
LEMMA CreateStands ==
  ASSUME Finite, NEW W, Untouched(W), NEW r \in Request, r.op = "create",
         Accepted(r), PlanFor(r).writes \cap W = {}
  PROVE  Accepted(r)' /\ PlanFor(r)' = PlanFor(r)
<1>1. PlanFor(r) = CreatePlan(r) /\ PlanFor(r)' = CreatePlan(r)
  BY DEF PlanFor, CreatePlan, CreateLocks
<1>2. /\ <<"capacity">> \notin W /\ <<"balance", r.currency>> \notin W
      /\ <<"payout", r.ref>> \notin W /\ <<"createKey", r.key>> \notin W
  BY <1>1 DEF CreatePlan, CreateLocks
<1>3. CreateAccepted(r)
  BY DEF Accepted
<1>4. r.ref \in Payouts /\ r.key \in CreateKeys
  BY DEF Request
<1>5. ~Exists(r.ref)'
  BY <1>2, <1>3, <1>4 DEF CreateAccepted, Exists, Untouched
<1>6. \A p \in Payouts : Exists(p)' => payouts'[p].createKey # r.key
  BY <1>2, <1>3, <1>4 DEF CreateAccepted, Exists, Untouched
<1>7. /\ <<"capacity">> \in lockDocs'
      /\ <<"balance", r.currency>> \in lockDocs'
  BY <1>3 DEF CreateAccepted, Untouched
<1>8. available(r.currency)' = available(r.currency)
  BY <1>2 DEF Untouched
<1>9. assertProcessingCapacity'
  <2>1. Processing' \subseteq Processing
    BY <1>2 DEF Untouched
  <2>2. /\ Cardinality(Processing') <= Cardinality(Processing)
        /\ Cardinality(Processing') \in Nat /\ Cardinality(Processing) \in Nat
    <3>1. IsFiniteSet(Processing')
      BY <2>1, FS_Subset DEF Finite
    <3> QED
      BY <2>1, <3>1, FS_Subset, FS_CardinalityType DEF Finite
  <2>3. Cardinality(Processing) < MaxProcessing
    BY <1>3 DEF CreateAccepted, assertProcessingCapacity
  <2>4. Cardinality(Processing') < MaxProcessing
    BY <2>2, <2>3, LedgerAssumption
  <2> QED
    BY <2>4 DEF assertProcessingCapacity
<1>10. available(r.currency)' >= r.amount
  BY <1>3, <1>8 DEF CreateAccepted
<1>11. CreateAccepted(r)'
  BY <1>5, <1>6, <1>7, <1>9, <1>10 DEF CreateAccepted
<1> QED
  BY <1>1, <1>11 DEF Accepted

\* ... an end: the payout is still in progress,
LEMMA EndStands ==
  ASSUME TypeOK, NEW W, Untouched(W), NEW r \in Request, r.op = "end",
         Accepted(r), PlanFor(r).writes \cap W = {}
  PROVE  Accepted(r)' /\ PlanFor(r)' = PlanFor(r)
<1>1. PlanFor(r) = EndPlan(r) /\ PlanFor(r)' = EndPlan(r)'
  BY DEF PlanFor
<1>2. <<"payout", r.ref>> \notin W /\ <<"endKey", r.key>> \notin W
  BY <1>1 DEF EndPlan
<1>3. EndAccepted(r)
  BY DEF Accepted
<1>4. r.ref \in Payouts /\ r.key \in Keys
  BY DEF Request
<1>5. payouts'[r.ref] = payouts[r.ref]
  BY <1>2, <1>4 DEF Untouched
<1>6. Exists(r.ref)' /\ payouts'[r.ref].status = "PROCESSING"
  BY <1>3, <1>5 DEF EndAccepted, Exists
<1>7. <<"balance", payouts'[r.ref].currency>> \in lockDocs'
  BY <1>3, <1>5 DEF EndAccepted, Untouched
<1>8. \A p \in Payouts : Exists(p)' => payouts'[p].endKey # r.key
  BY <1>2, <1>3, <1>4 DEF EndAccepted, Exists, Untouched
<1>9. EndAccepted(r)'
  BY <1>6, <1>7, <1>8 DEF EndAccepted
<1>10. PaidEntry(r)' = PaidEntry(r)
  BY <1>5 DEF PaidEntry
<1>11. EndPlan(r)' = EndPlan(r)
  BY <1>5, <1>10 DEF EndPlan
<1> QED
  BY <1>1, <1>9, <1>11 DEF Accepted

\* ... whatever was decided on.
LEMMA DecisionStands ==
  ASSUME TypeOK, Finite, NEW W, Untouched(W), NEW r \in Request, Accepted(r),
         PlanFor(r).writes \cap W = {}
  PROVE  Accepted(r)' /\ PlanFor(r)' = PlanFor(r)
<1>1. r.op \in {"earn", "reverse", "create", "end"}
  BY DEF Request
<1> QED
  BY <1>1, EarnStands, ReverseStands, CreateStands, EndStands

\* Where no collection changes, nothing is touched.
LEMMA NothingTouched ==
  ASSUME TypeOK, Finite, UNCHANGED database
  PROVE  Untouched({})
<1>1. \A cur : reserved(cur)' = reserved(cur) /\ Processing' = Processing
  BY ReservedSame DEF Finite, database
<1>2. \A cur : balance(cur)' = balance(cur)
  BY DEF balance, database
<1>3. \A cur : available(cur)' = available(cur)
  BY <1>1, <1>2 DEF available
<1> QED
  BY <1>1, <1>3 DEF Untouched, database

\* Running a handler keeps the open decisions current,
LEMMA SerialPrepares ==
  ASSUME TypeOK, Finite, Serial, NEW w \in Workers, Prepare(w)
  PROVE  Serial'
<1>1. ASSUME NEW r \in Request, Accepted(r)
      PROVE  Accepted(r)' /\ PlanFor(r)' = PlanFor(r)
  BY <1>1, NothingTouched, DecisionStands DEF Prepare
<1>2. SUFFICES ASSUME NEW v \in Workers, NEW r \in Request,
                      txn'[v] # Idle, txn'[v].request = r, ~Conflict(v)'
               PROVE  Accepted(r)' /\ txn'[v].plan = PlanFor(r)'
  BY DEF Serial
<1>3. CASE txn'[v] = txn[v]
  <2>1. ~Conflict(v)
    BY <1>2, <1>3 DEF Conflict
  <2>2. Accepted(r) /\ txn[v].plan = PlanFor(r)
    BY <1>2, <1>3, <2>1 DEF Serial
  <2> QED
    BY <1>1, <1>3, <2>2
<1>4. CASE txn'[v] # txn[v]
  <2>1. v = w
    BY <1>4 DEF Prepare, TypeOK
  <2>2. PICK s \in Request : Accepted(s) /\ txn'[v] = Snapshot(s)
    BY <1>2, <2>1 DEF Prepare, TypeOK
  <2>3. s = r /\ txn'[v].plan = PlanFor(s)
    BY <1>2, <2>2 DEF Snapshot
  <2> QED
    BY <1>1, <2>2, <2>3
<1> QED
  BY <1>3, <1>4

\* ... and so does a commit, to those it does not conflict with.
LEMMA SerialCommits ==
  ASSUME TypeOK, Finite, Serial, PaidExactlyOnce, NEW w \in Workers,
         NEW r0 \in Request, Applied(w, r0), Accepted(r0)
  PROVE  Serial'
<1>1. PICK W : W = PlanFor(r0).writes
  OBVIOUS
<1>2. Untouched(W)
  BY <1>1, CommitTouches
<1>3. SUFFICES ASSUME NEW v \in Workers, NEW r \in Request,
                      txn'[v] # Idle, txn'[v].request = r, ~Conflict(v)'
               PROVE  Accepted(r)' /\ txn'[v].plan = PlanFor(r)'
  BY DEF Serial
<1>4. /\ txn[v] # Idle
      /\ txn'[v] = [txn[v] EXCEPT !.overtaken = @ \cup W]
  BY <1>1, <1>3 DEF Applied
<1>5. PICK t \in Transaction : t = txn[v]
  BY <1>4 DEF TypeOK
<1>6. /\ t.request = r /\ txn'[v].plan = t.plan
      /\ txn'[v].overtaken = t.overtaken \cup W
  BY <1>3, <1>4, <1>5 DEF Transaction
<1>7. t.plan.writes \cap (t.overtaken \cup W) = {}
  BY <1>3, <1>6 DEF Conflict
<1>8. ~Conflict(v)
  BY <1>5, <1>7 DEF Conflict
<1>9. Accepted(r) /\ t.plan = PlanFor(r)
  BY <1>4, <1>5, <1>6, <1>8 DEF Serial
<1>10. Accepted(r)' /\ PlanFor(r)' = PlanFor(r)
  <2>1. PlanFor(r).writes \cap W = {}
    BY <1>7, <1>9
  <2> QED
    BY <1>2, <1>9, <2>1, DecisionStands
<1> QED
  BY <1>6, <1>9, <1>10

-----------------------------------------------------------------------------
(* The invariant *)

\* What every step keeps; Finite and Serial make the rest inductive.
LedgerInv ==
  /\ TypeOK /\ Finite /\ Serial
  /\ PaidExactlyOnce /\ ReversedAtMostOnce
  /\ NoOverdraw /\ ProcessingBounded

\* The ledger invariant survives a commission,
LEMMA EarnKeeps ==
  ASSUME LedgerInv, NEW w \in Workers, NEW r \in Request, Applied(w, r),
         Accepted(r), r.op = "earn"
  PROVE  /\ Finite' /\ PaidExactlyOnce' /\ ReversedAtMostOnce'
         /\ NoOverdraw' /\ ProcessingBounded'
<1> USE DEF LedgerInv
<1>1. payouts' = payouts
  BY EarnEffect
<1>2. PICK e \in Entry : /\ e.type = "COMMISSION_EARNED"
                         /\ entries' = entries \cup {e}
  BY EarnEffect
<1>3. /\ AmountFor(r) \in Nat /\ Moves(CurrencyOf(r), AmountFor(r), 0)
      /\ Finite'
  BY EarnMoves
<1>4. NoOverdraw'
  BY <1>3, MoneyTyped DEF NoOverdraw, Moves
<1>5. Processing' = Processing
  BY <1>1, ReservedSame DEF Finite
<1>6. \A p : EntriesOf("PAYOUT_PAID", p)' = EntriesOf("PAYOUT_PAID", p)
  BY <1>2 DEF EntriesOf
<1>7. \A c : /\ EntriesOf("COMMISSION_REVERSAL", c)'
                  = EntriesOf("COMMISSION_REVERSAL", c)
             /\ EntriesOf("COMMISSION_EARNED", c)
                  \subseteq EntriesOf("COMMISSION_EARNED", c)'
  BY <1>2 DEF EntriesOf
<1>8. PaidExactlyOnce'
  BY <1>1, <1>2, <1>6 DEF PaidExactlyOnce, Exists
<1>9. ReversedAtMostOnce'
  BY <1>7 DEF ReversedAtMostOnce
<1> QED
  BY <1>3, <1>4, <1>5, <1>8, <1>9 DEF ProcessingBounded

\* ... a reversal,
LEMMA ReverseKeeps ==
  ASSUME LedgerInv, NEW w \in Workers, NEW r \in Request, Applied(w, r),
         Accepted(r), r.op = "reverse"
  PROVE  /\ Finite' /\ PaidExactlyOnce' /\ ReversedAtMostOnce'
         /\ NoOverdraw' /\ ProcessingBounded'
<1> USE DEF LedgerInv
<1>1. /\ payouts' = payouts
      /\ EntriesOf("COMMISSION_EARNED", r.ref) # {}
      /\ EntriesOf("COMMISSION_REVERSAL", r.ref) = {}
  BY ReverseEffect
<1>2. PICK e \in Entry : /\ e.type = "COMMISSION_REVERSAL" /\ e.ref = r.ref
                         /\ entries' = entries \cup {e}
  BY ReverseEffect
<1>3. /\ AmountFor(r) \in Nat /\ available(CurrencyOf(r)) >= AmountFor(r)
      /\ Moves(CurrencyOf(r), -AmountFor(r), 0) /\ Finite'
  BY ReverseMoves
<1>4. NoOverdraw'
  BY <1>3, MoneyTyped DEF NoOverdraw, Moves
<1>5. Processing' = Processing
  BY <1>1, ReservedSame DEF Finite
<1>6. \A p : EntriesOf("PAYOUT_PAID", p)' = EntriesOf("PAYOUT_PAID", p)
  BY <1>2 DEF EntriesOf
<1>7. \A c : /\ c # r.ref => EntriesOf("COMMISSION_REVERSAL", c)'
                               = EntriesOf("COMMISSION_REVERSAL", c)
             /\ EntriesOf("COMMISSION_EARNED", c)
                  \subseteq EntriesOf("COMMISSION_EARNED", c)'
  BY <1>2 DEF EntriesOf
<1>8. EntriesOf("COMMISSION_REVERSAL", r.ref)' = {e}
  BY <1>1, <1>2 DEF EntriesOf
<1>9. Cardinality(EntriesOf("COMMISSION_REVERSAL", r.ref)') <= 1
  BY <1>8, FS_Singleton
<1>10. PaidExactlyOnce'
  BY <1>1, <1>2, <1>6 DEF PaidExactlyOnce, Exists
<1>11. ReversedAtMostOnce'
  <2> SUFFICES ASSUME NEW c \in Commissions
               PROVE  /\ Cardinality(EntriesOf("COMMISSION_REVERSAL", c)') <= 1
                      /\ EntriesOf("COMMISSION_REVERSAL", c)' # {} =>
                           EntriesOf("COMMISSION_EARNED", c)' # {}
    BY DEF ReversedAtMostOnce
  <2>1. CASE c = r.ref
    BY <2>1, <1>1, <1>7, <1>9
  <2>2. CASE c # r.ref
    BY <2>2, <1>7 DEF ReversedAtMostOnce
  <2> QED
    BY <2>1, <2>2
<1> QED
  BY <1>3, <1>4, <1>5, <1>10, <1>11 DEF ProcessingBounded

\* ... a new payout,
LEMMA CreateKeeps ==
  ASSUME LedgerInv, NEW w \in Workers, NEW r \in Request, Applied(w, r),
         Accepted(r), r.op = "create"
  PROVE  /\ Finite' /\ PaidExactlyOnce' /\ ReversedAtMostOnce'
         /\ NoOverdraw' /\ ProcessingBounded'
<1> USE DEF LedgerInv
<1>1. r.ref \in Payouts /\ ~Exists(r.ref) /\ entries' = entries
  BY CreateEffect
<1>2. PICK d \in Payout : /\ d.status = "PROCESSING"
                          /\ payouts' = [payouts EXCEPT ![r.ref] = d]
  BY CreateEffect
<1>3. /\ AmountFor(r) \in Nat /\ available(CurrencyOf(r)) >= AmountFor(r)
      /\ Moves(CurrencyOf(r), -AmountFor(r), AmountFor(r)) /\ Finite'
      /\ Cardinality(Processing') <= MaxProcessing
  BY CreateMoves
<1>4. NoOverdraw'
  BY <1>3, MoneyTyped DEF NoOverdraw, Moves
<1>5. /\ payouts'[r.ref] = d
      /\ \A p \in Payouts : p # r.ref => payouts'[p] = payouts[p]
  BY <1>1, <1>2 DEF TypeOK
<1>6. \A t, c : EntriesOf(t, c)' = EntriesOf(t, c)
  BY <1>1 DEF EntriesOf
<1>7. EntriesOf("PAYOUT_PAID", r.ref) = {}
  BY <1>1 DEF PaidExactlyOnce
<1>8. PaidExactlyOnce'
  <2> SUFFICES ASSUME NEW p \in Payouts
               PROVE  IF Exists(p)' /\ payouts'[p].status = "PAID"
                      THEN \E e \in entries' :
                             /\ EntriesOf("PAYOUT_PAID", p)' = {e}
                             /\ e.amount = payouts'[p].amount
                             /\ e.currency = payouts'[p].currency
                      ELSE EntriesOf("PAYOUT_PAID", p)' = {}
    BY DEF PaidExactlyOnce
  <2>1. CASE p = r.ref
    BY <2>1, <1>2, <1>5, <1>6, <1>7
  <2>2. CASE p # r.ref
    BY <2>2, <1>1, <1>5, <1>6 DEF PaidExactlyOnce, Exists
  <2> QED
    BY <2>1, <2>2
<1>9. ReversedAtMostOnce'
  BY <1>6 DEF ReversedAtMostOnce
<1> QED
  BY <1>3, <1>4, <1>8, <1>9 DEF ProcessingBounded

\* ... the end of a payout,
LEMMA EndKeeps ==
  ASSUME LedgerInv, NEW w \in Workers, NEW r \in Request, Applied(w, r),
         Accepted(r), r.op = "end"
  PROVE  /\ Finite' /\ PaidExactlyOnce' /\ ReversedAtMostOnce'
         /\ NoOverdraw' /\ ProcessingBounded'
<1> USE DEF LedgerInv
<1>1. /\ r.ref \in Payouts /\ payouts[r.ref] \in Payout
      /\ payouts[r.ref].status = "PROCESSING"
      /\ r.status \in PayoutStatus \ {"PROCESSING"}
      /\ entries' = entries \cup PaidEntry(r)
  BY EndEffect
<1>2. PICK d \in Payout : /\ d.status = r.status
                          /\ d.currency = payouts[r.ref].currency
                          /\ d.amount = payouts[r.ref].amount
                          /\ payouts' = [payouts EXCEPT ![r.ref] = d]
  BY EndEffect
<1>3. EntriesOf("PAYOUT_PAID", r.ref) = {}
  BY <1>1 DEF PaidExactlyOnce
<1>4. /\ AmountFor(r) \in Nat
      /\ Moves(CurrencyOf(r), IF r.status = "PAID" THEN 0 ELSE AmountFor(r),
               -AmountFor(r))
      /\ Finite' /\ Processing' = Processing \ {r.ref}
  BY <1>3, EndMoves
<1>5. NoOverdraw'
  BY <1>4, MoneyTyped DEF NoOverdraw, Moves
<1>6. ProcessingBounded'
  <2>1. Processing' \subseteq Processing /\ IsFiniteSet(Processing')
        /\ IsFiniteSet(Processing)
    BY <1>4 DEF Finite
  <2>2. /\ Cardinality(Processing') <= Cardinality(Processing)
        /\ Cardinality(Processing') \in Nat /\ Cardinality(Processing) \in Nat
    BY <2>1, FS_Subset, FS_CardinalityType
  <2>3. Cardinality(Processing') <= MaxProcessing
    BY <2>2, LedgerAssumption DEF ProcessingBounded
  <2> QED
    BY <2>3 DEF ProcessingBounded
<1>7. /\ payouts'[r.ref] = d
      /\ \A p \in Payouts : p # r.ref => payouts'[p] = payouts[p]
      /\ d # None
  BY <1>1, <1>2, SentinelAssumption DEF TypeOK
<1>8. \A e \in PaidEntry(r) : /\ e.type = "PAYOUT_PAID" /\ e.ref = r.ref
                              /\ e.amount = payouts[r.ref].amount
                              /\ e.currency = payouts[r.ref].currency
  BY DEF PaidEntry
<1>9. \A c : /\ EntriesOf("COMMISSION_REVERSAL", c)'
                  = EntriesOf("COMMISSION_REVERSAL", c)
             /\ EntriesOf("COMMISSION_EARNED", c)'
                  = EntriesOf("COMMISSION_EARNED", c)
             /\ c # r.ref => EntriesOf("PAYOUT_PAID", c)'
                               = EntriesOf("PAYOUT_PAID", c)
  BY <1>1, <1>8 DEF EntriesOf
<1>10. EntriesOf("PAYOUT_PAID", r.ref)' = PaidEntry(r)
  BY <1>1, <1>3, <1>8 DEF EntriesOf
<1>11. ReversedAtMostOnce'
  BY <1>9 DEF ReversedAtMostOnce
<1>12. PaidExactlyOnce'
  <2> SUFFICES ASSUME NEW p \in Payouts
               PROVE  IF Exists(p)' /\ payouts'[p].status = "PAID"
                      THEN \E e \in entries' :
                             /\ EntriesOf("PAYOUT_PAID", p)' = {e}
                             /\ e.amount = payouts'[p].amount
                             /\ e.currency = payouts'[p].currency
                      ELSE EntriesOf("PAYOUT_PAID", p)' = {}
    BY DEF PaidExactlyOnce
  <2>1. CASE p = r.ref
    <3>1. CASE r.status = "PAID"
      <4>1. PICK e : PaidEntry(r) = {e}
        BY <3>1 DEF PaidEntry
      <4>2. /\ e \in entries' /\ e.amount = d.amount
            /\ e.currency = d.currency
        BY <4>1, <1>1, <1>2, <1>8
      <4> QED
        BY <2>1, <3>1, <4>1, <4>2, <1>2, <1>7, <1>10 DEF Exists
    <3>2. CASE r.status # "PAID"
      <4>1. PaidEntry(r) = {}
        BY <3>2 DEF PaidEntry
      <4> QED
        BY <2>1, <3>2, <4>1, <1>2, <1>7, <1>10
    <3> QED
      BY <3>1, <3>2
  <2>2. CASE p # r.ref
    <3>1. /\ EntriesOf("PAYOUT_PAID", p)' = EntriesOf("PAYOUT_PAID", p)
          /\ payouts'[p] = payouts[p] /\ entries \subseteq entries'
      BY <2>2, <1>1, <1>7, <1>9
    <3> QED
      BY <3>1 DEF PaidExactlyOnce, Exists
  <2> QED
    BY <2>1, <2>2
<1> QED
  BY <1>4, <1>5, <1>6, <1>11, <1>12

\* ... a step that commits nothing,
LEMMA StillKeeps ==
  ASSUME LedgerInv, UNCHANGED database
  PROVE  /\ Finite' /\ PaidExactlyOnce' /\ ReversedAtMostOnce'
         /\ NoOverdraw' /\ ProcessingBounded'
<1>1. Untouched({})
  BY NothingTouched DEF LedgerInv
<1>2. \A cur : available(cur)' = available(cur)
  BY <1>1 DEF Untouched
<1>3. Processing' = Processing
  BY DEF Processing, Exists, database
<1>4. \A t, c : EntriesOf(t, c)' = EntriesOf(t, c)
  BY DEF EntriesOf, database
<1>5. NoOverdraw'
  BY <1>2 DEF LedgerInv, NoOverdraw
<1>6. ProcessingBounded' /\ Finite'
  BY <1>3 DEF LedgerInv, ProcessingBounded, Finite, database
<1>7. PaidExactlyOnce'
  BY <1>4 DEF LedgerInv, PaidExactlyOnce, Exists, database
<1>8. ReversedAtMostOnce'
  BY <1>4 DEF LedgerInv, ReversedAtMostOnce
<1> QED
  BY <1>5, <1>6, <1>7, <1>8

\* ... and so every commit.
LEMMA CommitKeeps ==
  ASSUME LedgerInv, NEW w \in Workers, NEW r \in Request, Applied(w, r),
         Accepted(r)
  PROVE  /\ Finite' /\ PaidExactlyOnce' /\ ReversedAtMostOnce'
         /\ NoOverdraw' /\ ProcessingBounded'
<1>1. r.op \in {"earn", "reverse", "create", "end"}
  BY DEF Request
<1> QED
  BY <1>1, EarnKeeps, ReverseKeeps, CreateKeeps, EndKeeps

\* The ledger invariant is inductive,
LEMMA InvInductive ==
  ASSUME LedgerInv, [Next]_vars
  PROVE  LedgerInv'
<1>1. TypeOK'
  BY TypeInductive DEF LedgerInv
<1>2. CASE UNCHANGED vars
  <2>1. UNCHANGED database /\ txn' = txn
    BY <1>2 DEF vars, database
  <2>2. Serial'
    <3>1. ASSUME NEW r \in Request, Accepted(r)
          PROVE  Accepted(r)' /\ PlanFor(r)' = PlanFor(r)
      BY <3>1, <2>1, NothingTouched, DecisionStands DEF LedgerInv
    <3>2. \A w \in Workers : Conflict(w)' <=> Conflict(w)
      BY <2>1 DEF Conflict
    <3> QED
      BY <3>1, <3>2, <2>1 DEF LedgerInv, Serial
  <2> QED
    BY <1>1, <2>1, <2>2, StillKeeps DEF LedgerInv
<1>3. ASSUME NEW w \in Workers, Prepare(w) PROVE LedgerInv'
  <2>1. UNCHANGED database
    BY <1>3 DEF Prepare
  <2>2. Serial'
    BY <1>3, SerialPrepares DEF LedgerInv
  <2> QED
    BY <1>1, <2>1, <2>2, StillKeeps DEF LedgerInv
<1>4. ASSUME NEW w \in Workers, Commit(w) PROVE LedgerInv'
  <2>1. PICK r \in Request : Accepted(r) /\ Applied(w, r)
    BY <1>4, CommitApplies DEF LedgerInv
  <2>2. Serial'
    BY <2>1, SerialCommits DEF LedgerInv
  <2>3. /\ Finite' /\ PaidExactlyOnce' /\ ReversedAtMostOnce'
        /\ NoOverdraw' /\ ProcessingBounded'
    BY <2>1, CommitKeeps
  <2> QED
    BY <1>1, <2>2, <2>3 DEF LedgerInv
<1>5. TypeOK
  BY DEF LedgerInv
<1> QED
  BY <1>2, <1>3, <1>4, <1>5, StepKinds

\* ... and holds at the start.
LEMMA InvInitially ==
  ASSUME Init
  PROVE  LedgerInv
<1>1. TypeOK
  BY DEF Init, TypeOK
<1>2. Processing = {} /\ entries = {}
  BY DEF Init, Processing, Exists
<1>3. Finite
  BY <1>2, FS_EmptySet DEF Finite
<1>4. Serial
  BY DEF Init, Serial
<1>5. \A t, c : EntriesOf(t, c) = {}
  BY <1>2 DEF EntriesOf
<1>6. PaidExactlyOnce
  BY <1>5 DEF PaidExactlyOnce, Init, Exists
<1>7. ReversedAtMostOnce
  BY <1>5, FS_EmptySet DEF ReversedAtMostOnce
<1>8. ProcessingBounded
  BY <1>2, FS_EmptySet, LedgerAssumption DEF ProcessingBounded
<1>9. NoOverdraw
  <2> SUFFICES ASSUME NEW cur PROVE available(cur) = 0
    BY DEF NoOverdraw
  <2>1. /\ {e \in entries : e.currency = cur} = {}
        /\ Reserving(cur) = {}
    BY <1>2 DEF Reserving
  <2>2. balance(cur) = 0
    <3>1. MapThenSumSet(signed, {}) = SumOf([e \in Entry |-> signed(e)], {})
      BY SignedSum, FS_EmptySet
    <3>2. balance(cur) = MapThenSumSet(signed, {})
      BY <2>1 DEF balance
    <3> QED
      BY <3>1, <3>2, SumOfEmpty
  <2>3. reserved(cur) = 0
    <3>1. reserved(cur) = SumOf([p \in Reserving(cur) |-> payouts[p].amount],
                                Reserving(cur))
      BY <2>1, FS_EmptySet, ReservedIs
    <3>2. SumOf([p \in Reserving(cur) |-> payouts[p].amount], {}) = 0
      BY SumOfEmpty
    <3> QED
      BY <3>1, <3>2, <2>1
  <2> QED
    BY <2>2, <2>3 DEF available
<1> QED
  BY <1>1, <1>3, <1>4, <1>6, <1>7, <1>8, <1>9 DEF LedgerInv

\* The balance an affiliate has left is summed, inside each transaction, from a
\* ledger other transactions write: that the sums are still right at commit is
\* what the lock documents are for.
THEOREM LedgerInvariant == Spec => []LedgerInv
<1>1. Init => LedgerInv
  BY InvInitially
<1>2. LedgerInv /\ [Next]_vars => LedgerInv'
  BY InvInductive
<1> QED
  BY <1>1, <1>2, PTL DEF Spec

\* Racing payouts and reversals never take out more than was earned.
THEOREM NeverOverdrawn == Spec => []NoOverdraw
<1>1. LedgerInv => NoOverdraw
  BY DEF LedgerInv
<1> QED
  BY <1>1, LedgerInvariant, PTL

\* Each paid payout has exactly its debit in the ledger, and no other has one.
THEOREM PaidOnce == Spec => []PaidExactlyOnce
<1>1. LedgerInv => PaidExactlyOnce
  BY DEF LedgerInv
<1> QED
  BY <1>1, LedgerInvariant, PTL

\* A commission is reversed at most once, and only after it was earned.
THEOREM ReversedOnce == Spec => []ReversedAtMostOnce
<1>1. LedgerInv => ReversedAtMostOnce
  BY DEF LedgerInv
<1> QED
  BY <1>1, LedgerInvariant, PTL

\* The capacity lock keeps the payouts in progress within their limit, in all
\* currencies together.
THEOREM CapacityHolds == Spec => []ProcessingBounded
<1>1. LedgerInv => ProcessingBounded
  BY DEF LedgerInv
<1> QED
  BY <1>1, LedgerInvariant, PTL

-----------------------------------------------------------------------------
(* What a step may do *)

\* The committed request of a step, if there is one.
LEMMA StepCommits ==
  ASSUME LedgerInv, [Next]_vars
  PROVE  \/ UNCHANGED database
         \/ \E w \in Workers, r \in Request : Accepted(r) /\ Applied(w, r)
<1>1. CASE UNCHANGED vars
  BY <1>1 DEF vars, database
<1>2. ASSUME NEW w \in Workers, Prepare(w) PROVE UNCHANGED database
  BY <1>2 DEF Prepare
<1>3. ASSUME NEW w \in Workers, Commit(w)
      PROVE  \E r \in Request : Accepted(r) /\ Applied(w, r)
  BY <1>3, CommitApplies DEF LedgerInv
<1> QED
  BY <1>1, <1>2, <1>3, StepKinds DEF LedgerInv

\* No step changes a payout that is over.
LEMMA FinalStep ==
  ASSUME LedgerInv, [Next]_vars,
         NEW p \in Payouts, Exists(p), payouts[p].status # "PROCESSING"
  PROVE  payouts'[p] = payouts[p]
<1>1. CASE UNCHANGED database
  BY <1>1 DEF database
<1>2. ASSUME NEW w \in Workers, NEW r \in Request, Accepted(r), Applied(w, r)
      PROVE  payouts'[p] = payouts[p]
  <2>1. r.op \in {"earn", "reverse", "create", "end"}
    BY DEF Request
  <2>2. CASE r.op \in {"earn", "reverse"}
    BY <1>2, <2>2, EarnEffect, ReverseEffect DEF LedgerInv
  <2>3. CASE r.op = "create"
    <3>1. r.ref # p
      BY <1>2, <2>3, CreateEffect DEF LedgerInv
    <3>2. \E d : payouts' = [payouts EXCEPT ![r.ref] = d]
      BY <1>2, <2>3, CreateEffect DEF LedgerInv
    <3> QED
      BY <3>1, <3>2 DEF LedgerInv, TypeOK
  <2>4. CASE r.op = "end"
    <3>1. r.ref # p
      BY <1>2, <2>4, EndEffect DEF LedgerInv
    <3>2. \E d : payouts' = [payouts EXCEPT ![r.ref] = d]
      BY <1>2, <2>4, EndEffect DEF LedgerInv
    <3> QED
      BY <3>1, <3>2 DEF LedgerInv, TypeOK
  <2> QED
    BY <2>1, <2>2, <2>3, <2>4
<1> QED
  BY <1>1, <1>2, StepCommits

\* Whichever of paid, failed and cancelled commits first is final.
THEOREM PayoutsAreFinal == Spec => PayoutFinal
<1>1. LedgerInv /\ [Next]_vars =>
        [\A p \in Payouts : Exists(p) /\ payouts[p].status # "PROCESSING" =>
           payouts'[p] = payouts[p]]_vars
  BY FinalStep
<1> QED
  BY <1>1, LedgerInvariant, PTL DEF Spec, PayoutFinal

-----------------------------------------------------------------------------
(* The wallet *)

\* An empty ledger is an empty wallet.
LEMMA WalletStart ==
  ASSUME Init
  PROVE  Wal!Init
<1>1. \A cur \in Currencies : available(cur) = 0 /\ reserved(cur) = 0
  <2> SUFFICES ASSUME NEW cur PROVE available(cur) = 0 /\ reserved(cur) = 0
    OBVIOUS
  <2>1. {e \in entries : e.currency = cur} = {} /\ Reserving(cur) = {}
    BY DEF Init, Reserving, Processing, Exists
  <2>2. MapThenSumSet(signed, {}) = SumOf([e \in Entry |-> signed(e)], {})
    BY SignedSum, FS_EmptySet
  <2>3. balance(cur) = 0
    BY <2>1, <2>2, SumOfEmpty DEF balance
  <2>4. reserved(cur) = SumOf([p \in Reserving(cur) |-> payouts[p].amount],
                              Reserving(cur))
    BY <2>1, FS_EmptySet, ReservedIs
  <2>5. SumOf([p \in Reserving(cur) |-> payouts[p].amount], {}) = 0
    BY SumOfEmpty
  <2> QED
    BY <2>1, <2>3, <2>4, <2>5 DEF available
<1> QED
  BY <1>1 DEF Wal!Init

\* What is reserved is a natural number, in every typed state.
LEMMA ReservedNat ==
  \A cur : TypeOK /\ Finite => reserved(cur) \in Nat
BY MoneyTyped

\* What moves money in one currency changes that currency of the wallet only.
LEMMA WalletChange ==
  ASSUME LedgerInv, LedgerInv', NEW c \in Currencies, NEW f \in Int,
         NEW h \in Int, Moves(c, f, h)
  PROVE  /\ Wal!Change(c, available(c) + f, reserved(c) + h)
         /\ available(c) \in Nat /\ reserved(c) \in Nat
         /\ available(c)' = available(c) + f /\ reserved(c)' = reserved(c) + h
         /\ available(c)' \in Nat /\ reserved(c)' \in Nat
<1>1. /\ available(c)' = available(c) + f
      /\ reserved(c)' = reserved(c) + h
      /\ \A cur \in Currencies : cur # c =>
           available(cur)' = available(cur) /\ reserved(cur)' = reserved(cur)
  BY DEF Moves
<1>2. /\ available(c) \in Int /\ available(c) >= 0 /\ reserved(c) \in Nat
  BY MoneyTyped DEF LedgerInv, NoOverdraw
<1>3. available(c)' >= 0
  BY DEF LedgerInv, NoOverdraw
<1>4. reserved(c)' \in Nat
  <2>1. (\A cur : TypeOK /\ Finite => reserved(cur) \in Nat)'
    BY ReservedNat, PTL
  <2> QED
    BY <2>1 DEF LedgerInv
<1>5. available(c)' \in Nat
  BY <1>1, <1>2, <1>3
<1>6. Wal!Change(c, available(c) + f, reserved(c) + h)
  BY <1>1, <1>4, <1>5 DEF Wal!Change
<1> QED
  BY <1>1, <1>2, <1>4, <1>5, <1>6

\* Every step is one operation of the wallet, or changes nothing of it.
LEMMA WalletStep ==
  ASSUME LedgerInv, LedgerInv', [Next]_vars
  PROVE  Wal!Next \/ UNCHANGED <<[cur \in Currencies |-> available(cur)],
                                 [cur \in Currencies |-> reserved(cur)]>>
<1>1. CASE UNCHANGED database
  <2>1. \A cur : available(cur)' = available(cur)
    BY <1>1, NothingTouched DEF LedgerInv, Untouched
  <2>2. \A cur : reserved(cur)' = reserved(cur)
    BY <1>1, ReservedSame DEF LedgerInv, Finite, database
  <2> QED
    BY <2>1, <2>2
<1>2. ASSUME NEW w \in Workers, NEW r \in Request, Accepted(r), Applied(w, r)
      PROVE  Wal!Next
  <2>1. r.op \in {"earn", "reverse", "create", "end"}
    BY DEF Request
  <2>2. PICK c : c = CurrencyOf(r)
    OBVIOUS
  <2>3. PICK n : n = AmountFor(r)
    OBVIOUS
  <2>4. CASE r.op = "earn"
    <3>1. c \in Currencies /\ n \in Nat /\ n > 0 /\ Moves(c, n, 0)
      BY <1>2, <2>2, <2>3, <2>4, EarnMoves DEF LedgerInv
    <3>2. /\ Wal!Change(c, available(c) + n, reserved(c) + 0)
          /\ available(c) \in Nat /\ reserved(c) \in Nat
          /\ available(c)' = available(c) + n
      BY <3>1, WalletChange
    <3>3. reserved(c) + 0 = reserved(c) /\ available(c)' > available(c)
      BY <3>1, <3>2
    <3>4. Wal!Earn(c)
      BY <3>1, <3>2, <3>3 DEF Wal!Earn
    <3> QED
      BY <3>1, <3>4 DEF Wal!Next
  <2>5. CASE r.op = "reverse"
    <3>1. c \in Currencies /\ n \in Nat /\ n > 0 /\ Moves(c, -n, 0)
      BY <1>2, <2>2, <2>3, <2>5, ReverseMoves DEF LedgerInv
    <3>2. /\ Wal!Change(c, available(c) + (-n), reserved(c) + 0)
          /\ available(c) \in Nat /\ reserved(c) \in Nat
          /\ available(c)' = available(c) + (-n)
      BY <3>1, WalletChange
    <3>3. reserved(c) + 0 = reserved(c) /\ available(c)' < available(c)
      BY <3>1, <3>2
    <3>4. Wal!TakeBack(c)
      BY <3>1, <3>2, <3>3 DEF Wal!TakeBack
    <3> QED
      BY <3>1, <3>4 DEF Wal!Next
  <2>6. CASE r.op = "create"
    <3>1. c \in Currencies /\ n \in Nat /\ n > 0 /\ Moves(c, -n, n)
          /\ available(c) >= n
      BY <1>2, <2>2, <2>3, <2>6, CreateMoves DEF LedgerInv
    <3>2. /\ Wal!Change(c, available(c) + (-n), reserved(c) + n)
          /\ available(c) \in Nat /\ reserved(c) \in Nat
          /\ reserved(c)' = reserved(c) + n
      BY <3>1, WalletChange
    <3>3. /\ available(c) + (-n)
               = available(c) + reserved(c) - reserved(c)'
          /\ reserved(c)' > reserved(c)
          /\ reserved(c)' <= available(c) + reserved(c)
      BY <3>1, <3>2
    <3>4. Wal!Hold(c)
      BY <3>1, <3>2, <3>3 DEF Wal!Hold
    <3> QED
      BY <3>1, <3>4 DEF Wal!Next
  <2>7. CASE r.op = "end"
    <3>1. EntriesOf("PAYOUT_PAID", r.ref) = {}
      BY <1>2, <2>7, EndEffect DEF LedgerInv, PaidExactlyOnce
    <3>2. c \in Currencies /\ n \in Nat /\ n > 0
          /\ Moves(c, IF r.status = "PAID" THEN 0 ELSE n, -n)
      BY <1>2, <2>2, <2>3, <2>7, <3>1, EndMoves DEF LedgerInv
    <3>3. PICK f \in Nat : f = IF r.status = "PAID" THEN 0 ELSE n
      BY <3>2
    <3>4. /\ Wal!Change(c, available(c) + f, reserved(c) + (-n))
          /\ available(c) \in Nat /\ reserved(c) \in Nat
          /\ reserved(c)' = reserved(c) + (-n)
      BY <3>2, <3>3, WalletChange
    <3>5. reserved(c)' < reserved(c)
      BY <3>2, <3>4
    <3>6. CASE r.status = "PAID"
      <4>1. available(c) + f = available(c)
        BY <3>3, <3>4, <3>6
      <4>2. Wal!Pay(c)
        BY <3>2, <3>4, <3>5, <4>1 DEF Wal!Pay
      <4> QED
        BY <3>2, <4>2 DEF Wal!Next
    <3>7. CASE r.status # "PAID"
      <4>1. available(c) + f = available(c) + reserved(c) - reserved(c)'
        BY <3>2, <3>3, <3>4, <3>7
      <4>2. Wal!Release(c)
        BY <3>2, <3>4, <3>5, <4>1 DEF Wal!Release
      <4> QED
        BY <3>2, <4>2 DEF Wal!Next
    <3> QED
      BY <3>6, <3>7
  <2> QED
    BY <2>1, <2>4, <2>5, <2>6, <2>7
<1> QED
  BY <1>1, <1>2, StepCommits

\* The transactions implement a wallet whose operations are atomic.
THEOREM LedgerImplementsWallet == Spec => ImplementsWallet
<1>1. Init => Wal!Init
  BY WalletStart
<1>2. LedgerInv /\ LedgerInv' /\ [Next]_vars =>
        [Wal!Next]_<<[cur \in Currencies |-> available(cur)],
                     [cur \in Currencies |-> reserved(cur)]>>
  BY WalletStep
<1> QED
  BY <1>1, <1>2, LedgerInvariant, PTL DEF Spec, ImplementsWallet, Wal!Spec

=============================================================================

--------------------------- MODULE AffiliateLedger --------------------------
(***************************************************************************)
(* The money an affiliate of a tenant earns and is paid: commissions       *)
(* (affiliate-ledger.service.ts), payouts (affiliate-payout.service.ts,    *)
(* affiliate-payout.store.ts), the append-only ledger they write and the   *)
(* lock documents that serialise them.  The balance is never stored: it is *)
(* summed from the ledger inside each transaction.                         *)
(*                                                                         *)
(* A request is two steps, as in Booking: the handler runs on a snapshot   *)
(* and keeps its writes; they are committed unless a document they touch   *)
(* was written by another commit since, and the handler runs again if so.  *)
(***************************************************************************)
EXTENDS Integers, FiniteSets, FiniteSetsExt

CONSTANTS
  Workers,       \* requests being served concurrently
  Commissions,   \* referral conversions of the affiliate
  CommissionOf,  \* [Commissions -> [currency, amount]]: commissionValueMinor
  Payouts,       \* payout ids (randomUUID)
  Currencies,
  Amounts,       \* amounts a payout is requested for
  CreateKeys,    \* idempotency keys clients supply with a new payout
  Keys,          \* idempotency keys they supply with an end or a reversal
  MaxProcessing, \* MAX_PROCESSING_AFFILIATE_PAYOUTS
  None,          \* no such document
  Idle           \* no open transaction

ASSUME LedgerAssumption ==
  /\ Amounts \subseteq Nat \ {0}
  /\ CommissionOf \in [Commissions -> [currency : Currencies, amount : Nat \ {0}]]
  /\ MaxProcessing \in Nat \ {0}

VARIABLES
  entries,     \* affiliate_ledger_entries
  payouts,     \* affiliate_payouts
  lockDocs,    \* existing affiliate_balance_locks and capacity lock
  txn          \* the open transaction of each worker

database == <<entries, payouts, lockDocs>>
vars == <<entries, payouts, lockDocs, txn>>

-----------------------------------------------------------------------------
(* Documents *)

\* The key of an entry, unique within the affiliate: derived from what the entry
\* is for, or the client's own.  In the code all three are strings; here the
\* derived ones are never a client's.
EntryKey == ({"commission"} \X Commissions) \cup ({"payout"} \X Payouts) \cup
            ({"client"} \X Keys)
Entry == [type : {"COMMISSION_EARNED", "COMMISSION_REVERSAL", "PAYOUT_PAID"},
          ref : Commissions \cup Payouts, currency : Currencies,
          amount : Nat, key : EntryKey]
PayoutStatus == {"PROCESSING", "PAID", "FAILED", "CANCELLED"}
Payout == [currency : Currencies, amount : Amounts, status : PayoutStatus,
           createKey : CreateKeys, endKey : Keys \cup {None}]
LockDoc == {<<"capacity">>} \cup ({"balance"} \X Currencies)

Exists(p) == payouts[p] # None
Processing == {p \in Payouts : Exists(p) /\ payouts[p].status = "PROCESSING"}
EntriesOf(type, ref) == {e \in entries : e.type = type /\ e.ref = ref}

-----------------------------------------------------------------------------
(* Sums taken inside the transactions *)

signed(e) == IF e.type = "COMMISSION_EARNED" THEN e.amount ELSE -e.amount

balance(cur) == MapThenSumSet(signed, {e \in entries : e.currency = cur})

amountOf(p) == payouts[p].amount
reserved(cur) ==
  MapThenSumSet(amountOf, {p \in Processing : payouts[p].currency = cur})

\* Mutated form: what is being paid out still counts as available.
balanceOnly(cur) == balance(cur)

available(cur) == balance(cur) - reserved(cur)

-----------------------------------------------------------------------------
(* What each handler decides: whether it writes, and its plan *)

\* Completing a referred appointment; the lock documents appear with the first
\* commission and are touched (updatedAt) by every later one.
EarnAccepted(r) == EntriesOf("COMMISSION_EARNED", r.ref) = {}

EarnPlan(r) ==
  LET c == CommissionOf[r.ref]
      lockSet == {<<"capacity">>, <<"balance", c.currency>>}
  IN [payout |-> {},
      entry |-> {[currency |-> c.currency, amount |-> c.amount,
                  type |-> "COMMISSION_EARNED", ref |-> r.ref,
                  key |-> <<"commission", r.ref>>]},
      create |-> lockSet,
      writes |-> lockSet \cup {<<"entry", <<"commission", r.ref>>>>}]

\* Mutated form: the idempotency key is the only guard.
ReverseByKeyAccepted(r) ==
  /\ EntriesOf("COMMISSION_EARNED", r.ref) # {}
  /\ \A e \in entries : e.key # <<"client", r.key>>

ReverseAccepted(r) ==
  LET c == CommissionOf[r.ref]
  IN /\ EntriesOf("COMMISSION_EARNED", r.ref) # {}
     /\ EntriesOf("COMMISSION_REVERSAL", r.ref) = {}
     /\ \A e \in entries : e.key # <<"client", r.key>>
     /\ <<"balance", c.currency>> \in lockDocs
     /\ available(c.currency) >= c.amount

\* Mutated form: a reversal takes no lock.
ReverseUnlocked(r) == {}

\* The lock document a reversal increments.
ReverseLocks(r) == {<<"balance", CommissionOf[r.ref].currency>>}

ReversePlan(r) ==
  LET c == CommissionOf[r.ref]
  IN [payout |-> {},
      entry |-> {[currency |-> c.currency, amount |-> c.amount,
                  type |-> "COMMISSION_REVERSAL", ref |-> r.ref,
                  key |-> <<"client", r.key>>]},
      create |-> {},
      writes |-> ReverseLocks(r) \cup {<<"reversal", r.ref>>,
                                        <<"entry", <<"client", r.key>>>>}]

assertProcessingCapacity == Cardinality(Processing) < MaxProcessing

CreateAccepted(r) ==
  /\ ~Exists(r.ref)
  /\ \A p \in Payouts : Exists(p) => payouts[p].createKey # r.key
  /\ <<"capacity">> \in lockDocs
  /\ assertProcessingCapacity
  /\ <<"balance", r.currency>> \in lockDocs
  /\ available(r.currency) >= r.amount

\* Mutated form: creating a payout takes the balance lock only.
BalanceLockOnly(r) == {<<"balance", r.currency>>}

\* The lock documents a new payout increments.
CreateLocks(r) == {<<"capacity">>, <<"balance", r.currency>>}

CreatePlan(r) ==
  [payout |-> {[currency |-> r.currency, amount |-> r.amount,
                status |-> "PROCESSING", createKey |-> r.key,
                endKey |-> None]},
   entry |-> {}, create |-> {},
   writes |-> CreateLocks(r) \cup {<<"payout", r.ref>>, <<"createKey", r.key>>}]

\* Mutated form: a payout that is over may be ended again.
EndAnyAccepted(r) ==
  /\ Exists(r.ref)
  /\ \A p \in Payouts : Exists(p) => payouts[p].endKey # r.key

EndAccepted(r) ==
  /\ Exists(r.ref)
  /\ payouts[r.ref].status = "PROCESSING"
  /\ <<"balance", payouts[r.ref].currency>> \in lockDocs
  /\ \A p \in Payouts : Exists(p) => payouts[p].endKey # r.key

\* The debit a paid payout leaves in the ledger.
PaidEntry(r) ==
  IF r.status = "PAID"
  THEN {[currency |-> payouts[r.ref].currency,
         amount |-> payouts[r.ref].amount, type |-> "PAYOUT_PAID",
         ref |-> r.ref, key |-> <<"payout", r.ref>>]}
  ELSE {}

EndPlan(r) ==
  [payout |-> {[payouts[r.ref] EXCEPT !.status = r.status, !.endKey = r.key]},
   entry |-> PaidEntry(r), create |-> {},
   writes |-> {<<"balance", payouts[r.ref].currency>>, <<"payout", r.ref>>,
               <<"endKey", r.key>>} \cup
              {<<"entry", e.key>> : e \in PaidEntry(r)}]

-----------------------------------------------------------------------------
(* Transactions *)

Request ==
  [op : {"earn"}, ref : Commissions] \cup
  [op : {"reverse"}, ref : Commissions, key : Keys] \cup
  [op : {"create"}, ref : Payouts, currency : Currencies, amount : Amounts,
   key : CreateKeys] \cup
  [op : {"end"}, ref : Payouts, status : PayoutStatus \ {"PROCESSING"},
   key : Keys]

Doc == LockDoc \cup ({"entry"} \X EntryKey) \cup ({"reversal"} \X Commissions)
       \cup ({"payout"} \X Payouts) \cup ({"createKey"} \X CreateKeys) \cup
       ({"endKey"} \X Keys)

Plan == [entry : SUBSET Entry, payout : SUBSET Payout,
         create : SUBSET LockDoc, writes : SUBSET Doc]

Transaction == [request : Request, plan : Plan, overtaken : SUBSET Doc]

\* The sentinels are told from the values they stand beside.
ASSUME SentinelAssumption ==
  None \notin Payout /\ None \notin Keys /\ Idle \notin Transaction

Accepted(r) ==
  CASE r.op = "earn"    -> EarnAccepted(r)
    [] r.op = "reverse" -> ReverseAccepted(r)
    [] r.op = "create"  -> CreateAccepted(r)
    [] r.op = "end"     -> EndAccepted(r)

PlanFor(r) ==
  CASE r.op = "earn"    -> EarnPlan(r)
    [] r.op = "reverse" -> ReversePlan(r)
    [] r.op = "create"  -> CreatePlan(r)
    [] r.op = "end"     -> EndPlan(r)

Snapshot(r) == [request |-> r, plan |-> PlanFor(r), overtaken |-> {}]

Open(w, r) ==
  /\ txn[w] = Idle
  /\ Accepted(r)
  /\ txn' = [txn EXCEPT ![w] = Snapshot(r)]
  /\ UNCHANGED database

earnCompletedCommission(w) ==
  \E c \in Commissions : Open(w, [ref |-> c, op |-> "earn"])

reverseCommission(w) ==
  \E c \in Commissions, k \in Keys :
    Open(w, [ref |-> c, key |-> k, op |-> "reverse"])

\* Ids are random, so no two open creations share one.
FreshIds == {p \in Payouts : ~Exists(p) /\
               \A v \in Workers : txn[v] = Idle \/ txn[v].request.ref # p}

create(w) ==
  \E p \in FreshIds, cur \in Currencies, n \in Amounts,
     k \in CreateKeys :
    Open(w, [currency |-> cur, amount |-> n, ref |-> p, key |-> k,
             op |-> "create"])

markPaid(w) ==
  \E p \in Payouts, k \in Keys :
    Open(w, [ref |-> p, key |-> k, status |-> "PAID", op |-> "end"])

markUnpaid(w) ==
  \E p \in Payouts, k \in Keys, s \in {"FAILED", "CANCELLED"} :
    Open(w, [ref |-> p, key |-> k, status |-> s, op |-> "end"])

Conflict(w) == txn[w].plan.writes \cap txn[w].overtaken # {}

Commit(w) ==
  /\ txn[w] # Idle
  /\ ~Conflict(w)
  /\ LET t == txn[w]
     IN /\ entries' = entries \cup t.plan.entry
        /\ payouts' = [p \in Payouts |->
                         IF p = t.request.ref /\ t.plan.payout # {}
                         THEN CHOOSE d \in t.plan.payout : TRUE
                         ELSE payouts[p]]
        /\ lockDocs' = lockDocs \cup t.plan.create
        /\ txn' = [v \in Workers |->
                     IF v = w \/ txn[v] = Idle THEN Idle
                     ELSE [txn[v] EXCEPT !.overtaken = @ \cup t.plan.writes]]

\* A write conflict: the handler runs again on a new snapshot, which may now
\* refuse the request or answer it from the earlier result.
Retry(w) ==
  /\ txn[w] # Idle
  /\ Conflict(w)
  /\ txn' = [txn EXCEPT ![w] = IF Accepted(txn[w].request)
                               THEN Snapshot(txn[w].request) ELSE Idle]
  /\ UNCHANGED database

\* A statement fails, or the process dies: the transaction leaves nothing.
Abort(w) ==
  /\ txn[w] # Idle
  /\ txn' = [txn EXCEPT ![w] = Idle]
  /\ UNCHANGED database

Init ==
  /\ entries = {}
  /\ payouts = [p \in Payouts |-> None]
  /\ lockDocs = {}
  /\ txn = [w \in Workers |-> Idle]

Next ==
  \E w \in Workers :
    \/ earnCompletedCommission(w)
    \/ reverseCommission(w)
    \/ create(w)
    \/ markPaid(w)
    \/ markUnpaid(w)
    \/ Commit(w)
    \/ Retry(w)
    \/ Abort(w)

Spec == Init /\ [][Next]_vars

-----------------------------------------------------------------------------
(* Properties *)

\* Shape of the collections and of the open transactions.
TypeOK ==
  /\ entries \subseteq Entry
  /\ payouts \in [Payouts -> Payout \cup {None}]
  /\ lockDocs \subseteq LockDoc
  /\ txn \in [Workers -> Transaction \cup {Idle}]

\* Racing payouts and reversals never take out more than was earned: in every
\* currency the ledger covers what is reserved for payouts in progress.
NoOverdraw == \A cur \in Currencies : available(cur) >= 0

\* The limit on payouts in progress holds across currencies, although the
\* balance locks are per currency.
ProcessingBounded == Cardinality(Processing) <= MaxProcessing

\* The ledger and the payouts agree: each paid payout was debited once, for
\* its amount, and no other payout was.
PaidExactlyOnce ==
  \A p \in Payouts :
    IF Exists(p) /\ payouts[p].status = "PAID"
    THEN \E e \in entries : /\ EntriesOf("PAYOUT_PAID", p) = {e}
                            /\ e.amount = payouts[p].amount
                            /\ e.currency = payouts[p].currency
    ELSE EntriesOf("PAYOUT_PAID", p) = {}

\* A commission is reversed at most once, and only after it was earned.
ReversedAtMostOnce ==
  \A c \in Commissions :
    /\ Cardinality(EntriesOf("COMMISSION_REVERSAL", c)) <= 1
    /\ EntriesOf("COMMISSION_REVERSAL", c) # {} =>
         EntriesOf("COMMISSION_EARNED", c) # {}

\* Whichever of paid, failed and cancelled commits first is final.
PayoutFinal ==
  [][\A p \in Payouts : Exists(p) /\ payouts[p].status # "PROCESSING" =>
       payouts'[p] = payouts[p]]_vars

Wal == INSTANCE Wallet WITH free <- [cur \in Currencies |-> available(cur)],
                            held <- [cur \in Currencies |-> reserved(cur)]

\* The transactions implement a wallet whose operations are atomic.
ImplementsWallet == Wal!Spec
=============================================================================

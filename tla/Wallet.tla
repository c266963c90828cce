------------------------------- MODULE Wallet -------------------------------
(***************************************************************************)
(* What the affiliate ledger promises: per currency, an amount that is     *)
(* free and an amount that is held for payouts in progress.  Money comes   *)
(* in as commissions, is held when a payout is created, and leaves when    *)
(* the payout is paid or returns when it is not; a commission is taken     *)
(* back only out of money that is free.  Neither amount is ever negative.  *)
(***************************************************************************)
EXTENDS Naturals

CONSTANT Currencies

VARIABLES free, held

Init == /\ free = [c \in Currencies |-> 0]
        /\ held = [c \in Currencies |-> 0]

\* The change of one currency, the others left alone.
Change(c, f, h) == /\ f \in Nat /\ h \in Nat
                   /\ free' = [free EXCEPT ![c] = f]
                   /\ held' = [held EXCEPT ![c] = h]

Earn(c) == free'[c] > free[c] /\ Change(c, free'[c], held[c])
Hold(c) == /\ held'[c] > held[c]
           /\ Change(c, free[c] + held[c] - held'[c], held'[c])
           /\ held'[c] <= free[c] + held[c]
Pay(c) == held'[c] < held[c] /\ Change(c, free[c], held'[c])
Release(c) == /\ held'[c] < held[c]
              /\ Change(c, free[c] + held[c] - held'[c], held'[c])
TakeBack(c) == free'[c] < free[c] /\ Change(c, free'[c], held[c])

Next == \E c \in Currencies :
          Earn(c) \/ Hold(c) \/ Pay(c) \/ Release(c) \/ TakeBack(c)

Spec == Init /\ [][Next]_<<free, held>>
=============================================================================

------------------------- MODULE MCAffiliateLedger --------------------------
(* Small instances of AffiliateLedger for TLC. *)
EXTENDS AffiliateLedger, TLC

CONSTANTS c1, c2, usd, eur

\* A commission in each of two currencies.
TwoCurrencies == (c1 :> [currency |-> usd, amount |-> 2]) @@
                 (c2 :> [currency |-> eur, amount |-> 1])

Interchangeable == Permutations(Payouts) \cup Permutations(Workers)
                   \cup Permutations(Keys) \cup Permutations(CreateKeys)
=============================================================================

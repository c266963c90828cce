----------------------------- MODULE MCCustomer -----------------------------
(***************************************************************************)
(* A small instance of three parts customers meet besides the calendar and *)
(* that share no state: access by phone, feedback and referrals.  A        *)
(* behaviour is one of one part, chosen at the start, while the others     *)
(* keep still: their state spaces add up instead of multiplying.           *)
(***************************************************************************)
EXTENDS CustomerAccess, Feedback, Referrals, TLC

VARIABLE part

customerVars == <<accessVars, feedbackVars, referralVars, part>>

Init ==
  /\ AccessInit /\ FeedbackInit /\ ReferralsInit
  /\ part \in {"access", "feedback", "referrals"}

Next ==
  /\ UNCHANGED part
  /\ \/ part = "access" /\ AccessNext /\ UNCHANGED <<feedbackVars, referralVars>>
     \/ part = "feedback" /\ FeedbackNext /\ UNCHANGED <<accessVars, referralVars>>
     \/ part = "referrals" /\ ReferralsNext /\ UNCHANGED <<accessVars, feedbackVars>>

Spec == Init /\ [][Next]_customerVars

Share(bp) == [bp |-> bp, type |-> "PERCENT", amount |-> Nothing,
              currency |-> Nothing]
Sum(amount) == [bp |-> Nothing, type |-> "FIXED", amount |-> amount,
                currency |-> "COP"]
NoShare == [bp |-> Nothing, type |-> "NONE", amount |-> Nothing,
            currency |-> Nothing]
Terms(d, c, s, e) ==
  [discount |-> d, commission |-> c, startsAt |-> s, expiresAt |-> e]

\* Shares that do not divide evenly, sums near and above a price, the whole
\* price, a window on either side, and terms that are refused.
TermSamples ==
  {Terms(Share(3333), Share(1500), Nothing, 1),
   Terms(Sum(5), Sum(3), 1, Nothing),
   Terms(NoShare, Share(10000), Nothing, Nothing),
   Terms(Share(10000), NoShare, Nothing, Nothing)}
PriceSamples == {[amount |-> 10, currency |-> "COP"],
                 [amount |-> 7, currency |-> "COP"],
                 [amount |-> 4, currency |-> "USD"]}

\* The parts share the model values of their processes and of some of their
\* sets, so that one small symmetry group serves all three.
Interchangeable ==
  Permutations(Callers) \cup Permutations(EntryKeys) \cup Permutations(Contents)
=============================================================================

------------------------------ MODULE Referrals -----------------------------
(***************************************************************************)
(* Affiliate codes and the bookings they bring: a customer's code, its     *)
(* terms (a discount for who books with it, a commission for its owner),   *)
(* and the conversion a booking records.  What becomes of a conversion's   *)
(* commission is AffiliateLedger's.                                        *)
(*                                                                         *)
(* Every change of a code is one transaction on one document, so one step. *)
(* A booking reads the code in its own transaction and does not write it.  *)
(***************************************************************************)
EXTENDS Integers, FiniteSets

CONSTANTS
  Codes,         \* ids of affiliate code documents
  Texts,         \* normalised code texts
  Affiliates,    \* customers
  TermInputs,    \* terms an operator may ask for
  Prices,        \* prices and currencies a booked service may have
  Visits,        \* appointments booked with a code
  Nothing,       \* no document, an absent field
  FinalDay       \* bound: last day

ASSUME ReferralAssumption == FinalDay \in Nat

\* What validation lets through: shares of up to the whole, sums and prices that
\* are amounts of money.
Submitted(part) ==
  /\ part.type \in {"NONE", "PERCENT", "FIXED"}
  /\ part.bp # Nothing => part.bp \in Nat /\ 1 <= part.bp /\ part.bp <= 10000
  /\ part.amount # Nothing => part.amount \in Nat \ {0}
ASSUME TermsAssumption ==
  \A d \in TermInputs : Submitted(d.discount) /\ Submitted(d.commission)
ASSUME PriceAssumption == \A p \in Prices : p.amount \in Nat

\* A code document, and what a booking keeps of the code it used.
Code == [terms : TermInputs, status : {"ACTIVE", "INACTIVE", "RETIRED"},
         owner : Affiliates, text : Texts, slot : {"CURRENT", Nothing}]
Money == [discount : Int, commission : Int, gross : Int, final : Int]
Booked == [terms : TermInputs, text : Texts, of : Codes, money : Money,
           affiliate : Affiliates, referred : Affiliates]

ASSUME NothingAssumption == Nothing \notin Code /\ Nothing \notin Booked

VARIABLES
  code,        \* affiliate code documents
  conversion,  \* the conversion recorded for each appointment
  desk,        \* the booking under way for each appointment
  day

referralVars == <<code, conversion, desk, day>>

Kept == {c \in Codes : code[c] # Nothing}

-----------------------------------------------------------------------------
(* Terms and economics *)

\* A discount or commission has the fields of its type and no other.
fieldsValid(part) ==
  /\ part.bp # Nothing <=> part.type = "PERCENT"
  /\ part.amount # Nothing <=> part.type = "FIXED"
  /\ part.currency # Nothing <=> part.type = "FIXED"

\* The terms accepted from an operator: a set of one, or of none.
normalizeAffiliateTerms(dto) ==
  {t \in {dto} : /\ fieldsValid(t.discount)
                 /\ t.commission.type # "NONE" /\ fieldsValid(t.commission)
                 /\ t.startsAt = Nothing \/ t.expiresAt = Nothing
                      \/ t.startsAt < t.expiresAt}

\* BigInt division drops the fraction, towards zero.
percentageOf(amount, bp) ==
  IF amount >= 0 THEN (amount * bp) \div 10000 ELSE -(((-amount) * bp) \div 10000)

valueOf(part, amount) ==
  CASE part.type = "NONE" -> 0
    [] part.type = "PERCENT" -> percentageOf(amount, part.bp)
    [] part.type = "FIXED" -> part.amount

\* What a booking at a price comes to, or nothing when the terms do not fit.
calculateAffiliateEconomics(terms, price) ==
  LET gross == price.amount
      discount == valueOf(terms.discount, gross)
      final == gross - discount
      commission == valueOf(terms.commission, final)
  IN IF \/ terms.discount.type = "FIXED" /\ terms.discount.currency # price.currency
        \/ terms.commission.type = "FIXED"
             /\ terms.commission.currency # price.currency
        \/ discount > gross \/ commission <= 0 \/ commission > final
     THEN {}
     ELSE {[discount |-> discount, commission |-> commission, gross |-> gross,
            final |-> final]}

assertAffiliateCodeUsable(c) ==
  /\ c.status = "ACTIVE"
  /\ c.terms.startsAt = Nothing \/ c.terms.startsAt <= day
  /\ c.terms.expiresAt = Nothing \/ c.terms.expiresAt > day

-----------------------------------------------------------------------------
(* Codes *)

\* The text is the operator's or a generated one, tried again while it is
\* taken; both unique indexes stand in the way of a second document.
create(owner, text, dto) ==
  LET c == CHOOSE c \in Codes \ Kept : TRUE IN
  /\ Kept # Codes
  /\ \A k \in Kept : code[k].text # text
  /\ ~\E k \in Kept : code[k].owner = owner /\ code[k].slot = "CURRENT"
  /\ \E t \in normalizeAffiliateTerms(dto) :
       code' = [code EXCEPT ![c] = [terms |-> t, status |-> "ACTIVE",
                                    owner |-> owner, text |-> text,
                                    slot |-> "CURRENT"]]
  /\ UNCHANGED <<conversion, desk, day>>

\* The transaction every change goes through.
mutate(c, changed) ==
  /\ code' = [code EXCEPT ![c] = changed]
  /\ UNCHANGED <<conversion, desk, day>>

\* Mutated form: fields the new terms do not have keep their old value.
updateTermsMerge(c, dto) ==
  /\ code[c] # Nothing /\ code[c].status # "RETIRED"
  /\ LET merge(old, new) == [f \in DOMAIN new |->
                               IF new[f] = Nothing THEN old[f] ELSE new[f]]
     IN \E t \in normalizeAffiliateTerms(dto) :
          mutate(c, [code[c] EXCEPT !.terms =
            [t EXCEPT !.discount = merge(code[c].terms.discount, @),
                      !.commission = merge(code[c].terms.commission, @)]])

\* Every optional field is cleared before the new terms are set.
updateTerms(c, dto) ==
  /\ code[c] # Nothing /\ code[c].status # "RETIRED"
  /\ \E t \in normalizeAffiliateTerms(dto) :
       mutate(c, [code[c] EXCEPT !.terms = t])

activate(c) ==
  /\ code[c] # Nothing /\ code[c].status = "INACTIVE"
  /\ mutate(c, [code[c] EXCEPT !.status = "ACTIVE"])

\* Mutated form: a code that is deactivated gives its slot up.
deactivateFreeing(c) ==
  /\ code[c] # Nothing /\ code[c].status = "ACTIVE"
  /\ mutate(c, [code[c] EXCEPT !.status = "INACTIVE", !.slot = Nothing])

deactivate(c) ==
  /\ code[c] # Nothing /\ code[c].status = "ACTIVE"
  /\ mutate(c, [code[c] EXCEPT !.status = "INACTIVE"])

\* A retired code keeps its text for good and gives up its owner's slot.
retire(c) ==
  /\ code[c] # Nothing /\ code[c].status # "RETIRED"
  /\ mutate(c, [code[c] EXCEPT !.status = "RETIRED", !.slot = Nothing])

-----------------------------------------------------------------------------
(* Bookings with a code *)

resolveForBooking(text, price) ==
  UNION {{[of |-> c, money |-> e, code |-> code[c]] :
            e \in calculateAffiliateEconomics(code[c].terms, price)} :
           c \in {k \in Kept : code[k].text = text
                               /\ assertAffiliateCodeUsable(code[k])}}

\* In the booking's transaction: the code is resolved on its snapshot, and
\* its owner may not be the customer who books ...
prepare(v, text, customer, price) ==
  /\ conversion[v] = Nothing /\ desk[v] = Nothing
  /\ \E r \in resolveForBooking(text, price) :
       /\ r.code.owner # customer
       /\ desk' = [desk EXCEPT ![v] =
            [terms |-> r.code.terms, text |-> r.code.text, of |-> r.of,
             money |-> r.money, affiliate |-> r.code.owner,
             referred |-> customer]]
  /\ UNCHANGED <<code, conversion, day>>

\* ... and recorded as it was then; the code may have changed meanwhile.
record(v) ==
  /\ desk[v] # Nothing
  /\ conversion' = [conversion EXCEPT ![v] = desk[v]]
  /\ desk' = [desk EXCEPT ![v] = Nothing]
  /\ UNCHANGED <<code, day>>

\* The booking fails for its own reasons.
abandon(v) ==
  /\ desk[v] # Nothing
  /\ desk' = [desk EXCEPT ![v] = Nothing]
  /\ UNCHANGED <<code, conversion, day>>

NextDay ==
  /\ day < FinalDay
  /\ day' = day + 1
  /\ UNCHANGED <<code, conversion, desk>>

ReferralsInit ==
  /\ code = [c \in Codes |-> Nothing]
  /\ conversion = [v \in Visits |-> Nothing]
  /\ desk = [v \in Visits |-> Nothing]
  /\ day = 0

ReferralsNext ==
  \/ \E a \in Affiliates, x \in Texts, d \in TermInputs : create(a, x, d)
  \/ \E c \in Codes :
       \/ \E d \in TermInputs : updateTerms(c, d)
       \/ activate(c) \/ deactivate(c) \/ retire(c)
  \/ \E v \in Visits :
       \/ \E x \in Texts, a \in Affiliates, p \in Prices : prepare(v, x, a, p)
       \/ record(v) \/ abandon(v)
  \/ NextDay

ReferralsSpec == ReferralsInit /\ [][ReferralsNext]_referralVars

-----------------------------------------------------------------------------
(* Properties *)

\* A customer has at most one code that can ever be used again, whatever is
\* deactivated, retired and created in between, and a text never leads to two
\* codes nor, through a conversion recorded under it, to another owner than
\* the one it had.
OneCurrentCode ==
  /\ \A c, k \in Kept :
       (code[c].owner = code[k].owner /\ "RETIRED" \notin {code[c].status, code[k].status})
         => c = k
  /\ \A c, k \in Kept : code[c].text = code[k].text => c = k
  /\ \A v \in Visits : conversion[v] # Nothing =>
       \A c \in Kept : code[c].text = conversion[v].text =>
         c = conversion[v].of /\ code[c].owner = conversion[v].affiliate

\* The money of a conversion adds up for every history of its code's terms:
\* nobody earns on a booking of their own, price = discount + paid, the
\* commission is positive and no more than what was paid, a percentage is
\* rounded down by less than one unit, and the terms recorded have the fields
\* of their type only, nothing left over from earlier terms.
EconomicsSound ==
  \A v \in Visits : conversion[v] # Nothing =>
    LET r == conversion[v]
        m == r.money
        exact(part, value, base) ==
          part.type = "PERCENT" =>
            LET rest == base * part.bp - value * 10000 IN 0 <= rest /\ rest < 10000
    IN /\ r.affiliate # r.referred
       /\ m.gross = m.discount + m.final
       /\ 0 <= m.discount /\ 0 < m.commission /\ m.commission <= m.final
       /\ exact(r.terms.discount, m.discount, m.gross)
       /\ exact(r.terms.commission, m.commission, m.final)
       /\ fieldsValid(r.terms.discount) /\ fieldsValid(r.terms.commission)
=============================================================================

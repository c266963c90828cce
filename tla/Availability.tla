---------------------------- MODULE Availability ----------------------------
(***************************************************************************)
(* The slot calculator (src/availability/availability-calculator.ts) as    *)
(* pure operators.  Instants are naturals, counted in minutes; an interval *)
(* is a record [from, to] standing for from <= t < to.  One local day is   *)
(* modelled: DayStart and DayEnd are its first instant and the first       *)
(* instant after it, which is all the calculator looks at (it is called    *)
(* with one local date, already converted to instants by the location's    *)
(* time zone).                                                             *)
(***************************************************************************)
EXTENDS Naturals

CONSTANTS DayStart, DayEnd, \* bounds of the local day
          Step              \* STEP_MILLISECONDS, in minutes

ASSUME DayAssumption == DayStart \in Nat /\ DayEnd \in Nat /\ Step \in Nat \ {0}

Interval == [from : Nat, to : Nat]

\* Half-open intervals [startsAt, endsAt) and iv share an instant.
overlaps(startsAt, endsAt, iv) == iv.from < endsAt /\ iv.to > startsAt

\* An AVAILABLE exception, cut down to the day.
clipToDay(iv) == [from |-> IF iv.from > DayStart THEN iv.from ELSE DayStart,
                  to   |-> IF iv.to < DayEnd THEN iv.to ELSE DayEnd]

\* What a staff member works that day: schedule rows and AVAILABLE exceptions,
\* the empty and inverted ones dropped.  The intervals are not merged.
workingIntervals(schedule, available) ==
  {iv \in schedule \cup {clipToDay(x) : x \in available} : iv.from < iv.to}

\* Starting instants offered for a service of the given duration: every Step
\* from the start of a working interval, the whole service inside it, clear of
\* every UNAVAILABLE exception and of every active appointment in busy.
slots(working, busy, duration) ==
  UNION {{s \in iv.from .. iv.to :
            /\ (s - iv.from) % Step = 0
            /\ s + duration <= iv.to
            /\ \A b \in busy : ~overlaps(s, s + duration, b)} : iv \in working}
=============================================================================

------------------------------ MODULE Calendar ------------------------------
(***************************************************************************)
(* What the booking code promises a reader of the agenda, with no          *)
(* transactions, locks or retries in sight: appointments are booked into   *)
(* time their staff member has free, are moved only to time that is free,  *)
(* may be started, and end once, freeing their time for good.  Every       *)
(* change is one atomic step judged against the calendar at that moment.   *)
(***************************************************************************)
EXTENDS Naturals

CONSTANTS Appts, Staff, None

VARIABLE calendar \* [Appts -> entry or None]

Ends == {"CANCELLED", "COMPLETED", "NO_SHOW"}

Busy(a) == calendar[a] # None /\ calendar[a].phase \notin Ends

\* Staff member s is free in [from, to), appointment a itself aside.
Free(a, s, from, to) ==
  \A b \in Appts \ {a} :
    Busy(b) /\ calendar[b].staff = s =>
      calendar[b].to <= from \/ to <= calendar[b].from

Book(a) ==
  /\ calendar[a] = None
  /\ calendar'[a] # None
  /\ LET e == calendar'[a]
     IN e.phase = "BOOKED" /\ e.from < e.to /\ Free(a, e.staff, e.from, e.to)

Move(a) ==
  /\ calendar[a] # None
  /\ calendar[a].phase = "BOOKED"
  /\ calendar'[a] # None
  /\ LET e == calendar'[a]
     IN /\ e.phase = "BOOKED" /\ e.staff = calendar[a].staff
        /\ e.from < e.to /\ Free(a, e.staff, e.from, e.to)

Begin(a) ==
  /\ calendar[a] # None
  /\ calendar[a].phase = "BOOKED"
  /\ calendar'[a] = [calendar[a] EXCEPT !.phase = "RUNNING"]

End(a) ==
  /\ Busy(a)
  /\ \E outcome \in Ends :
       /\ outcome = "CANCELLED" => calendar[a].phase = "BOOKED"
       /\ calendar'[a] = [calendar[a] EXCEPT !.phase = outcome]

Init == calendar = [a \in Appts |-> None]

Next == \E a \in Appts : /\ Book(a) \/ Move(a) \/ Begin(a) \/ End(a)
                         /\ \A b \in Appts \ {a} : calendar'[b] = calendar[b]

Spec == Init /\ [][Next]_calendar
=============================================================================

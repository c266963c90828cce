----------------------------- MODULE MCBooking ------------------------------
(* Small instances of Booking for TLC. *)
EXTENDS Booking, TLC

\* One working interval for every staff member: the whole day but its first
\* minute, which is where the clock starts.
OneShift == [s \in Staff |-> {[from |-> 1, to |-> DayEnd]}]

\* A shift that leaves the last minute of the day out, an extra shift that
\* covers it and runs past midnight, and an absence over the same time.
ShortShift == [s \in Staff |-> {[from |-> 1, to |-> DayEnd - 1]}]
LateChanges == {[staff |-> s, kind |-> k, iv |-> [from |-> 2, to |-> DayEnd + 1]] :
                  s \in Staff, k \in {"AVAILABLE", "UNAVAILABLE"}}

NoExceptions == {}

Interchangeable == Permutations(Appts) \cup Permutations(Workers)
                   \cup Permutations(Keys)
=============================================================================

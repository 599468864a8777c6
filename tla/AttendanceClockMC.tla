-------------------------- MODULE AttendanceClockMC --------------------------
(* Values for checking AttendanceClock. *)
EXTENDS AttendanceClock

\* A break is cut off after two ticks, a BRB never (its limit is 0).
MCCutoff == [type \in {"BREAK", "BRB"} |-> IF type = "BREAK" THEN 2 ELSE 0]
=============================================================================

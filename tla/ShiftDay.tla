------------------------------- MODULE ShiftDay -------------------------------
(***************************************************************************)
(* Which calendar date a moment belongs to: lib/shiftDay.ts, with the      *)
(* conversions controllers/attendanceController.ts builds on it, lateness  *)
(* and the correction form's HH:mm.                                        *)
(*                                                                         *)
(* Time is the wall clock of the shift's own zone, a day number and a      *)
(* minute of that day, and it ticks.  A window is {startTime, endTime};    *)
(* base is the shift's own pair and dayTimes its per-weekday overrides,    *)
(* None where a weekday inherits the base.                                 *)
(***************************************************************************)
EXTENDS Integers

CONSTANTS
    DayLen,      \* minutes in a day: 1440 in the code
    Week,        \* weekdays: 7 in the code
    Overridden,  \* weekdays that can have times of their own
    GraceMin,    \* graceMin
    MaxDay       \* bound: the clock stops at the end of this day

ASSUME ShiftDayAssumption ==
    /\ DayLen \in Nat \ {0} /\ Week \in Nat \ {0}
    /\ Overridden \subseteq 0 .. Week - 1
    /\ GraceMin \in Nat /\ MaxDay \in Nat

VARIABLES base, dayTimes, day, minute
vars == <<base, dayTimes, day, minute>>

Minutes == 0 .. DayLen - 1
Window == [start : Minutes, end : Minutes]
None == [start |-> -1, end |-> -1]

\* A window that ends at or before its start crosses midnight.
IsOvernight(w) == w.end <= w.start

\* timesForWeekday, for the weekday of a date.
Times(d) == LET o == dayTimes[d % Week] IN IF o = None THEN base ELSE o

\* Faulty variant: the start time itself is the split.
OvernightCutoffAtStart(w) == w.start

\* The middle of the off-duty gap, for an overnight window.
OvernightCutoff(w) == w.end + (w.start - w.end) \div 2

\* Faulty variant: the middle is not brought back into the day.
DayCutoffUnwrapped(w) ==
    LET mid == w.end + (w.start + DayLen - w.end) \div 2
    IN  IF mid >= DayLen THEN mid ELSE 0

\* The same for a day window: 0 when the middle falls before midnight.
DayCutoff(w) ==
    LET mid == w.end + (w.start + DayLen - w.end) \div 2
    IN  IF mid >= DayLen THEN mid - DayLen ELSE 0

Cutoff(w) == IF IsOvernight(w) THEN OvernightCutoff(w) ELSE DayCutoff(w)

BelongsToPrevious(w, m) == m < Cutoff(w)

\* shiftDayString: decided by the base pair alone.
ShiftDate(m) == IF BelongsToPrevious(base, m) THEN day - 1 ELSE day
Today == ShiftDate(minute)

\* Faulty variant: the raw minute of the day, as if no shift crossed midnight.
AxisMinutesRaw(w, m) == m

\* shiftAxisMinutes, and isLate for a check-in at this moment.
AxisMinutes(w, m) == IF BelongsToPrevious(w, m) THEN m + DayLen ELSE m
Late == LET w == Times(Today) IN AxisMinutes(w, minute) > w.start + GraceMin

\* Faulty variant: the base pair instead of the date's own times.
InstantByBase(d, m) ==
    [day |-> IF IsOvernight(base) /\ m < base.start THEN d + 1 ELSE d, minute |-> m]

\* instantFrom: the moment (day and minute) that "HH:mm" m means on date d.
Instant(d, m) ==
    [day |-> IF BelongsToPrevious(Times(d), m) THEN d + 1 ELSE d, minute |-> m]

-----------------------------------------------------------------------------
\* Any pair of times the shift forms accept (HHMM).
Init ==
    /\ base \in Window
    /\ dayTimes \in [0 .. Week - 1 -> Window \cup {None}]
    /\ \A n \in 0 .. Week - 1 : n \notin Overridden => dayTimes[n] = None
    /\ day = 1 /\ minute = 0

Tick ==
    /\ minute < DayLen - 1
    /\ minute' = minute + 1
    /\ UNCHANGED <<base, dayTimes, day>>

Midnight ==
    /\ minute = DayLen - 1 /\ day < MaxDay
    /\ minute' = 0 /\ day' = day + 1
    /\ UNCHANGED <<base, dayTimes>>

Next == Tick \/ Midnight
Spec == Init /\ [][Next]_vars

-----------------------------------------------------------------------------
TypeOK ==
    /\ base \in Window
    /\ dayTimes \in [0 .. Week - 1 -> Window \cup {None}]
    /\ day \in Nat \ {0}
    /\ minute \in Minutes

\* Minutes since the shift of date d began, for d = today's date or the day before.
Elapsed(d) == (IF d = day THEN minute ELSE minute + DayLen) - Times(d).start

\* The length of a window, and whether the shift of date d is being worked now.
Length(w) == IF IsOvernight(w) THEN w.end + DayLen - w.start ELSE w.end - w.start
InProgress(d) == d \in {day - 1, day} /\ 0 <= Elapsed(d) /\ Elapsed(d) < Length(Times(d))

\* A window lies on one side of the split the base pair gives.
Fits(w) == Cutoff(base) <= w.start /\ (IsOvernight(w) => w.end <= Cutoff(base))
TimesFit == \A n \in 0 .. Week - 1 : dayTimes[n] # None => Fits(dayTimes[n])

\* "a check-out or break taken after midnight resolves to the same attendance
\* day as the evening check-in": while the shift of a date is being worked,
\* findToday looks at that date, provided that no weekday's own times straddle
\* the split of the base pair.  (Without the proviso it does not hold: the split
\* ignores dayTimes, so a night shift whose Friday runs 09:00-18:00 files
\* Friday's check-in under Thursday.)
ShiftIsOneDay ==
    TimesFit => \A d \in {day - 1, day} : InProgress(d) => Today = d

\* Off duty, a moment belongs to the nearer shift: an early check-in counts for
\* the shift about to start, a late check-out for the one that ended.  For a day
\* shift whose gap's middle falls before midnight nothing moves back.
NearestShift ==
    LET w == base
        gap == DayLen - Length(w)
        ended == minute - (IF IsOvernight(w) THEN w.end ELSE w.end - DayLen)
        toStart == w.start - minute
    IN  (ended >= 0 /\ toStart > 0) =>
          IF IsOvernight(w) \/ w.end + gap \div 2 >= DayLen
          THEN /\ Today = day - 1 => ended < toStart
               /\ Today = day => toStart <= ended + 1
          ELSE Today = day

\* A check-in while its shift is on is late exactly when more than the grace has
\* gone by since that shift began, also after midnight.
LateByTheClock ==
    TimesFit /\ InProgress(Today) => (Late <=> Elapsed(Today) > GraceMin)

\* The correction form: the HH:mm shown for a moment of the shift, saved
\* unchanged on the shift's date, is the same moment again.
CorrectionKeepsMoment ==
    TimesFit /\ InProgress(Today)
        => Instant(Today, minute) = [day |-> day, minute |-> minute]

=============================================================================

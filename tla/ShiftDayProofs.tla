--------------------------- MODULE ShiftDayProofs ----------------------------
(***************************************************************************)
(* The date arithmetic of ShiftDay, proved for a day of any length, any    *)
(* pair of start and end and any weekday overrides.  Nothing but the types *)
(* has to be invariant: every fact about a date follows from the state it  *)
(* is asked in, through where the split lies in the off-duty gap.          *)
(***************************************************************************)
EXTENDS ShiftDay, TLAPS

\* Every state is well typed.
THEOREM TypeCorrect == Spec => []TypeOK
<1> USE ShiftDayAssumption
<1>1. Init => TypeOK
  BY DEF Init, TypeOK, Minutes
<1>2. TypeOK /\ [Next]_vars => TypeOK'
  <2> SUFFICES ASSUME TypeOK, [Next]_vars PROVE TypeOK'
    OBVIOUS
  <2>1. CASE Tick
    BY <2>1 DEF Tick, TypeOK, Minutes
  <2>2. CASE Midnight
    BY <2>2 DEF Midnight, TypeOK, Minutes
  <2>3. CASE UNCHANGED vars
    BY <2>3 DEF vars, TypeOK
  <2> QED
    BY <2>1, <2>2, <2>3 DEF Next
<1> QED
  BY <1>1, <1>2, PTL DEF Spec

\* overnightCutoffMinutes and dayCutoffMinutes split the gap: never after the
\* next start, never before the end of a shift that crossed midnight.
LEMMA SplitInGap ==
  ASSUME NEW w \in Window
  PROVE  /\ Cutoff(w) \in Int
         /\ 0 <= Cutoff(w) /\ Cutoff(w) <= w.start
         /\ IsOvernight(w) => w.end <= Cutoff(w)
<1> USE ShiftDayAssumption
<1>0. w.start \in 0 .. DayLen - 1 /\ w.end \in 0 .. DayLen - 1
  BY DEF Window, Minutes
<1>1. CASE IsOvernight(w)
  BY <1>0, <1>1 DEF Cutoff, OvernightCutoff, IsOvernight
<1>2. CASE ~IsOvernight(w)
  BY <1>0, <1>2 DEF Cutoff, DayCutoff, IsOvernight
<1> QED
  BY <1>1, <1>2

\* The base pair lies on one side of its own split.
LEMMA BaseFits == TypeOK => Fits(base)
BY SplitInGap DEF TypeOK, Fits

\* timesForWeekday gives a window, and one that fits when all overrides do.
LEMMA TimesTyped ==
  ASSUME TypeOK, NEW d \in Nat
  PROVE  Times(d) \in Window /\ (TimesFit => Fits(Times(d)))
<1> USE ShiftDayAssumption
<1>1. d % Week \in 0 .. Week - 1
  OBVIOUS
<1>2. dayTimes[d % Week] \in Window \cup {None}
  BY <1>1 DEF TypeOK
<1>3. CASE dayTimes[d % Week] = None
  BY <1>3, BaseFits DEF Times, TypeOK
<1>4. CASE dayTimes[d % Week] # None
  BY <1>1, <1>2, <1>4 DEF Times, TimesFit
<1> QED
  BY <1>3, <1>4

\* A shift in progress is filed under its own date.
LEMMA InProgressIsToday ==
  ASSUME TypeOK, TimesFit, NEW d \in {day - 1, day}, InProgress(d)
  PROVE  Today = d
<1> USE ShiftDayAssumption
<1>1. d \in Nat /\ day \in Nat /\ minute \in 0 .. DayLen - 1
  BY DEF TypeOK, Minutes
<1>2. Times(d) \in Window /\ Fits(Times(d))
  BY <1>1, TimesTyped
<1> DEFINE w == Times(d)
<1>3. w.start \in 0 .. DayLen - 1 /\ w.end \in 0 .. DayLen - 1
  BY <1>2 DEF Window, Minutes
<1>4. Cutoff(base) \in Int
  BY SplitInGap DEF TypeOK
<1>5. 0 <= Elapsed(d) /\ Elapsed(d) < Length(w)
  BY DEF InProgress
<1>6. Cutoff(base) <= w.start /\ (IsOvernight(w) => w.end <= Cutoff(base))
  BY <1>2 DEF Fits
<1> HIDE DEF w
<1>7. Elapsed(d) = (IF d = day THEN minute ELSE minute + DayLen) - w.start
  BY DEF Elapsed, w
<1>8. CASE d = day
  <2>1. ~(minute < Cutoff(base))
    BY <1>1, <1>3, <1>4, <1>5, <1>6, <1>7, <1>8
  <2> QED
    BY <2>1, <1>8 DEF Today, ShiftDate, BelongsToPrevious
<1>9. CASE d # day
  <2>1. d = day - 1
    BY <1>9
  <2>2. minute < Cutoff(base)
    BY <1>1, <1>3, <1>4, <1>5, <1>6, <1>7, <1>9 DEF Length, IsOvernight
  <2> QED
    BY <2>1, <2>2 DEF Today, ShiftDate, BelongsToPrevious
<1> QED
  BY <1>8, <1>9

\* While the shift of a date is being worked, that date is the attendance day,
\* for every schedule whose weekdays fit the base pair's split.
THEOREM ShiftIsAlwaysOneDay == Spec => []ShiftIsOneDay
<1>1. TypeOK => ShiftIsOneDay
  BY InProgressIsToday DEF ShiftIsOneDay
<1> QED
  BY <1>1, TypeCorrect, PTL

\* Off duty, the date is that of the nearer shift.
THEOREM AlwaysNearestShift == Spec => []NearestShift
<1> USE ShiftDayAssumption
<1>1. TypeOK => NearestShift
  <2> SUFFICES ASSUME TypeOK PROVE NearestShift
    OBVIOUS
  <2>1. /\ day \in Nat /\ minute \in 0 .. DayLen - 1
        /\ base.start \in 0 .. DayLen - 1 /\ base.end \in 0 .. DayLen - 1
    BY DEF TypeOK, Minutes, Window
  <2>2. day - 1 # day
    BY <2>1
  <2>3. CASE IsOvernight(base)
    BY <2>1, <2>2, <2>3 DEF NearestShift, Today, ShiftDate, BelongsToPrevious,
       Cutoff, OvernightCutoff, Length, IsOvernight
  <2>4. CASE ~IsOvernight(base)
    BY <2>1, <2>2, <2>4 DEF NearestShift, Today, ShiftDate, BelongsToPrevious,
       Cutoff, DayCutoff, Length, IsOvernight
  <2> QED
    BY <2>3, <2>4
<1> QED
  BY <1>1, TypeCorrect, PTL

\* In a window of its own, a moment that is being worked is on the right side of
\* that window's split too.
LEMMA OwnSplit ==
  ASSUME TypeOK, TimesFit, NEW d \in {day - 1, day}, InProgress(d)
  PROVE  BelongsToPrevious(Times(d), minute) <=> d = day - 1
<1> USE ShiftDayAssumption
<1>1. d \in Nat /\ day \in Nat /\ minute \in 0 .. DayLen - 1
  BY DEF TypeOK, Minutes
<1> DEFINE w == Times(d)
<1>2. w \in Window
  BY <1>1, TimesTyped
<1>3. w.start \in 0 .. DayLen - 1 /\ w.end \in 0 .. DayLen - 1
  BY <1>2 DEF Window, Minutes
<1>4. /\ Cutoff(w) \in Int /\ Cutoff(w) <= w.start
      /\ IsOvernight(w) => w.end <= Cutoff(w)
  BY <1>2, SplitInGap
<1>5. 0 <= Elapsed(d) /\ Elapsed(d) < Length(w)
  BY DEF InProgress
<1>6. Elapsed(d) = (IF d = day THEN minute ELSE minute + DayLen) - w.start
  BY DEF Elapsed
<1> HIDE DEF w
<1>7. (minute < Cutoff(w)) <=> d = day - 1
  BY <1>1, <1>3, <1>4, <1>5, <1>6 DEF Length, IsOvernight
<1> QED
  BY <1>7 DEF BelongsToPrevious, w

\* Lateness counts the minutes since the shift began, across midnight too.
THEOREM AlwaysLateByTheClock == Spec => []LateByTheClock
<1> USE ShiftDayAssumption
<1>1. TypeOK => LateByTheClock
  <2> SUFFICES ASSUME TypeOK, TimesFit, InProgress(Today)
               PROVE  Late <=> Elapsed(Today) > GraceMin
    BY DEF LateByTheClock
  <2>1. Today \in {day - 1, day}
    BY DEF InProgress
  <2>2. BelongsToPrevious(Times(Today), minute) <=> Today = day - 1
    BY <2>1, OwnSplit
  <2>3. Today \in Nat /\ day \in Nat /\ minute \in 0 .. DayLen - 1
    BY <2>1 DEF TypeOK, Minutes
  <2>4. Times(Today).start \in 0 .. DayLen - 1
    BY <2>3, TimesTyped DEF Window, Minutes
  <2> QED
    BY <2>1, <2>2, <2>3, <2>4 DEF Late, AxisMinutes, Elapsed
<1> QED
  BY <1>1, TypeCorrect, PTL

\* A correction saved unchanged is the same moment.
THEOREM AlwaysCorrectionKeepsMoment == Spec => []CorrectionKeepsMoment
<1>1. TypeOK => CorrectionKeepsMoment
  <2> SUFFICES ASSUME TypeOK, TimesFit, InProgress(Today)
               PROVE  Instant(Today, minute) = [day |-> day, minute |-> minute]
    BY DEF CorrectionKeepsMoment
  <2>1. Today \in {day - 1, day}
    BY DEF InProgress
  <2>2. BelongsToPrevious(Times(Today), minute) <=> Today = day - 1
    BY <2>1, OwnSplit
  <2>3. day \in Nat
    BY DEF TypeOK
  <2> QED
    BY <2>1, <2>2, <2>3 DEF Instant
<1> QED
  BY <1>1, TypeCorrect, PTL

=============================================================================

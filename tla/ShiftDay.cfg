SPECIFICATION Spec
CONSTANTS
    DayLen = 10
    Week = 2
    Overridden <- MCOverridden
    GraceMin = 1
    MaxDay = 3
INVARIANTS ShiftIsOneDay NearestShift LateByTheClock CorrectionKeepsMoment
CHECK_DEADLOCK FALSE

------------------------------ MODULE ShiftDayMC ------------------------------
\* A day of ten minutes: every pair of start and end, with and without times of
\* its own on one weekday of two.
EXTENDS ShiftDay
MCOverridden == {1}
=============================================================================

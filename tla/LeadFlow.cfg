SPECIFICATION FairFlow
CONSTANTS
    Requests = {q1, q2}
    Managers = 2
    Reps = {r1}
    NoRep = NoRep
    Ticks = {t1, t2}
    MaxRequests = 3
INVARIANTS
    FlaggedHasReview
PROPERTIES
    WaitingIsAlertedOnce
CHECK_DEADLOCK FALSE

SPECIFICATION FairSpec
CONSTANTS
    Plans = {"starter", "business"}
    MaxJobs = 2
    MaxMessages = 2
    MaxFaults = 1
    MaxWishes = 1
    FirstPlan = "starter"
    MaxTime = 2
CHECK_DEADLOCK FALSE
INVARIANTS
    AnsweredWasApplied
    PlanFollowsPayment
PROPERTIES
    SuspendedStays
    GraceIsKept
    AllIsAnswered

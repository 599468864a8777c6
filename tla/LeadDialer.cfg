SPECIFICATION FairSpec
CONSTANTS
    Requests = {j1, j2}
    Cron = Cron
    Calls = {c1}
    TaskIds = {1, 2, 3}
    Nobody = Nobody
    MaxRequests = 2
INVARIANTS
    OneOpenTask
    CallCountsOnce
PROPERTIES
    BlockedLeavesDialing
    CallBackHasTask
CHECK_DEADLOCK FALSE

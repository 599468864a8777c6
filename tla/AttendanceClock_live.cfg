SPECIFICATION FairSpec
CONSTANTS
    Reqs = {r1}
    RowIds = {1, 2}
    BreakIds = {1}
    MaxTime = 3
    DayLen = 3
    Span = 2
    OvertimeMax = 1
    RestartWindow = 1
    MaxLive = 1
    Cutoff <- MCCutoff
    Zones = {0, 1}
    OffDates = {}
    Latency = 1
    MaxDisruptions = 1
PROPERTIES
    SessionsEnd
    BreaksEnd
    KeepsPromise
CHECK_DEADLOCK FALSE

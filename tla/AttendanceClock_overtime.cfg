SPECIFICATION Spec
CONSTANTS
    Reqs = {r1}
    RowIds = {1, 2}
    BreakIds = {1, 2}
    MaxTime = 4
    DayLen = 3
    Span = 2
    OvertimeMax = 1
    RestartWindow = 1
    MaxLive = 3
    Cutoff <- MCCutoff
    Zones = {0}
    OffDates = {}
    Latency = 0
    MaxDisruptions = 1
PROPERTIES
    OvertimeKeepsDayOpen
CHECK_DEADLOCK FALSE

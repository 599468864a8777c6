SPECIFICATION FairSpec
CONSTANTS
    Runs = {n1, n2}
    Tasks = {t1}
    MaxSwitches = 1
    MaxRestarts = 1
INVARIANTS
    PostedOnce
PROPERTIES
    SuccessKeepsLinks
    NotesAreStarted
    PendingEnds
CHECK_DEADLOCK FALSE

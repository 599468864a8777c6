SPECIFICATION Spec
CONSTANTS
    Staff = {m1, m2}
    FirstMembers = {m1, m2}
    Guests = {}
    Joiners = {m1, m2}
    CallIds = {1, 2}
    MaxParticipants = 2
    MaxWaiting = 1
    GroupChat = FALSE
    MaxCrashes = 1
    NoOne = NoOne
    NoCall = NoCall
INVARIANTS
    TypeOK
    OneCall
    RowsFollowLive
    EveryPairConnected
SYMMETRY Anyone
CHECK_DEADLOCK FALSE

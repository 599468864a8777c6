SPECIFICATION FairSpec
CONSTANTS
    Staff = {m1, m2}
    FirstMembers = {m1, m2}
    Guests = {g1}
    Joiners = {m1}
    CallIds = {1, 2}
    MaxParticipants = 2
    MaxWaiting = 1
    GroupChat = TRUE
    MaxCrashes = 1
    NoOne = NoOne
    NoCall = NoCall
INVARIANTS
    GuestsWereAdmitted
PROPERTIES
    AbandonedCallsEnd
    StartIsAnswered
CHECK_DEADLOCK FALSE

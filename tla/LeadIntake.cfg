SPECIFICATION FairSpec
CONSTANTS
    ann = ann
    f1 = f1
    bot = bot
    blank = blank
    MaxMail = 4
    OldMail = 1
    Posts = {f1, bot, blank}
    Trapped = {bot}
    Empty = {blank}
    People = {ann}
    Automatic = Automatic
    From <- MCFrom
    LeadIds = {L1, L2, L3}
    NoLead = NoLead
    Round = 2
    MaxFaults = 2
    MaxTurns = 1
INVARIANTS
    NoMailPassed
    AnsweredIsKept
PROPERTIES
    MailBecomesLead
CHECK_DEADLOCK FALSE

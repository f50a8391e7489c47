CONSTANTS
    Token = {t1, t2}
    Local = {t2}
    Caller = {FALSE}
    Session = {s1, s2}
    NoSession = NoSession
    MaxItems = 2
    Capacity = 2
    ReaderCeiling = 2
    Credits = 1
    TicketMax = 1
    StatusMax = 2
    MayRaise = FALSE
SPECIFICATION FairSpec
CHECK_DEADLOCK FALSE
INVARIANTS
    PermitsMatch
    OneSender
    OnlyWhole
    LiveStatus
PROPERTIES
    OutcomeLands
    AllReturned
    ImplementsTicketUse

CONSTANTS
    MaxEvent = 3
    Own = {2}
    Sockets = 3
    QueueMax = 2
    MaxConnections = 2
    MaxFaults = 2
SPECIFICATION FairSpec
CHECK_DEADLOCK FALSE
INVARIANTS
    GetsAllInOrder
    TimerRuns
PROPERTIES
    ChannelRecovers

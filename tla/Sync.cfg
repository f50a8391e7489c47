CONSTANTS
    Photo = {p1, p2}
    DateOf <- Dates
    Dir = {d1, d2}
    NoDir = NoDir
    SourceDir = {d1}
    Overlap <- SameOnly
    Runner = {"worker", "manual"}
    Scheduled = "worker"
    Lookback = 1
    LookbackMax = 2
    MaxDay = 2
    p1 = p1
    p2 = p2
SPECIFICATION MCSpec
CHECK_DEADLOCK FALSE
INVARIANTS
    RunsExclude
    
PROPERTIES
    CompletedMeansCopied
    RunEnds

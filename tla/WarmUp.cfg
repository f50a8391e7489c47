CONSTANTS
    Date = {f1, f2}
    Sub = {s1, s2}
    Root = Root
    Worker = {w1, w2}
    NoWorker = NoWorker
    Photos = 2
    QueueMax = 2
    SubMax = 1
    MaxAttempts = 2
SPECIFICATION FairSpec
INVARIANTS
    KnownMatches
    NotStranded
    OneWorker
PROPERTIES
    KnownEnds

CONSTANTS
    MaxJobs = 2
    Part = {P1, P2}
    NoPart = NoPart
    Suffix = {blank}
    NoSuffix = blank
    Worker = {w1, w2}
    MaxTicks = 3
SPECIFICATION Spec
INVARIANTS
    TwinsAreMistaken
    LastReviewCarried
CHECK_DEADLOCK FALSE
SYMMETRY Symmetric

CONSTANTS
    r1 = r1
    r2 = r2
    r3 = r3
    b1 = b1
    b2 = b2
    Row = {r1, r2, r3}
    Job = {j1, j2}
    Ident = {i1, i2}
    NoIdent = NoIdent
    NoJob = NoJob
    NoRow = NoRow
    Batch = {b1, b2}
    BatchOf <- OneBatch
    KindOf <- OneLive
    Worker = {w1}
    Overrides = {}
    Cells = {"invalid", "blank"}
    RestoreActions = {}
    MayFail = FALSE
    MaxJobDiscards = 0
SPECIFICATION FairSpec
CHECK_DEADLOCK FALSE
INVARIANTS
    NoLoneMember
    NoPhantomJob
PROPERTIES
    LoneMemberIsSettled

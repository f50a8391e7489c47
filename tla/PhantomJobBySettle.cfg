CONSTANTS
    r1 = r1
    r2 = r2
    r3 = r3
    b1 = b1
    b2 = b2
    Row = {r1, r2}
    Job = {j1, j2, j3}
    Ident = {i1, i2}
    NoIdent = NoIdent
    NoJob = NoJob
    NoRow = NoRow
    Batch = {b1, b2}
    BatchOf <- OneBatch
    KindOf <- OneLive
    Worker = {w1}
    Overrides = {}
    Cells = {"invalid", "badship", "blank", "dated"}
    RestoreActions = {}
    MayFail = FALSE
    MaxJobDiscards = 1
SPECIFICATION Spec
CHECK_DEADLOCK FALSE
INVARIANT
    NoPhantomJob

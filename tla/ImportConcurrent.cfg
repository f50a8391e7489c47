CONSTANTS
    r1 = r1
    r2 = r2
    r3 = r3
    b1 = b1
    b2 = b2
    i1 = i1
    i2 = i2
    i3 = i3
    p1 = p1
    p2 = p2
    f1 = f1
    f2 = f2
    Row = {r1, r2}
    Job = {j1, j2, j3}
    Ident = {i1, i2}
    NoIdent = NoIdent
    NoJob = NoJob
    NoRow = NoRow
    Batch = {b1}
    NoBatch = NoBatch
    BatchOf <- Batches
    FileOf <- Files
    KindOf <- Live
    Position <- Positions
    PartOf <- Parts
    Mentions <- FirstPart
    Part = {p1}
    Worker = {w1, w2}
    Cells = {"blank", "dated"}
    MayRename = TRUE
    MayForce = TRUE
    MayFail = TRUE
    Threshold = 3
SPECIFICATION Spec
SYMMETRY Symmetry
CHECK_DEADLOCK FALSE
INVARIANTS
    OneActiveJobPerIdentity

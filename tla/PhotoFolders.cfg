CONSTANTS
    Dir = {d1, d2}
    NoDir = NoDir
    Date = {f1}
    Sub = {s1}
    Root = Root
    Client = {c1, c2}
    MaxKeys = 1
SPECIFICATION FoldersFairSpec
INVARIANTS
    FreshNames
    FileIndexFollowsDir
PROPERTIES
    IndexCatchesUp

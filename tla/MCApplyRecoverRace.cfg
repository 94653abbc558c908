CONSTANTS
    h1 = h1
    h2 = h2
    s1 = s1
    b1 = b1
    b2 = b2
    bx = bx
    HttpNames = {h1, h2}
    StreamNames = {s1}
    Bodies = {b1, b2, bx}
    Unlintable = {bx}
    Foreign = Foreign
    NoFile = NoFile
    NoBackup = NoBackup
    Down = Down
    Targets <- MCTargets
    InitTrees <- MCEndInitTrees
    OperatorNames = {}
    OperatorContents <- MCOperatorContents
    ValidTree <- MCValidTree
    Overlaps = {"recover"}

SPECIFICATION Spec
INVARIANTS
    Recoverable
CHECK_DEADLOCK FALSE

CONSTANTS
    g1 = g1
    g2 = g2
    Hosts = {g1, g2}
    Half = Half
    LastSecond = 2
    MaxEdits = 2
    MaxFaults = 1
    HandEdits = FALSE

SYMMETRY HostSymmetry
SPECIFICATION Spec
INVARIANTS
    TypeOK
    PendingEditsShow
    ReportIsMine

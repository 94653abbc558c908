CONSTANTS
    g1 = g1
    g2 = g2
    Hosts = {g1, g2}
    Half = Half
    LastSecond = 2
    MaxEdits = 2
    MaxFaults = 0
    HandEdits = FALSE

SPECIFICATION Spec
INVARIANTS
    NoUnreviewedPush

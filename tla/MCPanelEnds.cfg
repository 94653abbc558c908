CONSTANTS
    g1 = g1
    g2 = g2
    Hosts = {g1}
    Half = Half
    LastSecond = 1
    MaxEdits = 1
    MaxFaults = 1
    HandEdits = TRUE

SPECIFICATION FairSpec
PROPERTIES
    RequestEnds
    HttpsActivates

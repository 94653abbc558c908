SPECIFICATION MCSpec
CONSTANTS
    Requests = {r1, r2}
    d1 = d1
    d2 = d2
    p1 = p1
    p2 = p2
    tcp = tcp
    udp = udp
    Shapes <- MCShapes
    Passwords = {p1, p2}
    Docs <- MCDocs
    MaxRows = 1
    MaxCerts = 2
    MaxLists = 2
    Serial <- OneEditor
SYMMETRY Symmetry
INVARIANTS
    TypeOK
    UniqueClaims
    NoOrphanCert
    AccessKept
PROPERTY
    PasswordKept AtomicSpec
CHECK_DEADLOCK FALSE

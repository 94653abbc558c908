SPECIFICATION Spec
CONSTANTS
    Requests = {r1, r2}
    Emails = {a, b}
    SetupTokens = {t1}
    Secrets = {s1, s2}
    MaxUsers = 2
    MaxCreds = 1
    Apart <- KeptApart
    ReadsFail = FALSE
SYMMETRY Symmetry
INVARIANTS
    TypeOK
    SetupPathExists
    LocalTokenMatches
    OnlyAdminsMutate
PROPERTIES
    AdminRemains
    NoOrphans
CHECK_DEADLOCK FALSE

SPECIFICATION MCSpec
CONSTANTS
    Databases <- MCDatabases
    Edits <- MCEdits
    AllowLoopback = FALSE
INVARIANTS
    TypeOK
    Resolves
    GatesHold
    HeadersCoexist
    LintClean

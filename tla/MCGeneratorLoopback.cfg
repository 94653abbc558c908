SPECIFICATION MCSpec
CONSTANTS
    Databases <- MCDatabases
    Edits <- MCEdits
    AllowLoopback = TRUE
INVARIANT
    LintClean

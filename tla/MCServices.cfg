SPECIFICATION MCSpec
CONSTANTS
    Requests = {r1, r2}
    Fields = {f1, f2}
    e1 = e1
    e2 = e2
    Pairs = {e1, e2}
    Tokens = {t1, t2}
    Imports <- MCImports
    MaxProfiles = 2
    MaxCerts = 1
    Apart <- Unsafe
    Servers = {s1, s2}
    Timeout = 3
    Interval = 2
    ReadTimeout = 8
    PluginTime = 3
    DiscoveryTime = 2
    RoundTime = 2
    Hosts = {h1, h2}
    CheckInterval = 2
    Retention = 3
    ProbeTimeout = 1
    MaxConcurrent = 1
    MaxFaults = 1
INVARIANTS
    SecretsAreTheirs
    CertsCanIssue
    TokenStable
    AnswersInTime
PROPERTIES
    EabKept
    SealedAtRest
    ConfirmedIsLive
    BeatsSpaced
    HistoryKept
    ChecksRun
CHECK_DEADLOCK FALSE

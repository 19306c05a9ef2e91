SPECIFICATION Spec
CONSTANTS
    r1 = r1
    r2 = r2
    c1 = c1
    c2 = c2
    c3 = c3
    Replica = {r1, r2}
    Challenge = {c1, c2}
    Call = {k1, k2}
    Asks <- RoutedAsks
    Skew <- NoSkew
    HeartbeatInterval = 2
    StaleAfter = 7
    PollInterval = 1
    RequestTimeout = 3
    RequestTTL = 6
    LeaseDuration = 4
    BatchSize = 1
    LauncherTimeout = 3
    ShutdownTimeout = 2
    Prompt = TRUE
    MintTime = 3
    Stoppable = {}
    MaxTime = 8
    LastStart = 0
    LastCall = 3
    MaxFaults = 0
    MaxCrashes = 0
SYMMETRY CallSymmetry
INVARIANTS
    WorkFitsLease

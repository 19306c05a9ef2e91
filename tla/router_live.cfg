SPECIFICATION FairSpec
CONSTANTS
    r1 = r1
    r2 = r2
    c1 = c1
    c2 = c2
    c3 = c3
    Replica = {r1, r2}
    Challenge = {c1}
    Call = {k1}
    Asks <- AsksForOne
    Skew <- NoSkew
    HeartbeatInterval = 2
    StaleAfter = 3
    PollInterval = 1
    RequestTimeout = 2
    RequestTTL = 5
    LeaseDuration = 1
    BatchSize = 1
    LauncherTimeout = 1
    ShutdownTimeout = 2
    Prompt = TRUE
    MintTime = 1
    Stoppable = {}
    MaxTime = 9
    LastStart = 0
    LastCall = 4
    MaxFaults = 1
    MaxCrashes = 1
PROPERTIES
    EveryCallReturns
    OrphansVanish
    LeaseRecovers

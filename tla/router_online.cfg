\* One owner, one other replica whose clock is ahead.  Options that meet InTime;
\* the time limits are shorter in proportion than the defaults, so that requests
\* expire and owners are forgotten within the modelled time.
SPECIFICATION Spec
CONSTANTS
    r1 = r1
    r2 = r2
    c1 = c1
    c2 = c2
    c3 = c3
    Replica = {r1, r2}
    Challenge = {c1, c2}
    Call = {k1, k2}
    Asks <- RoutedAsks
    Skew <- R2Ahead
    HeartbeatInterval = 2
    StaleAfter = 5
    PollInterval = 1
    RequestTimeout = 5
    RequestTTL = 5
    LeaseDuration = 5
    BatchSize = 1
    LauncherTimeout = 4
    ShutdownTimeout = 1
    Prompt = TRUE
    MintTime = 1
    Stoppable = {r1}
    MaxTime = 6
    LastStart = 0
    LastCall = 5
    MaxFaults = 0
    MaxCrashes = 1
SYMMETRY FullSymmetry
INVARIANTS
    OnlineOwnerAnswers
    DrainSurvivesHeartbeat
    DeadOwnerForgotten

\* A lease that is over before the request expires, so that work is claimed again.
SPECIFICATION Spec
CONSTANTS
    r1 = r1
    r2 = r2
    c1 = c1
    c2 = c2
    c3 = c3
    Replica = {r1, r2}
    Challenge = {c1}
    Call = {k1, k2}
    Asks <- AsksForOne
    Skew <- NoSkew
    HeartbeatInterval = 2
    StaleAfter = 3
    PollInterval = 1
    RequestTimeout = 2
    RequestTTL = 3
    LeaseDuration = 1
    BatchSize = 1
    LauncherTimeout = 2
    ShutdownTimeout = 2
    Prompt = TRUE
    MintTime = 2
    Stoppable = {}
    MaxTime = 5
    LastStart = 0
    LastCall = 4
    MaxFaults = 1
    MaxCrashes = 0
SYMMETRY CallSymmetry
INVARIANTS
    AnswersArchived
    AnswersAgree
    CompleteHasProof
    RoutedMintNeeded
PROPERTIES
    ImplementsLedger

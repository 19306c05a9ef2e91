\* DefaultRouterOptions in units of five seconds.  Two values differ from the
\* code's: the poll, every fifth of a second, is rounded up to a unit; and a
\* request expires after four units instead of six, so that with three keys one
\* of them expires before the loop comes to it.
SPECIFICATION Spec
CONSTANTS
    Keys = {c1, c2, c3}
    NoKey = NoKey
    HeartbeatInterval = 2
    StaleAfter = 7
    PollInterval = 1
    RequestTimeout = 3
    RequestTTL = 4
    LeaseDuration = 4
    MaxTime = 13
SYMMETRY KeySymmetry
INVARIANTS
    LateOnlyForWork
    RowsVanish
\* The end of the modelled time.
CHECK_DEADLOCK FALSE

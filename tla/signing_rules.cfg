\* All rules files of up to four patterns, compiled in all orders.
SPECIFICATION Spec
CONSTANTS
    Static = {"a", "b", "c", "empty"}
    Parameter = {"{x}", "{y}"}
    Malformed = {"{"}
    Extractor = {"chat"}
    Files <- MCFiles
    Path <- MCPath
INVARIANTS
    StartsIfSound
    MatchIsMostSpecific
\* Start-up ends.
CHECK_DEADLOCK FALSE

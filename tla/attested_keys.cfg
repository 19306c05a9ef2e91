\* Two machines, one of which may be started twice and be signalled, and two
\* customers, one of whom has used the proxy.
SPECIFICATION KeysSpec
CONSTANTS
    m1 = m1  m2 = m2  c1 = c1  c2 = c2
    Machine = {m1, m2}
    Customer = {c1, c2}
    Settings <- MCSettings
    Stoppable = {m1}
    Policy <- MCPolicy
    Startup = Startup
    NoKey = NoKey
    Stranger <- MCStranger
    MaxRuns <- MCMaxRuns
    MaxFaults = 1
    Users = {c1}
INVARIANTS
    FailClosed
    AcceptedIsGenuine
    HonestAccepted
    AnswersAsked
PROPERTIES
    SeenRefKnown
    SignalledEnds
\* Processes end and customers decide.
CHECK_DEADLOCK FALSE

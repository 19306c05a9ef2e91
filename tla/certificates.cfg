\* A proxy that creates its CA, another that loads it, two connections.
SPECIFICATION ComposedSpec
CONSTANTS
    Connections = {c1, c2}
    Hosts = {h1, h2}
    Free = Free
    Loaders = {production}
    Creators = {development}
    Provisioned = {good, bad}
    Unfit = {bad}
    MaxChanges = 2
    Server = development
INVARIANTS
    OneCertificate
    RunsOnFiles
    ClientsTrust
PROPERTIES
    PairKept
    FetchReturns

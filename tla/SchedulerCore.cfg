SPECIFICATION AllSpec
CONSTANTS
    Workers = {w1, w2, w3}
    NoWorker = none
    MaxCrashes = 2
    Servers = {w1, w2}
    Limit = 2
    Window = 2
    MaxFaults = 1
    PayCalls = {c1, c2, c3}
    FailureThreshold = 3
    SuccessThreshold = 2
    Pages = {p1}
    Asks = {q1, q2}
    Generations = {g1, g2, g3}
    NoGeneration = none
INVARIANTS
    IInv
    InfraInv
PROPERTIES
    DueJobRuns
    BlockedEnds
    Recovers
    RequestsEnd

\* Two workers at different distances: telemetry, shutdown, reaping, new
\* certificates and one fault of any kind race with a dispatch.
SPECIFICATION FairSpec
CONSTANTS
    w1 = w1
    w2 = w2
    Workers <- MCWorkers
    NoWorker = NoWorker
    Dispatches = {d1}
    Distance <- MCDistance
    NeedsCapacity = TRUE
    Capable = {w1}
    DevWorker = w1
    AutoGenerateCerts = {TRUE, FALSE}
    StaleTimeout = 1
    Faults = {"lost", "late", "restart", "operator"}
    MaxFaults = 1
INVARIANTS
    TypeOK
    NoSecondTry
    SelfDrainRespected
PROPERTIES
    WorkerReturns
    DeadForgotten
    DispatchEnds

\* An operator drains a worker that stays up.
SPECIFICATION Spec
CONSTANTS
    w1 = w1
    w2 = w2
    Workers <- MCWorkers
    NoWorker = NoWorker
    Dispatches = {d1}
    Distance <- MCDistance
    NeedsCapacity = TRUE
    Capable = {w1}
    DevWorker = w1
    AutoGenerateCerts = {FALSE}
    StaleTimeout = 2
    Faults = {"operator"}
    MaxFaults = 1
INVARIANTS
    DrainRespected

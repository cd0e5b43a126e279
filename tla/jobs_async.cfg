\* Asynchronous jobs only: two jobs, recovery, crashes of master and workers.
SPECIFICATION Spec
CONSTANTS
    ReqIDs = {r1, r2}
    Fps = {f1}
    NoFp = NoFp
    NoID = NoID
    MaxAttempts = 2
    Handlers = {}
    Recovery = recovery
    Slots = {s1, s2}
    NoSlot = NoSlot
    MaxWorkers = 1
    LeaseTTL = 1
    BatchSize = 2
    Large <- NoneLarge
    Faults = {"callback", "late", "worker", "crash", "store"}
    MaxFaults = 2
SYMMETRY Perms
CHECK_DEADLOCK FALSE
INVARIANTS
    AtMostOneRun
    AttemptsBounded
PROPERTIES
    AmbiguousNotReplayed
    SucceededIsFinalWithoutFaults

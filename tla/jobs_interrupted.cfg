\* One asynchronous job whose /invoke connection breaks.
SPECIFICATION Spec
CONSTANTS
    ReqIDs = {r1}
    Fps = {f1}
    NoFp = NoFp
    NoID = NoID
    MaxAttempts = 2
    Handlers = {}
    Recovery = recovery
    Slots = {s1, s2}
    NoSlot = NoSlot
    MaxWorkers = 2
    LeaseTTL = 1
    BatchSize = 2
    Large <- NoneLarge
    Faults = {"transport"}
    MaxFaults = 2
SYMMETRY Perms
CHECK_DEADLOCK FALSE
PROPERTIES
    SucceededIsFinal

\* Two clients retry the same failed request at the same time.
SPECIFICATION Spec
CONSTANTS
    ReqIDs = {r1}
    Fps = {f1}
    NoFp = NoFp
    NoID = NoID
    MaxAttempts = 2
    Handlers = {h1, h2}
    Recovery = recovery
    Slots = {s1, s2}
    NoSlot = NoSlot
    MaxWorkers = 2
    LeaseTTL = 1
    BatchSize = 2
    Large <- NoneLarge
    Faults = {}
    MaxFaults = 2
SYMMETRY Perms
CHECK_DEADLOCK FALSE
INVARIANTS
    AttemptsBounded

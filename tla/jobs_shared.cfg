\* Two execute handlers, recovery and every kind of fault on one request id.
SPECIFICATION Spec
CONSTANTS
    ReqIDs = {r1}
    Fps = {f1, f2}
    NoFp = NoFp
    NoID = NoID
    MaxAttempts = 2
    Handlers = {h1, h2}
    Recovery = recovery
    Slots = {s1, s2}
    NoSlot = NoSlot
    MaxWorkers = 1
    LeaseTTL = 1
    BatchSize = 1
    Large <- NoneLarge
    Faults = {"transport", "cancel", "callback", "late", "worker", "crash", "stop", "store"}
    MaxFaults = 1
SYMMETRY Perms
CHECK_DEADLOCK FALSE
INVARIANTS
    TypeOK
    PersistedBeforeDispatch
    ResponseMatchesRequest
    SucceededIsReplayable
    LeasedIffDispatching
    RunsCounted
PROPERTIES
    ImplementsJobService

\* Progress of synchronous and asynchronous jobs when processes die.
SPECIFICATION FairSpec
CONSTANTS
    ReqIDs = {r1}
    Fps = {f1, f2}
    NoFp = NoFp
    NoID = NoID
    MaxAttempts = 2
    Handlers = {h1}
    Recovery = recovery
    Slots = {s1, s2}
    NoSlot = NoSlot
    MaxWorkers = 1
    LeaseTTL = 1
    BatchSize = 1
    Large <- OneLarge
    Faults = {"transport", "cancel", "callback", "late", "worker", "crash", "stop", "store"}
    MaxFaults = 1
CHECK_DEADLOCK FALSE
PROPERTIES
    JobsSettle

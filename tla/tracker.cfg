\* Three handlers, more requests than the tracker may keep.
SPECIFICATION Spec
CONSTANTS
    ReqIDs = {r1, r2, r3}
    Fps = {f1, f2}
    NoFp = NoFp
    NoID = NoID
    Handlers = {h1, h2, h3}
    TTL = 1
    MaxEntries = 2
    FirstCallers = {h1}
SYMMETRY Perms
INVARIANTS
    TypeOK
    OneRunnerPerRequest
    InFlightIffRunning
    CapacityRespected
    ResponseMatchesRequest

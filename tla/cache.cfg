\* Two requests, three keys, both limits of the cache.
SPECIFICATION FairSpec
CONSTANTS
    A = A
    B = B
    C = C
    Large = Large
    Pieces <- SomePieces
    Modules <- SomeModules
    Contents <- FourContents
    NoContent = NoContent
    NoKey = NoKey
    Serves <- UrlServes
    Size <- Sizes
    Exports <- ExportsOf
    Outputs <- SomeOutputs
    Word = 4
    MaxOutputBytes = 2
    MaxModuleBytes = 5
    Requests = {q1, q2}
    MaxConcurrentExecs = 2
    MaxCachedModules = 2
    MaxCacheBytes = 4
    ModuleCacheTTL = 1
INVARIANTS
    TypeOK
    OneLeaderPerKey
    NoLostWakeup
    BytesAccounted
    CacheBounded
    SlotsAccounted
    DigestVerified
    OutputWhole
PROPERTIES
    RequestsEnd

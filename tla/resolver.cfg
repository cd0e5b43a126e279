\* Two calls, tokens that are shorter and longer than the refresh window.
SPECIFICATION FairSpec
CONSTANTS
    Urls <- SomeUrls
    AcrHosts = {"reg"}
    Sha256 = {"sha256:c", "sha256:d", "sha256:e", "sha256:m"}
    AllowedHosts = {"reg", "web"}
    RequireDigest = TRUE
    ScopeOf <- SomeScopes
    Callers = {c1, c2}
    Attempts = 2
    ClientTimeout = 1
    RefreshSkew = 1
    DefaultTTL = 2
    ExpiresIn = {0, 1, 3}
    Manifests <- SomeManifests
    NoUrl = NoUrl
    NoLayer = NoLayer
INVARIANTS
    TypeOK
    UsableTokenLive
    TokenForRepository
    LayerRunnable
    PinnedByPolicy
PROPERTIES
    ResolveEnds

\* A tag whose request declares a digest, and a registry whose layer has another.
SPECIFICATION Spec
CONSTANTS
    Urls <- DeclaredUrls
    AcrHosts = {"reg"}
    Sha256 = {"sha256:c", "sha256:d", "sha256:e", "sha256:m"}
    AllowedHosts = {"reg", "web"}
    RequireDigest = TRUE
    ScopeOf <- SomeScopes
    Callers = {c1}
    Attempts = 2
    ClientTimeout = 1
    RefreshSkew = 1
    DefaultTTL = 2
    ExpiresIn = {0, 1, 3}
    Manifests <- SomeManifests
    NoUrl = NoUrl
    NoLayer = NoLayer
INVARIANT
    DigestHonoured

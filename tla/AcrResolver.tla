------------------------------ MODULE AcrResolver ------------------------------
(****************************************************************************)
(* How the master turns the module that a request names into what it sends  *)
(* to a worker.  The gateway's module policy admits it (module_policy.go).  *)
(* If it lies in an Azure Container Registry, the dispatcher then parses    *)
(* the URL, takes a pull token for the repository from its token cache or   *)
(* mints one with two requests to the registry (acr_token.go), and replaces *)
(* a manifest URL by the blob of the layer it selects (acr_manifest.go).    *)
(* Every request goes through the bounded retry loop of shared/client.go.   *)
(*                                                                          *)
(* Calls run concurrently; the cache's lock is held for one lookup or one   *)
(* store, never while a token is minted.  Time is relative: a token has a   *)
(* `life', what is left until the registry stops accepting it, and a        *)
(* `left', what is left until the cache's expiresAt.  The two differ, since *)
(* the registry counts from the moment of the grant and the cache from the  *)
(* moment the answer arrives.  The acquisition of the Azure AD token, which *)
(* precedes a mint, is external and takes no step: if it fails, the call    *)
(* ends without having changed anything.                                    *)
(****************************************************************************)
EXTENDS Integers, Sequences

CONSTANTS
    Urls,           \* what requests name: [registry, path, digest], path the segments of
                    \* an http(s) URL, digest the declared module_digest, <<>> if there is none
    AcrHosts,       \* hosts under .azurecr.io
    Sha256,         \* segments and digests that begin with "sha256:"
    AllowedHosts,   \* MODULE_HOST_ALLOWLIST
    RequireDigest,  \* REQUIRE_MODULE_DIGEST
    Callers,        \* dispatches that resolve a module
    Attempts,       \* DefaultHTTPRetryAttempts
    ClientTimeout,  \* DefaultHTTPClientTimeout
    RefreshSkew,    \* defaultACRRefreshSkew
    DefaultTTL,     \* defaultACRTokenTTL
    ExpiresIn,      \* expires_in of the registry's answers, 0 if it is missing
    Manifests,      \* manifests of the registry: sequences of layers [media, digest]
    ScopeOf,        \* the registry's own view: the scope a URL's object belongs to
    NoUrl, NoLayer

ASSUME AttemptsAssumption == Attempts \in Nat \ {0}
ASSUME TimesAssumption ==
    /\ ClientTimeout \in Nat
    /\ RefreshSkew \in Nat
    /\ DefaultTTL \in Nat \ {0}
    /\ ExpiresIn \subseteq Nat
ASSUME UrlsAssumption == \A u \in Urls : u.path \in Seq(STRING)
ASSUME ManifestsAssumption == Manifests \subseteq Seq([media: STRING, digest: STRING])

(* The refresh window is not shorter than the longest a registry's answer   *)
(* can be on its way: both are thirty seconds.                              *)
ASSUME SkewCoversTimeout == ClientTimeout <= RefreshSkew

VARIABLES
    tokens,         \* the token cache
    call            \* the callers

vars == <<tokens, call>>

-----------------------------------------------------------------------------
(* References *)

Keywords == {"manifests", "blobs", "tags", "referrers"}

(* The repository extends to the first keyword, which says what kind of     *)
(* object the segments after it name.                                       *)
parseACRModuleReference(u) ==
    LET segments == IF u.path # <<>> /\ Head(u.path) = "v2" THEN Tail(u.path) ELSE u.path
        cuts     == {i \in 1..Len(segments) : segments[i] \in Keywords}
        end      == IF cuts = {} THEN Len(segments) + 1 ELSE CHOOSE i \in cuts : \A j \in cuts : i <= j
    IN  [registry |-> u.registry,
         repository |-> SubSeq(segments, 1, end - 1),
         kind |-> IF cuts = {} THEN "repository" ELSE segments[end],
         reference |-> SubSeq(segments, end + 1, Len(segments))]

(* The parser's two errors: no repository, or a kind without a reference. *)
ValidReference(ref) ==
    /\ ref.repository # <<>>
    /\ ref.kind # "repository" => ref.reference # <<>>

isACRURL(u) == u.registry \in AcrHosts

Keys ==
    {<<parseACRModuleReference(u).registry, parseACRModuleReference(u).repository>> :
        u \in {v \in Urls : isACRURL(v)}}

(* Mutant: one token for all repositories of a registry. *)
acrTokenCacheKeyRegistryOnly(ref) == CHOOSE k \in Keys : k[1] = ref.registry

acrTokenCacheKey(ref) == <<ref.registry, ref.repository>>

-----------------------------------------------------------------------------
(* ModulePolicy *)

(* An empty list allows every host. *)
hostAllowed(u) == AllowedHosts = {} \/ u.registry \in AllowedHosts

(* Mutant: a URL without such a segment passes. *)
requestHasNoOther(u) ==
    LET cuts == {i \in 1..(Len(u.path) - 1) : u.path[i] \in {"blobs", "manifests"}}
    IN  \/ u.digest # <<>>
        \/ \A i \in cuts : (\A j \in cuts : i <= j) => u.path[i + 1] \in Sha256

(* A digest is declared, or the first blob or manifest segment with a       *)
(* successor is followed by one.                                            *)
requestHasDigest(u) ==
    LET cuts == {i \in 1..(Len(u.path) - 1) : u.path[i] \in {"blobs", "manifests"}}
    IN  \/ u.digest # <<>>
        \/ \E i \in cuts : (\A j \in cuts : i <= j) /\ u.path[i + 1] \in Sha256

(* Checked once, when the gateway decodes the request; a job that recovery  *)
(* dispatches again has passed it.                                          *)
Validate(u) == hostAllowed(u) /\ (RequireDigest => requestHasDigest(u))

-----------------------------------------------------------------------------
(* Tokens: where they give access, and how long.                            *)

NoScope == <<>>
NoToken == [scope |-> NoScope, life |-> 0, left |-> 0]
CallIdle == [pc |-> "idle", url |-> NoUrl, scope |-> NoScope, n |-> 0, age |-> 0, layer |-> NoLayer]

Init ==
    /\ tokens = [k \in Keys |-> NoToken]
    /\ call = [c \in Callers |-> CallIdle]

(* Mutant: a token is used until it expires. *)
UsableToTheEnd(t) == t.left > 0

cachedTokenUsable(t) == t.left > RefreshSkew

Requesting(c) == call[c].pc \in {"exchange", "grant", "manifest"}

(* A request begins: its first attempt is on its way. *)
Send(c, pc) == [call[c] EXCEPT !.pc = pc, !.n = 0, !.age = 0]

(* With a token in hand: a manifest is fetched, anything else is left as it *)
(* is and forwarded.                                                        *)
WithToken(c, u, scope) ==
    LET next == IF parseACRModuleReference(u).kind = "manifests" THEN "manifest" ELSE "forward"
    IN  [call EXCEPT ![c] = [Send(c, next) EXCEPT !.url = u, !.scope = scope]]

(* Any other host is left to the worker, without a token. *)
NotACR(c, u) ==
    /\ call[c].pc = "idle"
    /\ Validate(u)
    /\ ~isACRURL(u)
    /\ call' = [call EXCEPT ![c] = [Send(c, "forward") EXCEPT !.url = u]]
    /\ UNCHANGED tokens

(* Token: the lookup. *)
TokenCached(c, u) ==
    LET ref == parseACRModuleReference(u)
        k   == acrTokenCacheKey(ref)
    IN  /\ call[c].pc = "idle"
        /\ Validate(u)
        /\ isACRURL(u)
        /\ ValidReference(ref)
        /\ cachedTokenUsable(tokens[k])
        /\ call' = WithToken(c, u, tokens[k].scope)
        /\ UNCHANGED tokens

TokenMissing(c, u) ==
    LET ref == parseACRModuleReference(u)
    IN  /\ call[c].pc = "idle"
        /\ Validate(u)
        /\ isACRURL(u)
        /\ ValidReference(ref)
        /\ ~cachedTokenUsable(tokens[acrTokenCacheKey(ref)])
        /\ call' = [call EXCEPT ![c] = [Send(c, "exchange") EXCEPT !.url = u]]
        /\ UNCHANGED tokens

(* The AAD token has been exchanged for a refresh token. *)
Exchanged(c) ==
    /\ call[c].pc = "exchange"
    /\ call' = [call EXCEPT ![c] = Send(c, "grant")]
    /\ UNCHANGED tokens

ttl(e) == IF e > 0 THEN e ELSE DefaultTTL

(* The registry granted a token d ago, which is now stored and used.  What  *)
(* another call may have stored in the meantime is overwritten.  An answer  *)
(* without expires_in does not say how long the token lives: it is assumed  *)
(* that the registry then means the code's default TTL.                     *)
Granted(c, e, d) ==
    LET ref   == parseACRModuleReference(call[c].url)
        scope == <<ref.registry, ref.repository>>
    IN  /\ call[c].pc = "grant"
        /\ d <= call[c].age
        /\ tokens' = [tokens EXCEPT ![acrTokenCacheKey(ref)] =
                        [scope |-> scope, life |-> IF d < ttl(e) THEN ttl(e) - d ELSE 0, left |-> ttl(e)]]
        /\ call' = WithToken(c, call[c].url, scope)

-----------------------------------------------------------------------------
(* Manifests *)

(* Mutant: the first layer, whatever it is. *)
selectFirstLayer(layers) == IF layers = <<>> THEN 0 ELSE 1

(* The only layer, or the first one that is WebAssembly; 0 if neither. *)
selectWASMLayer(layers) ==
    LET wasm == {i \in 1..Len(layers) : layers[i].media = "wasm"}
    IN  IF Len(layers) = 1 THEN 1
        ELSE IF wasm = {} THEN 0
        ELSE CHOOSE i \in wasm : \A j \in wasm : i <= j

(* buildACRBlobURL: only a layer with a sha256 digest has a blob URL. *)
HasBlobURL(layers, i) == i \in 1..Len(layers) /\ layers[i].digest \in Sha256

(* The manifest arrives, and the blob URL of a layer takes its place. *)
ManifestFetched(c, m) ==
    /\ call[c].pc = "manifest"
    /\ call' = [call EXCEPT ![c] =
                    IF HasBlobURL(m, selectWASMLayer(m))
                      THEN [@ EXCEPT !.pc = "forward", !.layer = [of |-> m, at |-> selectWASMLayer(m)]]
                      ELSE CallIdle]
    /\ UNCHANGED tokens

(* The module_digest that the worker gets.  For a registry it is what       *)
(* resolveACRModuleURL returns: the digest of the layer, or whatever the    *)
(* URL names, which for a bare repository is nothing.                       *)
ModuleDigest(c) ==
    LET u == call[c].url
    IN  IF ~isACRURL(u) THEN u.digest
        ELSE IF call[c].layer # NoLayer THEN <<call[c].layer.of[call[c].layer.at].digest>>
        ELSE parseACRModuleReference(u).reference

(* The resolved module, its token and its digest go to the dispatch loop. *)
Forward(c) ==
    /\ call[c].pc = "forward"
    /\ call' = [call EXCEPT ![c] = CallIdle]
    /\ UNCHANGED tokens

-----------------------------------------------------------------------------
(* DoWithRetry *)

(* Mutant: attempts are not counted. *)
RetryForever(c) ==
    /\ Requesting(c)
    /\ call' = [call EXCEPT ![c].age = 0]
    /\ UNCHANGED tokens

(* Mutant: one attempt more. *)
RetryOnceMore(c) ==
    /\ Requesting(c)
    /\ call[c].n < Attempts
    /\ call' = [call EXCEPT ![c].n = @ + 1, ![c].age = 0]
    /\ UNCHANGED tokens

(* A transport error, a timeout or a retryable status, and attempts left.   *)
(* The back-off between two attempts is not modelled.                       *)
Retry(c) ==
    /\ Requesting(c)
    /\ call[c].n < Attempts - 1
    /\ call' = [call EXCEPT ![c].n = @ + 1, ![c].age = 0]
    /\ UNCHANGED tokens

(* The last attempt failed, a status is not retryable, an answer cannot be  *)
(* used, or the caller's context ended: nothing is cached.                  *)
RequestFails(c) ==
    /\ Requesting(c)
    /\ call' = [call EXCEPT ![c] = CallIdle]
    /\ UNCHANGED tokens

(* http.Client ends an attempt at its timeout, so time does not pass it. *)
Tick ==
    /\ \A c \in Callers : Requesting(c) => call[c].age < ClientTimeout
    /\ tokens' = [k \in Keys |->
            [tokens[k] EXCEPT !.life = IF @ > 0 THEN @ - 1 ELSE 0, !.left = IF @ > 0 THEN @ - 1 ELSE 0]]
    /\ call' = [c \in Callers |->
            IF Requesting(c) THEN [call[c] EXCEPT !.age = @ + 1] ELSE call[c]]

-----------------------------------------------------------------------------
Step(c) ==
    \/ Exchanged(c)
    \/ \E e \in ExpiresIn, d \in 0..ClientTimeout : Granted(c, e, d)
    \/ \E m \in Manifests : ManifestFetched(c, m)
    \/ Forward(c)
    \/ Retry(c)
    \/ RequestFails(c)

Next ==
    \/ \E c \in Callers, u \in Urls : NotACR(c, u) \/ TokenCached(c, u) \/ TokenMissing(c, u)
    \/ \E c \in Callers : Step(c)
    \/ Tick

Spec == Init /\ [][Next]_vars

(* An attempt ends, at its timeout if not before. *)
FairSpec == Spec /\ \A c \in Callers : WF_vars(Step(c))

-----------------------------------------------------------------------------
Scopes == Keys \cup {NoScope}

(* The types of the variables; a request has made at most Attempts attempts.*)
TypeOK ==
    /\ tokens \in [Keys -> [scope: Scopes, life: Nat, left: Nat]]
    /\ call \in [Callers -> [pc: {"idle", "exchange", "grant", "manifest", "forward"},
                             url: Urls \cup {NoUrl}, scope: Scopes,
                             n: 0..(Attempts - 1), age: 0..ClientTimeout,
                             layer: [of: Manifests, at: Nat] \cup {NoLayer}]]

(* A token the cache would hand out is one the registry still accepts, even *)
(* when its grant was long on its way or has overwritten a younger one.     *)
UsableTokenLive == \A k \in Keys : cachedTokenUsable(tokens[k]) => tokens[k].life > 0

(* A token is used only for the repository that its URL lies in, however    *)
(* the URL is written and whoever put the token into the cache, and never   *)
(* sent to another host.                                                    *)
TokenForRepository ==
    \A c \in Callers : call[c].pc \in {"manifest", "forward"} => call[c].scope = ScopeOf[call[c].url]

(* What a manifest is replaced by can be run and verified by a worker: the  *)
(* layer is WebAssembly or the only one, under a digest the worker checks.  *)
LayerRunnable ==
    \A c \in Callers : call[c].layer # NoLayer =>
        LET m == call[c].layer.of
            l == m[call[c].layer.at]
        IN  l.digest \in Sha256 /\ (l.media = "wasm" \/ Len(m) = 1)

(* Where the policy requires digests, a module of a registry reaches a      *)
(* worker without one only if its request declared one, which the           *)
(* dispatcher then dropped: the policy and the resolver, which read the URL *)
(* independently of each other, agree on what a digest-pinned URL is.       *)
PinnedByPolicy ==
    RequireDigest =>
        \A c \in Callers :
            call[c].pc = "forward" /\ isACRURL(call[c].url) /\ call[c].url.digest = <<>> =>
                ModuleDigest(c) # <<>>

(* "When module_digest is present, workers verify downloaded module bytes   *)
(* against the declared digest": the digest that a client declared is the   *)
(* one its worker is given to verify.                                       *)
DigestHonoured ==
    \A c \in Callers :
        call[c].pc = "forward" /\ call[c].url.digest # <<>> => ModuleDigest(c) = call[c].url.digest

(* Every resolution ends, with a module to forward or an error. *)
ResolveEnds == \A c \in Callers : []<>(call[c].pc = "idle")
=============================================================================

-------------------------- MODULE AcrResolverProofs --------------------------
(****************************************************************************)
(* Proofs about AcrResolver for any number of callers and repositories and  *)
(* any answers of the registry.  Up to TokensScoped the parser of module    *)
(* URLs and the layer selection stay closed: those proofs hold whatever     *)
(* they return.  The last part opens both, and the policy.                  *)
(****************************************************************************)
EXTENDS AcrResolver, WellFoundedInduction, TLAPS

TokenType == [scope: Scopes, life: Nat, left: Nat]

(* The cache never believes a token to live more than one client timeout    *)
(* longer than it does.                                                     *)
LagBounded == \A k \in Keys : tokens[k].left <= tokens[k].life + ClientTimeout

(* What is stored under a key gives access to that key's repository. *)
Scoped == \A k \in Keys : tokens[k].left > 0 => tokens[k].scope = k

Holding == {"manifest", "forward"}

(* The scope of the token that a URL calls for. *)
Wanted(u) == IF isACRURL(u) THEN acrTokenCacheKey(parseACRModuleReference(u)) ELSE NoScope

(* An idle call has nothing; one in progress has a URL, which lies in a     *)
(* registry if a token is minted for it; what is forwarded has the token    *)
(* that its URL calls for.                                                  *)
CallsOK ==
    \A c \in Callers :
        /\ call[c].pc = "idle" => call[c].scope = NoScope
        /\ call[c].pc # "idle" => call[c].url \in Urls
        /\ call[c].pc \in {"exchange", "grant"} => isACRURL(call[c].url)
        /\ call[c].pc \in Holding => call[c].scope = Wanted(call[c].url)

Inv ==
    /\ TypeOK
    /\ LagBounded
    /\ Scoped
    /\ CallsOK

(* The key of a URL is one of the cache's keys. *)
LEMMA KeyType ==
  ASSUME NEW u \in Urls, isACRURL(u)
  PROVE  /\ acrTokenCacheKey(parseACRModuleReference(u)) \in Keys
         /\ acrTokenCacheKey(parseACRModuleReference(u)) =
              <<parseACRModuleReference(u).registry, parseACRModuleReference(u).repository>>
BY DEF acrTokenCacheKey, Keys

CallType ==
    [pc: {"idle", "exchange", "grant", "manifest", "forward"}, url: Urls \cup {NoUrl}, scope: Scopes,
     n: 0..(Attempts - 1), age: 0..ClientTimeout, layer: [of: Manifests, at: Nat] \cup {NoLayer}]

(* Starting a request or going on with a token in hand. *)
LEMMA SendType ==
  ASSUME NEW c \in Callers, TypeOK, NEW pc \in {"exchange", "grant", "manifest", "forward"}
  PROVE  /\ Send(c, pc) \in CallType
         /\ Send(c, pc).pc = pc
         /\ Send(c, pc).url = call[c].url
         /\ Send(c, pc).scope = call[c].scope
<1>1. call[c] \in CallType
  BY DEF TypeOK, CallType
<1>2. 0 \in 0..(Attempts - 1) /\ 0 \in 0..ClientTimeout
  BY AttemptsAssumption, TimesAssumption
<1> QED BY <1>1, <1>2 DEF Send, CallType

(* A call that goes on with the token of its URL's repository. *)
LEMMA WithTokenOK ==
  ASSUME NEW c \in Callers, NEW u \in Urls, isACRURL(u), Inv, NEW scope,
         scope = acrTokenCacheKey(parseACRModuleReference(u)),
         call' = WithToken(c, u, scope)
  PROVE  /\ call' \in [Callers -> CallType]
         /\ CallsOK'
<1> DEFINE next == IF parseACRModuleReference(u).kind = "manifests" THEN "manifest" ELSE "forward"
<1>1. call' = [call EXCEPT ![c] = [Send(c, next) EXCEPT !.url = u, !.scope = scope]]
  BY DEF WithToken
<1>2. next \in Holding /\ scope \in Scopes
  BY KeyType DEF Holding, Scopes
<1>3. Send(c, next) \in CallType /\ Send(c, next).pc = next
  BY <1>2, SendType DEF Inv, Holding
<1>4. [Send(c, next) EXCEPT !.url = u, !.scope = scope] \in CallType
  BY <1>2, <1>3 DEF CallType
<1>5. call \in [Callers -> CallType]
  BY DEF Inv, TypeOK, CallType
<1>6. call' \in [Callers -> CallType]
  BY <1>1, <1>4, <1>5
<1>7. /\ call'[c].url = u /\ call'[c].scope = scope
      /\ \A b \in Callers \ {c} : call'[b] = call[b]
  BY <1>1, <1>3, <1>5 DEF CallType
<1>8. call'[c].pc = next
  BY <1>1, <1>3, <1>5 DEF CallType
<1> QED BY <1>2, <1>6, <1>7, <1>8 DEF Inv, CallsOK, Wanted, Holding

(* Initially the cache is empty. *)
LEMMA InitInv == Init => Inv
BY AttemptsAssumption, TimesAssumption
DEF Init, NoToken, CallIdle, Inv, TypeOK, Scopes, LagBounded, Scoped, CallsOK, Holding

(* Every step keeps the invariant. *)
LEMMA NextInv == Inv /\ [Next]_vars => Inv'
<1> SUFFICES ASSUME Inv, [Next]_vars
             PROVE  Inv'
  OBVIOUS
<1> USE AttemptsAssumption, TimesAssumption
<1>1. tokens \in [Keys -> TokenType] /\ call \in [Callers -> CallType]
  BY DEF Inv, TypeOK, TokenType, CallType
(* What remains to be shown of a step that leaves the cache alone. *)
<1>2. ASSUME tokens' = tokens, call' \in [Callers -> CallType], CallsOK'
      PROVE  Inv'
  BY <1>1, <1>2 DEF Inv, TypeOK, TokenType, CallType, LagBounded, Scoped
<1>3. ASSUME NEW c \in Callers, NEW u \in Urls, TokenCached(c, u)
      PROVE  Inv'
  <2> DEFINE k == acrTokenCacheKey(parseACRModuleReference(u))
  <2>1. /\ tokens' = tokens
        /\ call' = WithToken(c, u, tokens[k].scope)
        /\ cachedTokenUsable(tokens[k])
        /\ isACRURL(u)
    BY <1>3 DEF TokenCached
  <2>2. tokens[k].scope = k
    BY <1>1, <2>1, KeyType DEF Inv, Scoped, cachedTokenUsable, TokenType
  <2>3. call' \in [Callers -> CallType] /\ CallsOK'
    BY <2>1, <2>2, WithTokenOK
  <2> QED BY <1>2, <2>1, <2>3
<1>4. ASSUME NEW c \in Callers, NEW u \in Urls, TokenMissing(c, u)
      PROVE  Inv'
  <2>1. /\ tokens' = tokens
        /\ call' = [call EXCEPT ![c] = [Send(c, "exchange") EXCEPT !.url = u]]
        /\ isACRURL(u)
    BY <1>4 DEF TokenMissing
  <2>2. Send(c, "exchange") \in CallType /\ Send(c, "exchange").pc = "exchange"
    BY SendType DEF Inv
  <2>3. [Send(c, "exchange") EXCEPT !.url = u] \in CallType
    BY <2>2 DEF CallType
  <2>4. call' \in [Callers -> CallType]
    BY <1>1, <2>1, <2>3
  <2>5. /\ call'[c].pc = "exchange" /\ call'[c].url = u
        /\ \A b \in Callers \ {c} : call'[b] = call[b]
    BY <1>1, <2>1, <2>2 DEF CallType
  <2>6. CallsOK'
    BY <2>1, <2>5 DEF Inv, CallsOK, Holding
  <2> QED BY <1>2, <2>1, <2>4, <2>6
<1>5. ASSUME NEW c \in Callers, Exchanged(c)
      PROVE  Inv'
  <2>1. tokens' = tokens /\ call' = [call EXCEPT ![c] = Send(c, "grant")] /\ call[c].pc = "exchange"
    BY <1>5 DEF Exchanged
  <2>2. Send(c, "grant") \in CallType /\ Send(c, "grant").pc = "grant" /\ Send(c, "grant").url = call[c].url
    BY SendType DEF Inv
  <2>3. call' \in [Callers -> CallType]
    BY <1>1, <2>1, <2>2
  <2>4. CallsOK'
    BY <1>1, <2>1, <2>2 DEF Inv, CallsOK, Holding
  <2> QED BY <1>2, <2>1, <2>3, <2>4
<1>6. ASSUME NEW c \in Callers, NEW e \in ExpiresIn, NEW d \in 0..ClientTimeout, Granted(c, e, d)
      PROVE  Inv'
  <2> DEFINE u == call[c].url
             k == acrTokenCacheKey(parseACRModuleReference(u))
             t == [scope |-> k, life |-> IF d < ttl(e) THEN ttl(e) - d ELSE 0, left |-> ttl(e)]
  <2>1. u \in Urls /\ isACRURL(u) /\ k \in Keys
    BY <1>6, KeyType DEF Inv, CallsOK, Granted
  <2>2. tokens' = [tokens EXCEPT ![k] = t] /\ call' = WithToken(c, u, k)
    BY <1>6, <2>1, KeyType DEF Granted
  <2>3. ttl(e) \in Nat
    BY DEF ttl
  <2>4. t \in TokenType /\ t.left <= t.life + ClientTimeout /\ t.scope = k
    BY <2>1, <2>3 DEF TokenType, Scopes
  <2>5. /\ tokens' \in [Keys -> TokenType]
        /\ tokens'[k] = t
        /\ \A j \in Keys \ {k} : tokens'[j] = tokens[j]
    BY <1>1, <2>1, <2>2, <2>4
  <2>6. LagBounded' /\ Scoped'
    BY <2>4, <2>5 DEF Inv, LagBounded, Scoped
  <2>7. call' \in [Callers -> CallType] /\ CallsOK'
    BY <2>1, <2>2, WithTokenOK
  <2> QED BY <2>5, <2>6, <2>7 DEF Inv, TypeOK, TokenType, CallType
<1>7. ASSUME NEW c \in Callers, NEW m \in Manifests, ManifestFetched(c, m)
      PROVE  Inv'
  <2>1. tokens' = tokens /\ call[c].pc = "manifest"
    BY <1>7 DEF ManifestFetched
  <2>2. CASE ~HasBlobURL(m, selectWASMLayer(m))
    <3>1. call' = [call EXCEPT ![c] = CallIdle]
      BY <1>7, <2>2 DEF ManifestFetched
    <3>2. CallIdle \in CallType /\ CallIdle.pc = "idle" /\ CallIdle.scope = NoScope
      BY DEF CallIdle, CallType, Scopes
    <3>3. call' \in [Callers -> CallType] /\ CallsOK'
      BY <1>1, <3>1, <3>2 DEF Inv, CallsOK, Holding
    <3> QED BY <1>2, <2>1, <3>3
  <2>3. CASE HasBlobURL(m, selectWASMLayer(m))
    <3> DEFINE l == [of |-> m, at |-> selectWASMLayer(m)]
    <3>1. call' = [call EXCEPT ![c] = [@ EXCEPT !.pc = "forward", !.layer = l]]
      BY <1>7, <2>3 DEF ManifestFetched
    <3>2. selectWASMLayer(m) \in Nat
      BY <2>3, ManifestsAssumption DEF HasBlobURL
    <3>3. l \in [of: Manifests, at: Nat]
      BY <3>2
    <3>4. call' \in [Callers -> CallType]
      <4>1. [call[c] EXCEPT !.pc = "forward", !.layer = l] \in CallType
        BY <1>1, <3>3 DEF CallType
      <4> QED BY <1>1, <3>1, <4>1
    <3>5. CallsOK'
      BY <1>1, <2>1, <3>1 DEF Inv, CallsOK, Holding, CallType
    <3> QED BY <1>2, <2>1, <3>4, <3>5
  <2> QED BY <2>2, <2>3
<1>8. ASSUME NEW c \in Callers, Forward(c) \/ RequestFails(c)
      PROVE  Inv'
  <2>1. tokens' = tokens /\ call' = [call EXCEPT ![c] = CallIdle]
    BY <1>8 DEF Forward, RequestFails
  <2>2. CallIdle \in CallType /\ CallIdle.pc = "idle" /\ CallIdle.scope = NoScope
    BY DEF CallIdle, CallType, Scopes
  <2>3. call' \in [Callers -> CallType] /\ CallsOK'
    BY <1>1, <2>1, <2>2 DEF Inv, CallsOK, Holding
  <2> QED BY <1>2, <2>1, <2>3
<1>9. ASSUME NEW c \in Callers, Retry(c)
      PROVE  Inv'
  <2>1. tokens' = tokens /\ call[c].n < Attempts - 1 /\ call' = [call EXCEPT ![c].n = @ + 1, ![c].age = 0]
    BY <1>9 DEF Retry
  <2>2. call' \in [Callers -> CallType]
    <3>1. call[c].n \in 0..(Attempts - 1) /\ call[c] \in CallType
      BY <1>1 DEF CallType
    <3>2. call[c].n + 1 \in 0..(Attempts - 1) /\ 0 \in 0..ClientTimeout
      BY <2>1, <3>1
    <3>3. [call[c] EXCEPT !.n = @ + 1, !.age = 0] \in CallType
      BY <3>1, <3>2 DEF CallType
    <3>4. call' = [call EXCEPT ![c] = [call[c] EXCEPT !.n = @ + 1, !.age = 0]]
      BY <1>1, <2>1 DEF CallType
    <3> QED BY <1>1, <3>3, <3>4
  <2>3. CallsOK'
    BY <1>1, <2>1 DEF Inv, CallsOK, Holding, CallType
  <2> QED BY <1>2, <2>1, <2>2, <2>3
<1>10. CASE Tick
  <2>1. \A k \in Keys : /\ tokens'[k] \in TokenType
                        /\ tokens'[k].scope = tokens[k].scope
                        /\ tokens'[k].life = (IF tokens[k].life > 0 THEN tokens[k].life - 1 ELSE 0)
                        /\ tokens'[k].left = (IF tokens[k].left > 0 THEN tokens[k].left - 1 ELSE 0)
    <3>1. SUFFICES ASSUME NEW k \in Keys
                   PROVE  /\ tokens'[k] \in TokenType
                          /\ tokens'[k].scope = tokens[k].scope
                          /\ tokens'[k].life = (IF tokens[k].life > 0 THEN tokens[k].life - 1 ELSE 0)
                          /\ tokens'[k].left = (IF tokens[k].left > 0 THEN tokens[k].left - 1 ELSE 0)
      OBVIOUS
    <3> DEFINE life == IF tokens[k].life > 0 THEN tokens[k].life - 1 ELSE 0
               left == IF tokens[k].left > 0 THEN tokens[k].left - 1 ELSE 0
    <3>2. tokens[k] \in TokenType /\ tokens'[k] = [tokens[k] EXCEPT !.life = life, !.left = left]
      BY <1>1, <1>10 DEF Tick, TokenType
    <3>3. life \in Nat /\ left \in Nat
      BY <3>2 DEF TokenType
    <3> HIDE DEF life, left
    <3>4. /\ tokens'[k] \in TokenType
          /\ tokens'[k].scope = tokens[k].scope
          /\ tokens'[k].life = life
          /\ tokens'[k].left = left
      BY <3>2, <3>3 DEF TokenType
    <3> QED BY <3>4 DEF life, left
  <2>2. tokens' \in [Keys -> TokenType]
    BY <1>10, <2>1 DEF Tick
  <2>3. LagBounded' /\ Scoped'
    BY <1>1, <2>1 DEF Inv, LagBounded, Scoped, TokenType
  <2>4. \A c \in Callers : /\ call'[c] \in CallType
                           /\ call'[c].pc = call[c].pc
                           /\ call'[c].url = call[c].url
                           /\ call'[c].scope = call[c].scope
    <3>1. SUFFICES ASSUME NEW c \in Callers
                   PROVE  /\ call'[c] \in CallType
                          /\ call'[c].pc = call[c].pc
                          /\ call'[c].url = call[c].url
                          /\ call'[c].scope = call[c].scope
      OBVIOUS
    <3>2. call[c] \in CallType /\ call[c].age \in 0..ClientTimeout
      BY <1>1 DEF CallType
    <3>3. CASE Requesting(c)
      <4>1. call'[c] = [call[c] EXCEPT !.age = call[c].age + 1]
        BY <1>10, <3>2, <3>3 DEF Tick, CallType
      <4>2. call[c].age + 1 \in 0..ClientTimeout
        <5>1. call[c].age < ClientTimeout
          BY <1>10, <3>3 DEF Tick
        <5> QED BY <3>2, <5>1
      <4> QED BY <3>2, <4>1, <4>2 DEF CallType
    <3>4. CASE ~Requesting(c)
      BY <1>10, <3>2, <3>4 DEF Tick
    <3> QED BY <3>3, <3>4
  <2>5. call' \in [Callers -> CallType] /\ CallsOK'
    BY <1>10, <2>4 DEF Tick, Inv, CallsOK
  <2> QED BY <2>2, <2>3, <2>5 DEF Inv, TypeOK, TokenType, CallType
<1>11. ASSUME NEW c \in Callers, NEW u \in Urls, NotACR(c, u)
       PROVE  Inv'
  <2>1. /\ tokens' = tokens
        /\ call' = [call EXCEPT ![c] = [Send(c, "forward") EXCEPT !.url = u]]
        /\ ~isACRURL(u) /\ call[c].pc = "idle"
    BY <1>11 DEF NotACR
  <2>2. /\ Send(c, "forward") \in CallType /\ Send(c, "forward").pc = "forward"
        /\ Send(c, "forward").scope = NoScope
    BY <2>1, SendType DEF Inv, CallsOK
  <2>3. [Send(c, "forward") EXCEPT !.url = u] \in CallType
    BY <2>2 DEF CallType
  <2>4. call' \in [Callers -> CallType]
    BY <1>1, <2>1, <2>3
  <2>5. /\ call'[c].pc = "forward" /\ call'[c].url = u /\ call'[c].scope = NoScope
        /\ \A b \in Callers \ {c} : call'[b] = call[b]
    BY <1>1, <2>1, <2>2 DEF CallType
  <2>6. CallsOK'
    BY <2>1, <2>5 DEF Inv, CallsOK, Holding, Wanted
  <2> QED BY <1>2, <2>1, <2>4, <2>6
<1>12. CASE UNCHANGED vars
  BY <1>1, <1>2, <1>12 DEF vars, Inv, CallsOK
<1> QED BY <1>3, <1>4, <1>5, <1>6, <1>7, <1>8, <1>9, <1>10, <1>11, <1>12 DEF Next, Step

(* The inductive invariant holds in every state. *)
THEOREM InvHolds == Spec => []Inv
<1>1. Init => Inv
  BY InitInv
<1>2. Inv /\ [Next]_vars => Inv'
  BY NextInv
<1> QED BY <1>1, <1>2, PTL DEF Spec

(* The variables keep their types; in particular no request is attempted    *)
(* more often than the retry policy allows.                                 *)
THEOREM TypeCorrect == Spec => []TypeOK
<1>1. Inv => TypeOK
  BY DEF Inv
<1> QED BY <1>1, InvHolds, PTL

(* As long as the refresh window is at least the client timeout, every      *)
(* token the cache would hand out is still accepted by the registry.        *)
THEOREM TokensLive == Spec => []UsableTokenLive
<1>1. Inv => UsableTokenLive
  BY TimesAssumption, SkewCoversTimeout
  DEF Inv, TypeOK, LagBounded, UsableTokenLive, cachedTokenUsable
<1> QED BY <1>1, InvHolds, PTL

(* If the parser finds the repository that the registry finds in a URL, no  *)
(* token is ever used for another repository or sent to another host.       *)
THEOREM TokensScoped ==
  ASSUME \A u \in Urls : ScopeOf[u] = Wanted(u)
  PROVE  Spec => []TokenForRepository
<1>1. Inv => TokenForRepository
  BY DEF Inv, CallsOK, Holding, TokenForRepository
<1> QED BY <1>1, InvHolds, PTL
-----------------------------------------------------------------------------
(* The policy, the parser and the layer selection *)

(* A set of naturals that is not empty has a least element. *)
LEMMA LeastExists ==
  ASSUME NEW T, T \subseteq Nat, T # {}
  PROVE  \E i \in T : \A j \in T : i <= j
<1>1. \E i \in T : \A j \in T : ~(<<j, i>> \in OpToRel(<, Nat))
  BY NatLessThanWellFounded, WFMin, Zenon
<1>2. PICK i \in T : \A j \in T : ~(j < i)
  BY <1>1 DEF OpToRel
<1> QED BY <1>2

(* selectWASMLayer returns the index of a layer that a worker can run, or   *)
(* one that has no blob URL.                                                *)
LEMMA SelectedRunnable ==
  ASSUME NEW m \in Manifests, HasBlobURL(m, selectWASMLayer(m))
  PROVE  /\ m[selectWASMLayer(m)].digest \in Sha256
         /\ m[selectWASMLayer(m)].media = "wasm" \/ Len(m) = 1
<1> DEFINE wasm == {i \in 1..Len(m) : m[i].media = "wasm"}
<1>1. selectWASMLayer(m) \in 1..Len(m) /\ m[selectWASMLayer(m)].digest \in Sha256
  BY DEF HasBlobURL
<1>2. CASE Len(m) = 1
  BY <1>1, <1>2
<1>3. CASE Len(m) # 1
  <2>1. Len(m) \in Nat
    BY ManifestsAssumption
  <2>2. wasm # {}
    BY <1>1, <1>3, <2>1 DEF selectWASMLayer
  <2>3. wasm \subseteq Nat
    BY <2>1
  <2>4. \E i \in wasm : \A j \in wasm : i <= j
    BY <2>2, <2>3, LeastExists
  <2>5. selectWASMLayer(m) = CHOOSE i \in wasm : \A j \in wasm : i <= j
    BY <1>3, <2>2 DEF selectWASMLayer
  <2>6. selectWASMLayer(m) \in wasm
    BY <2>4, <2>5
  <2> QED BY <1>1, <2>6
<1> QED BY <1>2, <1>3

(* A URL that the policy finds pinned by its path names an object for the   *)
(* parser too: the segment that the policy has found is a keyword, and the  *)
(* leading "v2" that only the parser removes is not.                        *)
LEMMA PinnedNamesObject ==
  ASSUME NEW u \in Urls, u.digest = <<>>, requestHasDigest(u)
  PROVE  parseACRModuleReference(u).kind # "repository"
<1> DEFINE segments == IF u.path # <<>> /\ Head(u.path) = "v2" THEN Tail(u.path) ELSE u.path
           cuts     == {i \in 1..Len(segments) : segments[i] \in Keywords}
           first    == CHOOSE i \in cuts : \A j \in cuts : i <= j
<1>1. u.path \in Seq(STRING)
  BY UrlsAssumption
<1>2. PICK i \in 1..(Len(u.path) - 1) : u.path[i] \in {"blobs", "manifests"}
  BY DEF requestHasDigest
<1>3. cuts # {}
  <2>1. CASE u.path # <<>> /\ Head(u.path) = "v2"
    <3>1. segments = Tail(u.path) /\ u.path[1] = "v2"
      BY <1>1, <2>1
    <3>2. i # 1
      BY <1>2, <3>1
    <3>3. i - 1 \in 1..Len(segments) /\ segments[i - 1] = u.path[i]
      BY <1>1, <1>2, <2>1, <3>1, <3>2
    <3> QED BY <1>2, <3>3 DEF Keywords
  <2>2. CASE ~(u.path # <<>> /\ Head(u.path) = "v2")
    <3>1. segments = u.path /\ Len(u.path) \in Nat
      BY <1>1, <2>2
    <3>2. i \in 1..Len(segments)
      BY <1>2, <3>1
    <3> QED BY <1>2, <3>1, <3>2 DEF Keywords
  <2> QED BY <2>1, <2>2
<1>4. first \in cuts
  <2>1. cuts \subseteq Nat
    OBVIOUS
  <2>2. \E j \in cuts : \A k \in cuts : j <= k
    BY <1>3, <2>1, LeastExists
  <2> QED BY <2>2
<1>5. parseACRModuleReference(u).kind = segments[first]
  BY <1>3 DEF parseACRModuleReference
<1> QED BY <1>4, <1>5 DEF Keywords

(* What a call that has begun knows of its URL, and one that has replaced   *)
(* a manifest of the layer in its place.                                    *)
Checked ==
    \A c \in Callers :
        /\ call[c].pc # "idle" => Validate(call[c].url)
        /\ call[c].pc # "idle" /\ isACRURL(call[c].url) =>
                ValidReference(parseACRModuleReference(call[c].url))
        /\ call[c].layer # NoLayer =>
                /\ call[c].layer.of \in Manifests
                /\ call[c].layer.at = selectWASMLayer(call[c].layer.of)
                /\ HasBlobURL(call[c].layer.of, call[c].layer.at)

(* Initially no call has begun. *)
LEMMA InitChecked == Init => Checked
BY DEF Init, CallIdle, Checked

(* Every step keeps Checked. *)
LEMMA NextChecked == Inv /\ Checked /\ [Next]_vars => Checked'
<1> SUFFICES ASSUME Inv, Checked, [Next]_vars
             PROVE  Checked'
  OBVIOUS
<1>1. call \in [Callers -> CallType]
  BY DEF Inv, TypeOK, CallType
(* A step of one call: it begins with a URL that was just checked, or goes  *)
(* on with its own, and takes no layer; or it ends.                         *)
<1>2. ASSUME NEW c \in Callers, NEW r, call' = [call EXCEPT ![c] = r],
             \/ /\ r.pc = "idle" /\ r.layer = NoLayer
             \/ /\ r.layer = call[c].layer
                /\ \/ r.url = call[c].url /\ call[c].pc # "idle"
                   \/ /\ Validate(r.url)
                      /\ isACRURL(r.url) => ValidReference(parseACRModuleReference(r.url))
      PROVE  Checked'
  BY <1>1, <1>2 DEF Checked
<1>3. ASSUME NEW c \in Callers, NEW u \in Urls, NotACR(c, u) \/ TokenMissing(c, u)
      PROVE  Checked'
  <2>1. PICK pc \in {"forward", "exchange"} :
            call' = [call EXCEPT ![c] = [Send(c, pc) EXCEPT !.url = u]]
    BY <1>3 DEF NotACR, TokenMissing
  <2>2. /\ [Send(c, pc) EXCEPT !.url = u].layer = call[c].layer
        /\ [Send(c, pc) EXCEPT !.url = u].url = u
    BY <1>1 DEF Send, CallType
  <2>3. Validate(u) /\ (isACRURL(u) => ValidReference(parseACRModuleReference(u)))
    BY <1>3 DEF NotACR, TokenMissing
  <2> QED BY <1>2, <2>1, <2>2, <2>3
<1>4. ASSUME NEW c \in Callers, NEW u, NEW scope, call' = WithToken(c, u, scope),
             Validate(u), isACRURL(u) => ValidReference(parseACRModuleReference(u))
      PROVE  Checked'
  <2>1. PICK pc \in Holding : call' = [call EXCEPT ![c] = [Send(c, pc) EXCEPT !.url = u, !.scope = scope]]
    BY <1>4 DEF WithToken, Holding
  <2>2. /\ [Send(c, pc) EXCEPT !.url = u, !.scope = scope].layer = call[c].layer
        /\ [Send(c, pc) EXCEPT !.url = u, !.scope = scope].url = u
    BY <1>1 DEF Send, CallType
  <2> QED BY <1>2, <1>4, <2>1, <2>2
<1>5. ASSUME NEW c \in Callers, NEW u \in Urls, TokenCached(c, u)
      PROVE  Checked'
  BY <1>4, <1>5 DEF TokenCached
<1>6. ASSUME NEW c \in Callers, NEW e \in ExpiresIn, NEW d \in 0..ClientTimeout, Granted(c, e, d)
      PROVE  Checked'
  <2>1. /\ Validate(call[c].url)
        /\ isACRURL(call[c].url) => ValidReference(parseACRModuleReference(call[c].url))
    BY <1>6 DEF Granted, Checked
  <2> QED BY <1>4, <1>6, <2>1 DEF Granted
<1>7. ASSUME NEW c \in Callers, Exchanged(c)
      PROVE  Checked'
  <2>1. Send(c, "grant").layer = call[c].layer /\ Send(c, "grant").url = call[c].url
    BY <1>1 DEF Send, CallType
  <2> QED BY <1>2, <1>7, <2>1 DEF Exchanged
<1>8. ASSUME NEW c \in Callers, NEW m \in Manifests, ManifestFetched(c, m)
      PROVE  Checked'
  <2>1. CASE HasBlobURL(m, selectWASMLayer(m))
    <3> DEFINE r == [call[c] EXCEPT !.pc = "forward", !.layer = [of |-> m, at |-> selectWASMLayer(m)]]
    <3>1. call[c].pc = "manifest" /\ call' = [call EXCEPT ![c] = r]
      BY <1>8, <2>1 DEF ManifestFetched
    <3>2. r.layer = [of |-> m, at |-> selectWASMLayer(m)] /\ r.url = call[c].url
      BY <1>1 DEF CallType
    <3> HIDE DEF r
    <3> QED BY <1>1, <2>1, <3>1, <3>2 DEF Checked
  <2>2. CASE ~HasBlobURL(m, selectWASMLayer(m))
    <3>1. call' = [call EXCEPT ![c] = CallIdle]
      BY <1>8, <2>2 DEF ManifestFetched
    <3> QED BY <1>2, <3>1 DEF CallIdle
  <2> QED BY <2>1, <2>2
<1>9. ASSUME NEW c \in Callers, Forward(c) \/ RequestFails(c)
      PROVE  Checked'
  <2>1. call' = [call EXCEPT ![c] = CallIdle]
    BY <1>9 DEF Forward, RequestFails
  <2> QED BY <1>2, <2>1 DEF CallIdle
<1>10. ASSUME NEW c \in Callers, Retry(c)
       PROVE  Checked'
  <2> DEFINE r == [call[c] EXCEPT !.n = @ + 1, !.age = 0]
  <2>1. call' = [call EXCEPT ![c] = r] /\ call[c].pc # "idle"
    BY <1>1, <1>10 DEF Retry, Requesting, CallType
  <2>2. r.layer = call[c].layer /\ r.url = call[c].url
    BY <1>1 DEF CallType
  <2> QED BY <1>2, <2>1, <2>2
<1>11. CASE Tick
  <2>1. \A c \in Callers : /\ call'[c].pc = call[c].pc
                           /\ call'[c].url = call[c].url
                           /\ call'[c].layer = call[c].layer
    BY <1>1, <1>11 DEF Tick, CallType
  <2> QED BY <2>1 DEF Checked
<1>12. CASE UNCHANGED vars
  BY <1>12 DEF vars, Checked
<1> QED BY <1>3, <1>5, <1>6, <1>7, <1>8, <1>9, <1>10, <1>11, <1>12 DEF Next, Step

(* In every state, Inv and Checked hold. *)
LEMMA CheckedHolds == Spec => [](Inv /\ Checked)
<1>1. Init => Checked
  BY InitChecked
<1>2. Inv /\ Checked /\ [Next]_vars => Checked'
  BY NextChecked
<1> QED BY <1>1, <1>2, InvHolds, PTL DEF Spec

(* Whatever manifests the registry serves, the layer that replaces one is   *)
(* WebAssembly or the only one, and has a digest the worker verifies.       *)
THEOREM LayersRunnable == Spec => []LayerRunnable
<1>1. Checked => LayerRunnable
  BY SelectedRunnable DEF Checked, LayerRunnable
<1> QED BY <1>1, CheckedHolds, PTL

(* For every set of URLs: where digests are required, a registry's module   *)
(* goes to a worker without a digest only if its request declared one.      *)
THEOREM PolicyPins == Spec => []PinnedByPolicy
<1>1. ASSUME Inv, Checked, RequireDigest, NEW c \in Callers,
             call[c].pc = "forward", isACRURL(call[c].url), call[c].url.digest = <<>>
      PROVE  ModuleDigest(c) # <<>>
  <2>1. CASE call[c].layer # NoLayer
    BY <1>1, <2>1 DEF ModuleDigest
  <2>2. CASE call[c].layer = NoLayer
    <3>1. call[c].url \in Urls
      BY <1>1 DEF Inv, CallsOK
    <3>2. Validate(call[c].url) /\ ValidReference(parseACRModuleReference(call[c].url))
      BY <1>1 DEF Checked
    <3>3. parseACRModuleReference(call[c].url).kind # "repository"
      BY <1>1, <3>1, <3>2, PinnedNamesObject DEF Validate
    <3> QED BY <1>1, <2>2, <3>2, <3>3 DEF ModuleDigest, ValidReference
  <2> QED BY <2>1, <2>2
<1>2. Inv /\ Checked => PinnedByPolicy
  BY <1>1 DEF PinnedByPolicy
<1> QED BY <1>2, CheckedHolds, PTL
=============================================================================

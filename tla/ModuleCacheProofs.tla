-------------------------- MODULE ModuleCacheProofs --------------------------
(****************************************************************************)
(* Proofs about ModuleCache for any number of requests, keys and slots: the *)
(* coalescing of cold compiles (one leader per key, no lost wakeup), the    *)
(* verification of digests through the cache, and the accounting of         *)
(* execution slots.                                                         *)
(*                                                                          *)
(* None of this depends on how entries are ordered and evicted: all that is *)
(* used of a lookup or an insertion is which entries it can add, so the     *)
(* definitions of order, cacheBytes and Evicted stay closed.                *)
(****************************************************************************)
EXTENDS ModuleCache, FiniteSetTheorems, SequenceTheorems, TLAPS

PCs == {"idle", "fetch", "begin", "wait", "woken", "leader", "download",
        "close", "abort", "load", "missing", "loaded", "run", "answer"}

Leading == {"leader", "download", "close", "abort"}

(* Whatever guests may answer. *)
SomeAnswers == Answers("wasi") \cup Answers("wasmcat")

OneReq ==
    [pc: PCs, key: Keys \cup {NoKey}, mod: Modules \cup {NoKey}, ok: BOOLEAN,
     content: Contents \cup {NoContent}, answer: SomeAnswers]

ReqType == [Requests -> OneReq]

CacheType == [Keys -> [cached: BOOLEAN, age: Nat, content: Contents \cup {NoContent}]]

Types ==
    /\ cache \in CacheType
    /\ inflight \subseteq Keys
    /\ req \in ReqType

(* Only an idle request has no module, and every other one its module's key. *)
Keyed ==
    \A q \in Requests : req[q].pc # "idle" => req[q].mod \in Modules /\ req[q].key = ModuleCacheKey(req[q].mod)

Led == \A k \in inflight : \E q \in Requests : req[q].key = k /\ req[q].pc \in Leading

Open == \A q \in Requests : req[q].pc \in Leading => req[q].key \in inflight

Alone ==
    \A p, q \in Requests :
        req[p].pc \in Leading /\ req[q].pc \in Leading /\ req[p].key = req[q].key => p = q

Needed == \A q \in Requests : req[q].pc = "download" => ~cache[req[q].key].cached

Inv ==
    /\ Types
    /\ Keyed
    /\ Led
    /\ Open
    /\ Alone
    /\ Needed
    /\ NoLostWakeup

(* The key of a module is one of the cache's keys. *)
LEMMA KeyType ==
  ASSUME NEW m \in Modules
  PROVE  ModuleCacheKey(m) \in Keys
BY DEF Keys

(* A request in progress has a key. *)
LEMMA ReqKey ==
  ASSUME Inv, NEW q \in Requests, req[q].pc # "idle"
  PROVE  req[q].key \in Keys /\ req[q].mod \in Modules
BY KeyType DEF Inv, Keyed

(* An idle request is well-typed, and every run ends in some answer. *)
LEMMA IdleType == ReqIdle \in OneReq /\ ReqIdle.pc = "idle"
BY DEF ReqIdle, OneReq, PCs, SomeAnswers, Answers

LEMMA AnswerType ==
  ASSUME NEW mode, NEW a \in Answers(mode)
  PROVE  a \in SomeAnswers
<1>1. CASE mode = "wasi"
  BY <1>1 DEF SomeAnswers
<1>2. CASE mode # "wasi"
  BY <1>2 DEF SomeAnswers, Answers
<1> QED BY <1>1, <1>2

(* What one request q does to the others and to the cache in every step     *)
(* that opens or closes no channel: the others keep their phase and key,    *)
(* and nothing is cached anew but what q has downloaded.                    *)
Quiet(q) ==
    /\ req' \in ReqType
    /\ cache' \in CacheType
    /\ inflight' = inflight
    /\ \A p \in Requests \ {q} :
            req'[p].pc = req[p].pc /\ req'[p].key = req[p].key /\ req'[p].mod = req[p].mod
    /\ req'[q].pc # "idle" => req'[q].mod \in Modules /\ req'[q].key = ModuleCacheKey(req'[q].mod)
    /\ \/ req[q].pc \in Leading /\ req'[q].pc \in Leading /\ req'[q].key = req[q].key
       \/ req[q].pc \notin Leading /\ req'[q].pc \notin Leading
    /\ req'[q].pc = "wait" => req'[q].key \in inflight
    /\ req'[q].pc = "download" => ~cache'[req'[q].key].cached
    /\ \A k \in Keys : cache'[k].cached =>
            cache[k].cached \/ (req[q].pc = "download" /\ k = req[q].key)

(* A quiet step keeps the invariant. *)
LEMMA QuietKeeps ==
  ASSUME NEW q \in Requests, Inv, Quiet(q)
  PROVE  Inv'
<1>1. Types'
  BY DEF Inv, Types, Quiet
<1>2. Keyed'
  BY DEF Inv, Keyed, Quiet
<1>3. Led'
  <2>1. SUFFICES ASSUME NEW k \in inflight
                 PROVE  \E p \in Requests : req'[p].key = k /\ req'[p].pc \in Leading
    BY DEF Led, Quiet
  <2>2. PICK p \in Requests : req[p].key = k /\ req[p].pc \in Leading
    BY DEF Inv, Led
  <2>3. req'[p].key = k /\ req'[p].pc \in Leading
    BY <2>2 DEF Quiet
  <2> QED BY <2>3
<1>4. Open'
  BY DEF Inv, Open, Quiet
<1>5. Alone'
  BY DEF Inv, Alone, Quiet
<1>6. Needed'
  <2>1. SUFFICES ASSUME NEW p \in Requests, req'[p].pc = "download"
                 PROVE  ~cache'[req'[p].key].cached
    BY DEF Needed
  <2>2. CASE p = q
    BY <2>1, <2>2 DEF Quiet
  <2>3. CASE p # q
    <3>1. req[p].pc = "download" /\ req'[p].key = req[p].key
      BY <2>1, <2>3 DEF Quiet
    <3>2. ~cache[req[p].key].cached /\ req[p].key \in Keys
      BY <3>1, ReqKey DEF Inv, Needed
    <3>3. ~(req[q].pc = "download" /\ req[p].key = req[q].key)
      BY <2>3, <3>1 DEF Inv, Alone, Leading
    <3> QED BY <3>1, <3>2, <3>3 DEF Quiet
  <2> QED BY <2>2, <2>3
<1>7. NoLostWakeup'
  BY DEF Inv, NoLostWakeup, Quiet
<1> QED BY <1>1, <1>2, <1>3, <1>4, <1>5, <1>6, <1>7 DEF Inv

(* Closing modules touches no request's phase, key, module or content. *)
LEMMA CloseForEffect ==
  ASSUME req \in ReqType, NEW gone
  PROVE  /\ CloseFor(gone) \in ReqType
         /\ \A p \in Requests : /\ CloseFor(gone)[p].pc = req[p].pc
                                /\ CloseFor(gone)[p].key = req[p].key
                                /\ CloseFor(gone)[p].mod = req[p].mod
                                /\ CloseFor(gone)[p].content = req[p].content
BY DEF CloseFor, ReqType, OneReq

(* What a lookup of q's key does, whatever its two outcomes lead to. *)
LEMMA LookupEffect ==
  ASSUME NEW q \in Requests, Inv, req[q].pc # "idle",
         NEW hit \in OneReq, hit.key = req[q].key, hit.mod = req[q].mod,
         NEW miss \in PCs, Lookup(q, hit, miss)
  PROVE  /\ req' \in ReqType
         /\ cache' \in CacheType
         /\ \A p \in Requests \ {q} : /\ req'[p].pc = req[p].pc
                                      /\ req'[p].key = req[p].key
                                      /\ req'[p].mod = req[p].mod
                                      /\ req'[p].content = req[p].content
         /\ req'[q].key = req[q].key /\ req'[q].mod = req[q].mod
         /\ \/ req'[q] = hit /\ cache[req[q].key].cached
            \/ req'[q].pc = miss /\ ~cache'[req[q].key].cached
         /\ \A k \in Keys : cache'[k].cached => cache[k].cached /\ cache'[k].content = cache[k].content
<1> DEFINE k == req[q].key
<1>1. Types /\ k \in Keys
  BY ReqKey DEF Inv
<1>2. CASE cache[k].cached /\ ~entryExpired(cache[k])
  <2>1. req' = [req EXCEPT ![q] = hit] /\ cache' = cache
    BY <1>2 DEF Lookup
  <2> QED BY <1>1, <1>2, <2>1 DEF Types, ReqType
<1>3. CASE cache[k].cached /\ entryExpired(cache[k])
  <2>1. /\ req' = [CloseFor({k}) EXCEPT ![q].pc = miss]
        /\ cache' = Without(cache, {k})
    BY <1>3 DEF Lookup
  <2>2. CloseFor({k}) \in ReqType
        /\ \A p \in Requests : /\ CloseFor({k})[p].pc = req[p].pc
                               /\ CloseFor({k})[p].key = req[p].key
                               /\ CloseFor({k})[p].mod = req[p].mod
                               /\ CloseFor({k})[p].content = req[p].content
    BY <1>1, CloseForEffect DEF Types
  <2>3. /\ cache' \in CacheType
        /\ ~cache'[k].cached
        /\ \A j \in Keys : cache'[j].cached => cache[j].cached /\ cache'[j].content = cache[j].content
    BY <1>1, <2>1 DEF Without, NotCached, Types, CacheType
  <2> QED BY <2>1, <2>2, <2>3 DEF ReqType, OneReq
<1>4. CASE ~cache[k].cached
  <2>1. req' = Goto(q, miss) /\ cache' = cache
    BY <1>4 DEF Lookup
  <2> QED BY <1>1, <1>4, <2>1 DEF Goto, At, Types, ReqType, OneReq
<1> QED BY <1>2, <1>3, <1>4

(* A request at another place. *)
LEMMA AtType ==
  ASSUME NEW q \in Requests, req \in ReqType, NEW pc \in PCs
  PROVE  /\ At(q, pc) \in OneReq
         /\ At(q, pc).pc = pc
         /\ At(q, pc).key = req[q].key /\ At(q, pc).mod = req[q].mod
         /\ At(q, pc).content = req[q].content
BY DEF At, ReqType, OneReq

(* The request that has loaded its module. *)
Loaded(q) == [At(q, "loaded") EXCEPT !.content = cache[req[q].key].content]

LEMMA LoadedType ==
  ASSUME NEW q \in Requests, Inv, req[q].pc # "idle"
  PROVE  /\ Loaded(q) \in OneReq
         /\ Loaded(q).pc = "loaded"
         /\ Loaded(q).key = req[q].key /\ Loaded(q).mod = req[q].mod
         /\ Loaded(q).content = cache[req[q].key].content
<1>1. cache[req[q].key].content \in Contents \cup {NoContent}
  BY ReqKey DEF Inv, Types, CacheType
<1>2. /\ At(q, "loaded") \in OneReq
      /\ At(q, "loaded").pc = "loaded"
      /\ At(q, "loaded").key = req[q].key /\ At(q, "loaded").mod = req[q].mod
  BY AtType DEF Inv, Types, PCs
<1> QED BY <1>1, <1>2 DEF Loaded, OneReq

(* The four lookups of a request are quiet. *)
LEMMA LookupsQuiet ==
  ASSUME NEW q \in Requests, Inv,
         FirstLook(q) \/ Woken(q) \/ SecondLook(q) \/ Load(q)
  PROVE  Quiet(q)
<1>1. /\ req[q].key \in Keys /\ req[q].mod \in Modules /\ req[q].key = ModuleCacheKey(req[q].mod)
      /\ req \in ReqType
  BY ReqKey DEF Inv, Types, Keyed, FirstLook, Woken, SecondLook, Load
<1>2. CASE FirstLook(q) \/ Woken(q)
  <2>1. PICK miss \in {"begin", "missing"} :
           Lookup(q, At(q, "load"), miss) /\ req[q].pc \in {"fetch", "woken"} /\ inflight' = inflight
    BY <1>2 DEF FirstLook, Woken
  <2>2. At(q, "load") \in OneReq /\ At(q, "load").pc = "load"
        /\ At(q, "load").key = req[q].key /\ At(q, "load").mod = req[q].mod
    BY <1>1, AtType DEF PCs
  <2> QED BY <1>1, <2>1, <2>2, LookupEffect DEF Quiet, PCs, Leading
<1>3. CASE SecondLook(q)
  <2>1. Lookup(q, At(q, "close"), "download") /\ req[q].pc = "leader" /\ inflight' = inflight
    BY <1>3 DEF SecondLook
  <2>2. At(q, "close") \in OneReq /\ At(q, "close").pc = "close"
        /\ At(q, "close").key = req[q].key /\ At(q, "close").mod = req[q].mod
    BY <1>1, AtType DEF PCs
  <2> QED BY <1>1, <2>1, <2>2, LookupEffect DEF Quiet, PCs, Leading
<1>4. CASE Load(q)
  <2>1. Lookup(q, Loaded(q), "missing") /\ req[q].pc = "load" /\ inflight' = inflight
    BY <1>4 DEF Load, Loaded
  <2>2. Loaded(q) \in OneReq /\ Loaded(q).pc = "loaded"
        /\ Loaded(q).key = req[q].key /\ Loaded(q).mod = req[q].mod
    BY <2>1, LoadedType
  <2> QED BY <1>1, <2>1, <2>2, LookupEffect DEF Quiet, PCs, Leading
<1> QED BY <1>2, <1>3, <1>4

(* What an insertion does to the cache and to the requests. *)
LEMMA InsertEffect ==
  ASSUME NEW q \in Requests, NEW b \in Contents, Inv, Insert(q, b)
  PROVE  /\ req[q].pc = "download" /\ inflight' = inflight
         /\ verifyModuleDigest(req[q].mod, b)
         /\ cache' \in CacheType
         /\ \A j \in Keys : cache'[j].cached =>
                \/ cache[j].cached /\ cache'[j].content = cache[j].content
                \/ j = req[q].key /\ cache'[j].content = b
         /\ req' \in ReqType
         /\ req'[q].pc = "close" /\ req'[q].key = req[q].key /\ req'[q].mod = req[q].mod
         /\ \A p \in Requests \ {q} : /\ req'[p].pc = req[p].pc
                                      /\ req'[p].key = req[p].key
                                      /\ req'[p].mod = req[p].mod
                                      /\ req'[p].content = req[p].content
<1> DEFINE k == req[q].key
           added == [cache EXCEPT ![k] = [cached |-> TRUE, age |-> 0, content |-> b]]
<1>1. /\ Types /\ k \in Keys /\ req[q].pc = "download" /\ inflight' = inflight /\ ~cache[k].cached
      /\ verifyModuleDigest(req[q].mod, b)
  BY ReqKey DEF Inv, Needed, Insert
<1>2. PICK gone : cache' = Without(added, gone) /\ req' = [CloseFor(gone) EXCEPT ![q].pc = "close"]
  BY <1>1 DEF Insert
<1>3. /\ CloseFor(gone) \in ReqType
      /\ \A p \in Requests : /\ CloseFor(gone)[p].pc = req[p].pc
                             /\ CloseFor(gone)[p].key = req[p].key
                             /\ CloseFor(gone)[p].mod = req[p].mod
                             /\ CloseFor(gone)[p].content = req[p].content
  BY <1>1, CloseForEffect DEF Types
<1>4. /\ added \in CacheType
      /\ added[k].content = b
      /\ \A j \in Keys \ {k} : added[j] = cache[j]
  BY <1>1 DEF Types, CacheType
<1>5. /\ cache' \in CacheType
      /\ \A j \in Keys : cache'[j].cached => cache'[j] = added[j]
  BY <1>2, <1>4 DEF Without, NotCached, CacheType
<1>6. \A j \in Keys : cache'[j].cached =>
          \/ cache[j].cached /\ cache'[j].content = cache[j].content
          \/ j = k /\ cache'[j].content = b
  BY <1>4, <1>5
<1>7. /\ req' \in ReqType
      /\ req'[q].pc = "close" /\ req'[q].key = k /\ req'[q].mod = req[q].mod
      /\ \A p \in Requests \ {q} : req'[p] = CloseFor(gone)[p]
  BY <1>2, <1>3 DEF ReqType, OneReq, PCs
<1> QED BY <1>1, <1>3, <1>5, <1>6, <1>7

(* So is the insertion of what a leader has compiled. *)
LEMMA InsertQuiet ==
  ASSUME NEW q \in Requests, NEW b \in Contents, Inv, Insert(q, b)
  PROVE  Quiet(q)
<1>1. req[q].pc = "download" /\ req[q].mod \in Modules /\ req[q].key = ModuleCacheKey(req[q].mod)
  BY InsertEffect DEF Inv, Keyed
<1> QED BY <1>1, InsertEffect DEF Quiet, Leading

(* The steps that change one request only, and neither cache nor channels. *)
LEMMA OneRequestQuiet ==
  ASSUME NEW q \in Requests, Inv,
         \/ \E m \in Modules : Arrive(q, m)
         \/ beginCompile(q) /\ req[q].key \in inflight
         \/ DownloadFails(q)
         \/ NotLoaded(q)
         \/ Instantiate(q)
         \/ Run(q)
         \/ Answer(q)
         \/ WaitTimeout(q)
  PROVE  Quiet(q)
<1>1. /\ Types
      /\ req[q].pc # "idle" => /\ req[q].key \in Keys
                               /\ req[q].mod \in Modules
                               /\ req[q].key = ModuleCacheKey(req[q].mod)
  BY ReqKey DEF Inv, Keyed
<1>2. cache' = cache /\ inflight' = inflight
  BY DEF Arrive, beginCompile, DownloadFails, NotLoaded, Instantiate, Run, Answer, WaitTimeout
(* It is enough to know where the request goes. *)
<1>3. ASSUME req'[q] \in OneReq, req' = [req EXCEPT ![q] = req'[q]],
             \/ req[q].pc \notin Leading /\ req'[q].pc \notin Leading
             \/ req[q].pc \in Leading /\ req'[q].pc = "abort" /\ req'[q].key = req[q].key,
             req'[q].pc # "idle" => req'[q].mod \in Modules /\ req'[q].key = ModuleCacheKey(req'[q].mod),
             req'[q].pc = "wait" => req'[q].key \in inflight
      PROVE  Quiet(q)
  <2>1. req' \in ReqType /\ \A p \in Requests \ {q} : req'[p] = req[p]
    BY <1>1, <1>3 DEF Types, ReqType
  <2>2. req'[q].pc # "download"
    BY <1>3 DEF Leading
  <2> QED BY <1>1, <1>2, <1>3, <2>1, <2>2 DEF Quiet, Types, Leading
<1>4. ASSUME NEW m \in Modules, Arrive(q, m)
      PROVE  Quiet(q)
  <2> DEFINE s == [req[q] EXCEPT !.pc = "fetch", !.key = ModuleCacheKey(m), !.mod = m]
  <2>1. req' = [req EXCEPT ![q] = s] /\ req[q].pc = "idle"
    BY <1>1, <1>4 DEF Arrive, Types, ReqType, OneReq
  <2>2. s \in OneReq /\ s.pc = "fetch" /\ s.mod = m /\ s.key = ModuleCacheKey(m)
    BY <1>1, KeyType DEF Types, ReqType, OneReq, PCs
  <2> HIDE DEF s
  <2>3. req'[q] = s
    BY <1>1, <2>1 DEF Types, ReqType
  <2> QED BY <1>3, <2>1, <2>2, <2>3 DEF Leading
<1>5. ASSUME NEW pc \in PCs, req' = Goto(q, pc), req[q].pc # "idle",
             \/ req[q].pc \notin Leading /\ pc \notin Leading
             \/ req[q].pc \in Leading /\ pc = "abort",
             pc = "wait" => req[q].key \in inflight
      PROVE  Quiet(q)
  <2>1. At(q, pc) \in OneReq /\ At(q, pc).pc = pc /\ At(q, pc).key = req[q].key /\ At(q, pc).mod = req[q].mod
    BY <1>1, AtType DEF Types
  <2>2. req'[q] = At(q, pc) /\ req' = [req EXCEPT ![q] = At(q, pc)]
    BY <1>1, <1>5 DEF Goto, Types, ReqType
  <2> QED BY <1>1, <1>3, <1>5, <2>1, <2>2
<1>6. CASE beginCompile(q) /\ req[q].key \in inflight
  <2>1. req' = Goto(q, "wait") /\ req[q].pc = "begin"
    BY <1>6 DEF beginCompile
  <2> QED BY <1>5, <1>6, <2>1 DEF PCs, Leading
<1>7. CASE DownloadFails(q)
  <2>1. req' = Goto(q, "abort") /\ req[q].pc = "download"
    BY <1>7 DEF DownloadFails
  <2> QED BY <1>5, <2>1 DEF PCs, Leading
<1>8. ASSUME Finish(q), req[q].pc \notin Leading
      PROVE  Quiet(q)
  <2>1. req'[q] = ReqIdle /\ req' = [req EXCEPT ![q] = ReqIdle]
    BY <1>1, <1>8 DEF Finish, Types, ReqType
  <2> QED BY <1>3, <1>8, <2>1, IdleType DEF Leading
<1>9. CASE NotLoaded(q) \/ Answer(q) \/ WaitTimeout(q)
  BY <1>8, <1>9 DEF NotLoaded, Answer, WaitTimeout, Leading
<1>10. CASE Instantiate(q)
  <2>1. req[q].pc = "loaded" /\ (req' = Goto(q, "run") \/ Finish(q))
    BY <1>10 DEF Instantiate
  <2>2. CASE req' = Goto(q, "run")
    BY <1>5, <2>1, <2>2 DEF PCs, Leading
  <2>3. CASE Finish(q)
    BY <1>8, <2>1, <2>3 DEF Leading
  <2> QED BY <2>1, <2>2, <2>3
<1>11. CASE Run(q)
  <2>1. PICK a \in Answers(resolveModuleABI(req[q].mod.abi, req[q].content)) :
            req' = [req EXCEPT ![q] = [At(q, "answer") EXCEPT !.answer = a]]
    BY <1>11 DEF Run
  <2> DEFINE s == [At(q, "answer") EXCEPT !.answer = a]
  <2>2. a \in SomeAnswers
    BY AnswerType
  <2>3. /\ At(q, "answer") \in OneReq /\ At(q, "answer").pc = "answer"
        /\ At(q, "answer").key = req[q].key /\ At(q, "answer").mod = req[q].mod
    BY <1>1, AtType DEF Types, PCs
  <2>4. s \in OneReq /\ s.pc = "answer" /\ s.key = req[q].key /\ s.mod = req[q].mod
    BY <2>2, <2>3 DEF OneReq
  <2>5. req[q].pc = "run"
    BY <1>11 DEF Run
  <2>6. req' = [req EXCEPT ![q] = s]
    BY <2>1
  <2> HIDE DEF s
  <2>7. req'[q] = s
    BY <1>1, <2>6 DEF Types, ReqType
  <2> QED BY <1>1, <1>3, <2>4, <2>5, <2>6, <2>7 DEF Leading
<1> QED BY <1>4, <1>6, <1>7, <1>9, <1>10, <1>11

(* A request that finds no channel for its key opens one and leads. *)
LEMMA BeginKeeps ==
  ASSUME NEW q \in Requests, Inv, beginCompile(q), req[q].key \notin inflight
  PROVE  Inv'
<1>1. /\ Types /\ req[q].key \in Keys /\ req[q].pc = "begin"
      /\ req' = [req EXCEPT ![q] = At(q, "leader")]
      /\ inflight' = inflight \cup {req[q].key}
      /\ cache' = cache
  BY ReqKey DEF Inv, beginCompile, Goto
<1>2. /\ req' \in ReqType
      /\ req'[q].pc = "leader" /\ req'[q].key = req[q].key /\ req'[q].mod = req[q].mod
      /\ \A p \in Requests \ {q} : req'[p] = req[p]
  <2>1. At(q, "leader") \in OneReq /\ At(q, "leader").pc = "leader"
        /\ At(q, "leader").key = req[q].key /\ At(q, "leader").mod = req[q].mod
    BY <1>1, AtType DEF Types, PCs
  <2> QED BY <1>1, <2>1 DEF Types, ReqType
<1>3. Types' /\ Keyed'
  BY <1>1, <1>2 DEF Inv, Types, Keyed
<1>4. Led'
  <2>1. SUFFICES ASSUME NEW k \in inflight'
                 PROVE  \E p \in Requests : req'[p].key = k /\ req'[p].pc \in Leading
    BY DEF Led
  <2>2. CASE k = req[q].key
    BY <1>2, <2>2 DEF Leading
  <2>3. CASE k # req[q].key
    <3>1. PICK p \in Requests : req[p].key = k /\ req[p].pc \in Leading
      BY <1>1, <2>1, <2>3 DEF Inv, Led
    <3>2. req'[p].key = k /\ req'[p].pc \in Leading
      BY <1>2, <2>3, <3>1
    <3> QED BY <3>2
  <2> QED BY <2>2, <2>3
<1>5. Open' /\ Alone' /\ Needed' /\ NoLostWakeup'
  BY <1>1, <1>2 DEF Inv, Open, Alone, Needed, NoLostWakeup, Leading
<1> QED BY <1>3, <1>4, <1>5 DEF Inv

(* A leader closes the channel of its key and wakes everyone waiting on it. *)
LEMMA FinishKeeps ==
  ASSUME NEW q \in Requests, Inv, finishCompile(q) \/ finishFailedCompile(q)
  PROVE  Inv'
<1> DEFINE k == req[q].key
<1>1. /\ Types /\ k \in inflight /\ req[q].pc \in Leading
      /\ inflight' = inflight \ {k}
      /\ cache' = cache
      /\ \/ req' = [Wake(k) EXCEPT ![q].pc = "load"]
         \/ req' = [Wake(k) EXCEPT ![q] = ReqIdle]
  BY DEF Inv, Open, finishCompile, finishFailedCompile, Leading
<1>2. /\ Wake(k) \in ReqType
      /\ \A p \in Requests : Wake(k)[p].key = req[p].key /\ Wake(k)[p].mod = req[p].mod
      /\ \A p \in Requests : Wake(k)[p].pc = req[p].pc \/ (req[p].pc = "wait" /\ Wake(k)[p].pc = "woken")
      /\ \A p \in Requests : req[p].pc = "wait" /\ req[p].key = k => Wake(k)[p].pc = "woken"
  BY <1>1 DEF Wake, Types, ReqType, OneReq, PCs
<1>3. /\ req' \in ReqType
      /\ req'[q].pc \in {"load", "idle"}
      /\ req'[q].pc = "load" => req'[q].key = k /\ req'[q].mod = req[q].mod
      /\ \A p \in Requests \ {q} : req'[p] = Wake(k)[p]
  <2>1. CASE req' = [Wake(k) EXCEPT ![q].pc = "load"]
    BY <1>2, <2>1 DEF ReqType, OneReq, PCs
  <2>2. CASE req' = [Wake(k) EXCEPT ![q] = ReqIdle]
    BY <1>2, <2>2, IdleType DEF ReqType
  <2> QED BY <1>1, <2>1, <2>2
<1>4. Types' /\ Keyed'
  BY <1>1, <1>2, <1>3 DEF Inv, Types, Keyed, Leading
<1>5. Led'
  <2>1. SUFFICES ASSUME NEW j \in inflight, j # k
                 PROVE  \E p \in Requests : req'[p].key = j /\ req'[p].pc \in Leading
    BY <1>1 DEF Led
  <2>2. PICK p \in Requests : req[p].key = j /\ req[p].pc \in Leading
    BY DEF Inv, Led
  <2>3. req'[p].key = j /\ req'[p].pc \in Leading
    BY <1>2, <1>3, <2>1, <2>2 DEF Leading
  <2> QED BY <2>3
<1>6. \A p \in Requests : req'[p].pc \in Leading => p # q /\ req'[p].pc = req[p].pc /\ req'[p].key = req[p].key
  BY <1>2, <1>3 DEF Leading
<1>7. Open' /\ Alone'
  BY <1>1, <1>6 DEF Inv, Open, Alone
<1>8. Needed'
  BY <1>1, <1>6 DEF Inv, Needed, Leading
<1>9. NoLostWakeup'
  BY <1>1, <1>2, <1>3 DEF Inv, NoLostWakeup
<1> QED BY <1>4, <1>5, <1>7, <1>8, <1>9 DEF Inv

(* Initially nobody leads and nobody waits. *)
LEMMA InitInv == Init => Inv
<1> SUFFICES ASSUME Init PROVE Inv
  OBVIOUS
<1>1. req \in ReqType /\ \A q \in Requests : req[q].pc = "idle"
  BY IdleType DEF Init, ReqType
<1>2. cache \in CacheType
  BY DEF Init, NotCached, CacheType
<1> QED BY <1>1, <1>2 DEF Init, Inv, Types, Keyed, Led, Open, Alone, Needed, NoLostWakeup, Leading

(* Every step keeps the invariant. *)
LEMMA NextInv == Inv /\ [Next]_vars => Inv'
<1> SUFFICES ASSUME Inv, [Next]_vars
             PROVE  Inv'
  OBVIOUS
<1>1. ASSUME NEW q \in Requests, NEW m \in Modules, Arrive(q, m)
      PROVE  Inv'
  BY <1>1, OneRequestQuiet, QuietKeeps
<1>2. ASSUME NEW q \in Requests, Step(q) \/ WaitTimeout(q)
      PROVE  Inv'
  <2>1. CASE FirstLook(q) \/ Woken(q) \/ SecondLook(q) \/ Load(q)
    BY <2>1, LookupsQuiet, QuietKeeps
  <2>2. CASE \E b \in Contents : Insert(q, b)
    BY <2>2, InsertQuiet, QuietKeeps
  <2>3. CASE beginCompile(q)
    BY <2>3, BeginKeeps, OneRequestQuiet, QuietKeeps
  <2>4. CASE finishCompile(q) \/ finishFailedCompile(q)
    BY <2>4, FinishKeeps
  <2>5. CASE DownloadFails(q) \/ NotLoaded(q) \/ Instantiate(q) \/ Run(q) \/ Answer(q) \/ WaitTimeout(q)
    BY <2>5, OneRequestQuiet, QuietKeeps
  <2> QED BY <1>2, <2>1, <2>2, <2>3, <2>4, <2>5 DEF Step
<1>3. CASE Tick
  <2>1. /\ cache' \in CacheType
        /\ \A k \in Keys : cache'[k].cached = cache[k].cached
        /\ req' = req /\ inflight' = inflight
    BY <1>3 DEF Tick, Inv, Types, CacheType
  <2> QED BY <2>1 DEF Inv, Types, Keyed, Led, Open, Alone, Needed, NoLostWakeup, Leading
<1>4. CASE UNCHANGED vars
  BY <1>4 DEF vars, Inv, Types, Keyed, Led, Open, Alone, Needed, NoLostWakeup
<1> QED BY <1>1, <1>2, <1>3, <1>4 DEF Next

(* The inductive invariant holds in every state. *)
THEOREM InvHolds == Spec => []Inv
<1>1. Init => Inv
  BY InitInv
<1>2. Inv /\ [Next]_vars => Inv'
  BY NextInv
<1> QED BY <1>1, <1>2, PTL DEF Spec

(* However many requests miss on a module at once, one of them downloads    *)
(* and compiles it, its channel is open as long, and when it inserts the    *)
(* module nobody else has.                                                  *)
THEOREM OneLeader == Spec => []OneLeaderPerKey
<1>1. Inv => OneLeaderPerKey
  <2> SUFFICES ASSUME Inv PROVE OneLeaderPerKey
    OBVIOUS
  <2>1. \A k \in Keys : k \in inflight <=> Leaders(k) # {}
    BY DEF Inv, Led, Open, Leaders, Leading
  <2>2. \A k \in Keys : \A p, q \in Leaders(k) : p = q
    BY DEF Inv, Alone, Leaders, Leading
  <2> QED BY <2>1, <2>2 DEF OneLeaderPerKey, Inv, Needed
<1> QED BY <1>1, InvHolds, PTL

(* A follower always waits on a channel that its leader will close. *)
THEOREM NoWakeupLost == Spec => []NoLostWakeup
<1>1. Inv => NoLostWakeup
  BY DEF Inv
<1> QED BY <1>1, InvHolds, PTL

-----------------------------------------------------------------------------
(* Digests *)

(* What is cached under the key of a digest has that digest. *)
CacheVerified ==
    \A k \in Keys : \A m \in Modules :
        cache[k].cached /\ k = ModuleCacheKey(m) /\ m.digest # <<>> /\ Plain(m) =>
            m.digest = <<cache[k].content>>

Verified == CacheVerified /\ DigestVerified

Holding == {"loaded", "run", "answer"}

(* The elements of a key: a name, a marker and what follows it. *)
Spells(k, a, mark, z) ==
    /\ Len(k) = Len(a) + 1 + Len(z)
    /\ \A i \in 1..Len(a) : k[i] = a[i]
    /\ k[Len(a) + 1] = mark
    /\ \A i \in 1..Len(z) : k[Len(a) + 1 + i] = z[i]

LEMMA KeySpelled ==
  ASSUME NEW a \in Seq(Pieces), NEW mark \in Pieces, NEW z \in Seq(Pieces)
  PROVE  Spells(a \o <<mark>> \o z, a, mark, z)
<1>1. <<mark>> \in Seq(Pieces) /\ Len(<<mark>>) = 1 /\ <<mark>>[1] = mark
  OBVIOUS
<1> DEFINE b == a \o <<mark>>
<1>2. /\ b \in Seq(Pieces) /\ Len(b) = Len(a) + 1
      /\ \A i \in 1..(Len(a) + 1) : b[i] = IF i <= Len(a) THEN a[i] ELSE <<mark>>[i - Len(a)]
  BY <1>1, ConcatProperties
<1>3. /\ Len(b \o z) = Len(b) + Len(z)
      /\ \A i \in 1..(Len(b) + Len(z)) : (b \o z)[i] = IF i <= Len(b) THEN b[i] ELSE z[i - Len(b)]
  BY <1>2, ConcatProperties
<1>4. Len(a) \in Nat /\ Len(z) \in Nat
  BY LenProperties
<1> HIDE DEF b
<1>5. \A i \in 1..Len(a) : (b \o z)[i] = a[i]
  BY <1>2, <1>3, <1>4
<1>6. (b \o z)[Len(a) + 1] = mark
  <2>1. b[Len(a) + 1] = mark
    BY <1>1, <1>2, <1>4
  <2> QED BY <1>2, <1>3, <1>4, <2>1
<1>7. \A i \in 1..Len(z) : (b \o z)[Len(a) + 1 + i] = z[i]
  BY <1>2, <1>3, <1>4
<1> QED BY <1>2, <1>3, <1>4, <1>5, <1>6, <1>7 DEF b, Spells

(* A key in which a single marker occurs can be read in one way only. *)
LEMMA OneReading ==
  ASSUME NEW k, NEW marks, NEW mark, NEW other \in marks,
         NEW a \in Seq(Pieces), NEW d \in Seq(Pieces), Spells(k, a, mark, d),
         NEW c \in Seq(Pieces), NEW z \in Seq(Pieces), Spells(k, c, other, z),
         \A i \in 1..Len(a) : a[i] \notin marks,
         \A i \in 1..Len(d) : d[i] \notin marks
  PROVE  other = mark /\ z = d
<1>1. Len(a) \in Nat /\ Len(d) \in Nat /\ Len(c) \in Nat /\ Len(z) \in Nat
  BY LenProperties
<1>2. k[Len(c) + 1] = other /\ Len(a) + 1 + Len(d) = Len(c) + 1 + Len(z)
  BY DEF Spells
<1>3. ~(Len(c) < Len(a))
  <2>1. SUFFICES ASSUME Len(c) < Len(a) PROVE FALSE
    OBVIOUS
  <2>2. Len(c) + 1 \in 1..Len(a)
    BY <1>1, <2>1
  <2>3. k[Len(c) + 1] = a[Len(c) + 1]
    BY <2>2 DEF Spells
  <2> QED BY <1>2, <2>2, <2>3
<1>4. ~(Len(c) > Len(a))
  <2>1. SUFFICES ASSUME Len(c) > Len(a) PROVE FALSE
    OBVIOUS
  <2> DEFINE i == Len(c) - Len(a)
  <2>2. i \in 1..Len(d) /\ Len(a) + 1 + i = Len(c) + 1
    BY <1>1, <1>2, <2>1
  <2> HIDE DEF i
  <2>3. k[Len(a) + 1 + i] = d[i]
    BY <2>2 DEF Spells
  <2> QED BY <1>2, <2>2, <2>3
<1>5. Len(c) = Len(a) /\ Len(z) = Len(d)
  BY <1>1, <1>2, <1>3, <1>4
<1>6. other = mark
  BY <1>2, <1>5 DEF Spells
<1>7. \A i \in 1..Len(d) : z[i] = d[i]
  BY <1>5 DEF Spells
<1> QED BY <1>5, <1>6, <1>7, SeqEqual

(* Whoever downloads a module under the key of a plain one with a digest    *)
(* has verified that digest: the other key is made of the same parts.       *)
LEMMA KeyTellsDigest ==
  ASSUME NEW m \in Modules, NEW n \in Modules, ModuleCacheKey(m) = ModuleCacheKey(n),
         m.digest # <<>>, Plain(m),
         n.url # <<>>, NEW b \in Contents, verifyModuleDigest(n, b)
  PROVE  m.digest = <<b>>
<1> DEFINE marks == {UrlMark, DigestMark}
<1>1. /\ m.name \in Seq(Pieces) /\ m.digest \in Seq(Pieces)
      /\ n.name \in Seq(Pieces) /\ n.url \in Seq(Pieces) /\ n.digest \in Seq(Pieces)
      /\ UrlMark \in Pieces /\ DigestMark \in Pieces /\ UrlMark # DigestMark
  BY ModuleCacheAssumption DEF UrlMark, DigestMark
<1>2. /\ \A i \in 1..Len(m.name) : m.name[i] \notin marks
      /\ \A i \in 1..Len(m.digest) : m.digest[i] \notin marks
  <2>1. DOMAIN m.name = 1..Len(m.name) /\ DOMAIN m.digest = 1..Len(m.digest)
    BY <1>1, LenProperties
  <2> QED BY <2>1, Zenon DEF Plain
<1>3. UrlMark \in marks /\ DigestMark \in marks
  OBVIOUS
<1> HIDE DEF marks
<1>4. Spells(ModuleCacheKey(m), m.name, DigestMark, m.digest)
  <2>1. ModuleCacheKey(m) = m.name \o <<DigestMark>> \o m.digest
    BY DEF ModuleCacheKey
  <2> QED BY <1>1, <2>1, KeySpelled, Zenon
<1>5. CASE n.digest = <<>>
  <2>1. ModuleCacheKey(n) = n.name \o <<UrlMark>> \o n.url
    BY <1>5 DEF ModuleCacheKey
  <2>2. Spells(ModuleCacheKey(m), n.name, UrlMark, n.url)
    BY <1>1, <2>1, KeySpelled, Zenon
  <2>3. UrlMark = DigestMark
    BY <1>1, <1>2, <1>3, <1>4, <2>2, OneReading, Zenon
  <2> QED BY <1>1, <2>3
<1>6. CASE n.digest # <<>>
  <2>1. ModuleCacheKey(n) = n.name \o <<DigestMark>> \o n.digest
    BY <1>6 DEF ModuleCacheKey
  <2>2. Spells(ModuleCacheKey(m), n.name, DigestMark, n.digest)
    BY <1>1, <2>1, KeySpelled, Zenon
  <2>3. n.digest = m.digest
    BY <1>1, <1>2, <1>3, <1>4, <2>2, OneReading
  <2> QED BY <1>6, <2>3 DEF verifyModuleDigest
<1> QED BY <1>5, <1>6

(* Nobody else's module changes, and what q holds is what it held, or what  *)
(* is cached under its key.                                                 *)
LEMMA HoldersVerified ==
  ASSUME NEW q \in Requests, Inv, Verified,
         \A p \in Requests \ {q} : /\ req'[p].mod = req[p].mod
                                   /\ req'[p].content = req[p].content
                                   /\ req'[p].pc \in Holding => req[p].pc \in Holding,
         req'[q].pc \in Holding =>
            /\ req'[q].mod = req[q].mod
            /\ req[q].pc # "idle"
            /\ \/ req[q].pc \in Holding /\ req'[q].content = req[q].content
               \/ cache[req[q].key].cached /\ req'[q].content = cache[req[q].key].content
  PROVE  DigestVerified'
<1>1. SUFFICES ASSUME NEW p \in Requests, req'[p].pc \in Holding, req'[p].mod.digest # <<>>, Plain(req'[p].mod)
               PROVE  req'[p].mod.digest = <<req'[p].content>>
  BY DEF DigestVerified, Running, Holding
<1>2. CASE p # q
  <2>1. req[p].pc \in Holding /\ req'[p].mod = req[p].mod /\ req'[p].content = req[p].content
    BY <1>1, <1>2
  <2> QED BY <1>1, <2>1 DEF Verified, DigestVerified, Running, Holding
<1>3. CASE p = q /\ req[q].pc \in Holding /\ req'[q].content = req[q].content
  BY <1>1, <1>3 DEF Verified, DigestVerified, Running, Holding
<1>4. CASE p = q /\ cache[req[q].key].cached /\ req'[q].content = cache[req[q].key].content
  <2>1. req[q].key \in Keys /\ req[q].mod \in Modules /\ req[q].key = ModuleCacheKey(req[q].mod)
    BY <1>1, <1>4, ReqKey DEF Inv, Keyed
  <2> QED BY <1>1, <1>4, <2>1 DEF Verified, CacheVerified
<1> QED BY <1>1, <1>2, <1>3, <1>4

(* A lookup verifies nothing, and need not. *)
LEMMA LookupVerified ==
  ASSUME NEW q \in Requests, Inv, Verified, req[q].pc \notin Holding \cup {"idle"},
         NEW hit \in OneReq, hit.key = req[q].key, hit.mod = req[q].mod,
         hit.pc \in Holding => hit.content = cache[req[q].key].content,
         NEW miss \in PCs \ Holding, Lookup(q, hit, miss)
  PROVE  Verified'
<1>1. /\ \A p \in Requests \ {q} : /\ req'[p].pc = req[p].pc
                                   /\ req'[p].mod = req[p].mod
                                   /\ req'[p].content = req[p].content
      /\ req'[q].mod = req[q].mod
      /\ \/ req'[q] = hit /\ cache[req[q].key].cached
         \/ req'[q].pc = miss
      /\ \A k \in Keys : cache'[k].cached => cache[k].cached /\ cache'[k].content = cache[k].content
  BY LookupEffect
<1>2. CacheVerified'
  BY <1>1 DEF Verified, CacheVerified
<1>3. DigestVerified'
  BY <1>1, HoldersVerified
<1> QED BY <1>2, <1>3 DEF Verified

(* What is cached stays verified, and so does what is run. *)
LEMMA NextVerified == Inv /\ Verified /\ [Next]_vars => Verified'
<1> SUFFICES ASSUME Inv, Verified, [Next]_vars
             PROVE  Verified'
  OBVIOUS
<1>1. req \in ReqType /\ cache \in CacheType
  BY DEF Inv, Types
(* Most steps leave the cache alone and move one request on. *)
<1>2. ASSUME NEW q \in Requests, cache' = cache,
             \A p \in Requests \ {q} : req'[p] = req[p],
             req'[q].pc \in Holding =>
                req[q].pc \in Holding /\ req'[q].mod = req[q].mod /\ req'[q].content = req[q].content
      PROVE  Verified'
  <2>1. CacheVerified'
    BY <1>2 DEF Verified, CacheVerified
  <2>2. DigestVerified'
    BY <1>2, HoldersVerified DEF Holding
  <2> QED BY <2>1, <2>2 DEF Verified
<1>3. ASSUME NEW q \in Requests, NEW m \in Modules, Arrive(q, m)
      PROVE  Verified'
  <2>1. req'[q].pc = "fetch" /\ cache' = cache /\ \A p \in Requests \ {q} : req'[p] = req[p]
    BY <1>1, <1>3 DEF Arrive, ReqType, OneReq
  <2> QED BY <1>2, <2>1 DEF Holding
<1>4. ASSUME NEW q \in Requests, Step(q) \/ WaitTimeout(q)
      PROVE  Verified'
  <2>1. CASE FirstLook(q) \/ Woken(q)
    <3>1. PICK miss \in {"begin", "missing"} :
             Lookup(q, At(q, "load"), miss) /\ req[q].pc \in {"fetch", "woken"}
      BY <2>1 DEF FirstLook, Woken
    <3>2. At(q, "load") \in OneReq /\ At(q, "load").pc = "load"
          /\ At(q, "load").key = req[q].key /\ At(q, "load").mod = req[q].mod
      BY <1>1, AtType DEF PCs
    <3> QED BY <3>1, <3>2, LookupVerified DEF Holding, PCs
  <2>2. CASE SecondLook(q)
    <3>1. Lookup(q, At(q, "close"), "download") /\ req[q].pc = "leader"
      BY <2>2 DEF SecondLook
    <3>2. At(q, "close") \in OneReq /\ At(q, "close").pc = "close"
          /\ At(q, "close").key = req[q].key /\ At(q, "close").mod = req[q].mod
      BY <1>1, AtType DEF PCs
    <3> QED BY <3>1, <3>2, LookupVerified DEF Holding, PCs
  <2>3. CASE Load(q)
    <3>1. Lookup(q, Loaded(q), "missing") /\ req[q].pc = "load"
      BY <2>3 DEF Load, Loaded
    <3> QED BY <3>1, LoadedType, LookupVerified DEF Holding, PCs
  <2>4. ASSUME NEW b \in Contents, Insert(q, b)
        PROVE  Verified'
    <3>1. req[q].mod \in Modules /\ req[q].key = ModuleCacheKey(req[q].mod)
      BY <2>4, InsertEffect DEF Inv, Keyed
    <3>2. CacheVerified'
      <4>1. SUFFICES ASSUME NEW k \in Keys, NEW m \in Modules,
                            cache'[k].cached, k = ModuleCacheKey(m), m.digest # <<>>, Plain(m)
                     PROVE  m.digest = <<cache'[k].content>>
        BY DEF CacheVerified
      <4>2. CASE cache[k].cached /\ cache'[k].content = cache[k].content
        BY <4>1, <4>2 DEF Verified, CacheVerified
      <4>3. CASE k = req[q].key /\ cache'[k].content = b
        <5>1. verifyModuleDigest(req[q].mod, b) /\ req[q].mod.url # <<>>
          BY <2>4, <3>1, ModuleCacheAssumption DEF Insert
        <5> QED BY <3>1, <4>1, <4>3, <5>1, KeyTellsDigest
      <4> QED BY <2>4, <4>1, <4>2, <4>3, InsertEffect
    <3>3. DigestVerified'
      BY <2>4, InsertEffect, HoldersVerified DEF Holding
    <3> QED BY <3>2, <3>3 DEF Verified
  <2>5. ASSUME NEW pc \in PCs, req' = Goto(q, pc), cache' = cache, pc \in Holding => req[q].pc \in Holding
        PROVE  Verified'
    <3>1. req'[q] = At(q, pc) /\ \A p \in Requests \ {q} : req'[p] = req[p]
      BY <1>1, <2>5 DEF Goto, ReqType
    <3> QED BY <1>1, <1>2, <2>5, <3>1, AtType
  <2>6. CASE beginCompile(q) \/ DownloadFails(q)
    BY <2>5, <2>6 DEF beginCompile, DownloadFails, PCs, Holding
  <2>7. CASE finishCompile(q) \/ finishFailedCompile(q)
    <3>1. /\ cache' = cache
          /\ \/ req' = [Wake(req[q].key) EXCEPT ![q].pc = "load"]
             \/ req' = [Wake(req[q].key) EXCEPT ![q] = ReqIdle]
      BY <2>7 DEF finishCompile, finishFailedCompile
    <3>2. Wake(req[q].key) \in ReqType
          /\ \A p \in Requests : /\ Wake(req[q].key)[p].mod = req[p].mod
                                 /\ Wake(req[q].key)[p].content = req[p].content
                                 /\ Wake(req[q].key)[p].pc \in Holding => req[p].pc \in Holding
      BY <1>1 DEF Wake, ReqType, OneReq, PCs, Holding
    <3>3. req'[q].pc \notin Holding /\ \A p \in Requests \ {q} : req'[p] = Wake(req[q].key)[p]
      BY <3>1, <3>2, IdleType DEF ReqType, OneReq, Holding
    <3>4. DigestVerified'
      BY <3>2, <3>3, HoldersVerified
    <3> QED BY <3>1, <3>4 DEF Verified, CacheVerified
  <2>8. ASSUME Finish(q), cache' = cache
        PROVE  Verified'
    <3>1. req'[q] = ReqIdle /\ \A p \in Requests \ {q} : req'[p] = req[p]
      BY <1>1, <2>8 DEF Finish, ReqType
    <3> QED BY <1>2, <2>8, <3>1, IdleType DEF Holding
  <2>9. CASE NotLoaded(q) \/ Answer(q) \/ WaitTimeout(q)
    BY <2>8, <2>9 DEF NotLoaded, Answer, WaitTimeout
  <2>10. CASE Instantiate(q)
    <3>1. cache' = cache /\ req[q].pc = "loaded" /\ (req' = Goto(q, "run") \/ Finish(q))
      BY <2>10 DEF Instantiate
    <3> QED BY <2>5, <2>8, <3>1 DEF PCs, Holding
  <2>11. CASE Run(q)
    <3>1. PICK a : req' = [req EXCEPT ![q] = [At(q, "answer") EXCEPT !.answer = a]]
      BY <2>11 DEF Run
    <3>2. At(q, "answer") \in OneReq
          /\ At(q, "answer").mod = req[q].mod /\ At(q, "answer").content = req[q].content
      BY <1>1, AtType DEF PCs
    <3>3. req'[q].mod = req[q].mod /\ req'[q].content = req[q].content
          /\ \A p \in Requests \ {q} : req'[p] = req[p]
      BY <1>1, <3>1, <3>2 DEF ReqType, OneReq
    <3>4. cache' = cache /\ req[q].pc = "run"
      BY <2>11 DEF Run
    <3> QED BY <1>2, <3>3, <3>4 DEF Holding
  <2> QED BY <1>4, <2>1, <2>2, <2>3, <2>4, <2>6, <2>7, <2>9, <2>10, <2>11 DEF Step
<1>5. CASE Tick
  <2>1. /\ \A k \in Keys : cache'[k].cached = cache[k].cached /\ cache'[k].content = cache[k].content
        /\ req' = req
    BY <1>1, <1>5 DEF Tick, CacheType
  <2> QED BY <2>1 DEF Verified, CacheVerified, DigestVerified, Running
<1>6. CASE UNCHANGED vars
  BY <1>6 DEF vars, Verified, CacheVerified, DigestVerified, Running
<1> QED BY <1>3, <1>4, <1>5, <1>6 DEF Next

(* No request with a digest and a name free of markers ever runs bytes with *)
(* another digest, whatever the cache holds, whoever filled it under names  *)
(* and URLs of any form, and however often a URL changes what it serves.    *)
THEOREM DigestsHold == Spec => []DigestVerified
<1>1. Init => Verified
  BY DEF Init, NotCached, ReqIdle, Verified, CacheVerified, DigestVerified, Running
<1>2. Verified => DigestVerified
  BY DEF Verified
<1> QED BY <1>1, <1>2, NextVerified, InvHolds, PTL DEF Spec

-----------------------------------------------------------------------------
(* Execution slots *)

Active == {q \in Requests : req[q].pc # "idle"}

SlotInv ==
    /\ IsFiniteSet(Active)
    /\ SlotsAccounted

(* A request that ends leaves the active ones and gives its slot back. *)
LEMMA SlotReturned ==
  ASSUME NEW q \in Active, SlotInv, Active' = Active \ {q}, sem' = sem - 1
  PROVE  SlotInv'
<1>1. IsFiniteSet(Active') /\ Cardinality(Active') = Cardinality(Active) - 1
  BY FS_RemoveElement DEF SlotInv
<1>2. Cardinality(Active) \in Nat
  BY FS_CardinalityType DEF SlotInv
<1> QED BY <1>1, <1>2, ModuleCacheAssumption DEF SlotInv, SlotsAccounted, Active

(* Slots are accounted for in every step. *)
LEMMA NextSlots == Inv /\ SlotInv /\ [Next]_vars => SlotInv'
<1> SUFFICES ASSUME Inv, SlotInv, [Next]_vars
             PROVE  SlotInv'
  OBVIOUS
<1>1. req \in ReqType
  BY DEF Inv, Types
<1>2. ASSUME NEW q \in Requests, NEW m \in Modules, Arrive(q, m)
      PROVE  SlotInv'
  <2>1. Active' = Active \cup {q} /\ q \notin Active
    BY <1>1, <1>2 DEF Arrive, Active, ReqType, OneReq
  <2>2. sem' = sem + 1 /\ sem < MaxConcurrentExecs
    BY <1>2 DEF Arrive
  <2>3. IsFiniteSet(Active') /\ Cardinality(Active') = Cardinality(Active) + 1
    BY <2>1, FS_AddElement DEF SlotInv
  <2>4. Cardinality(Active) \in Nat
    BY FS_CardinalityType DEF SlotInv
  <2> QED BY <2>2, <2>3, <2>4, ModuleCacheAssumption DEF SlotInv, SlotsAccounted, Active
<1>3. ASSUME Active' = Active, sem' = sem
      PROVE  SlotInv'
  BY <1>3 DEF SlotInv, SlotsAccounted, Active
<1>4. ASSUME NEW q \in Requests, Step(q) \/ WaitTimeout(q)
      PROVE  SlotInv'
  <2>1. ASSUME req[q].pc # "idle", req'[q].pc # "idle", sem' = sem,
               \A p \in Requests \ {q} : req'[p].pc = req[p].pc
        PROVE  SlotInv'
    BY <1>3, <2>1 DEF Active
  <2>2. CASE FirstLook(q) \/ Woken(q) \/ SecondLook(q) \/ Load(q)
    <3>1. \A p \in Requests \ {q} : req'[p].pc = req[p].pc
      BY <2>2, LookupsQuiet DEF Quiet
    <3>2. sem' = sem /\ req[q].pc # "idle"
      BY <2>2 DEF FirstLook, Woken, SecondLook, Load
    <3>3. req'[q].pc # "idle"
      <4>1. \A pc \in PCs : At(q, pc).pc = pc
        BY <1>1, AtType
      <4>2. Loaded(q).pc = "loaded"
        BY <3>2, LoadedType
      <4>3. \E hit, miss : Lookup(q, hit, miss) /\ hit.pc # "idle" /\ miss \in PCs \ {"idle"}
        BY <2>2, <4>1, <4>2 DEF FirstLook, Woken, SecondLook, Load, Loaded, PCs
      <4>4. PICK hit, miss : Lookup(q, hit, miss) /\ hit.pc # "idle" /\ miss \in PCs \ {"idle"}
        BY <4>3
      <4>5. CloseFor({req[q].key}) \in ReqType
        BY <1>1, CloseForEffect
      <4>6. \/ req' = [req EXCEPT ![q] = hit]
            \/ req' = [CloseFor({req[q].key}) EXCEPT ![q].pc = miss]
            \/ req' = [req EXCEPT ![q] = At(q, miss)]
        BY <4>4 DEF Lookup, Goto
      <4> QED BY <1>1, <4>1, <4>4, <4>5, <4>6 DEF ReqType, OneReq
    <3> QED BY <2>1, <3>1, <3>2, <3>3
  <2>3. ASSUME NEW b \in Contents, Insert(q, b)
        PROVE  SlotInv'
    <3>1. sem' = sem
      BY <2>3 DEF Insert
    <3> QED BY <2>1, <2>3, <3>1, InsertEffect
  <2>4. ASSUME NEW pc \in PCs \ {"idle"}, req' = Goto(q, pc), sem' = sem, req[q].pc # "idle"
        PROVE  SlotInv'
    <3>1. req'[q].pc = pc /\ \A p \in Requests \ {q} : req'[p] = req[p]
      BY <1>1, <2>4, AtType DEF Goto, ReqType
    <3> QED BY <2>1, <2>4, <3>1
  <2>5. CASE beginCompile(q) \/ DownloadFails(q)
    BY <2>4, <2>5 DEF beginCompile, DownloadFails, PCs
  <2>6. CASE finishCompile(q)
    <3>1. Active' = Active
      BY <1>1, <2>6 DEF finishCompile, Wake, Active, ReqType, OneReq
    <3> QED BY <1>3, <2>6, <3>1 DEF finishCompile
  <2>7. CASE finishFailedCompile(q)
    <3>1. Active' = Active \ {q} /\ q \in Active
      BY <1>1, <2>7, IdleType DEF finishFailedCompile, Wake, Active, ReqType, OneReq
    <3> QED BY <2>7, <3>1, SlotReturned DEF finishFailedCompile
  <2>8. ASSUME Finish(q), req[q].pc # "idle"
        PROVE  SlotInv'
    <3>1. Active' = Active \ {q} /\ q \in Active
      BY <1>1, <2>8, IdleType DEF Finish, Active, ReqType
    <3> QED BY <2>8, <3>1, SlotReturned DEF Finish
  <2>9. CASE NotLoaded(q) \/ Answer(q) \/ WaitTimeout(q)
    BY <2>8, <2>9 DEF NotLoaded, Answer, WaitTimeout
  <2>10. CASE Instantiate(q)
    BY <2>4, <2>8, <2>10 DEF Instantiate, PCs
  <2>11. CASE Run(q)
    <3>1. PICK a : req' = [req EXCEPT ![q] = [At(q, "answer") EXCEPT !.answer = a]]
      BY <2>11 DEF Run
    <3>2. At(q, "answer") \in OneReq /\ At(q, "answer").pc = "answer"
      BY <1>1, AtType DEF PCs
    <3>3. req'[q].pc = "answer" /\ \A p \in Requests \ {q} : req'[p] = req[p]
      BY <1>1, <3>1, <3>2 DEF ReqType, OneReq
    <3>4. sem' = sem /\ req[q].pc = "run"
      BY <2>11 DEF Run
    <3> QED BY <2>1, <3>3, <3>4
  <2> QED BY <1>4, <2>2, <2>3, <2>5, <2>6, <2>7, <2>9, <2>10, <2>11 DEF Step
<1>5. CASE Tick \/ UNCHANGED vars
  BY <1>3, <1>5 DEF Tick, vars, Active
<1> QED BY <1>2, <1>4, <1>5 DEF Next

(* The invariant about slots holds in every state. *)
THEOREM SlotInvHolds == Spec => []SlotInv
<1>1. Init => SlotInv
  <2> SUFFICES ASSUME Init PROVE SlotInv
    OBVIOUS
  <2>1. Active = {}
    BY DEF Init, Active, ReqIdle
  <2>2. IsFiniteSet(Active) /\ Cardinality(Active) = 0
    BY <2>1, FS_EmptySet
  <2>3. sem = 0 /\ MaxConcurrentExecs \in Nat
    BY ModuleCacheAssumption DEF Init
  <2>4. SlotsAccounted
    BY <2>2, <2>3 DEF SlotsAccounted, Active
  <2> QED BY <2>2, <2>4 DEF SlotInv
<1> QED BY <1>1, NextSlots, InvHolds, PTL DEF Spec

(* No path through the engine leaks an execution slot or gives one back     *)
(* twice, and no more requests run than there are slots.                    *)
THEOREM SlotsHold == Spec => []SlotsAccounted
<1>1. SlotInv => SlotsAccounted
  BY DEF SlotInv
<1> QED BY <1>1, SlotInvHolds, PTL
=============================================================================

----------------------------- MODULE ModuleCache -----------------------------
(***************************************************************************)
(* The worker's engine (internal/worker/engine.go, memory.go): the         *)
(* semaphore that bounds executions, the cache of compiled modules with    *)
(* its TTL, entry and byte limits, the coalescing of cold compiles (the    *)
(* first request for a key becomes its leader, later ones wait on the      *)
(* leader's channel), the verification of what is downloaded, and the run  *)
(* of a module under one of the two ABIs.  Every step below is one         *)
(* critical section of the engine's mutex, or one stretch of code between  *)
(* two of them.                                                            *)
(*                                                                         *)
(* A module's bytes are a `content', and a content stands for the text of  *)
(* its SHA-256 digest too.  What a URL serves may change from one download *)
(* to the next.  Names, URLs and digests are strings without surrounding   *)
(* space, here sequences of pieces, because the cache's keys are put       *)
(* together from them without escaping; the two markers that separate the  *)
(* parts of a key are pieces like any other.                               *)
(***************************************************************************)
EXTENDS Integers, Sequences, FiniteSets, FiniteSetsExt, SequencesExt

CONSTANTS
    Pieces,             \* what names, URLs and digests are made of
    Modules,            \* modules that requests name: [name, url, digest, abi]
    Contents,           \* module bytes
    NoContent,
    NoKey,              \* the key and the module of an idle request
    Serves,             \* the contents that each URL may serve
    Size,               \* the size of each content in bytes
    Exports,            \* the functions that each content exports
    Outputs,            \* what guests write to stdout: sequences of chunk lengths
    Word,               \* 2^32, the number of values of a 32-bit word
    MaxOutputBytes,
    MaxModuleBytes,
    Requests,           \* concurrent /invoke requests
    MaxConcurrentExecs,
    MaxCachedModules,
    MaxCacheBytes,
    ModuleCacheTTL      \* in ticks

ASSUME ModuleCacheAssumption ==
    /\ {"@url:", "@digest:"} \subseteq Pieces
    /\ \A m \in Modules : {m.name, m.url, m.digest} \subseteq Seq(Pieces)
    /\ IsFiniteSet(Modules)
    /\ Contents \subseteq Pieces \ {"@url:", "@digest:"}
    /\ \A m \in Modules : m.url = <<>> => Serves[m.url] = {}
    /\ Size \in [Contents \cup {NoContent} -> Nat]
    /\ NoContent \notin Contents
    /\ Outputs \subseteq Seq(Nat)
    /\ Word \in Nat \ {0}
    /\ MaxOutputBytes \in 1..(Word - 1)
    /\ MaxModuleBytes \in Nat \ {0}
    /\ MaxConcurrentExecs \in Nat \ {0}
    /\ MaxCachedModules \in Nat \ {0}
    /\ MaxCacheBytes \in Nat \ {0}
    /\ ModuleCacheTTL \in Nat \ {0}

VARIABLES
    cache,        \* cached: is the key in the map; age since createdAt; what was compiled
    order,        \* the cached keys, least recently used first (usedOrder)
    cacheBytes,
    inflight,     \* keys with an open compile channel
    sem,          \* taken execution slots
    req           \* the requests

vars == <<cache, order, cacheBytes, inflight, sem, req>>

-----------------------------------------------------------------------------
(* Modules *)

UrlMark == "@url:"
DigestMark == "@digest:"

(* Mutant: a module is known by its name and URL. *)
KeyByURL(m) == m.name \o <<UrlMark>> \o m.url

(* ModuleCacheKey.String: the digest if there is one, else the URL, else    *)
(* the name alone.                                                          *)
ModuleCacheKey(m) ==
    CASE m.digest # <<>>                -> m.name \o <<DigestMark>> \o m.digest
      [] m.digest = <<>> /\ m.url # <<>> -> m.name \o <<UrlMark>> \o m.url
      [] OTHER                          -> m.name

Keys == {ModuleCacheKey(m) : m \in Modules}

(* A digest that is no content is malformed, or that of other bytes. *)
verifyModuleDigest(m, b) == m.digest \in {<<>>, <<b>>}

(* An explicit ABI, or the one whose entry point is exported. *)
resolveModuleABI(abi, b) ==
    CASE abi # "auto" -> abi
      [] abi = "auto" /\ "run" \in Exports[b] -> "wasmcat"
      [] abi = "auto" /\ "run" \notin Exports[b] /\ "_start" \in Exports[b] -> "wasi"
      [] OTHER -> "none"

-----------------------------------------------------------------------------
(* Guests.  An answer is what the worker reports of an execution: whether   *)
(* there is a result, how many bytes the guest meant to return, and how     *)
(* many are returned.                                                       *)

NoAnswer == [ok |-> FALSE, meant |-> 0, got |-> 0]

(* Memory.Write and Memory.Read check offset + size against the memory. *)
InMemory(mem, ptr, len) == ptr + len <= mem

(* runWasmcatModule: the guest packs the pointer and the length of its      *)
(* output into one word of twice the width, the host takes them apart.      *)
pack(ptr, len) == ptr * Word + len
outputPtr(packed) == (packed \div Word) % Word
outputLen(packed) == packed % Word

WasmcatAnswer(mem, ptr, len) ==
    LET packed == pack(ptr, len)
    IN  IF /\ outputLen(packed) <= MaxOutputBytes
           /\ InMemory(mem, outputPtr(packed), outputLen(packed))
          THEN [ok |-> TRUE, meant |-> len, got |-> outputLen(packed)]
          ELSE NoAnswer

(* Mutant: what does not fit is cut off without a trace. *)
cappedCut(buf, p) ==
    [len |-> IF p > MaxOutputBytes - buf.len THEN MaxOutputBytes ELSE buf.len + p, overflow |-> FALSE]

(* cappedBuffer.Write, of a chunk of p bytes. *)
cappedWrite(buf, p) ==
    LET remaining == MaxOutputBytes - buf.len
    IN  IF buf.overflow THEN buf
        ELSE IF remaining <= 0 THEN [buf EXCEPT !.overflow = TRUE]
        ELSE IF p > remaining THEN [len |-> buf.len + remaining, overflow |-> TRUE]
        ELSE [buf EXCEPT !.len = @ + p]

(* runWASIModule, of a guest that exits with code 0. *)
WasiAnswer(chunks) ==
    LET stdout == FoldLeft(cappedWrite, [len |-> 0, overflow |-> FALSE], chunks)
    IN  IF stdout.overflow
          THEN NoAnswer
          ELSE [ok |-> TRUE, meant |-> FoldLeft(+, 0, chunks), got |-> stdout.len]

(* What may come of a guest; NoAnswer also stands for a trap, a missing     *)
(* export, an exit code, a payload that does not fit and the timeout.       *)
Answers(mode) ==
    {NoAnswer} \cup
    IF mode = "wasi"
      THEN {WasiAnswer(chunks) : chunks \in Outputs}
      ELSE {WasmcatAnswer(mem, ptr, len) : mem \in 0..Word, ptr, len \in 0..(Word - 1)}

-----------------------------------------------------------------------------
NotCached == [cached |-> FALSE, age |-> 0, content |-> NoContent]
ReqIdle ==
    [pc |-> "idle", key |-> NoKey, mod |-> NoKey, ok |-> TRUE, content |-> NoContent, answer |-> NoAnswer]

Init ==
    /\ cache = [k \in Keys |-> NotCached]
    /\ order = <<>>
    /\ cacheBytes = 0
    /\ inflight = {}
    /\ sem = 0
    /\ req = [q \in Requests |-> ReqIdle]

-----------------------------------------------------------------------------
(* The map and its limits. *)

Cached(c) == {k \in Keys : c[k].cached}

(* sizeBytes of some entries of the map c. *)
Bytes(c, S) == MapThenSumSet(LAMBDA k : Size[c[k].content], S)

entryExpired(e) == e.age > ModuleCacheTTL

(* removeEntryLocked, for a set of entries: usedOrder and the map without   *)
(* them.                                                                    *)
Kept(ord, gone) ==
    LET kept[i \in 0..Len(ord)] ==
            IF i = 0 THEN <<>>
            ELSE IF ord[i] \in gone THEN kept[i - 1] ELSE Append(kept[i - 1], ord[i])
    IN  kept[Len(ord)]

Without(c, gone) == [k \in Keys |-> IF k \in gone THEN NotCached ELSE c[k]]

(* Mutant: the entry keeps its old place too. *)
TouchedTwice(k) == Append(order, k)

(* cachedCompiledModule: the entry becomes the most recently used one. *)
Touched(k) == Append(Kept(order, {k}), k)

(* Mutant: the byte count is not reduced. *)
BytesUnreduced(bytes, c, gone) == bytes

BytesWithout(bytes, c, gone) == IF bytes > Bytes(c, gone) THEN bytes - Bytes(c, gone) ELSE 0

(* The compiled module of a removed entry is closed, and a request that     *)
(* holds it but has not instantiated it yet will fail to.                   *)
CloseFor(gone) ==
    [q \in Requests |->
        IF req[q].pc = "loaded" /\ req[q].key \in gone THEN [req[q] EXCEPT !.ok = FALSE] ELSE req[q]]

(* evictLocked: what is too old, then the least recently used entries over  *)
(* the entry limit, then the least recently used ones over the byte limit.  *)
Expired(c) == {k \in Cached(c) : entryExpired(c[k])}

(* Mutant: one entry too many is kept. *)
OverCountByOne(ord) == {ord[i] : i \in 1..(Len(ord) - MaxCachedModules - 1)}

OverCount(ord) == {ord[i] : i \in 1..(Len(ord) - MaxCachedModules)}

OverBytes(c, ord, bytes) ==
    {ord[i] : i \in {n \in 1..Len(ord) : bytes - Bytes(c, {ord[j] : j \in 1..(n - 1)}) > MaxCacheBytes}}

Evicted(c, ord, bytes) ==
    LET old   == Expired(c)
        many  == OverCount(Kept(ord, old))
        large == OverBytes(c, Kept(ord, old \cup many), BytesWithout(bytes, c, old \cup many))
    IN  old \cup many \cup large

-----------------------------------------------------------------------------
(* ExecuteWithDigestAndABI: take a slot or be rejected.                     *)

Arrive(q, m) ==
    /\ req[q].pc = "idle"
    /\ sem < MaxConcurrentExecs
    /\ sem' = sem + 1
    /\ req' = [req EXCEPT ![q].pc = "fetch", ![q].key = ModuleCacheKey(m), ![q].mod = m]
    /\ UNCHANGED <<cache, order, cacheBytes, inflight>>

At(q, pc) == [req[q] EXCEPT !.pc = pc]
Goto(q, pc) == [req EXCEPT ![q] = At(q, pc)]

(* The request ends, with its result or an error, and frees its slot. *)
Finish(q) ==
    /\ req' = [req EXCEPT ![q] = ReqIdle]
    /\ sem' = sem - 1

(* cachedCompiledModule, which every lookup goes through: an expired entry  *)
(* is removed, a hit makes the entry the most recently used one and the     *)
(* request what `hit' says.                                                 *)
Lookup(q, hit, miss) ==
    LET k == req[q].key
    IN  \/ /\ cache[k].cached /\ ~entryExpired(cache[k])
           /\ order' = Touched(k)
           /\ req' = [req EXCEPT ![q] = hit]
           /\ UNCHANGED <<cache, cacheBytes>>
        \/ /\ cache[k].cached /\ entryExpired(cache[k])
           /\ cache' = Without(cache, {k})
           /\ cacheBytes' = BytesWithout(cacheBytes, cache, {k})
           /\ order' = Kept(order, {k})
           /\ req' = [CloseFor({k}) EXCEPT ![q].pc = miss]
        \/ /\ ~cache[k].cached
           /\ req' = Goto(q, miss)
           /\ UNCHANGED <<cache, cacheBytes, order>>

(* FetchAndCacheWithDigest: the first look at the cache.  Without a URL a   *)
(* miss is an error; only an empty URL is recognised as none, so that for a *)
(* blank one the request goes on until its download fails.                  *)
FirstLook(q) ==
    /\ req[q].pc = "fetch"
    /\ \E miss \in IF req[q].mod.url = <<>> THEN {"begin", "missing"} ELSE {"begin"} :
            Lookup(q, At(q, "load"), miss)
    /\ UNCHANGED <<inflight, sem>>

(* Mutant: requests do not look for a leader. *)
beginAlwaysLeads(q) ==
    /\ req[q].pc = "begin"
    /\ req' = Goto(q, "leader")
    /\ inflight' = inflight \cup {req[q].key}
    /\ UNCHANGED <<cache, order, cacheBytes, sem>>

(* A leader opens the key's channel, a follower waits on it. *)
beginCompile(q) ==
    /\ req[q].pc = "begin"
    /\ IF req[q].key \in inflight
         THEN req' = Goto(q, "wait") /\ UNCHANGED inflight
         ELSE req' = Goto(q, "leader") /\ inflight' = inflight \cup {req[q].key}
    /\ UNCHANGED <<cache, order, cacheBytes, sem>>

(* The channel was closed: look again, and compete again on a miss. *)
Woken(q) ==
    /\ req[q].pc = "woken"
    /\ Lookup(q, At(q, "load"), "begin")
    /\ UNCHANGED <<inflight, sem>>

(* The leader looks once more before it downloads. *)
SecondLook(q) ==
    /\ req[q].pc = "leader"
    /\ Lookup(q, At(q, "close"), "download")
    /\ UNCHANGED <<inflight, sem>>

(* The URL serves b, which is within the limit, has the digest if there is  *)
(* one, and compiles: insert and evict.                                     *)
Insert(q, b) ==
    /\ req[q].pc = "download"
    /\ b \in Serves[req[q].mod.url]
    /\ Size[b] <= MaxModuleBytes
    /\ verifyModuleDigest(req[q].mod, b)
    /\ LET k     == req[q].key
           added == [cache EXCEPT ![k] = [cached |-> TRUE, age |-> 0, content |-> b]]
           bytes == cacheBytes + Size[b]
       IN  IF cache[k].cached
             THEN req' = Goto(q, "close") /\ UNCHANGED <<cache, order, cacheBytes>>
             ELSE \E gone \in {Evicted(added, Touched(k), bytes)} :
                  /\ cache' = Without(added, gone)
                  /\ cacheBytes' = BytesWithout(bytes, added, gone)
                  /\ order' = Kept(Touched(k), gone)
                  /\ req' = [CloseFor(gone) EXCEPT ![q].pc = "close"]
    /\ UNCHANGED <<inflight, sem>>

(* Mutant: a failed download starts over instead of returning. *)
DownloadStartsOver(q) ==
    /\ req[q].pc = "download"
    /\ req' = Goto(q, "leader")
    /\ UNCHANGED <<cache, order, cacheBytes, inflight, sem>>

(* The download fails, is too large or has another digest, the compilation  *)
(* fails, or the timeout strikes.                                           *)
DownloadFails(q) ==
    /\ req[q].pc = "download"
    /\ req' = Goto(q, "abort")
    /\ UNCHANGED <<cache, order, cacheBytes, inflight, sem>>

(* Mutant: the channel is forgotten without being closed. *)
WakeNobody(k) == req

(* The deferred finishCompile: close the channel, which wakes every         *)
(* follower waiting on it, and forget it.                                   *)
Wake(k) ==
    [w \in Requests |->
        IF req[w].pc = "wait" /\ req[w].key = k THEN [req[w] EXCEPT !.pc = "woken"] ELSE req[w]]

finishCompile(q) ==
    /\ req[q].pc = "close"
    /\ inflight' = inflight \ {req[q].key}
    /\ req' = [Wake(req[q].key) EXCEPT ![q].pc = "load"]
    /\ UNCHANGED <<cache, order, cacheBytes, sem>>

finishFailedCompile(q) ==
    /\ req[q].pc = "abort"
    /\ inflight' = inflight \ {req[q].key}
    /\ req' = [Wake(req[q].key) EXCEPT ![q] = ReqIdle]
    /\ sem' = sem - 1
    /\ UNCHANGED <<cache, order, cacheBytes>>

(* Mutant: the slot is not given back. *)
WaitTimeoutLeaks(q) ==
    /\ req[q].pc = "wait"
    /\ req' = [req EXCEPT ![q] = ReqIdle]
    /\ UNCHANGED <<cache, order, cacheBytes, inflight, sem>>

(* A follower's context ends while it waits. *)
WaitTimeout(q) ==
    /\ req[q].pc = "wait"
    /\ Finish(q)
    /\ UNCHANGED <<cache, order, cacheBytes, inflight>>

(* The lookup before execution, which takes the compiled module out of the  *)
(* cache; the entry may be gone again by now.                               *)
Load(q) ==
    /\ req[q].pc = "load"
    /\ Lookup(q, [At(q, "loaded") EXCEPT !.content = cache[req[q].key].content], "missing")
    /\ UNCHANGED <<inflight, sem>>

(* "module not loaded", or "has no module URL". *)
NotLoaded(q) ==
    /\ req[q].pc = "missing"
    /\ Finish(q)
    /\ UNCHANGED <<cache, order, cacheBytes, inflight>>

(* The ABI has to be known, and instantiation fails on a module that has    *)
(* been closed.                                                             *)
Instantiate(q) ==
    /\ req[q].pc = "loaded"
    /\ IF req[q].ok /\ resolveModuleABI(req[q].mod.abi, req[q].content) # "none"
         THEN req' = Goto(q, "run") /\ UNCHANGED sem
         ELSE Finish(q)
    /\ UNCHANGED <<cache, order, cacheBytes, inflight>>

Run(q) ==
    /\ req[q].pc = "run"
    /\ \E a \in Answers(resolveModuleABI(req[q].mod.abi, req[q].content)) :
            req' = [req EXCEPT ![q] = [At(q, "answer") EXCEPT !.answer = a]]
    /\ UNCHANGED <<cache, order, cacheBytes, inflight, sem>>

(* The engine returns the result or the error. *)
Answer(q) ==
    /\ req[q].pc = "answer"
    /\ Finish(q)
    /\ UNCHANGED <<cache, order, cacheBytes, inflight>>

(* Ages stop at the TTL + 1, where an entry counts as expired. *)
Tick ==
    /\ cache' = [k \in Keys |->
            IF cache[k].cached /\ ~entryExpired(cache[k])
              THEN [cache[k] EXCEPT !.age = @ + 1]
              ELSE cache[k]]
    /\ UNCHANGED <<order, cacheBytes, inflight, sem, req>>

-----------------------------------------------------------------------------
Step(q) ==
    \/ FirstLook(q)
    \/ beginCompile(q)
    \/ Woken(q)
    \/ SecondLook(q)
    \/ \E b \in Contents : Insert(q, b)
    \/ DownloadFails(q)
    \/ finishCompile(q)
    \/ finishFailedCompile(q)
    \/ Load(q)
    \/ NotLoaded(q)
    \/ Instantiate(q)
    \/ Run(q)
    \/ Answer(q)

Next ==
    \/ \E q \in Requests, m \in Modules : Arrive(q, m)
    \/ \E q \in Requests : Step(q) \/ WaitTimeout(q)
    \/ Tick

Spec == Init /\ [][Next]_vars

(* Every request that has a slot keeps going: downloads and executions end  *)
(* by their timeouts.  A follower whose leaders keep failing may wait again *)
(* and again; the deadline of its own context is what ends that.            *)
FairSpec ==
    /\ Spec
    /\ \A q \in Requests : WF_vars(Step(q)) /\ SF_vars(WaitTimeout(q))

-----------------------------------------------------------------------------
Leaders(k) ==
    {q \in Requests : req[q].key = k /\ req[q].pc \in {"leader", "download", "close", "abort"}}

(* The types of the variables; order lists every cached key once. *)
TypeOK ==
    /\ cache \in [Keys -> [cached: BOOLEAN, age: 0..(ModuleCacheTTL + 1),
                           content: Contents \cup {NoContent}]]
    /\ order \in Seq(Keys) /\ Len(order) = Cardinality(Cached(cache))
    /\ {order[i] : i \in 1..Len(order)} = Cached(cache)
    /\ cacheBytes \in Nat
    /\ inflight \subseteq Keys
    /\ sem \in Nat
    /\ req \in [Requests -> [pc: {"idle", "fetch", "begin", "wait", "woken", "leader", "download",
                                  "close", "abort", "load", "missing", "loaded", "run", "answer"},
                             key: Keys \cup {NoKey}, mod: Modules \cup {NoKey}, ok: BOOLEAN,
                             content: Contents \cup {NoContent},
                             answer: [ok: BOOLEAN, meant: Nat, got: Nat]]]

(* A module is downloaded and compiled by one request at a time, and the    *)
(* channel of a key is open exactly while it has a leader: a leader never   *)
(* closes another leader's channel, and what it compiled is never there     *)
(* already when it comes to insert it.                                      *)
OneLeaderPerKey ==
    /\ \A k \in Keys : k \in inflight <=> Leaders(k) # {}
    /\ \A k \in Keys : \A p, q \in Leaders(k) : p = q
    /\ \A q \in Requests : req[q].pc = "download" => ~cache[req[q].key].cached

(* Whoever waits, waits on a channel that is still open. *)
NoLostWakeup == \A q \in Requests : req[q].pc = "wait" => req[q].key \in inflight

(* cacheBytes is the sum of the sizes of the cached modules: the clamp at   *)
(* zero in removeEntryLocked hides nothing.                                 *)
BytesAccounted == cacheBytes = Bytes(cache, Cached(cache))

(* Between two critical sections the cache is within both of its limits. *)
CacheBounded ==
    /\ Cardinality(Cached(cache)) <= MaxCachedModules
    /\ cacheBytes <= MaxCacheBytes

(* Every taken slot belongs to a request in progress, so no path through    *)
(* the engine leaks one, and there are never more than the configured.      *)
SlotsAccounted ==
    /\ sem = Cardinality({q \in Requests : req[q].pc # "idle"})
    /\ sem <= MaxConcurrentExecs

Running == {q \in Requests : req[q].pc \in {"loaded", "run", "answer"} /\ req[q].mod.digest # <<>>}

(* Neither marker occurs in the module's name or digest. *)
Plain(m) ==
    /\ \A i \in DOMAIN m.name : m.name[i] \notin {UrlMark, DigestMark}
    /\ \A i \in DOMAIN m.digest : m.digest[i] \notin {UrlMark, DigestMark}

(* What runs for a request that declares a digest has that digest, whoever  *)
(* downloaded it, under which name or URL, and however long ago: bytes are  *)
(* verified only when they are downloaded, so all depends on the key that   *)
(* they are found by again.  The request's own name and digest are free of  *)
(* markers, which the code does not require: two modules may have the same  *)
(* key otherwise, and one with a digest run what was never verified.  The   *)
(* names and URLs of all other requests may contain any.                    *)
DigestVerified ==
    \A q \in Running : Plain(req[q].mod) => req[q].mod.digest = <<req[q].content>>

(* A result is all that the guest wrote or pointed at, and within the       *)
(* limit: a longer output, in however many writes, is an error and never a  *)
(* truncated result.                                                        *)
OutputWhole ==
    \A q \in Requests :
        req[q].answer.ok => req[q].answer.got = req[q].answer.meant /\ req[q].answer.got <= MaxOutputBytes

(* Every accepted request ends, followers included. *)
RequestsEnd == \A q \in Requests : []<>(req[q].pc = "idle")
=============================================================================

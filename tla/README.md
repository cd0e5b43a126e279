# wasmCat in TLA+

wasmCat runs WebAssembly modules on worker nodes at the edge. A master accepts execution requests over
HTTPS, keeps durable jobs in a SQLite table, picks the closest worker with room, and forwards the request;
workers fetch and compile the module, run it and report back. This directory holds TLA+ models of the parts of
that system where state is shared, processes die or messages get lost, the TLC runs that check them on small
instances, and proofs that TLAPS checks for instances of every size.

Paths below are relative to the repository root. `PROJECT.json` lists, for each definition, the lines it models.

## 1. The system

| Component | State | Operations | What makes it correct |
|---|---|---|---|
| Job store `internal/master/sqlite_job_store.go`, `job.go` | one row per `request_id`: status, fingerprint, attempt, lease, response, `updated_at` | `Create`, `Get`, five `Mark*` UPDATEs (none looks at the old status), `ListRecoverable` | a succeeded row has its response; exactly dispatching rows have a lease |
| Gateway, durable `internal/master/gateway.go` | the in-progress handlers | execute, submit, inspect, completion callback | a result belongs to the content it is stored and served for; attempts are bounded |
| Recovery `internal/master/job_recovery.go` | a scan, worked through row by row | dispatch queued rows, flag expired leases as ambiguous | every accepted job settles; ambiguous jobs are not replayed |
| Dispatcher `internal/master/dispatcher.go` | candidate list | resolve an ACR module, select, forward, try the next worker | ends; no worker is tried twice |
| Request tracker `internal/master/request_tracker.go` | map of started and completed requests, TTL, limit | `Begin`, `Complete`, `Forget`, `Stats` | one dispatch per request at a time; running requests are never evicted |
| Registry, scheduler `registry.go`, `scheduler.go` | workers: state, figures, last seen | register, heartbeat, drain, reap, snapshot | a drained worker gets no work; live workers come back, dead ones go |
| Telemetry `internal/worker/telemetry.go` | one goroutine per worker | register and heartbeat at every tick, drain at shutdown | see registry |
| Worker server `internal/worker/server.go` | the runs | `/invoke`: run, call back, answer | the outcome reaches the master on one of two ways |
| Engine `internal/worker/engine.go`, `memory.go` | slots, compiled modules, compile channels | fetch, verify, coalesce, compile, evict, run under one of two ABIs | no leaked slot, no lost wakeup, limits kept, byte count right; what runs has the declared digest, as far as keys tell modules apart; outputs are whole |
| Module policy `module_policy.go` | none | admit a request | a module of an ACR host that is admitted as pinned by its URL still has a digest when a worker gets it |
| ACR `acr_token.go`, `acr_manifest.go` | token cache | parse, look up or mint a token, resolve a manifest | tokens are live, scoped and sent nowhere else; the selected layer can be run and verified |
| Certificates `internal/security/mtls.go` | files of a CA, loaded at start | generate, load | running workers and the master trust each other |
| HTTP client `internal/shared/client.go` | attempt counter | bounded retry | ends |

Interaction: the gateway's handlers and recovery both call the dispatcher and both write the job table, and so do
the callbacks of the workers; nothing but the atomicity of a single SQL statement orders them. The registry is
shared by handlers, dispatchers and the reaper under a lock that is released between snapshot and use. The engine's
lock is released while a module is downloaded, the token provider's while a token is minted. What is hard to test
follows from that, and `PROJECT.json` lists it under `hazards`, each with its line and with the properties that
would catch it going wrong.

## 2. The modules

| Module | Models |
|---|---|
| `JobService` | abstract: what the master promises about a job |
| `JobStore` | the job table; each operator is one SQL statement |
| `DurableJobs` | handlers, recovery, dispatcher and worker runs over `JobStore`; implements `JobService` |
| `RequestTracker` | the tracker and the execute handlers of a gateway without a job store |
| `WorkerRegistry` | registry, telemetry of the workers, certificates, reaper, dispatcher's candidate loop |
| `ModuleCache` | the engine: slots, cache, coalescing, digests, both ABIs |
| `AcrResolver` | module policy, the ACR prologue of a dispatch and the retry loop |
| `MC...` | constants for TLC |
| `...Proofs` | theorems |

Operators whose comment starts with "Mutant:" are deliberately wrong variants of the definition that follows them:
each is a plausible slip in the code, and putting it in the place of that definition makes TLC violate one property.
They are part of no specification.

### DurableJobs

An actor is an execute handler or the recovery goroutine. Its `pc` follows the code: `mark` (row created or retry
allowed, `MarkDispatching` not yet done), `select` (in the dispatcher's loop with `left` candidates), `wait` (the
request is on a worker), `ok` and `err` (`Dispatch` has returned, the final statement not yet done). A slot of `run`
is a `handleInvoke` on a worker: `running`, `report` (before the callback), `reply` (before the answer). `batch` is the
recovery scan; its members are copies of rows, as in the code, and may be out of date. `late` holds callbacks whose
sender has given up while the master's handler, which runs under a background context, has not. `served` remembers
what clients were given.

A request body is its fingerprint, and a response is the fingerprint of the request that was executed to compute it,
so storing a response with the wrong request shows. Ranks replace `updated_at`, since only the order is used; `clock`
moves only while a lease is running, since nothing else is compared with it. Outcomes that write only an error are
not steps. Eight kinds of fault (module header) are constants, bounded by `MaxFaults`.

Two executions of one job may overlap when a connection breaks or when recovery picks up the row of a synchronous
request between `Create` and `MarkDispatching`. That is how the code works, and at-least-once execution is
documented (`docs/HA_JOB_RELIABILITY_PLAN.md:15`). A graceful stop has the same effect: it queues the job again while its
run goes on. `AtMostOneRun` is therefore checked for asynchronous jobs, without transport errors and graceful stops;
what is promised of overlapping runs everywhere is that they are counted (`RunsCounted`).

`Large` names the outcomes, `<<content, ok>>`, whose report does not fit into the 4 KiB that the callback handler reads:
`CallbackRejected` is the 413 it answers, and the worker's `/invoke` answer is then the only way the outcome travels.
The text of results and errors is not modelled beyond that.

### JobService

The abstract job has a content, a number of tries, a result and the answers given to clients. `Accept`, `Try`, `Record`,
`Answer` and `RecordAndAnswer` are its steps; there is no step that changes a content, takes a result back or answers with
something that is not recorded, and nothing limits how often a job is tried. `DurableJobs!Service` maps the row's
fingerprint, attempt and response, and `served`, to these four; statuses, leases, actors, runs and faults stutter. The
refinement holds although a stored success may be overwritten (finding 1): `MarkFailed` and `MarkQueued` change the
status, but leave `response_json` alone, so the result itself is never lost from the table.

### RequestTracker

Each tracker method holds the mutex and is one step, `Begin` with the expiry and eviction it does. `Gateway.requests()`
creates the tracker without a lock: `ReadNil` and `Install` are two steps, and `FirstCallers` says which handlers may
get there before a tracker exists. With one first caller, which the runs and proofs assume, the tracker works; with two,
the second would replace it and with it the entries of running requests. Only a gateway without a job store uses the
tracker, and `cmd/master` always configures one, so this is a remark about the type and not about the program.

### WorkerRegistry

`process[w]` is what the telemetry goroutine does next. A request is answered, refused, lost, or delayed (handled after
the sender has gone on, perhaps by the next process of that worker). `ProcessEnds` is a kill, and also a `main` that returns after
SIGTERM before the telemetry goroutine, which nobody waits for, has sent its drain. `drained` is a history variable: who
drained a worker since its process last started. `SelfDrainRespected` is about workers that drained themselves; a
registration that was still under way then undoes the drain, and the history variable forgets it. `DrainRespected` asks
the same of an operator's drain and fails (finding 4). The entry of a stopped worker does not stay, even if made ready again (`DeadForgotten`). A dispatch whose
caller has gone ends with the request it waits for (`ForwardCancelled`).

A certificate bundle is the number of its CA. A restarted master that has `AUTO_GENERATE_CERTS` set makes a new CA, and new
leaves for itself and for `DevWorker`, which shares its directory; a worker loads its bundle when it starts. `Trusted` is
the handshake. A running worker of an old CA is refused until it is started again; one with a directory of its own, until
somebody copies the new files, which no step does. `WorkerReturns` says so. The client that reports completions
(`server.go:207`) loads its files for every call, which the model of the callbacks leaves out.

Distances are constants; figures are one bit, "reaches the thresholds"; equal distances are resolved either way, as Go's
map order does. `Tick` assumes that the heartbeat which follows a registration arrives within `WORKER_STALE_TIMEOUT`.

### ModuleCache

A step is one critical section of the engine's mutex. `Lookup` is `cachedCompiledModule`, with its removal of an
expired entry, and all four lookups go through it. `order` lists cached keys by last use. Removing an entry closes the
compiled module, and a request that has loaded it but not instantiated it fails (wazero's behaviour, external); an
instance that runs is not affected. An empty sequence is an empty or a blank URL, which serves nothing: for an empty one
a miss is an error at once, a blank one goes through leader election and fails to download. `ClearCache` has no caller.

A module's bytes are a `content`, which stands for the text of its SHA-256 digest too, and a URL may serve another content at
each download. Names, URLs and digests are sequences of pieces, and so are the cache's keys, because `ModuleCacheKey.String`
concatenates them around two markers, `@digest:` and `@url:`, without escaping; a marker is a piece that may also occur
within a name or a URL. No surrounding space is modelled (the code trims it), nor digests in upper case (another key for the
same content). A digest that is not one content is malformed or wrong and never verifies. Bytes are verified when they
are downloaded and never when they are found, so what a request with a digest runs depends on the key being its own.
`DigestVerified` says that this is so for every request whose own name and digest contain no marker, whatever others are
called. The condition is needed, and the code does not enforce it (`models.go:130` requires only a name that is not empty): a
module without a digest whose URL contains `@digest:` can have the key of one with a digest whose name contains `@url:`, and the
second then runs what was downloaded, unverified, for the first. The `cache` run has such a pair, and without the condition
TLC finds the property violated by it; `docs/MODULE_CACHE_LIFECYCLE.md:7` promises more of the keys than that. A run ends with an `answer`: whether there is a
result, how many bytes the guest meant and how many are returned. For the wasmCat ABI the guest may return any pointer and
length over a memory of any size (`Word` stands for 2^32); for WASI it writes any of `Outputs`, chunk by chunk, into the
capped buffer.

### AcrResolver

Tokens have two clocks: `life` is the registry's, `left` the cache's. They differ by how long the answer was on its
way, at most the client timeout, which is why the model assumes `ClientTimeout <= RefreshSkew` (`SkewCoversTimeout`;
both are thirty seconds, `client.go:13` and `acr_token.go:22`). When the registry does not say how long a token lives
(`acr_token.go:241`), the model takes it to live for the default TTL that the code then assumes. The parser is modelled on path segments, and so is the policy,
which reads the same URL in its own way. Policy and resolution are in one module because what matters is that they agree:
a request is admitted for its digest, and the dispatcher then replaces that digest by the one it resolves (finding 5).
Azure AD is external and takes no step.

## 3. Runs

| Run | Instance | Shows |
|---|---|---|
| `jobs_shared` | 1 id, 2 contents, 2 handlers, recovery, 2 slots, 2 attempts, one fault of any of the eight kinds | types, `PersistedBeforeDispatch`, `ResponseMatchesRequest`, `SucceededIsReplayable`, `LeasedIffDispatching`, `RunsCounted`, `ImplementsJobService` |
| `jobs_async` | 2 asynchronous jobs, scans of 2, two faults among callback, late, worker, crash, store | `AtMostOneRun`, `AttemptsBounded`, `AmbiguousNotReplayed`, `SucceededIsFinalWithoutFaults` |
| `jobs_live` | 1 id, 2 contents, of which one has reports too large for the callback, 1 handler, one fault of any kind, fairness | `JobsSettle` |
| `tracker` | 3 ids, 2 contents, 3 handlers, limit 2, TTL 1 | types, `OneRunnerPerRequest`, `InFlightIffRunning`, `CapacityRespected`, `ResponseMatchesRequest` |
| `registry` | 2 workers, one of them always capable and sharing the master's certificates, 1 dispatch, thresholds on, one fault among lost, late, restart with and without new certificates, operator's drain, fairness | types, `NoSecondTry`, `SelfDrainRespected`, `WorkerReturns`, `DeadForgotten`, `DispatchEnds` |
| `cache` | 2 requests, 4 modules: one URL with two contents of sizes 1 and 3, requested under the digest of the first and under none, one with a marker in its URL, whose content has size 2 or 5, and one with a marker in its name and no URL, which shares the key of the third; limits of 2 entries, 4 bytes, 2 bytes of output, words of 2 bits, TTL 1, fairness | types, `OneLeaderPerKey`, `NoLostWakeup`, `BytesAccounted`, `CacheBounded`, `SlotsAccounted`, `DigestVerified`, `OutputWhole`, `RequestsEnd` |
| `resolver` | 2 calls, 9 modules of one registry with nested repositories and of two other hosts, pinned, unpinned, declared and malformed; policy with two hosts and required digests, 2 attempts, fairness | types, `UsableTokenLive`, `TokenForRepository`, `LayerRunnable`, `PinnedByPolicy`, `ResolveEnds` |
| `jobs_interrupted`, `jobs_retries`, `jobs_callback`, `registry_drain`, `resolver_digest` | small | findings, below |

Why the bounds are enough to meet the interesting cases. Jobs: two contents make a conflict, two handlers and recovery
make three writers of a row, two attempts make a retry and a limit, a lease of one tick can be over, one more slot than
a dispatch needs lets an abandoned run live beside its successor; with two ids a scan holds rows that are stale when it
gets to them. Tracker: three ids and a limit of two make eviction choose. Registry: with two workers rescheduling has
somewhere to go, and one with and one without the master's certificate directory make both outcomes of a new CA happen; one
fault is enough for each hazard there, and `WorkerRegistryProofs` has any number. Cache: three keys and two limits make each
limit evict on its own, two entries can fill the cache exactly, and a module of size 5 exceeds it alone; outputs lie below,
at and above the limit, in one write and in two; coalescing of more than two requests, and requests beyond the slots, are covered by the proofs instead.
Resolver: `a` and `a/b` are nested, lifetimes are missing, shorter and longer than the skew, and there is a URL for
every branch of policy and parser.
The job runs do not check for deadlock: once all work is settled and the faults are used up, nothing need happen.
Symmetry (of ids, contents, slots and handlers) is used only in safety runs.

### Fairness

No client, operator or fault is obliged to do anything.
- `DurableJobs`: the steps of handlers, recovery, dispatches and runs that need no fault are weakly fair: goroutines run,
  the recovery ticker ticks, a run ends by the engine's execution timeout, a callback by its own, a shutdown by
  `MASTER_SHUTDOWN_TIMEOUT`. Time passes.
- `WorkerRegistry`: a started process keeps sending, or notices that it is to stop, the reaper's ticker ticks, a forwarded
  request ends by a timeout, time passes. Nobody is obliged to start a worker or to deliver a delayed request.
- `ModuleCache`: weak for every request's own steps; strong for the end of a follower's wait, because the deadline of its
  context covers all its waits together, however often new leaders fail.
- `AcrResolver`: an attempt ends by the client timeout at the latest.

### Findings

1. `jobs_interrupted`: a success that the callback has stored is overwritten by the dispatch whose connection broke,
   and the job is executed again (`job_recovery.go:101,106`, `gateway.go:577`), against `docs/REQUEST_IDEMPOTENCY.md:13` and
   `docs/HA_JOB_RELIABILITY_PLAN.md:37`.
2. `jobs_retries`: two concurrent retries both pass the attempt check (`gateway.go:666`), against
   `docs/CONFIGURATION.md:31`.
3. `jobs_callback`: the callback handler reads 4 KiB (`gateway.go:22,223`), a result may have 1 MiB; a larger one is stored
   only if the answer to `/invoke` arrives, against `docs/HA_JOB_RELIABILITY_PLAN.md:37`.
4. `registry_drain`: the periodic registration of a worker undoes an operator's drain (`registry.go:52`), against
   `docs/WORKER_DRAINING.md:34`.
5. `resolver_digest`: for a module of a registry the digest that a client declares is overwritten by the one that the
   master resolves (`dispatcher.go:69`), so the worker verifies another one than was declared, against
   `docs/MODULE_SOURCE_POLICY.md:59`. For a bare repository URL nothing is left to verify.

## 4. Proofs

All theorems hold for every value of the constants that satisfies the named assumptions of the modules.

- `RequestTrackerProofs` (given `SingleFirstCaller`): `TypeCorrect`, `RunsOnce`, `InFlightTracked`, `ResponsesMatch`,
  `CapacityHolds`. The invariant relates both sides of the mutex: a running handler holds the content of its id's entry
  (`HandlersHold`), a started entry has exactly one runner, completed entries store the response to their own content
  (`CompletedMatch`), and before a tracker is installed nothing runs (`InstalledOnce`). Capacity needs a counting
  argument: evicting the `excess` least recently seen completed entries leaves room or leaves none completed.
- `DurableJobsProofs` (all faults): `TypeCorrect`, `PersistenceHolds`, `ResponsesMatch`, `ReplayHolds`, `LeasesHold`. The
  properties are not inductive: `Complete` writes whatever a callback says. The strengthening says that every copy of a
  request in the system (an actor, a run, a late callback, a row of a scan) has the content of its row, that whatever was
  forwarded is counted in the row, and that two waiting actors never share a slot. Content never changes after `Create`,
  so the copies stay right however stale they get. `RunsHold` (`RunsCounted`, all faults, any number of handlers) needs an
  invariant of its own, `CountInv`: the runs of a job, plus the candidates that dispatches of it may still try, are at most
  `MaxWorkers` per counted attempt. `MarkDispatching` pays for the candidates of one dispatch, a forward turns a candidate
  into a run, and no crash, retry or broken connection creates either. Candidates are counted as a set of pairs (actor,
  number), so that the argument is one about cardinalities.
- `JobServiceProofs` (all faults): `ServiceImplemented`. Initial states map to initial states, and under the invariant of
  `DurableJobsProofs` every step maps to a step of `JobService` or to a stutter: a statement that records a result does so
  for a row with a counted try and writes the row's own content, and whoever answers has just recorded the result or reads
  it from the row. `Service!Next` is opened per action, one lemma each.
- `AsyncJobsProofs` (given no synchronous handlers, `AsyncOnly`), each theorem with the invariant it needs:
  - `AttemptsHold`. The scanned attempt number must still be the current one when recovery uses it: only recovery counts
    attempts, each row is in a scan at most once, and the row being dispatched is not in the rest of the scan
    (`AttemptInv`). Finding 2 is what breaks this argument as soon as there are handlers.
  - `AmbiguousStays` (all faults). What recovery may still write `dispatching` or `queued` to, the row it dispatches and the
    rows that its scan shows as queued, is not ambiguous, however old the scan is (`Guarded`).
  - `OneRun` (without transport errors and graceful stops, `NoAbandonedRetry`: the two faults after which the code queues a
    job whose run goes on). Every run is the one recovery waits for, or was left behind by a master that died, and then
    its job is neither queued, nor queued in a scan, nor being dispatched (`Alone`).
  - `SuccessStays`. As long as no fault has happened, recovery waits for the only run there is, its scan is exact, and no row
    it is about to write an error to has a success (`InHand`), although callback and answer arrive separately.
- `WorkerRegistryProofs` (all faults): `TypeCorrect`, `SelfDrainHolds`, `NoSecondTryHolds`. A worker that drained itself is down,
  and only a delayed registration, which resets the history variable, can make its entry ready before it boots. A dispatch
  has removed from its snapshot every worker it has tried, whatever the registry says by then.
- `ModuleCacheProofs`: `OneLeader`, `NoWakeupLost`, `SlotsHold`, `DigestsHold`. The leader of a key is unique and its channel is open as long
  as it leads; between its last look and its insertion nobody else can insert the key. `Quiet(q)` states once what all steps
  that open or close no channel have in common. For digests: a key in which a single
  marker occurs can be read in one way only (`OneReading`), so whoever downloads something under the key of a module with a
  digest and a name free of markers has declared, and verified, the same digest (`KeyTellsDigest`). The other module's name and
  URL may contain any markers, and need not be free of them.
- `CacheLimitsProofs`: `TypesHold`, `BytesHold`, `CacheStaysBounded`, `OutputsWhole`. These open the definitions that `ModuleCacheProofs`
  leaves closed, sums over sets, folds and the recursive function of `Kept`. Induction over data is not available, so each is
  shown to satisfy its own equation, and then to compute what it should, by a least counterexample: a nonempty set of
  naturals has a least element (`LeastNatural`), and the set of sizes or indices at which the claim fails has none. The
  invariant `Limits` says that `order` lists the cached keys, each once, that `cacheBytes` is the sum of their sizes, that ages
  stop one tick past the TTL, and that both limits hold. `EvictionLimits` is the heart: the entries dropped for the byte limit
  are a prefix of the order, and the first one that is kept leaves at most the limit. For outputs: `WriteHolds` carries "all
  that was written, unless it overflowed" through the capped buffer, and `LengthUnpacked` shows that the length survives
  packing for every word size.
- `AcrResolverProofs`: `TypeCorrect`, `TokensLive`, `TokensScoped`, `LayersRunnable`, `PolicyPins`. The lag between the two clocks of a token never exceeds
  the client timeout, so by `SkewCoversTimeout` a token outside the refresh window is alive. `TokensScoped` assumes that the
  registry's idea of a URL's repository is the parser's; the run checks that on concrete URLs. For
  `LayersRunnable`, the selected layer is a first one of its kind in the manifest, found by a least counterexample again, and
  its digest was checked before it was stored (`Checked`). `PolicyPins` follows from the two parsers: whatever the policy takes
  for a pinned URL, the resolver takes for one that names an object. It uses `UrlsAssumption`: the path of a URL is a
  sequence of segments.

Every safety property that a passing run checks is stated by one of these theorems. Checked by TLC only: liveness
(`JobsSettle`, `WorkerReturns`, `DeadForgotten`, `DispatchEnds`, `RequestsEnd`, `ResolveEnds`), which depends on fairness and is
out of the prover's reach; and that the model's URLs are parsed as the registry reads them, which `TokensScoped` assumes.

## 5. Not modelled

- Configuration, bootstrap, geolocation, logging: sequential code that runs once at start-up.
- Metrics: counters that nothing in the program reads back. Wire models and validation, HTTP helpers: stateless; the models
  start from requests that were decoded and accepted.
- `wasmcatctl` and the dashboard: clients of the API without state of their own.
- Of the HTTP client, back-off delays and connection pooling; of the certificates, names, keys and validity periods.
- The age of a token while its manifest is being fetched: a dispatch may hand over a token that has expired by then, and
  fails (`dispatcher.go:64`).

## 6. Plan

Done: durable jobs with their abstract service, tracker, registry with certificates, engine with its guests, policy and ACR
resolver, and a theorem for every safety property that the runs check. What is left:

1. `TokensScoped` without its assumption, from a definition of the registry's own reading of a URL.
2. Action properties of the engine and the registry that are implicit in the invariants, where a reader would look for them.

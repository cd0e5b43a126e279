---------------------------- MODULE WorkerRegistry ----------------------------
(***************************************************************************)
(* Which workers the master may dispatch to: the in-memory registry        *)
(* (internal/master/registry.go), the telemetry goroutine of every worker  *)
(* (internal/worker/telemetry.go), the reaper, and the dispatcher, which   *)
(* takes one snapshot of the registry and tries its workers in turn        *)
(* (dispatcher.go, scheduler.go).                                          *)
(*                                                                         *)
(* CPU and memory figures are abstracted to one bit, `cap`: whether they   *)
(* reach the configured thresholds.  A certificate bundle is abstracted to *)
(* the number of the CA that signed it: the two ends of a connection trust *)
(* each other exactly when they have loaded bundles of the same CA.        *)
(*                                                                         *)
(* Telemetry requests are retried (DoWithRetry) and may still be lost, or  *)
(* be handled after the worker has stopped waiting for them: these are the *)
(* faults "lost" and "late".  A "restart" of the master empties the        *)
(* registry, and "operator" is a drain requested by an operator.           *)
(***************************************************************************)
EXTENDS Integers, FiniteSets

CONSTANTS
    Workers, NoWorker,
    Dispatches,       \* concurrent calls of Dispatcher.Dispatch
    Distance,         \* distance of each worker to the user
    NeedsCapacity,    \* TRUE when a CPU or RAM threshold is configured
    Capable,          \* workers that always have the capacity
    DevWorker,        \* WORKER_ID_FOR_CERT: it shares the master's cert directory
    AutoGenerateCerts, \* the values AUTO_GENERATE_CERTS may have at a restart
    StaleTimeout,     \* WORKER_STALE_TIMEOUT, in ticks
    Faults,           \* subset of {"lost", "late", "restart", "operator"}
    MaxFaults         \* bound: faults and operator drains in one behaviour

ASSUME WorkerRegistryAssumption ==
    /\ NoWorker \notin Workers
    /\ Distance \in [Workers -> Nat]
    /\ NeedsCapacity \in BOOLEAN
    /\ Capable \subseteq Workers
    /\ DevWorker \in Workers
    /\ AutoGenerateCerts \subseteq BOOLEAN
    /\ StaleTimeout \in Nat \ {0}
    /\ MaxFaults \in Nat

VARIABLES
    registry,    \* Registry.workers; state "none" is an absent worker
    process,     \* what each worker's telemetry goroutine does next
    delayed,     \* telemetry requests still to be handled by the master
    dispatch,    \* the Dispatch calls
    faults,
    drained,     \* who drained a worker since its process last started
    ca,          \* the CA whose certificates the master has loaded
    bundle,      \* the CA of the files in each worker's cert directory
    loaded       \* the CA of the files each worker read when it started

certVars == <<ca, bundle, loaded>>

vars == <<registry, process, delayed, dispatch, faults, drained, ca, bundle, loaded>>

Unknown == [state |-> "none", cap |-> FALSE, age |-> 0]

DispatchIdle == [pc |-> "idle", cands |-> {}, target |-> NoWorker, tried |-> {}]

Init ==
    /\ registry = [w \in Workers |-> Unknown]
    /\ process = [w \in Workers |-> "down"]
    /\ delayed = {}
    /\ dispatch = [d \in Dispatches |-> DispatchIdle]
    /\ faults = 0
    /\ drained = [w \in Workers |-> "no"]
    /\ ca = 0
    /\ bundle = [w \in Workers |-> 0]
    /\ loaded = [w \in Workers |-> 0]

Fault(kind) ==
    /\ kind \in Faults
    /\ faults < MaxFaults
    /\ faults' = faults + 1

-----------------------------------------------------------------------------
(* Registry methods, as functions of the map. *)

(* The posted node carries no state and no figures: whatever was known of   *)
(* the worker is overwritten, and the state becomes ready.                  *)
RegisterWorker(reg, w) ==
    [reg EXCEPT ![w] = [state |-> "ready", cap |-> FALSE, age |-> 0]]

(* 404 for an unknown worker. *)
UpdateWorkerStatus(reg, w, c) ==
    IF reg[w].state = "none" THEN reg ELSE [reg EXCEPT ![w].cap = c, ![w].age = 0]

DrainWorker(reg, w) ==
    IF reg[w].state = "none" THEN reg ELSE [reg EXCEPT ![w].state = "draining", ![w].age = 0]

(* Mutant: draining workers are left alone. *)
CleanupAtReadyOnly(reg) ==
    [w \in Workers |->
        IF reg[w].age > StaleTimeout /\ reg[w].state = "ready" THEN Unknown ELSE reg[w]]

CleanupAt(reg) ==
    [w \in Workers |-> IF reg[w].age > StaleTimeout THEN Unknown ELSE reg[w]]

GetSchedulableWorkers(reg) == {w \in Workers : reg[w].state = "ready"}

Drained(w, who) ==
    IF registry[w].state = "none" THEN drained ELSE [drained EXCEPT ![w] = who]

-----------------------------------------------------------------------------
(* Telemetry of worker w: register, heartbeat, wait for the ticker, again;  *)
(* on shutdown one drain request.                                           *)

(* The certificates are read once, for the telemetry client and for the     *)
(* server; a new process starts with a clean record.                        *)
Boot(w) ==
    /\ process[w] = "down"
    /\ process' = [process EXCEPT ![w] = "register"]
    /\ drained' = [drained EXCEPT ![w] = "no"]
    /\ loaded' = [loaded EXCEPT ![w] = bundle[w]]
    /\ UNCHANGED <<registry, delayed, dispatch, faults, ca, bundle>>

(* Mutant: the telemetry loop goes on after the drain request. *)
AfterGoesOn(step) == IF step = "register" THEN "heartbeat" ELSE "wait"

(* Mutant: the goroutine ends up in a state of its own. *)
AfterStops(step) ==
    CASE step = "register"  -> "heartbeat"
      [] step = "heartbeat" -> "wait"
      [] step = "drain"     -> "stopped"

After(step) ==
    CASE step = "register"  -> "heartbeat"
      [] step = "heartbeat" -> "wait"
      [] step = "drain"     -> "down"

Request(w, c) == [kind |-> process[w], node |-> w, cap |-> c]

Handle(reg, m) ==
    CASE m.kind = "register"  -> RegisterWorker(reg, m.node)
      [] m.kind = "heartbeat" -> UpdateWorkerStatus(reg, m.node, m.cap)
      [] m.kind = "drain"     -> DrainWorker(reg, m.node)

Sending(w) == process[w] \in {"register", "heartbeat", "drain"}

Advance(w) == process' = [process EXCEPT ![w] = After(@)]

(* What a request says of the worker's capacity: only a heartbeat does, and *)
(* without thresholds nobody asks.                                          *)
Figures(w) ==
    IF process[w] = "heartbeat" /\ NeedsCapacity
      THEN {c \in BOOLEAN : w \in Capable => c}
      ELSE {FALSE}

(* The TLS handshake between the master and w succeeds. *)
Trusted(w) == loaded[w] = ca

(* The request is answered. *)
Send(w, c) ==
    /\ Sending(w)
    /\ Trusted(w)
    /\ registry' = Handle(registry, Request(w, c))
    /\ drained' = IF process[w] = "drain" THEN Drained(w, "self") ELSE drained
    /\ Advance(w)
    /\ UNCHANGED <<delayed, dispatch, faults, certVars>>

(* The handshake fails; the error is logged and the loop goes on. *)
SendRefused(w) ==
    /\ Sending(w)
    /\ ~Trusted(w)
    /\ Advance(w)
    /\ UNCHANGED <<registry, delayed, dispatch, faults, drained, certVars>>

SendLost(w) ==
    /\ Sending(w)
    /\ Fault("lost")
    /\ Advance(w)
    /\ UNCHANGED <<registry, delayed, dispatch, drained, certVars>>

SendDelayed(w, c) ==
    /\ Sending(w)
    /\ Trusted(w)
    /\ Fault("late")
    /\ delayed' = delayed \cup {Request(w, c)}
    /\ Advance(w)
    /\ UNCHANGED <<registry, dispatch, drained, certVars>>

(* A request may outlive the process that sent it: a drain then says        *)
(* nothing of the process that runs now, and a registration undoes a drain. *)
Deliver(m) ==
    /\ registry' = Handle(registry, m)
    /\ drained' = CASE m.kind = "drain" /\ process[m.node] = "down" -> Drained(m.node, "self")
                    [] m.kind = "register" -> [drained EXCEPT ![m.node] = "no"]
                    [] OTHER -> drained
    /\ delayed' = delayed \ {m}
    /\ UNCHANGED <<process, dispatch, faults, certVars>>

(* Mutant: only the heartbeat is repeated. *)
HeartbeatTickOnly(w) ==
    /\ process[w] = "wait"
    /\ process' = [process EXCEPT ![w] = "heartbeat"]
    /\ UNCHANGED <<registry, delayed, dispatch, faults, drained, certVars>>

HeartbeatTick(w) ==
    /\ process[w] = "wait"
    /\ process' = [process EXCEPT ![w] = "register"]
    /\ UNCHANGED <<registry, delayed, dispatch, faults, drained, certVars>>

(* The goroutine notices SIGTERM while it waits. *)
Shutdown(w) ==
    /\ process[w] = "wait"
    /\ process' = [process EXCEPT ![w] = "drain"]
    /\ UNCHANGED <<registry, delayed, dispatch, faults, drained, certVars>>

(* The process is killed, or main returns after SIGTERM: it waits for the   *)
(* server to shut down but not for the telemetry goroutine, so the drain    *)
(* request may never be sent.                                               *)
ProcessEnds(w) ==
    /\ process[w] # "down"
    /\ process' = [process EXCEPT ![w] = "down"]
    /\ UNCHANGED <<registry, delayed, dispatch, faults, drained, certVars>>

-----------------------------------------------------------------------------
(* Master: operator drain, reaper, restart, the passing of time. *)

OperatorDrain(w) ==
    /\ Fault("operator")
    /\ registry[w].state # "none"
    /\ registry' = DrainWorker(registry, w)
    /\ drained' = Drained(w, "operator")
    /\ UNCHANGED <<process, delayed, dispatch, certVars>>

Cleanup ==
    /\ registry' = CleanupAt(registry)
    /\ registry' # registry
    /\ UNCHANGED <<process, delayed, dispatch, faults, drained, certVars>>

(* Time since LastSeen stops mattering beyond the timeout.  The heartbeat   *)
(* is posted right after the registration: it is assumed to arrive, if it   *)
(* does, within WORKER_STALE_TIMEOUT.                                       *)
Tick ==
    /\ \A w \in Workers :
        process[w] = "heartbeat" /\ registry[w].state # "none" => registry[w].age < StaleTimeout
    /\ registry' = [w \in Workers |->
            IF registry[w].state # "none" /\ registry[w].age <= StaleTimeout
              THEN [registry[w] EXCEPT !.age = @ + 1]
              ELSE registry[w]]
    /\ UNCHANGED <<process, delayed, dispatch, faults, drained, certVars>>

(* A new CA, and leaf certificates for the master and for one worker,       *)
(* written over the old files.                                              *)
GenerateCAAndCerts ==
    /\ ca' = ca + 1
    /\ bundle' = [bundle EXCEPT ![DevWorker] = ca + 1]

(* The registry is in memory only. *)
Restart(auto) ==
    /\ Fault("restart")
    /\ registry' = [w \in Workers |-> Unknown]
    /\ delayed' = {}
    /\ dispatch' = [d \in Dispatches |-> DispatchIdle]
    /\ IF auto THEN GenerateCAAndCerts ELSE UNCHANGED <<ca, bundle>>
    /\ UNCHANGED <<process, drained, loaded>>

-----------------------------------------------------------------------------
(* Dispatcher.Dispatch. *)

BeginDispatch(d) ==
    /\ dispatch[d].pc = "idle"
    /\ GetSchedulableWorkers(registry) # {}
    /\ dispatch' = [dispatch EXCEPT
            ![d].pc = "select",
            ![d].cands = {[id |-> w, cap |-> registry[w].cap] : w \in GetSchedulableWorkers(registry)}]
    /\ UNCHANGED <<registry, process, delayed, faults, drained, certVars>>

FilterWorkersByCapacity(cands) == {c \in cands : NeedsCapacity => c.cap}

(* Ties are broken by the iteration order of a Go map. *)
IsClosest(c, eligible) == \A e \in eligible : Distance[c.id] <= Distance[e.id]

(* SelectWorker, and the request is on its way to the worker. *)
SelectWorker(d, c) ==
    /\ dispatch[d].pc = "select"
    /\ c \in FilterWorkersByCapacity(dispatch[d].cands)
    /\ IsClosest(c, FilterWorkersByCapacity(dispatch[d].cands))
    /\ dispatch' = [dispatch EXCEPT ![d].pc = "forward", ![d].target = c.id]
    /\ UNCHANGED <<registry, process, delayed, faults, drained, certVars>>

(* The call returns: no candidate has capacity, or none is left. *)
GiveUp(d) ==
    /\ dispatch[d].pc = "select"
    /\ FilterWorkersByCapacity(dispatch[d].cands) = {}
    /\ dispatch' = [dispatch EXCEPT ![d] = DispatchIdle]
    /\ UNCHANGED <<registry, process, delayed, faults, drained, certVars>>

(* A result, or an error that is not retryable, from a worker that is up.   *)
(* forwardToWorker reads the certificates of the master for every request.  *)
ForwardDone(d) ==
    /\ dispatch[d].pc = "forward"
    /\ process[dispatch[d].target] # "down"
    /\ Trusted(dispatch[d].target)
    /\ dispatch' = [dispatch EXCEPT ![d] = DispatchIdle]
    /\ UNCHANGED <<registry, process, delayed, faults, drained, certVars>>

(* Mutant: the failed worker stays a candidate. *)
removeNoCandidate(cands, w) == cands

removeWorkerCandidate(cands, w) == {c \in cands : c.id # w}

(* A transport error or 502, 503, 504: on to the next candidate. *)
ForwardRetryable(d) ==
    /\ dispatch[d].pc = "forward"
    /\ dispatch' = [dispatch EXCEPT
            ![d].pc = "select",
            ![d].cands = removeWorkerCandidate(@, dispatch[d].target),
            ![d].tried = @ \cup {dispatch[d].target},
            ![d].target = NoWorker]
    /\ UNCHANGED <<registry, process, delayed, faults, drained, certVars>>

(* The caller's context has ended, and with it the request: Dispatch        *)
(* returns, however many candidates are left.                               *)
ForwardCancelled(d) ==
    /\ dispatch[d].pc = "forward"
    /\ dispatch' = [dispatch EXCEPT ![d] = DispatchIdle]
    /\ UNCHANGED <<registry, process, delayed, faults, drained, certVars>>

-----------------------------------------------------------------------------
WorkerStep(w) ==
    \/ Boot(w)
    \/ \E c \in Figures(w) : Send(w, c) \/ SendDelayed(w, c)
    \/ SendRefused(w)
    \/ SendLost(w)
    \/ HeartbeatTick(w)
    \/ Shutdown(w)
    \/ ProcessEnds(w)
    \/ OperatorDrain(w)

DispatchStep(d) ==
    \/ BeginDispatch(d)
    \/ \E c \in dispatch[d].cands : SelectWorker(d, c)
    \/ GiveUp(d)
    \/ ForwardDone(d)
    \/ ForwardRetryable(d)
    \/ ForwardCancelled(d)

Next ==
    \/ \E w \in Workers : WorkerStep(w)
    \/ \E d \in Dispatches : DispatchStep(d)
    \/ \E m \in delayed : Deliver(m)
    \/ Cleanup
    \/ Tick
    \/ \E auto \in AutoGenerateCerts : Restart(auto)

Spec == Init /\ [][Next]_vars

(* A started process keeps sending, the reaper keeps reaping, a dispatch    *)
(* keeps going and time passes.                                             *)
Fairness ==
    /\ \A w \in Workers :
        /\ WF_vars((\E c \in Figures(w) : Send(w, c)) \/ SendRefused(w))
        /\ WF_vars(HeartbeatTick(w) \/ Shutdown(w))
    /\ \A d \in Dispatches :
        WF_vars((\E c \in dispatch[d].cands : SelectWorker(d, c)) \/ GiveUp(d)
                    \/ ForwardDone(d) \/ ForwardRetryable(d))
    /\ WF_vars(Cleanup)
    /\ WF_vars(Tick)

FairSpec == Spec /\ Fairness

-----------------------------------------------------------------------------
(* The types of the variables. *)
TypeOK ==
    /\ registry \in [Workers -> [state: {"none", "ready", "draining"}, cap: BOOLEAN,
                                 age: 0..(StaleTimeout + 1)]]
    /\ process \in [Workers -> {"down", "register", "heartbeat", "wait", "drain"}]
    /\ delayed \subseteq [kind: {"register", "heartbeat", "drain"}, node: Workers, cap: BOOLEAN]
    /\ dispatch \in [Dispatches -> [pc: {"idle", "select", "forward"},
                                    cands: SUBSET [id: Workers, cap: BOOLEAN],
                                    target: Workers \cup {NoWorker},
                                    tried: SUBSET Workers]]
    /\ faults \in 0..MaxFaults
    /\ drained \in [Workers -> {"no", "self", "operator"}]
    /\ ca \in Nat
    /\ bundle \in [Workers -> Nat]
    /\ loaded \in [Workers -> Nat]

(* Rescheduling never sends a request back to a worker that has already     *)
(* failed it, even if that worker re-registered in the meantime.            *)
NoSecondTry ==
    \A d \in Dispatches : dispatch[d].pc = "forward" => dispatch[d].target \notin dispatch[d].tried

(* Once the master has recorded that a worker is draining, that worker is   *)
(* not schedulable again until its process has been started anew.           *)
DrainRespected == \A w \in Workers : drained[w] # "no" => registry[w].state # "ready"

(* A worker that drained itself when it was stopped is not schedulable      *)
(* until it is started again, whatever its heartbeats, the reaper and       *)
(* restarts of the master do in between.  A registration that was still     *)
(* under way when it drained makes it ready again, in the code as here:     *)
(* Deliver then forgets the drain, so this says nothing of such a worker.   *)
SelfDrainRespected ==
    \A w \in Workers : drained[w] = "self" => registry[w].state # "ready"

(* A worker process that keeps running becomes schedulable again after a    *)
(* drain, a reaped entry or a restart of the master, and its capacity is    *)
(* known again although every registration zeroes it; unless the master     *)
(* has generated a new CA since the worker started.                         *)
WorkerReturns ==
    \A w \in Workers :
        []<>(\/ registry[w].state = "ready" /\ (NeedsCapacity /\ w \in Capable => registry[w].cap)
             \/ process[w] = "down"
             \/ ~Trusted(w))

(* A worker that stays away leaves the registry. *)
DeadForgotten ==
    \A w \in Workers : []<>(registry[w].state = "none" \/ process[w] # "down")

(* Dispatch returns: rescheduling does not go round for ever. *)
DispatchEnds ==
    \A d \in Dispatches : []<>(dispatch[d].pc = "idle")
=============================================================================

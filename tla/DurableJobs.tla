------------------------------ MODULE DurableJobs ------------------------------
(***************************************************************************)
(* The life of a durable job: the master's gateway handlers (execute,      *)
(* submit, inspect, worker completion callback), the recovery loop, the    *)
(* dispatcher that both of them call, and the worker runs they start.  All *)
(* of them share the table of JobStore, and all of them may interleave     *)
(* between two SQL statements.                                             *)
(*                                                                         *)
(* Which failures the environment may cause is the constant Faults; each   *)
(* occurrence uses up one of MaxFaults.                                    *)
(*   "transport" : the connection to a worker breaks, or its answer cannot *)
(*                 be decoded; the worker carries on                       *)
(*   "cancel"    : the client goes away, which cancels the handler's ctx   *)
(*   "callback"  : a completion callback is lost, or its answer is         *)
(*   "late"      : a callback is handled after the worker gave up on it    *)
(*   "worker"    : a worker process dies                                   *)
(*   "crash"     : the master process dies and is restarted                *)
(*   "stop"      : the master is stopped gracefully and restarted          *)
(*   "store"     : a SQL statement fails                                   *)
(***************************************************************************)
EXTENDS JobStore

CONSTANTS
    NoID,
    Handlers,      \* concurrent POST /api/v1/execute handlers
    Recovery,      \* the recovery goroutine
    Slots,         \* bound: worker runs outstanding at the same time
    NoSlot,
    MaxWorkers,    \* bound: schedulable workers a dispatch may find
    LeaseTTL,      \* JOB_LEASE_TTL
    BatchSize,     \* rows per recovery scan
    Large,         \* outcomes <<fp, ok>> whose report exceeds internalControlMaxBodyBytes
    Faults,
    MaxFaults      \* bound: faults in one behaviour

ASSUME DurableJobsAssumption ==
    /\ NoID \notin ReqIDs
    /\ Recovery \notin Handlers
    /\ NoSlot \notin Slots
    /\ MaxWorkers \in Nat
    /\ LeaseTTL \in Nat \ {0}
    /\ BatchSize \in Nat \ {0}
    /\ MaxFaults \in Nat

VARIABLES
    actor,      \* what each handler and the recovery goroutine is doing
    batch,      \* the rows of the current scan that recovery has not reached
    scanNow,    \* the clock value RecoverOnce read before its scan
    tried,      \* the Attempt of the row recovery is dispatching, as scanned
    run,        \* the runs on the workers
    late,       \* completion callbacks the master has yet to handle
    clock,
    faults,     \* faults that have happened
    served      \* the successful responses handed to clients

vars == <<jobs, updated, actor, batch, scanNow, tried, run, late, clock, faults, served>>

Actors == Handlers \cup {Recovery}

ActorIdle ==
    [pc |-> "idle", id |-> NoID, fp |-> NoFp, left |-> 0, slot |-> NoSlot, resp |-> NoFp]

SlotFree == [phase |-> "free", id |-> NoID, fp |-> NoFp, ok |-> FALSE]

Init ==
    /\ StoreInit
    /\ actor = [a \in Actors |-> ActorIdle]
    /\ batch = {}
    /\ scanNow = 1
    /\ tried = 0
    /\ run = [s \in Slots |-> SlotFree]
    /\ late = {}
    /\ clock = 1
    /\ faults = 0
    /\ served = {}

Fault(kind) ==
    /\ kind \in Faults
    /\ faults < MaxFaults
    /\ faults' = faults + 1

(* A client receives the success response in the row of r for request f.   *)
Serve(r, f, response) ==
    served' = served \cup {[id |-> r, asked |-> f, resp |-> response]}

-----------------------------------------------------------------------------
(* Gateway: POST /api/v1/jobs and GET /api/v1/jobs/{request_id}.            *)

(* createQueuedJob for a new request_id: 202, dispatch is left to recovery. *)
CreateJob(r, f) ==
    /\ Create(r, f)
    /\ UNCHANGED <<actor, batch, scanNow, tried, run, late, clock, faults, served>>

(* A repeated submission with the row's fingerprint, or a GET, returns the *)
(* row, with the response if there is one, whatever the status is by now.   *)
(* (A different fingerprint gets 409 and changes nothing.)                  *)
ReadJob(r, f) ==
    /\ Exists(r)
    /\ jobs[r].fp = f
    /\ jobs[r].resp # NoFp
    /\ Serve(r, f, jobs[r].resp)
    /\ UNCHANGED <<jobs, updated, actor, batch, scanNow, tried, run, late, clock, faults>>

-----------------------------------------------------------------------------
(* Gateway: POST /api/v1/execute.  A failed Create is followed by a Get in *)
(* a statement of its own; rows are never deleted, so the two act like the *)
(* Get alone.  The outcomes that only write an error (fingerprint conflict, *)
(* in progress, ambiguous, max attempts reached) change nothing.            *)

MayRetry(job) == job.status = "failed" /\ job.attempt < MaxAttempts

BeginNew(h, r, f) ==
    /\ actor[h].pc = "idle"
    /\ Create(r, f)
    /\ actor' = [actor EXCEPT ![h].pc = "mark", ![h].id = r, ![h].fp = f]
    /\ UNCHANGED <<batch, scanNow, tried, run, late, clock, faults, served>>

(* Mutant: the fingerprint is not compared. *)
SameRequestAnyContent(r, f) == Exists(r)

SameRequest(r, f) == Exists(r) /\ jobs[r].fp = f

BeginRetry(h, r, f) ==
    /\ actor[h].pc = "idle"
    /\ SameRequest(r, f)
    /\ MayRetry(jobs[r])
    /\ actor' = [actor EXCEPT ![h].pc = "mark", ![h].id = r, ![h].fp = f]
    /\ UNCHANGED <<jobs, updated, batch, scanNow, tried, run, late, clock, faults, served>>

BeginReplay(h, r, f) ==
    /\ actor[h].pc = "idle"
    /\ SameRequest(r, f)
    /\ jobs[r].status = "succeeded"
    /\ jobs[r].resp # NoFp
    /\ Serve(r, f, jobs[r].resp)
    /\ UNCHANGED <<jobs, updated, actor, batch, scanNow, tried, run, late, clock, faults>>

(* The registry snapshot taken by Dispatch holds any number of workers.     *)
EnterDispatch(a, n) == [actor EXCEPT ![a].pc = "select", ![a].left = n]

(* Mutant: dispatch starts before the row is updated. *)
StartExecuteUnmarked(h, n) ==
    /\ actor[h].pc = "mark"
    /\ actor' = EnterDispatch(h, n)
    /\ UNCHANGED <<jobs, updated, batch, scanNow, tried, run, late, clock, faults, served>>

StartExecute(h, n) ==
    /\ actor[h].pc = "mark"
    /\ MarkDispatching(actor[h].id, clock + LeaseTTL)
    /\ actor' = EnterDispatch(h, n)
    /\ UNCHANGED <<batch, scanNow, tried, run, late, clock, faults, served>>

(* MarkDispatching runs under the request's context: 503, row untouched.    *)
StartExecuteFails(h) ==
    /\ actor[h].pc = "mark"
    /\ Fault("cancel") \/ Fault("store")
    /\ actor' = [actor EXCEPT ![h] = ActorIdle]
    /\ UNCHANGED <<jobs, updated, batch, scanNow, tried, run, late, clock, served>>

ExecuteSucceeded(h) ==
    /\ actor[h].pc = "ok"
    /\ MarkSucceeded(actor[h].id, actor[h].resp)
    /\ Serve(actor[h].id, actor[h].fp, actor[h].resp)
    /\ actor' = [actor EXCEPT ![h] = ActorIdle]
    /\ UNCHANGED <<batch, scanNow, tried, run, late, clock, faults>>

ExecuteFailed(h) ==
    /\ actor[h].pc = "err"
    /\ MarkFailed(actor[h].id)
    /\ actor' = [actor EXCEPT ![h] = ActorIdle]
    /\ UNCHANGED <<batch, scanNow, tried, run, late, clock, faults, served>>

-----------------------------------------------------------------------------
(* Recovery loop.  RecoverOnce reads the clock once, takes one snapshot and *)
(* then works through it, one row at a time, without reading a row again.   *)

Snapshot(r) ==
    [id |-> r, fp |-> jobs[r].fp, status |-> jobs[r].status,
     attempt |-> jobs[r].attempt, rank |-> updated[r]]

RecoverScan ==
    /\ actor[Recovery].pc = "idle"
    /\ batch = {}
    /\ batch' = {Snapshot(r) : r \in ListRecoverable(clock, BatchSize)}
    /\ batch' # {}
    /\ scanNow' = clock
    /\ UNCHANGED <<jobs, updated, actor, tried, run, late, clock, faults, served>>

IsNext(s) == \A t \in batch : s.rank <= t.rank

(* Its lease was over when the scan read it. *)
RecoverExpired(s) ==
    /\ actor[Recovery].pc = "idle"
    /\ IsNext(s)
    /\ s.status = "dispatching"
    /\ MarkAmbiguous(s.id)
    /\ batch' = batch \ {s}
    /\ UNCHANGED <<actor, scanNow, tried, run, late, clock, faults, served>>

(* The lease is counted from the scan, not from this step. *)
RecoverQueued(s, n) ==
    /\ actor[Recovery].pc = "idle"
    /\ IsNext(s)
    /\ s.status = "queued"
    /\ MarkDispatching(s.id, scanNow + LeaseTTL)
    /\ actor' = [EnterDispatch(Recovery, n) EXCEPT ![Recovery].id = s.id, ![Recovery].fp = s.fp]
    /\ tried' = s.attempt
    /\ batch' = batch \ {s}
    /\ UNCHANGED <<scanNow, run, late, clock, faults, served>>

(* The error is logged and the loop goes on to the next row. *)
RecoverFails(s) ==
    /\ actor[Recovery].pc = "idle"
    /\ IsNext(s)
    /\ Fault("store")
    /\ batch' = batch \ {s}
    /\ UNCHANGED <<jobs, updated, actor, scanNow, tried, run, late, clock, served>>

RecoverySucceeded ==
    /\ actor[Recovery].pc = "ok"
    /\ MarkSucceeded(actor[Recovery].id, actor[Recovery].resp)
    /\ actor' = [actor EXCEPT ![Recovery] = ActorIdle]
    /\ UNCHANGED <<batch, scanNow, tried, run, late, clock, faults, served>>

(* Mutant: > for >=. *)
MarkRecoveryErrorOneMore(r) ==
    IF tried + 1 > MaxAttempts THEN MarkFailed(r) ELSE MarkQueued(r)

(* nextAttempt is computed from the scanned row. *)
MarkRecoveryError(r) ==
    IF tried + 1 >= MaxAttempts THEN MarkFailed(r) ELSE MarkQueued(r)

RecoveryFailed ==
    /\ actor[Recovery].pc = "err"
    /\ MarkRecoveryError(actor[Recovery].id)
    /\ actor' = [actor EXCEPT ![Recovery] = ActorIdle]
    /\ UNCHANGED <<batch, scanNow, tried, run, late, clock, faults, served>>

(* The last statement of a dispatch fails, for a handler or for recovery:   *)
(* the error is dropped or reported and the row stays as it is.             *)
FinalMarkFails(a) ==
    /\ actor[a].pc \in {"ok", "err"}
    /\ Fault("store")
    /\ actor' = [actor EXCEPT ![a] = ActorIdle]
    /\ UNCHANGED <<jobs, updated, batch, scanNow, tried, run, late, clock, served>>

-----------------------------------------------------------------------------
(* Dispatcher.Dispatch, called by a handler or by recovery.                 *)

(* No candidate is left, or none has the capacity. *)
NoCandidates(a) ==
    /\ actor[a].pc = "select"
    /\ actor[a].left = 0
    /\ actor' = [actor EXCEPT ![a].pc = "err"]
    /\ UNCHANGED <<jobs, updated, batch, scanNow, tried, run, late, clock, faults, served>>

NextCandidate(a) ==
    [actor EXCEPT ![a].pc = "select", ![a].left = @ - 1, ![a].slot = NoSlot]

(* Mutant: the retry loop does not check that a candidate is left. *)
RefusedUnguarded(a) ==
    /\ actor[a].pc = "select"
    /\ actor' = NextCandidate(a)
    /\ UNCHANGED <<jobs, updated, batch, scanNow, tried, run, late, clock, faults, served>>

(* Connection refused, or 503 from a worker without an engine: no run. *)
Refused(a) ==
    /\ actor[a].pc = "select"
    /\ actor[a].left > 0
    /\ actor' = NextCandidate(a)
    /\ UNCHANGED <<jobs, updated, batch, scanNow, tried, run, late, clock, faults, served>>

(* 400 for a body the worker does not accept: no run, and not retried. *)
Rejected(a) ==
    /\ actor[a].pc = "select"
    /\ actor[a].left > 0
    /\ actor' = [actor EXCEPT ![a].pc = "err"]
    /\ UNCHANGED <<jobs, updated, batch, scanNow, tried, run, late, clock, faults, served>>

Forward(a, s) ==
    /\ actor[a].pc = "select"
    /\ actor[a].left > 0
    /\ run[s].phase = "free"
    /\ run' = [run EXCEPT ![s].phase = "running", ![s].id = actor[a].id, ![s].fp = actor[a].fp]
    /\ actor' = [actor EXCEPT ![a].pc = "wait", ![a].slot = s]
    /\ UNCHANGED <<jobs, updated, batch, scanNow, tried, late, clock, faults, served>>

Answered(a) == actor[a].pc = "wait" /\ run[actor[a].slot].phase = "reply"

(* Mutant: 200 itself is taken for an error status. *)
ReplyMisjudged(a) ==
    /\ Answered(a)
    /\ actor' = [actor EXCEPT ![a].pc = "err", ![a].slot = NoSlot]
    /\ run' = [run EXCEPT ![actor[a].slot] = SlotFree]
    /\ UNCHANGED <<jobs, updated, batch, scanNow, tried, late, clock, faults, served>>

(* 200 with the response, or 400 execution_failed, which is not retried. *)
Reply(a) ==
    /\ Answered(a)
    /\ LET r == run[actor[a].slot]
       IN  actor' = [actor EXCEPT ![a].pc = IF r.ok THEN "ok" ELSE "err",
                                  ![a].resp = IF r.ok THEN r.fp ELSE NoFp,
                                  ![a].slot = NoSlot]
    /\ run' = [run EXCEPT ![actor[a].slot] = SlotFree]
    /\ UNCHANGED <<jobs, updated, batch, scanNow, tried, late, clock, faults, served>>

(* The response body cannot be decoded: an error that is not retried. *)
ReplyGarbled(a) ==
    /\ Answered(a)
    /\ Fault("transport")
    /\ actor' = [actor EXCEPT ![a].pc = "err", ![a].slot = NoSlot]
    /\ run' = [run EXCEPT ![actor[a].slot] = SlotFree]
    /\ UNCHANGED <<jobs, updated, batch, scanNow, tried, late, clock, served>>

(* client.Do returns an error: retryable, although the worker goes on. *)
TransportError(a) ==
    /\ actor[a].pc = "wait"
    /\ Fault("transport")
    /\ actor' = NextCandidate(a)
    /\ UNCHANGED <<jobs, updated, batch, scanNow, tried, run, late, clock, served>>

(* The client of an execute handler goes away: no other worker is tried. *)
Cancelled(h) ==
    /\ actor[h].pc \in {"select", "wait"}
    /\ Fault("cancel")
    /\ actor' = [actor EXCEPT ![h].pc = "err", ![h].slot = NoSlot]
    /\ UNCHANGED <<jobs, updated, batch, scanNow, tried, run, late, clock, served>>

-----------------------------------------------------------------------------
(* Worker: handleInvoke runs the module under a context of its own, reports *)
(* the outcome to the master and only then answers /invoke.                 *)

Waiter(s) == {a \in Actors : actor[a].pc = "wait" /\ actor[a].slot = s}

Execute(s, ok) ==
    /\ run[s].phase = "running"
    /\ run' = [run EXCEPT ![s].phase = "report", ![s].ok = ok]
    /\ UNCHANGED <<jobs, updated, actor, batch, scanNow, tried, late, clock, faults, served>>

(* Mutant: a failed completion puts the job back in the queue. *)
CompleteRequeues(r, ok, response) ==
    IF ok THEN MarkSucceeded(r, response) ELSE MarkQueued(r)

(* Gateway.handleJobCompletion. *)
Complete(r, ok, response) ==
    IF ok THEN MarkSucceeded(r, response) ELSE MarkFailed(r)

Reported(s) == [run EXCEPT ![s].phase = "reply"]

(* handleJobCompletion reads at most internalControlMaxBodyBytes: a report  *)
(* whose response or error text is larger is answered 413, which is not     *)
(* retried.                                                                 *)
Accepted(s) == <<run[s].fp, run[s].ok>> \notin Large

CallbackRejected(s) ==
    /\ run[s].phase = "report"
    /\ ~Accepted(s)
    /\ run' = Reported(s)
    /\ UNCHANGED <<jobs, updated, actor, batch, scanNow, tried, late, clock, faults, served>>

Callback(s) ==
    /\ run[s].phase = "report"
    /\ Accepted(s)
    /\ Complete(run[s].id, run[s].ok, run[s].fp)
    /\ run' = Reported(s)
    /\ UNCHANGED <<actor, batch, scanNow, tried, late, clock, faults, served>>

(* Stored, but the answer is lost: DoWithRetry sends it once more. *)
CallbackRepeated(s) ==
    /\ run[s].phase = "report"
    /\ Fault("callback")
    /\ Accepted(s)
    /\ Complete(run[s].id, run[s].ok, run[s].fp)
    /\ UNCHANGED <<actor, batch, scanNow, tried, run, late, clock, served>>

(* Every attempt fails; reportJobCompletion only logs it. *)
CallbackLost(s) ==
    /\ run[s].phase = "report"
    /\ Fault("callback")
    /\ run' = Reported(s)
    /\ UNCHANGED <<jobs, updated, actor, batch, scanNow, tried, late, clock, served>>

(* The worker gives up after its timeout, but the master's handler, which   *)
(* uses a background context, still has the request in hand.                *)
CallbackDelayed(s) ==
    /\ run[s].phase = "report"
    /\ Fault("late")
    /\ Accepted(s)
    /\ late' = late \cup {[id |-> run[s].id, ok |-> run[s].ok, fp |-> run[s].fp]}
    /\ run' = Reported(s)
    /\ UNCHANGED <<jobs, updated, actor, batch, scanNow, tried, clock, served>>

LateCallback(m) ==
    /\ Complete(m.id, m.ok, m.fp)
    /\ late' = late \ {m}
    /\ UNCHANGED <<actor, batch, scanNow, tried, run, clock, faults, served>>

(* The answer to an abandoned /invoke goes nowhere. *)
ReplyDropped(s) ==
    /\ run[s].phase = "reply"
    /\ Waiter(s) = {}
    /\ run' = [run EXCEPT ![s] = SlotFree]
    /\ UNCHANGED <<jobs, updated, actor, batch, scanNow, tried, late, clock, faults, served>>

(* Whoever waits sees a broken connection, which is retryable. *)
WorkerCrash(s) ==
    /\ run[s].phase # "free"
    /\ Fault("worker")
    /\ run' = [run EXCEPT ![s] = SlotFree]
    /\ actor' = [a \in Actors |->
                    IF a \in Waiter(s) THEN NextCandidate(a)[a] ELSE actor[a]]
    /\ UNCHANGED <<jobs, updated, batch, scanNow, tried, late, clock, served>>

-----------------------------------------------------------------------------
(* Time passes only while some lease has yet to run out: no other step      *)
(* compares the clock with anything.                                        *)
Tick ==
    /\ \E r \in ReqIDs : jobs[r].lease > clock
    /\ clock' = clock + 1
    /\ UNCHANGED <<jobs, updated, actor, batch, scanNow, tried, run, late, faults, served>>

(* The table and the workers survive; handlers and the scan do not. *)
Crash ==
    /\ Fault("crash")
    /\ actor' = [a \in Actors |-> ActorIdle]
    /\ batch' = {}
    /\ late' = {}
    /\ UNCHANGED <<jobs, updated, scanNow, tried, run, clock, served>>

(* SIGTERM while recovery is dispatching: its context is cancelled, the     *)
(* dispatch fails, the error is written under a context that is not         *)
(* cancelled, and the rest of the scan is dropped.                          *)
GracefulStop ==
    /\ Fault("stop")
    /\ actor[Recovery].pc \in {"select", "wait"}
    /\ MarkRecoveryError(actor[Recovery].id)
    /\ actor' = [actor EXCEPT ![Recovery].pc = "stopped", ![Recovery].slot = NoSlot]
    /\ batch' = {}
    /\ UNCHANGED <<scanNow, tried, run, late, clock, served>>

(* server.Shutdown has returned, because the handlers are done or because   *)
(* MASTER_SHUTDOWN_TIMEOUT is over, and the process ends and is restarted.  *)
Exit ==
    /\ actor[Recovery].pc = "stopped"
    /\ actor' = [a \in Actors |-> ActorIdle]
    /\ late' = {}
    /\ UNCHANGED <<jobs, updated, batch, scanNow, tried, run, clock, faults, served>>

-----------------------------------------------------------------------------
HandlerStep(h) ==
    \/ \E r \in ReqIDs, f \in Fps :
        BeginNew(h, r, f) \/ BeginRetry(h, r, f) \/ BeginReplay(h, r, f)
    \/ \E n \in 0..MaxWorkers : StartExecute(h, n)
    \/ StartExecuteFails(h)
    \/ ExecuteSucceeded(h)
    \/ ExecuteFailed(h)
    \/ Cancelled(h)

RecoveryStep ==
    \/ RecoverScan
    \/ \E s \in batch : RecoverExpired(s) \/ RecoverFails(s)
    \/ \E s \in batch, n \in 0..MaxWorkers : RecoverQueued(s, n)
    \/ RecoverySucceeded
    \/ RecoveryFailed

DispatchStep(a) ==
    \/ NoCandidates(a)
    \/ Refused(a)
    \/ Rejected(a)
    \/ \E s \in Slots : Forward(a, s)
    \/ Reply(a)
    \/ ReplyGarbled(a)
    \/ TransportError(a)
    \/ FinalMarkFails(a)

WorkerStep(s) ==
    \/ \E ok \in BOOLEAN : Execute(s, ok)
    \/ Callback(s)
    \/ CallbackRejected(s)
    \/ CallbackRepeated(s)
    \/ CallbackLost(s)
    \/ CallbackDelayed(s)
    \/ ReplyDropped(s)
    \/ WorkerCrash(s)

Next ==
    \/ \E r \in ReqIDs, f \in Fps : CreateJob(r, f) \/ ReadJob(r, f)
    \/ \E h \in Handlers : HandlerStep(h)
    \/ RecoveryStep
    \/ \E a \in Actors : DispatchStep(a)
    \/ \E s \in Slots : WorkerStep(s)
    \/ \E m \in late : LateCallback(m)
    \/ Tick
    \/ Crash
    \/ GracefulStop
    \/ Exit

Spec == Init /\ [][Next]_vars

-----------------------------------------------------------------------------
(* Fairness: the goroutines of the master and of the workers keep running,  *)
(* a run ends within the engine's execution timeout, a callback within its  *)
(* own, a shutdown within its timeout, and time passes.  No client and no   *)
(* fault is ever obliged to occur.                                          *)

HandlerProgress(h) ==
    \/ \E n \in 0..MaxWorkers : StartExecute(h, n)
    \/ ExecuteSucceeded(h)
    \/ ExecuteFailed(h)

RecoveryProgress ==
    \/ RecoverScan
    \/ \E s \in batch : RecoverExpired(s)
    \/ \E s \in batch, n \in 0..MaxWorkers : RecoverQueued(s, n)
    \/ RecoverySucceeded
    \/ RecoveryFailed

DispatchProgress(a) ==
    \/ NoCandidates(a)
    \/ Refused(a)
    \/ \E s \in Slots : Forward(a, s)
    \/ Reply(a)

WorkerProgress(s) ==
    \/ \E ok \in BOOLEAN : Execute(s, ok)
    \/ Callback(s)
    \/ CallbackRejected(s)
    \/ ReplyDropped(s)

Fairness ==
    /\ \A h \in Handlers : WF_vars(HandlerProgress(h))
    /\ WF_vars(RecoveryProgress)
    /\ \A a \in Actors : WF_vars(DispatchProgress(a))
    /\ \A s \in Slots : WF_vars(WorkerProgress(s))
    /\ WF_vars(Tick)
    /\ WF_vars(Exit)

FairSpec == Spec /\ Fairness

-----------------------------------------------------------------------------
(* The types of the variables. *)
TypeOK ==
    /\ jobs \in [ReqIDs -> JobRecord]
    /\ updated \in [ReqIDs -> Nat]
    /\ actor \in [Actors -> [pc: {"idle", "mark", "select", "wait", "ok", "err", "stopped"},
                             id: ReqIDs \cup {NoID}, fp: Fps \cup {NoFp}, left: Nat,
                             slot: Slots \cup {NoSlot}, resp: Fps \cup {NoFp}]]
    /\ batch \subseteq [id: ReqIDs, fp: Fps, status: {"queued", "dispatching"},
                        attempt: Nat, rank: Nat]
    /\ scanNow \in Nat \ {0}
    /\ tried \in Nat
    /\ run \in [Slots -> [phase: {"free", "running", "report", "reply"},
                          id: ReqIDs \cup {NoID}, fp: Fps \cup {NoFp}, ok: BOOLEAN]]
    /\ late \subseteq [id: ReqIDs, ok: BOOLEAN, fp: Fps]
    /\ clock \in Nat \ {0}
    /\ faults \in Nat
    /\ served \subseteq [id: ReqIDs, asked: Fps, resp: Fps]

(* "The master persists the job before dispatch starts": whatever a worker  *)
(* is executing or reporting has a row that counts the attempt and holds    *)
(* the very request being executed, so no crash or late callback can refer  *)
(* to a job the store does not know.                                        *)
PersistedBeforeDispatch ==
    /\ \A s \in Slots : run[s].phase # "free" =>
            /\ run[s].id \in ReqIDs
            /\ jobs[run[s].id].attempt > 0
            /\ jobs[run[s].id].fp = run[s].fp
    /\ \A m \in late : jobs[m.id].attempt > 0 /\ jobs[m.id].fp = m.fp

(* A stored response, and every response a client has been given, was       *)
(* computed from the request it is stored or returned for: reusing a        *)
(* request_id with other content never mixes two results up.                *)
ResponseMatchesRequest ==
    /\ \A r \in ReqIDs : jobs[r].resp \in {NoFp, jobs[r].fp}
    /\ \A c \in served : c.resp = c.asked

(* A succeeded row holds a response, so the "succeeded without a stored     *)
(* response" branch of beginDurableJob is dead.                             *)
SucceededIsReplayable ==
    \A r \in ReqIDs : jobs[r].status = "succeeded" => jobs[r].resp # NoFp

(* Exactly the dispatching rows carry a lease.  ListRecoverable skips a     *)
(* dispatching row without one, which would leave the job stuck for good.   *)
LeasedIffDispatching ==
    \A r \in ReqIDs : jobs[r].lease > 0 <=> jobs[r].status = "dispatching"

(* Every execution of a job on a worker, the ones nobody waits for any more *)
(* included, belongs to an attempt its row counts: a handler and recovery   *)
(* that dispatch the same row side by side, because recovery saw it between *)
(* Create and MarkDispatching, are two attempts and not one.                *)
RunsCounted ==
    \A r \in ReqIDs :
        Cardinality({s \in Slots : run[s].phase # "free" /\ run[s].id = r})
            <= MaxWorkers * jobs[r].attempt

(* The completion callback is "a second persistence path": as long as       *)
(* nothing goes wrong, a worker that answers /invoke with a result has      *)
(* already had it stored.                                                   *)
StoredBeforeAnswer ==
    \A s \in Slots :
        run[s].phase = "reply" /\ run[s].ok /\ faults = 0 => jobs[run[s].id].resp # NoFp

(* No job is being executed twice at the same time. *)
AtMostOneRun ==
    \A s, t \in Slots :
        run[s].phase = "running" /\ run[t].phase = "running" /\ run[s].id = run[t].id => s = t

(* The attempt counter of a row stays within JOB_MAX_ATTEMPTS. *)
AttemptsBounded == \A r \in ReqIDs : jobs[r].attempt <= MaxAttempts

(* A job whose response was stored stays succeeded: later duplicates are    *)
(* answered from the store.                                                 *)
SucceededIsFinal ==
    [][\A r \in ReqIDs : jobs[r].status = "succeeded" => jobs'[r].status = "succeeded"]_vars

(* As long as nothing goes wrong, a stored success stays. *)
SucceededIsFinalWithoutFaults ==
    [][\A r \in ReqIDs :
        jobs[r].status = "succeeded" /\ faults' = 0 => jobs'[r].status = "succeeded"]_vars

(* Nothing dispatches an ambiguous job again: only the completion of the    *)
(* run it already had may change its status.                                *)
AmbiguousNotReplayed ==
    [][\A r \in ReqIDs :
        jobs[r].status = "ambiguous" =>
            jobs'[r].status \in {"ambiguous", "succeeded", "failed"}]_vars

(* An accepted job does not stay queued or dispatching for ever, whoever    *)
(* owned it when a process died: it ends, or is flagged ambiguous once its  *)
(* lease is over.                                                           *)
JobsSettle ==
    \A r \in ReqIDs :
        jobs[r].status \in {"queued", "dispatching"} ~>
            jobs[r].status \in {"succeeded", "failed", "ambiguous"}

-----------------------------------------------------------------------------
Service == INSTANCE JobService WITH
    content <- [r \in ReqIDs |-> jobs[r].fp],
    tries   <- [r \in ReqIDs |-> jobs[r].attempt],
    result  <- [r \in ReqIDs |-> jobs[r].resp],
    answers <- served

(* The table and everything that writes it keep the promise of JobService:  *)
(* whatever fails, and however many handlers, recoveries and callbacks      *)
(* write the same row, a recorded result is the one of the row's content,   *)
(* it is never lost, and clients only see recorded results.                 *)
ImplementsJobService == Service!Spec
=============================================================================

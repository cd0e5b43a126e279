--------------------------- MODULE AsyncJobsProofs ---------------------------
(***************************************************************************)
(* Proofs about DurableJobs when jobs are only submitted asynchronously    *)
(* (POST /api/v1/jobs), so that recovery is the only process that          *)
(* dispatches: JOB_MAX_ATTEMPTS then really bounds the attempts of a job,  *)
(* ambiguous jobs are not replayed, no job runs twice at a time unless its *)
(* run was given up while it went on, and successes stay.                  *)
(***************************************************************************)
EXTENDS DurableJobsProofs

(* No synchronous execute handler runs. *)
AsyncOnly == Handlers = {}

(* Recovery works from a snapshot.  What makes that safe for the counter   *)
(* is that nobody else dispatches: a queued row of the snapshot still has  *)
(* the attempt that was read, each row is in the snapshot once, and the    *)
(* row being dispatched is no longer in it.                                *)
AttemptInv ==
    /\ AttemptsBounded
    /\ \A r \in ReqIDs : jobs[r].status = "queued" => jobs[r].attempt < MaxAttempts
    /\ \A b \in batch : b.status = "queued" =>
            jobs[b.id].attempt = b.attempt /\ b.attempt < MaxAttempts
    /\ \A b, c \in batch : b.id = c.id => b = c
    /\ actor[Recovery].pc # "idle" =>
            /\ jobs[actor[Recovery].id].attempt = tried + 1
            /\ \A b \in batch : b.id # actor[Recovery].id

(* Every counter is left alone, and a row only becomes queued below the    *)
(* limit.                                                                  *)
CountersFollow ==
    \A q \in ReqIDs :
        /\ jobs'[q].attempt = jobs[q].attempt
        /\ jobs'[q].status = "queued" =>
             jobs[q].status = "queued" \/ jobs'[q].attempt < MaxAttempts

(* Recovery keeps the row it is dispatching, or lets go of it. *)
RecoveryFollows ==
    actor'[Recovery].pc # "idle" =>
        actor[Recovery].pc # "idle" /\ actor'[Recovery].id = actor[Recovery].id

(* Steps other than a scan and the start of a recovery dispatch. *)
LEMMA AttemptFrame ==
    ASSUME Inv, AttemptInv, CountersFollow, RecoveryFollows, batch' \subseteq batch,
           UNCHANGED tried
    PROVE  AttemptInv'
<1>1. \A b \in batch : b.id \in ReqIDs
  BY DEF Inv, Known
<1>2. actor[Recovery].pc # "idle" => actor[Recovery].id \in ReqIDs
  BY ActorNames DEF Inv, ActorOK, Known
<1>3. AttemptsBounded'
  BY DEF AttemptInv, AttemptsBounded, CountersFollow
<1>4. \A r \in ReqIDs : jobs'[r].status = "queued" => jobs'[r].attempt < MaxAttempts
  BY DEF AttemptInv, CountersFollow
<1>5. \A b \in batch' : b.status = "queued" =>
          jobs'[b.id].attempt = b.attempt /\ b.attempt < MaxAttempts
  BY <1>1 DEF AttemptInv, CountersFollow
<1>6. \A b, c \in batch' : b.id = c.id => b = c
  BY DEF AttemptInv
<1>7. actor'[Recovery].pc # "idle" =>
          /\ jobs'[actor'[Recovery].id].attempt = tried' + 1
          /\ \A b \in batch' : b.id # actor'[Recovery].id
  BY <1>2 DEF AttemptInv, CountersFollow, RecoveryFollows
<1>8. QED
  BY <1>3, <1>4, <1>5, <1>6, <1>7 DEF AttemptInv

(* The table is left alone. *)
LEMMA CountersUnchanged ==
    ASSUME UNCHANGED jobs
    PROVE  CountersFollow
BY DEF CountersFollow

(* An UPDATE touches one row. *)
LEMMA OtherRows ==
    ASSUME StoreInv, NEW r \in ReqIDs,
           \/ MarkQueued(r)
           \/ MarkFailed(r)
           \/ MarkAmbiguous(r)
           \/ \E until \in Nat : MarkDispatching(r, until)
           \/ \E response \in Fps : MarkSucceeded(r, response)
    PROVE  \A q \in ReqIDs \ {r} : jobs'[q] = jobs[q]
BY DEF StoreInv, MarkQueued, MarkFailed, MarkAmbiguous, MarkDispatching, MarkSucceeded

(* A terminal mark leaves the counters alone. *)
LEMMA TerminalMark ==
    ASSUME StoreInv, NEW r \in ReqIDs, Exists(r),
           \/ MarkFailed(r)
           \/ MarkAmbiguous(r)
           \/ \E response \in Fps : response = jobs[r].fp /\ MarkSucceeded(r, response)
    PROVE  CountersFollow
<1>1. \A q \in ReqIDs \ {r} : jobs'[q] = jobs[q]
  BY OtherRows
<1>2. jobs'[r].attempt = jobs[r].attempt /\ jobs'[r].status # "queued"
  BY MarkFailedStep, MarkAmbiguousStep, MarkSucceededStep
<1>3. QED
  BY <1>1, <1>2 DEF CountersFollow

(* handleJobCompletion leaves the counters alone. *)
LEMMA CompletionCounts ==
    ASSUME StoreInv, NEW r, NEW f, Known(jobs, r, f), NEW ok, Complete(r, ok, f)
    PROVE  CountersFollow
<1>1. r \in ReqIDs /\ f \in Fps /\ Exists(r) /\ jobs[r].fp = f
  BY KnownExists
<1>2. MarkSucceeded(r, f) \/ MarkFailed(r)
  BY DEF Complete
<1>3. QED
  BY <1>1, <1>2, TerminalMark

(* markRecoveryError queues the row again only below the limit. *)
LEMMA RecoveryErrorCounts ==
    ASSUME Inv, AttemptInv, actor[Recovery].pc # "idle",
           MarkRecoveryError(actor[Recovery].id)
    PROVE  CountersFollow
<1> DEFINE r == actor[Recovery].id
<1>1. Known(jobs, r, actor[Recovery].fp) /\ StoreInv
  BY ActorNames DEF Inv, ActorOK
<1>2. r \in ReqIDs /\ Exists(r)
  BY <1>1, KnownExists
<1>3. jobs[r].attempt = tried + 1 /\ tried \in Nat
  BY DEF AttemptInv, Inv, ScalarsOK
<1>4. CASE tried + 1 >= MaxAttempts
  BY <1>1, <1>2, <1>4, TerminalMark DEF MarkRecoveryError
<1>5. CASE ~(tried + 1 >= MaxAttempts)
  <2>1. MarkQueued(r)
    BY <1>5 DEF MarkRecoveryError
  <2>2. \A q \in ReqIDs \ {r} : jobs'[q] = jobs[q]
    BY <1>1, <1>2, <2>1, OtherRows
  <2>3. jobs'[r].attempt = jobs[r].attempt
    BY <1>1, <1>2, <2>1, MarkQueuedStep
  <2>4. tried + 1 < MaxAttempts
    BY <1>3, <1>5, JobStoreAssumption
  <2>5. QED
    BY <1>3, <2>2, <2>3, <2>4 DEF CountersFollow
<1>6. QED
  BY <1>4, <1>5

-----------------------------------------------------------------------------
(* A new row has made no attempt. *)
LEMMA SubmitAttempt ==
    ASSUME Inv, AttemptInv, NEW r \in ReqIDs, NEW f \in Fps, CreateJob(r, f) \/ ReadJob(r, f)
    PROVE  AttemptInv'
<1>1. CountersFollow
  <2>1. CASE CreateJob(r, f)
    <3>1. jobs[r].attempt = 0 /\ jobs'[r].attempt = 0
      BY <2>1, CreateStep DEF CreateJob, Create, Exists, Inv, StoreInv, RowOK
    <3>2. \A q \in ReqIDs \ {r} : jobs'[q] = jobs[q]
      BY <2>1 DEF CreateJob, Create, Inv, StoreInv
    <3>3. QED
      BY <3>1, <3>2, JobStoreAssumption DEF CountersFollow
  <2>2. CASE ReadJob(r, f)
    BY <2>2, CountersUnchanged DEF ReadJob
  <2>3. QED
    BY <2>1, <2>2
<1>2. QED
  BY <1>1, AttemptFrame DEF CreateJob, ReadJob, RecoveryFollows

(* A scan copies the counters it finds, one copy per row. *)
LEMMA ScanAttempt ==
    ASSUME Inv, AttemptInv, RecoverScan
    PROVE  AttemptInv'
<1>1. /\ batch' = {Snapshot(r) : r \in ListRecoverable(clock, BatchSize)}
      /\ actor'[Recovery].pc = "idle"
      /\ UNCHANGED jobs
  BY DEF RecoverScan
<1>2. ListRecoverable(clock, BatchSize) \subseteq ReqIDs
  BY DEF ListRecoverable, Recoverable
<1>3. \A b \in batch' : \E r \in ReqIDs : b = Snapshot(r)
  BY <1>1, <1>2
<1>4. ASSUME NEW b \in batch', b.status = "queued"
      PROVE  jobs'[b.id].attempt = b.attempt /\ b.attempt < MaxAttempts
  <2>1. PICK r \in ReqIDs : b = Snapshot(r)
    BY <1>3
  <2>2. b.id = r /\ b.attempt = jobs[r].attempt /\ jobs[r].status = "queued"
    BY <1>4, <2>1 DEF Snapshot
  <2>3. QED
    BY <1>1, <2>2 DEF AttemptInv
<1>5. \A b, c \in batch' : b.id = c.id => b = c
  BY <1>3 DEF Snapshot
<1>6. AttemptsBounded'
  BY <1>1 DEF AttemptInv, AttemptsBounded
<1>7. QED
  BY <1>1, <1>4, <1>5, <1>6 DEF AttemptInv

(* Recovery starts a dispatch: one more attempt, below the limit. *)
LEMMA StartAttempt ==
    ASSUME Inv, AttemptInv, NEW s \in batch, NEW n \in Nat, RecoverQueued(s, n)
    PROVE  AttemptInv'
<1>1. Known(jobs, s.id, s.fp) /\ s \in BatchType /\ StoreInv
  BY DEF Inv
<1>2. s.id \in ReqIDs /\ Exists(s.id) /\ s.attempt \in Nat
  BY <1>1, KnownExists DEF BatchType
<1>3. scanNow + LeaseTTL \in Nat \ {0}
  BY DurableJobsAssumption DEF Inv, ScalarsOK
<1>4. jobs'[s.id].attempt = jobs[s.id].attempt + 1 /\ StoreInv'
  BY <1>1, <1>2, <1>3, MarkDispatchingStep DEF RecoverQueued
<1>5. \A q \in ReqIDs \ {s.id} : jobs'[q] = jobs[q]
  BY <1>1, <1>2, <1>3, OtherRows DEF RecoverQueued
<1>6. jobs'[s.id].status = "dispatching"
  BY <1>1, <1>2 DEF RecoverQueued, MarkDispatching, StoreInv, JobRecord
<1>7. jobs[s.id].attempt = s.attempt /\ s.attempt < MaxAttempts
  BY DEF AttemptInv, RecoverQueued
<1>8. /\ tried' = s.attempt
      /\ batch' = batch \ {s}
      /\ actor'[Recovery].id = s.id
  BY ActorNames DEF RecoverQueued, EnterDispatch, Inv
<1>9. AttemptsBounded'
  <2>1. jobs'[s.id].attempt <= MaxAttempts
    BY <1>2, <1>4, <1>7, JobStoreAssumption
  <2>2. QED
    BY <1>5, <2>1 DEF AttemptInv, AttemptsBounded
<1>10. \A r \in ReqIDs : jobs'[r].status = "queued" => jobs'[r].attempt < MaxAttempts
  BY <1>5, <1>6 DEF AttemptInv
<1>11. \A b \in batch' : b.id \in ReqIDs \ {s.id}
  BY <1>8 DEF AttemptInv, Inv, Known
<1>12. \A b \in batch' : b.status = "queued" =>
          jobs'[b.id].attempt = b.attempt /\ b.attempt < MaxAttempts
  BY <1>5, <1>8, <1>11 DEF AttemptInv
<1>13. \A b, c \in batch' : b.id = c.id => b = c
  BY <1>8 DEF AttemptInv
<1>14. QED
  BY <1>4, <1>7, <1>8, <1>9, <1>10, <1>11, <1>12, <1>13 DEF AttemptInv

(* The rest of recovery. *)
LEMMA RecoveryAttempt ==
    ASSUME Inv, AttemptInv,
           \/ \E s \in batch : RecoverExpired(s) \/ RecoverFails(s)
           \/ RecoverySucceeded
           \/ RecoveryFailed
    PROVE  AttemptInv'
<1>1. CASE \E s \in batch : RecoverExpired(s) \/ RecoverFails(s)
  <2>1. PICK s \in batch : RecoverExpired(s) \/ RecoverFails(s)
    BY <1>1
  <2>2. Known(jobs, s.id, s.fp) /\ StoreInv
    BY DEF Inv
  <2>3. CountersFollow
    <3>1. CASE RecoverExpired(s)
      BY <2>2, <3>1, KnownExists, TerminalMark DEF RecoverExpired
    <3>2. CASE RecoverFails(s)
      BY <3>2, CountersUnchanged DEF RecoverFails
    <3>3. QED
      BY <2>1, <3>1, <3>2
  <2>4. batch' \subseteq batch /\ UNCHANGED tried /\ UNCHANGED actor
    BY <2>1 DEF RecoverExpired, RecoverFails
  <2>5. QED
    BY <2>3, <2>4, AttemptFrame DEF RecoveryFollows
<1>2. CASE RecoverySucceeded \/ RecoveryFailed
  <2>1. /\ actor'[Recovery].pc = "idle"
        /\ actor[Recovery].pc # "idle"
        /\ UNCHANGED <<batch, tried>>
    BY <1>2, ActorNames DEF RecoverySucceeded, RecoveryFailed, Inv, ActorIdle
  <2>2. ActorOK(actor[Recovery], jobs, run) /\ StoreInv
    BY ActorNames DEF Inv
  <2>3. Known(jobs, actor[Recovery].id, actor[Recovery].fp)
    BY <2>1, <2>2 DEF ActorOK
  <2>4. CountersFollow
    <3>1. CASE RecoverySucceeded
      <4>1. actor[Recovery].resp = actor[Recovery].fp
        BY <2>2, <3>1 DEF RecoverySucceeded, ActorOK
      <4>2. QED
        BY <2>2, <2>3, <3>1, <4>1, KnownExists, TerminalMark DEF RecoverySucceeded
    <3>2. CASE RecoveryFailed
      BY <2>1, <3>2, RecoveryErrorCounts DEF RecoveryFailed
    <3>3. QED
      BY <1>2, <3>1, <3>2
  <2>5. QED
    BY <2>1, <2>4, AttemptFrame DEF RecoveryFollows
<1>3. QED
  BY <1>1, <1>2

(* The dispatcher does not touch the table and keeps the caller's request. *)
LEMMA DispatchAttempt ==
    ASSUME Inv, AttemptInv, DispatchStep(Recovery)
    PROVE  AttemptInv'
<1>1. UNCHANGED <<jobs, batch, tried>>
  BY DEF DispatchStep, NoCandidates, Rejected, Refused, Forward, Reply, ReplyGarbled, TransportError,
         FinalMarkFails
<1>2. actor[Recovery].pc # "idle"
  BY DEF DispatchStep, NoCandidates, Rejected, Refused, Forward, Reply, ReplyGarbled, TransportError,
         FinalMarkFails, Answered
<1>3. actor'[Recovery].pc = "idle" \/ actor'[Recovery].id = actor[Recovery].id
  <2>1. actor[Recovery] \in ActorType
    BY ActorNames DEF Inv
  <2>2. CASE FinalMarkFails(Recovery)
    BY <2>2, ActorNames DEF FinalMarkFails, ActorIdle, Inv
  <2>3. CASE Refused(Recovery) \/ TransportError(Recovery)
    BY <2>1, <2>3, ActorNames DEF Refused, TransportError, NextCandidate, Inv, ActorType
  <2>4. CASE \/ NoCandidates(Recovery) \/ Rejected(Recovery)
             \/ ReplyGarbled(Recovery) \/ Reply(Recovery)
    BY <2>1, <2>4, ActorNames DEF NoCandidates, Rejected, ReplyGarbled, Reply, Inv, ActorType
  <2>5. CASE \E s \in Slots : Forward(Recovery, s)
    BY <2>1, <2>5, ActorNames DEF Forward, Inv, ActorType
  <2>6. QED
    BY <2>2, <2>3, <2>4, <2>5 DEF DispatchStep
<1>4. QED
  BY <1>1, <1>2, <1>3, CountersUnchanged, AttemptFrame DEF RecoveryFollows

(* Workers report results; they never count. *)
LEMMA WorkerAttempt ==
    ASSUME Inv, AttemptInv,
           \/ \E s \in Slots : WorkerStep(s)
           \/ \E m \in late : LateCallback(m)
    PROVE  AttemptInv'
<1>1. UNCHANGED <<batch, tried>>
  BY DEF WorkerStep, Execute, Callback, CallbackRepeated, CallbackRejected, CallbackLost, CallbackDelayed,
         ReplyDropped, WorkerCrash, LateCallback
<1>2. CountersFollow
  <2>1. CASE \E m \in late : LateCallback(m)
    <3>1. PICK m \in late : LateCallback(m)
      BY <2>1
    <3>2. Known(jobs, m.id, m.fp) /\ StoreInv
      BY DEF Inv, Dispatched
    <3>3. QED
      BY <3>1, <3>2, CompletionCounts DEF LateCallback
  <2>2. ASSUME NEW s \in Slots, Callback(s) \/ CallbackRepeated(s)
        PROVE  CountersFollow
    <3>1. Known(jobs, run[s].id, run[s].fp) /\ StoreInv
      BY <2>2 DEF Callback, CallbackRepeated, Inv, RunOK, Dispatched
    <3>2. QED
      BY <2>2, <3>1, CompletionCounts DEF Callback, CallbackRepeated
  <2>3. CASE UNCHANGED jobs
    BY <2>3, CountersUnchanged
  <2>4. QED
    BY <2>1, <2>2, <2>3
    DEF WorkerStep, Execute, CallbackRejected, CallbackLost, CallbackDelayed, ReplyDropped, WorkerCrash
<1>3. RecoveryFollows
  <2>1. CASE UNCHANGED actor
    BY <2>1 DEF RecoveryFollows
  <2>2. ASSUME NEW s \in Slots, WorkerCrash(s)
        PROVE  RecoveryFollows
    <3>1. actor[Recovery] \in ActorType
      BY ActorNames DEF Inv
    <3>2. CASE Recovery \in Waiter(s)
      <4>1. actor'[Recovery] = NextCandidate(Recovery)[Recovery] /\ actor[Recovery].pc = "wait"
        BY <2>2, <3>2, ActorNames DEF WorkerCrash, Waiter
      <4>2. NextCandidate(Recovery)[Recovery].id = actor[Recovery].id
        BY <3>1, ActorNames DEF NextCandidate, Inv, ActorType
      <4>3. QED
        BY <4>1, <4>2 DEF RecoveryFollows
    <3>3. CASE Recovery \notin Waiter(s)
      BY <2>2, <3>3, ActorNames DEF WorkerCrash, RecoveryFollows
    <3>4. QED
      BY <3>2, <3>3
  <2>3. QED
    BY <2>1, <2>2
    DEF WorkerStep, Execute, Callback, CallbackRepeated, CallbackRejected, CallbackLost, CallbackDelayed,
        ReplyDropped, LateCallback
<1>4. QED
  BY <1>1, <1>2, <1>3, AttemptFrame

(* A master that ends forgets its snapshot. *)
LEMMA ProcessAttempt ==
    ASSUME Inv, AttemptInv, Tick \/ Crash \/ GracefulStop \/ Exit \/ UNCHANGED vars
    PROVE  AttemptInv'
<1>1. CountersFollow
  <2>1. CASE GracefulStop
    BY <2>1, RecoveryErrorCounts DEF GracefulStop
  <2>2. CASE Tick \/ Crash \/ Exit \/ UNCHANGED vars
    BY <2>2, CountersUnchanged DEF Tick, Crash, Exit, vars
  <2>3. QED
    BY <2>1, <2>2
<1>2. RecoveryFollows
  <2>1. CASE GracefulStop
    <3>1. actor[Recovery] \in ActorType
      BY ActorNames DEF Inv
    <3>2. actor'[Recovery] = [actor[Recovery] EXCEPT !.pc = "stopped", !.slot = NoSlot]
      BY <2>1, ActorNames DEF GracefulStop, Inv
    <3>3. actor'[Recovery].id = actor[Recovery].id
      BY <3>1, <3>2 DEF ActorType
    <3>4. actor[Recovery].pc # "idle"
      BY <2>1 DEF GracefulStop
    <3>5. QED
      BY <3>3, <3>4 DEF RecoveryFollows
  <2>2. CASE Tick \/ Crash \/ Exit \/ UNCHANGED vars
    BY <2>2, ActorNames, IdleOK DEF Tick, Crash, Exit, vars, RecoveryFollows
  <2>3. QED
    BY <2>1, <2>2
<1>3. batch' \subseteq batch /\ UNCHANGED tried
  BY DEF Tick, Crash, GracefulStop, Exit, vars
<1>4. QED
  BY <1>1, <1>2, <1>3, AttemptFrame

-----------------------------------------------------------------------------
(* The invariant about counters holds in every state. *)
THEOREM AttemptInvHolds ==
    ASSUME AsyncOnly
    PROVE  Spec => []AttemptInv
<1>1. Init => AttemptInv
  <2> SUFFICES ASSUME Init PROVE AttemptInv
    OBVIOUS
  <2>1. \A r \in ReqIDs : jobs[r].status = "none" /\ jobs[r].attempt = 0
    BY DEF Init, StoreInit, NoJob
  <2>2. batch = {} /\ actor[Recovery].pc = "idle"
    BY ActorNames DEF Init, ActorIdle
  <2>3. QED
    BY <2>1, <2>2, JobStoreAssumption DEF AttemptInv, AttemptsBounded
<1>2. Inv /\ AttemptInv /\ [Next]_vars => AttemptInv'
  <2> SUFFICES ASSUME Inv, AttemptInv, [Next]_vars PROVE AttemptInv'
    OBVIOUS
  <2>1. ASSUME NEW r \in ReqIDs, NEW f \in Fps, CreateJob(r, f) \/ ReadJob(r, f)
        PROVE  AttemptInv'
    BY <2>1, SubmitAttempt
  <2>2. CASE RecoveryStep
    <3>1. \A n \in 0..MaxWorkers : n \in Nat
      BY DurableJobsAssumption
    <3>2. QED
      BY <2>2, <3>1, ScanAttempt, StartAttempt, RecoveryAttempt DEF RecoveryStep
  <2>3. ASSUME NEW a \in Actors, DispatchStep(a)
        PROVE  AttemptInv'
    <3>1. a = Recovery
      BY <2>3 DEF Actors, AsyncOnly
    <3>2. QED
      BY <2>3, <3>1, DispatchAttempt
  <2>4. CASE \/ \E s \in Slots : WorkerStep(s)
             \/ \E m \in late : LateCallback(m)
    BY <2>4, WorkerAttempt
  <2>5. CASE Tick \/ Crash \/ GracefulStop \/ Exit \/ UNCHANGED vars
    BY <2>5, ProcessAttempt
  <2>6. QED
    BY <2>1, <2>2, <2>3, <2>4, <2>5 DEF Next, AsyncOnly
<1>3. QED
  BY <1>1, <1>2, InvHolds, PTL DEF Spec

(* JOB_MAX_ATTEMPTS bounds the attempts of every asynchronous job, across  *)
(* crashes, restarts and lost messages.                                    *)
THEOREM AttemptsHold ==
    ASSUME AsyncOnly
    PROVE  Spec => []AttemptsBounded
<1>1. AttemptInv => AttemptsBounded
  BY DEF AttemptInv
<1>2. QED
  BY <1>1, AttemptInvHolds, PTL

-----------------------------------------------------------------------------
(* Ambiguous jobs *)

Rec == actor[Recovery]

(* What each UPDATE does to the statuses. *)
StatusBecomes(r, status) ==
    \A q \in ReqIDs : jobs'[q].status = IF q = r THEN status ELSE jobs[q].status

LEMMA MarkStatus ==
    ASSUME StoreInv, NEW r \in ReqIDs
    PROVE  /\ MarkQueued(r) => StatusBecomes(r, "queued")
           /\ MarkFailed(r) => StatusBecomes(r, "failed")
           /\ MarkAmbiguous(r) => StatusBecomes(r, "ambiguous")
           /\ \A until : MarkDispatching(r, until) => StatusBecomes(r, "dispatching")
           /\ \A response : MarkSucceeded(r, response) => StatusBecomes(r, "succeeded")
           /\ \A f : Create(r, f) => StatusBecomes(r, "queued")
<1>1. jobs \in [ReqIDs -> JobRecord]
  BY DEF StoreInv
<1>2. MarkQueued(r) => StatusBecomes(r, "queued")
  BY <1>1 DEF MarkQueued, StatusBecomes, JobRecord
<1>3. MarkFailed(r) => StatusBecomes(r, "failed")
  BY <1>1 DEF MarkFailed, StatusBecomes, JobRecord
<1>4. MarkAmbiguous(r) => StatusBecomes(r, "ambiguous")
  BY <1>1 DEF MarkAmbiguous, StatusBecomes, JobRecord
<1>5. ASSUME NEW until, MarkDispatching(r, until)
      PROVE  StatusBecomes(r, "dispatching")
  BY <1>1, <1>5 DEF MarkDispatching, StatusBecomes, JobRecord
<1>6. ASSUME NEW response, MarkSucceeded(r, response)
      PROVE  StatusBecomes(r, "succeeded")
  BY <1>1, <1>6 DEF MarkSucceeded, StatusBecomes, JobRecord
<1>7. ASSUME NEW f, Create(r, f)
      PROVE  StatusBecomes(r, "queued")
  BY <1>1, <1>7 DEF Create, NewJobRecord, StatusBecomes, JobRecord
<1>8. QED
  BY <1>2, <1>3, <1>4, <1>5, <1>6, <1>7

(* Whatever recovery may still write "dispatching" or "queued" to is not   *)
(* ambiguous: the row it is dispatching, and the rows that its snapshot    *)
(* shows as queued, however long ago it was taken.                         *)
Guarded ==
    /\ Rec.pc \notin {"idle", "stopped"} =>
            jobs[Rec.id].status \in {"dispatching", "succeeded", "failed"}
    /\ \A b \in batch : b.status = "queued" =>
            jobs[b.id].status \in {"queued", "succeeded", "failed"}

AmbiguousKept ==
    \A r \in ReqIDs :
        jobs[r].status = "ambiguous" => jobs'[r].status \in {"ambiguous", "succeeded", "failed"}

(* What recovery, its snapshot and the workers name exists. *)
LEMMA NamesExist ==
    ASSUME Inv
    PROVE  /\ Rec.pc # "idle" => Rec.id \in ReqIDs /\ Exists(Rec.id)
           /\ \A b \in batch : b.id \in ReqIDs /\ Exists(b.id)
           /\ \A s \in Slots : run[s].phase # "free" => run[s].id \in ReqIDs /\ Exists(run[s].id)
           /\ \A m \in late : m.id \in ReqIDs /\ Exists(m.id)
BY ActorNames DEF Inv, ActorOK, RunOK, Dispatched, Known, Exists, Rec

(* Steps that only settle rows. *)
LEMMA GuardFrame ==
    ASSUME Inv, Guarded,
           \A q \in ReqIDs : jobs'[q].status \in {jobs[q].status, "succeeded", "failed"},
           Rec'.pc \notin {"idle", "stopped"} =>
               Rec.pc \notin {"idle", "stopped"} /\ Rec'.id = Rec.id,
           batch' \subseteq batch
    PROVE  Guarded' /\ AmbiguousKept
<1>1. AmbiguousKept
  BY DEF AmbiguousKept
<1>2. \A b \in batch' : b.status = "queued" => jobs'[b.id].status \in {"queued", "succeeded", "failed"}
  BY NamesExist DEF Guarded
<1>3. Rec'.pc \notin {"idle", "stopped"} =>
          jobs'[Rec'.id].status \in {"dispatching", "succeeded", "failed"}
  BY NamesExist DEF Guarded
<1>4. QED
  BY <1>1, <1>2, <1>3 DEF Guarded

(* handleJobCompletion settles the row. *)
LEMMA CompletionSettles ==
    ASSUME StoreInv, NEW r \in ReqIDs, NEW ok, NEW f, Complete(r, ok, f)
    PROVE  /\ StatusBecomes(r, IF ok THEN "succeeded" ELSE "failed")
           /\ \A q \in ReqIDs : jobs'[q].status \in {jobs[q].status, "succeeded", "failed"}
<1>1. CASE ok
  BY <1>1, MarkStatus DEF Complete, StatusBecomes
<1>2. CASE ~ok
  BY <1>2, MarkStatus DEF Complete, StatusBecomes
<1>3. QED
  BY <1>1, <1>2

(* A new row is nobody's yet. *)
LEMMA SubmitGuard ==
    ASSUME Inv, Guarded, NEW r \in ReqIDs, NEW f \in Fps, CreateJob(r, f) \/ ReadJob(r, f)
    PROVE  Guarded' /\ AmbiguousKept
<1>1. CASE CreateJob(r, f)
  <2>1. StatusBecomes(r, "queued") /\ ~Exists(r) /\ UNCHANGED <<actor, batch>>
    BY <1>1, MarkStatus DEF CreateJob, Create, Inv
  <2>2. QED
    BY <2>1, NamesExist DEF Guarded, AmbiguousKept, StatusBecomes, Exists, Rec
<1>2. CASE ReadJob(r, f)
  BY <1>2, GuardFrame DEF ReadJob, Rec
<1>3. QED
  BY <1>1, <1>2

(* Recovery scans, or flags a job whose lease is over. *)
LEMMA ScanGuard ==
    ASSUME Inv, AttemptInv, Guarded,
           RecoverScan \/ \E s \in batch : RecoverExpired(s) \/ RecoverFails(s)
    PROVE  Guarded' /\ AmbiguousKept
<1>1. CASE RecoverScan
  <2>1. /\ batch' = {Snapshot(r) : r \in ListRecoverable(clock, BatchSize)}
        /\ UNCHANGED <<jobs, actor>> /\ Rec.pc = "idle"
    BY <1>1 DEF RecoverScan, Rec
  <2>2. ListRecoverable(clock, BatchSize) \subseteq ReqIDs
    BY DEF ListRecoverable, Recoverable
  <2>3. \A b \in batch' : b.status = jobs[b.id].status
    BY <2>1, <2>2 DEF Snapshot
  <2>4. QED
    BY <2>1, <2>3 DEF Guarded, AmbiguousKept, Rec
<1>2. ASSUME NEW s \in batch, RecoverExpired(s)
      PROVE  Guarded' /\ AmbiguousKept
  <2>1. /\ StatusBecomes(s.id, "ambiguous") /\ Rec.pc = "idle" /\ UNCHANGED actor
        /\ batch' = batch \ {s}
    BY <1>2, MarkStatus, NamesExist DEF RecoverExpired, Inv, Rec
  <2>2. \A b \in batch' : b \in batch /\ b.id # s.id
    BY <2>1 DEF AttemptInv
  <2>3. \A b \in batch' : b.status = "queued" => jobs'[b.id].status \in {"queued", "succeeded", "failed"}
    BY <2>1, <2>2, NamesExist DEF Guarded, StatusBecomes
  <2>4. QED
    BY <2>1, <2>3 DEF Guarded, AmbiguousKept, StatusBecomes, Rec
<1>3. ASSUME NEW s \in batch, RecoverFails(s)
      PROVE  Guarded' /\ AmbiguousKept
  BY <1>3, GuardFrame DEF RecoverFails, Rec
<1>4. QED
  BY <1>1, <1>2, <1>3

(* Recovery starts a dispatch, of a row that is not ambiguous. *)
LEMMA StartGuard ==
    ASSUME Inv, AttemptInv, Guarded, NEW s \in batch, NEW n \in Nat, RecoverQueued(s, n)
    PROVE  Guarded' /\ AmbiguousKept
<1>1. /\ StatusBecomes(s.id, "dispatching") /\ s.status = "queued"
      /\ batch' = batch \ {s} /\ Rec'.id = s.id /\ s.id \in ReqIDs
  BY MarkStatus, NamesExist, ActorNames DEF RecoverQueued, EnterDispatch, Inv, Rec
<1>2. jobs[s.id].status # "ambiguous"
  BY <1>1 DEF Guarded
<1>3. \A b \in batch' : b \in batch /\ b.id # s.id
  BY <1>1 DEF AttemptInv
<1>4. \A b \in batch' : b.status = "queued" => jobs'[b.id].status \in {"queued", "succeeded", "failed"}
  BY <1>1, <1>3, NamesExist DEF Guarded, StatusBecomes
<1>5. jobs'[Rec'.id].status = "dispatching"
  BY <1>1 DEF StatusBecomes
<1>6. QED
  BY <1>1, <1>2, <1>4, <1>5 DEF Guarded, AmbiguousKept, StatusBecomes

(* markRecoveryError writes to the row of the dispatch, and to no other    *)
(* that the snapshot still shows.                                          *)
LEMMA ErrorGuard ==
    ASSUME Inv, AttemptInv, Guarded, RecoveryFailed \/ GracefulStop
    PROVE  Guarded' /\ AmbiguousKept
<1> DEFINE r == Rec.id
<1>1. /\ Rec.pc \notin {"idle", "stopped"} /\ Rec'.pc \in {"idle", "stopped"}
      /\ MarkRecoveryError(r) /\ batch' \subseteq batch
  BY ActorNames DEF RecoveryFailed, GracefulStop, Inv, ActorIdle, Rec, ActorType
<1>2. r \in ReqIDs /\ jobs[r].status # "ambiguous"
  BY <1>1, NamesExist DEF Guarded
<1>3. StatusBecomes(r, "failed") \/ StatusBecomes(r, "queued")
  BY <1>1, <1>2, MarkStatus DEF MarkRecoveryError, Inv
<1>4. \A b \in batch' : b \in batch /\ b.id # r
  BY <1>1 DEF AttemptInv, Rec
<1>5. \A b \in batch' : b.status = "queued" => jobs'[b.id].status \in {"queued", "succeeded", "failed"}
  BY <1>3, <1>4, NamesExist DEF Guarded, StatusBecomes
<1>6. QED
  BY <1>1, <1>2, <1>3, <1>5 DEF Guarded, AmbiguousKept, StatusBecomes

(* How a dispatch by recovery moves on. *)
LEMMA RecMoves ==
    ASSUME Inv
    PROVE  /\ NoCandidates(Recovery) \/ Rejected(Recovery) =>
                Rec.pc = "select" /\ Rec'.pc = "err" /\ Rec'.id = Rec.id
           /\ Refused(Recovery) => Rec.pc = "select" /\ Rec'.pc = "select" /\ Rec'.id = Rec.id
           /\ TransportError(Recovery) => Rec.pc = "wait" /\ Rec'.pc = "select" /\ Rec'.id = Rec.id
           /\ ReplyGarbled(Recovery) => Rec.pc = "wait" /\ Rec'.pc = "err" /\ Rec'.id = Rec.id
           /\ Reply(Recovery) =>
                /\ Rec.pc = "wait" /\ Rec'.id = Rec.id
                /\ Rec'.pc = IF run[Rec.slot].ok THEN "ok" ELSE "err"
           /\ \A s \in Slots : Forward(Recovery, s) =>
                Rec.pc = "select" /\ Rec'.pc = "wait" /\ Rec'.id = Rec.id /\ Rec'.slot = s
           /\ FinalMarkFails(Recovery) => Rec.pc \in {"ok", "err"} /\ Rec'.pc = "idle"
<1>1. actor \in [Actors -> ActorType] /\ Recovery \in Actors
  BY ActorNames DEF Inv
<1>2. NoCandidates(Recovery) \/ Rejected(Recovery) =>
          Rec.pc = "select" /\ Rec'.pc = "err" /\ Rec'.id = Rec.id
  BY <1>1 DEF NoCandidates, Rejected, Rec, ActorType
<1>3. Refused(Recovery) => Rec.pc = "select" /\ Rec'.pc = "select" /\ Rec'.id = Rec.id
  BY <1>1 DEF Refused, NextCandidate, Rec, ActorType
<1>4. TransportError(Recovery) => Rec.pc = "wait" /\ Rec'.pc = "select" /\ Rec'.id = Rec.id
  BY <1>1 DEF TransportError, NextCandidate, Rec, ActorType
<1>5. ReplyGarbled(Recovery) => Rec.pc = "wait" /\ Rec'.pc = "err" /\ Rec'.id = Rec.id
  BY <1>1 DEF ReplyGarbled, Answered, Rec, ActorType
<1>6. Reply(Recovery) =>
        /\ Rec.pc = "wait" /\ Rec'.id = Rec.id
        /\ Rec'.pc = IF run[Rec.slot].ok THEN "ok" ELSE "err"
  BY <1>1 DEF Reply, Answered, Rec, ActorType
<1>7. \A s \in Slots : Forward(Recovery, s) =>
        Rec.pc = "select" /\ Rec'.pc = "wait" /\ Rec'.id = Rec.id /\ Rec'.slot = s
  BY <1>1 DEF Forward, Rec, ActorType
<1>8. FinalMarkFails(Recovery) => Rec.pc \in {"ok", "err"} /\ Rec'.pc = "idle"
  BY <1>1 DEF FinalMarkFails, ActorIdle, Rec, ActorType
<1>9. QED
  BY <1>2, <1>3, <1>4, <1>5, <1>6, <1>7, <1>8

(* A worker that dies sends recovery to the next candidate. *)
LEMMA CrashMoves ==
    ASSUME Inv, NEW s \in Slots, WorkerCrash(s)
    PROVE  \/ Rec' = Rec /\ ~(Rec.pc = "wait" /\ Rec.slot = s)
           \/ Rec.pc = "wait" /\ Rec.slot = s /\ Rec'.pc = "select" /\ Rec'.id = Rec.id
<1>1. actor \in [Actors -> ActorType] /\ Recovery \in Actors
  BY ActorNames DEF Inv
<1>2. CASE Recovery \in Waiter(s)
  BY <1>1, <1>2 DEF WorkerCrash, Waiter, NextCandidate, Rec, ActorType
<1>3. CASE Recovery \notin Waiter(s)
  BY <1>1, <1>3 DEF WorkerCrash, Waiter, Rec
<1>4. QED
  BY <1>2, <1>3

(* The rest of the steps settle rows or leave them alone. *)
LEMMA OtherGuard ==
    ASSUME Inv, Guarded,
           \/ RecoverySucceeded
           \/ DispatchStep(Recovery)
           \/ \E s \in Slots : WorkerStep(s)
           \/ \E m \in late : LateCallback(m)
           \/ Tick \/ Crash \/ Exit \/ UNCHANGED vars
    PROVE  Guarded' /\ AmbiguousKept
<1>1. batch' \subseteq batch
  BY DEF RecoverySucceeded, DispatchStep, NoCandidates, Rejected, Refused, Forward, Reply, ReplyGarbled,
         TransportError, FinalMarkFails, WorkerStep, Execute, Callback, CallbackRepeated, CallbackRejected,
         CallbackLost, CallbackDelayed, ReplyDropped, WorkerCrash, LateCallback, Tick, Crash, Exit, vars
<1>2. Rec'.pc \notin {"idle", "stopped"} => Rec.pc \notin {"idle", "stopped"} /\ Rec'.id = Rec.id
  <2>1. CASE DispatchStep(Recovery)
    BY <2>1, RecMoves DEF DispatchStep
  <2>2. ASSUME NEW s \in Slots, WorkerStep(s)
        PROVE  Rec' = Rec \/ (Rec.pc = "wait" /\ Rec'.id = Rec.id)
    <3>1. CASE WorkerCrash(s)
      BY <3>1, CrashMoves
    <3>2. CASE ~WorkerCrash(s)
      BY <2>2, <3>2 DEF WorkerStep, Execute, Callback, CallbackRepeated, CallbackRejected,
         CallbackLost, CallbackDelayed, ReplyDropped, Rec
    <3>3. QED
      BY <3>1, <3>2
  <2>3. CASE RecoverySucceeded \/ Crash \/ Exit
    BY <2>3, ActorNames DEF RecoverySucceeded, Crash, Exit, ActorIdle, Rec, Inv
  <2>4. CASE (\E m \in late : LateCallback(m)) \/ Tick \/ UNCHANGED vars
    BY <2>4 DEF LateCallback, Tick, vars, Rec
  <2>5. QED
    BY <2>1, <2>2, <2>3, <2>4
<1>3. \A q \in ReqIDs : jobs'[q].status \in {jobs[q].status, "succeeded", "failed"}
  <2>1. CASE UNCHANGED jobs
    BY <2>1
  <2>2. CASE RecoverySucceeded
    <3>1. Rec.id \in ReqIDs /\ MarkSucceeded(Rec.id, Rec.resp) /\ StoreInv
      BY <2>2, NamesExist DEF RecoverySucceeded, Rec, Inv
    <3>2. QED
      BY <3>1, MarkStatus DEF StatusBecomes
  <2>3. ASSUME NEW s \in Slots, Callback(s) \/ CallbackRepeated(s)
        PROVE  \A q \in ReqIDs : jobs'[q].status \in {jobs[q].status, "succeeded", "failed"}
    <3>1. run[s].id \in ReqIDs /\ Complete(run[s].id, run[s].ok, run[s].fp) /\ StoreInv
      BY <2>3, NamesExist DEF Callback, CallbackRepeated, Inv
    <3>2. QED
      BY <3>1, CompletionSettles
  <2>4. ASSUME NEW m \in late, LateCallback(m)
        PROVE  \A q \in ReqIDs : jobs'[q].status \in {jobs[q].status, "succeeded", "failed"}
    <3>1. m.id \in ReqIDs /\ Complete(m.id, m.ok, m.fp) /\ StoreInv
      BY <2>4, NamesExist DEF LateCallback, Inv
    <3>2. QED
      BY <3>1, CompletionSettles
  <2>5. QED
    BY <2>1, <2>2, <2>3, <2>4
    DEF DispatchStep, NoCandidates, Rejected, Refused, Forward, Reply, ReplyGarbled,
        TransportError, FinalMarkFails, WorkerStep, Execute, CallbackRejected,
        CallbackLost, CallbackDelayed, ReplyDropped, WorkerCrash, Tick, Crash, Exit, vars
<1>4. QED
  BY <1>1, <1>2, <1>3, GuardFrame

(* The steps of the system when nothing but recovery dispatches. *)
AsyncStep ==
    \/ \E r \in ReqIDs, f \in Fps : CreateJob(r, f) \/ ReadJob(r, f)
    \/ RecoverScan
    \/ \E s \in batch : RecoverExpired(s) \/ RecoverFails(s)
    \/ \E s \in batch, n \in Nat : RecoverQueued(s, n)
    \/ RecoverySucceeded
    \/ RecoveryFailed
    \/ DispatchStep(Recovery)
    \/ \E s \in Slots : WorkerStep(s)
    \/ \E m \in late : LateCallback(m)
    \/ Tick
    \/ Crash
    \/ GracefulStop
    \/ Exit
    \/ UNCHANGED vars

(* Without handlers there are no others. *)
LEMMA AsyncSteps ==
    ASSUME AsyncOnly, [Next]_vars
    PROVE  AsyncStep
<1>1. \A n \in 0..MaxWorkers : n \in Nat
  BY DurableJobsAssumption
<1>2. \A a \in Actors : a = Recovery
  BY DEF Actors, AsyncOnly
<1>3. CASE RecoveryStep
  BY <1>1, <1>3 DEF RecoveryStep, AsyncStep
<1>4. CASE ~RecoveryStep
  BY <1>2, <1>4 DEF Next, AsyncOnly, AsyncStep
<1>5. QED
  BY <1>3, <1>4

(* Every step keeps ambiguous jobs out of recovery's reach. *)
LEMMA NextGuard ==
    ASSUME AsyncOnly, Inv, AttemptInv, Guarded, [Next]_vars
    PROVE  Guarded' /\ AmbiguousKept
<1>1. AsyncStep
  BY AsyncSteps
<1>2. QED
  BY <1>1, SubmitGuard, ScanGuard, StartGuard, ErrorGuard, OtherGuard DEF AsyncStep

(* ... in every state. *)
THEOREM GuardHolds ==
    ASSUME AsyncOnly
    PROVE  Spec => []Guarded
<1>1. Init => Guarded
  BY ActorNames DEF Init, ActorIdle, Guarded, Rec
<1>2. Inv /\ AttemptInv /\ Guarded /\ [Next]_vars => Guarded'
  BY NextGuard
<1>3. QED
  BY <1>1, <1>2, InvHolds, AttemptInvHolds, PTL DEF Spec

(* For asynchronous jobs, whatever crashes, stops, gets lost or arrives    *)
(* late: a job that was flagged ambiguous is never queued or dispatched    *)
(* again.                                                                  *)
THEOREM AmbiguousStays ==
    ASSUME AsyncOnly
    PROVE  Spec => AmbiguousNotReplayed
<1>1. Inv /\ AttemptInv /\ Guarded /\ [Next]_vars =>
          [\A r \in ReqIDs :
            jobs[r].status = "ambiguous" =>
                jobs'[r].status \in {"ambiguous", "succeeded", "failed"}]_vars
  BY NextGuard DEF AmbiguousKept
<1>2. QED
  BY <1>1, InvHolds, AttemptInvHolds, GuardHolds, PTL DEF Spec, AmbiguousNotReplayed

-----------------------------------------------------------------------------
(* One run at a time *)

(* No connection to a worker breaks while the worker carries on, and the   *)
(* master is not stopped in the middle of a dispatch: both requeue a job   *)
(* whose run goes on.                                                      *)
NoAbandonedRetry == "transport" \notin Faults /\ "stop" \notin Faults

(* Nobody waits for the run of slot s, and nobody will dispatch its job.   *)
Abandoned(s) ==
    /\ jobs[run[s].id].status # "queued"
    /\ \A b \in batch : b.id = run[s].id => b.status # "queued"
    /\ Rec.pc # "idle" => Rec.id # run[s].id

Awaited(s) == Rec.pc = "wait" /\ Rec.slot = s

(* Every run is recovery's current one, or one that a dead master left     *)
(* behind, and no two of them are of the same job.                         *)
Alone ==
    /\ \A s \in Slots : run[s].phase # "free" => Awaited(s) \/ Abandoned(s)
    /\ \A s, t \in Slots :
            run[s].phase # "free" /\ run[t].phase # "free" /\ run[s].id = run[t].id => s = t

(* No run is new, and none of another job. *)
NoNewRuns ==
    \A s \in Slots : run'[s].phase # "free" => run[s].phase # "free" /\ run'[s].id = run[s].id

(* Steps in which nothing becomes queued, no run starts and recovery stays *)
(* with the run it waits for unless that run ends.                         *)
LEMMA AloneFrame ==
    ASSUME Inv, Alone, NoNewRuns, batch' \subseteq batch,
           \A q \in ReqIDs : jobs'[q].status = "queued" => jobs[q].status = "queued",
           Rec'.pc # "idle" => Rec.pc # "idle" /\ Rec'.id = Rec.id,
           \A s \in Slots : Awaited(s) => run'[s].phase = "free" \/ Awaited(s)'
    PROVE  Alone'
<1>1. ASSUME NEW s \in Slots, run'[s].phase # "free"
      PROVE  Awaited(s)' \/ Abandoned(s)'
  <2>1. run[s].phase # "free" /\ run'[s].id = run[s].id
    BY <1>1 DEF NoNewRuns
  <2>2. run[s].id \in ReqIDs
    BY <2>1, NamesExist
  <2>3. CASE Awaited(s)
    BY <1>1, <2>3
  <2>4. CASE Abandoned(s)
    BY <2>1, <2>2, <2>4 DEF Abandoned
  <2>5. QED
    BY <2>1, <2>3, <2>4 DEF Alone
<1>2. ASSUME NEW s \in Slots, NEW t \in Slots,
             run'[s].phase # "free", run'[t].phase # "free", run'[s].id = run'[t].id
      PROVE  s = t
  BY <1>2 DEF Alone, NoNewRuns
<1>3. QED
  BY <1>1, <1>2 DEF Alone

(* While recovery is not waiting, every run is an abandoned one. *)
LEMMA NoneAwaited ==
    ASSUME Alone, Rec.pc # "wait"
    PROVE  \A s \in Slots : run[s].phase # "free" => Abandoned(s)
BY DEF Alone, Awaited

(* A new row has no run. *)
LEMMA SubmitAlone ==
    ASSUME Inv, Alone, NEW r \in ReqIDs, NEW f \in Fps, CreateJob(r, f) \/ ReadJob(r, f)
    PROVE  Alone'
<1>1. CASE CreateJob(r, f)
  <2>1. StatusBecomes(r, "queued") /\ ~Exists(r) /\ UNCHANGED <<actor, batch, run>>
    BY <1>1, MarkStatus DEF CreateJob, Create, Inv
  <2>2. \A s \in Slots : run[s].phase # "free" => run[s].id \in ReqIDs /\ run[s].id # r
    BY <2>1, NamesExist
  <2>3. \A s \in Slots : run[s].phase # "free" /\ Abandoned(s) => Abandoned(s)'
    BY <2>1, <2>2 DEF Abandoned, StatusBecomes, Rec
  <2>4. QED
    BY <2>1, <2>3 DEF Alone, Awaited, Rec
<1>2. CASE ReadJob(r, f)
  BY <1>2, AloneFrame DEF ReadJob, NoNewRuns, Awaited, Rec
<1>3. QED
  BY <1>1, <1>2

(* A scan does not find the job of a run that goes on among the queued. *)
LEMMA ScanAlone ==
    ASSUME Inv, Alone,
           RecoverScan \/ \E s \in batch : RecoverExpired(s) \/ RecoverFails(s)
    PROVE  Alone'
<1>1. CASE RecoverScan
  <2>1. /\ batch' = {Snapshot(r) : r \in ListRecoverable(clock, BatchSize)}
        /\ UNCHANGED <<jobs, actor, run>> /\ Rec.pc = "idle"
    BY <1>1 DEF RecoverScan, Rec
  <2>2. \A b \in batch' : b.status = jobs[b.id].status
    BY <2>1 DEF Snapshot
  <2>3. \A s \in Slots : run[s].phase # "free" => Abandoned(s)'
    BY <2>1, <2>2, NoneAwaited DEF Abandoned, Rec
  <2>4. QED
    BY <2>1, <2>3 DEF Alone
<1>2. ASSUME NEW s \in batch, RecoverExpired(s)
      PROVE  Alone'
  <2>1. /\ StatusBecomes(s.id, "ambiguous") /\ UNCHANGED <<actor, run>>
        /\ batch' = batch \ {s}
    BY <1>2, MarkStatus, NamesExist DEF RecoverExpired, Inv
  <2>2. QED
    BY <2>1, AloneFrame DEF NoNewRuns, Awaited, StatusBecomes, Rec
<1>3. ASSUME NEW s \in batch, RecoverFails(s)
      PROVE  Alone'
  BY <1>3, AloneFrame DEF RecoverFails, NoNewRuns, Awaited, Rec
<1>4. QED
  BY <1>1, <1>2, <1>3

(* What recovery takes up from its snapshot has no run. *)
LEMMA StartAlone ==
    ASSUME Inv, Alone, NEW s \in batch, NEW n \in Nat, RecoverQueued(s, n)
    PROVE  Alone'
<1>1. /\ StatusBecomes(s.id, "dispatching") /\ s.status = "queued" /\ Rec.pc = "idle"
      /\ batch' = batch \ {s} /\ Rec'.id = s.id /\ UNCHANGED run
  BY MarkStatus, NamesExist, ActorNames DEF RecoverQueued, EnterDispatch, Inv, Rec
<1>2. ASSUME NEW t \in Slots, run[t].phase # "free"
      PROVE  Abandoned(t)'
  <2>1. Abandoned(t) /\ run[t].id \in ReqIDs
    BY <1>1, <1>2, NoneAwaited, NamesExist
  <2>2. run[t].id # s.id
    BY <1>1, <2>1 DEF Abandoned
  <2>3. QED
    BY <1>1, <2>1, <2>2 DEF Abandoned, StatusBecomes
<1>3. QED
  BY <1>1, <1>2 DEF Alone

(* A dispatch that ends leaves the abandoned runs alone. *)
LEMMA EndAlone ==
    ASSUME Inv, Alone, RecoverySucceeded \/ RecoveryFailed
    PROVE  Alone'
<1> DEFINE r == Rec.id
<1>1. /\ Rec.pc \in {"ok", "err"} /\ Rec'.pc = "idle" /\ UNCHANGED <<batch, run>>
      /\ MarkSucceeded(r, Rec.resp) \/ MarkRecoveryError(r)
  BY ActorNames DEF RecoverySucceeded, RecoveryFailed, Inv, ActorIdle, Rec, ActorType
<1>2. r \in ReqIDs
  BY <1>1, NamesExist
<1>3. \A q \in ReqIDs \ {r} : jobs'[q].status = jobs[q].status
  BY <1>1, <1>2, MarkStatus DEF MarkRecoveryError, Inv, StatusBecomes
<1>4. ASSUME NEW t \in Slots, run[t].phase # "free"
      PROVE  Abandoned(t)'
  <2>1. Abandoned(t) /\ run[t].id \in ReqIDs
    BY <1>1, <1>4, NoneAwaited, NamesExist
  <2>2. run[t].id # r
    BY <1>1, <2>1 DEF Abandoned
  <2>3. QED
    BY <1>1, <1>3, <2>1, <2>2 DEF Abandoned
<1>5. QED
  BY <1>1, <1>4 DEF Alone

(* The dispatcher starts a run when the job has none. *)
LEMMA DispatchAlone ==
    ASSUME NoAbandonedRetry, Inv, Alone, DispatchStep(Recovery)
    PROVE  Alone'
<1>0. UNCHANGED <<jobs, batch>> /\ run \in [Slots -> RunType]
  BY DEF DispatchStep, NoCandidates, Rejected, Refused, Forward, Reply, ReplyGarbled,
         TransportError, FinalMarkFails, Inv
<1>1. CASE \/ NoCandidates(Recovery) \/ Rejected(Recovery) \/ Refused(Recovery)
           \/ FinalMarkFails(Recovery)
  <2>1. /\ UNCHANGED run /\ Rec.pc # "wait" /\ Rec.pc # "idle"
        /\ Rec'.pc # "idle" => Rec'.id = Rec.id
    BY <1>1, RecMoves DEF NoCandidates, Rejected, Refused, FinalMarkFails
  <2>2. QED
    BY <1>0, <2>1, AloneFrame DEF NoNewRuns, Awaited
<1>2. CASE Reply(Recovery)
  <2>1. /\ run' = [run EXCEPT ![Rec.slot] = SlotFree] /\ Rec.pc = "wait" /\ Rec'.id = Rec.id
    BY <1>2, RecMoves DEF Reply, Rec
  <2>2. NoNewRuns /\ \A s \in Slots : Awaited(s) => run'[s].phase = "free"
    BY <1>0, <2>1 DEF NoNewRuns, Awaited, SlotFree
  <2>3. QED
    BY <1>0, <2>1, <2>2, AloneFrame
<1>3. ASSUME NEW s \in Slots, Forward(Recovery, s)
      PROVE  Alone'
  <2>1. Rec.pc = "select" /\ Rec'.pc = "wait" /\ Rec'.id = Rec.id /\ Rec'.slot = s
    BY <1>3, RecMoves
  <2>2. /\ \A t \in Slots \ {s} : run'[t] = run[t]
        /\ run[s].phase = "free" /\ run'[s].id = Rec.id
    BY <1>0, <1>3 DEF Forward, RunType, Rec
  <2>3. ASSUME NEW t \in Slots \ {s}, run'[t].phase # "free"
        PROVE  Abandoned(t)' /\ run'[t].id # run'[s].id
    <3>1. Abandoned(t)
      BY <2>1, <2>2, <2>3, NoneAwaited
    <3>2. QED
      BY <1>0, <2>1, <2>2, <3>1 DEF Abandoned
  <2>4. Awaited(s)'
    BY <2>1 DEF Awaited
  <2>5. ASSUME NEW t \in Slots, NEW u \in Slots,
               run'[t].phase # "free", run'[u].phase # "free", run'[t].id = run'[u].id
        PROVE  t = u
    <3>1. CASE t = s \/ u = s
      BY <2>3, <2>5, <3>1
    <3>2. CASE t # s /\ u # s
      BY <2>2, <2>5, <3>2 DEF Alone
    <3>3. QED
      BY <3>1, <3>2
  <2>6. QED
    BY <2>3, <2>4, <2>5 DEF Alone
<1>4. ~ReplyGarbled(Recovery) /\ ~TransportError(Recovery)
  BY DEF ReplyGarbled, TransportError, Fault, NoAbandonedRetry
<1>5. QED
  BY <1>1, <1>2, <1>3, <1>4 DEF DispatchStep

(* Workers end runs and settle rows. *)
LEMMA WorkerAlone ==
    ASSUME Inv, Alone,
           (\E s \in Slots : WorkerStep(s)) \/ (\E m \in late : LateCallback(m))
    PROVE  Alone'
<1>0. run \in [Slots -> RunType] /\ StoreInv
  BY DEF Inv
<1>1. ASSUME NEW m \in late, LateCallback(m)
      PROVE  Alone'
  <2>1. m.id \in ReqIDs /\ Complete(m.id, m.ok, m.fp) /\ UNCHANGED <<actor, batch, run>>
    BY <1>1, NamesExist DEF LateCallback
  <2>2. \A q \in ReqIDs : jobs'[q].status = "queued" => jobs[q].status = "queued"
    BY <1>0, <2>1, CompletionSettles
  <2>3. QED
    BY <2>1, <2>2, AloneFrame DEF NoNewRuns, Awaited, Rec
<1>2. ASSUME NEW s \in Slots, WorkerStep(s)
      PROVE  Alone'
  <2>1. batch' = batch
    BY <1>2 DEF WorkerStep, Execute, Callback, CallbackRepeated, CallbackRejected, CallbackLost,
         CallbackDelayed, ReplyDropped, WorkerCrash
  <2>2. \A q \in ReqIDs : jobs'[q].status = "queued" => jobs[q].status = "queued"
    <3>1. CASE Callback(s) \/ CallbackRepeated(s)
      <4>1. run[s].id \in ReqIDs /\ Complete(run[s].id, run[s].ok, run[s].fp)
        BY <3>1, NamesExist DEF Callback, CallbackRepeated
      <4>2. QED
        BY <1>0, <4>1, CompletionSettles
    <3>2. CASE UNCHANGED jobs
      BY <3>2
    <3>3. QED
      BY <1>2, <3>1, <3>2 DEF WorkerStep, Execute, CallbackRejected, CallbackLost,
         CallbackDelayed, ReplyDropped, WorkerCrash
  <2>3. NoNewRuns
    <3>1. CASE ReplyDropped(s) \/ WorkerCrash(s)
      BY <1>0, <3>1 DEF ReplyDropped, WorkerCrash, SlotFree, NoNewRuns
    <3>2. CASE \E ok \in BOOLEAN : Execute(s, ok)
      BY <1>0, <3>2 DEF Execute, NoNewRuns, RunType
    <3>3. CASE \/ Callback(s) \/ CallbackRepeated(s) \/ CallbackRejected(s) \/ CallbackLost(s)
               \/ CallbackDelayed(s)
      BY <1>0, <3>3 DEF Callback, CallbackRepeated, CallbackRejected, CallbackLost,
         CallbackDelayed, Reported, NoNewRuns, RunType
    <3>4. QED
      BY <1>2, <3>1, <3>2, <3>3 DEF WorkerStep
  <2>4. CASE WorkerCrash(s)
    <3>1. run'[s].phase = "free"
      BY <1>0, <2>4 DEF WorkerCrash, SlotFree
    <3>2. QED
      BY <2>1, <2>2, <2>3, <2>4, <3>1, CrashMoves, AloneFrame DEF Awaited
  <2>5. CASE ~WorkerCrash(s)
    <3>1. UNCHANGED actor
      BY <1>2, <2>5 DEF WorkerStep, Execute, Callback, CallbackRepeated, CallbackRejected, CallbackLost,
         CallbackDelayed, ReplyDropped
    <3>2. QED
      BY <2>1, <2>2, <2>3, <3>1, AloneFrame DEF Awaited, Rec
  <2>6. QED
    BY <2>4, <2>5
<1>3. QED
  BY <1>1, <1>2

(* A master that dies abandons the run it waited for: its row is not       *)
(* queued, and the snapshot dies with the master.                          *)
LEMMA ProcessAlone ==
    ASSUME NoAbandonedRetry, Inv, Guarded, Alone,
           Tick \/ Crash \/ GracefulStop \/ Exit \/ UNCHANGED vars
    PROVE  Alone'
<1>1. CASE Tick \/ UNCHANGED vars
  BY <1>1, AloneFrame DEF Tick, vars, NoNewRuns, Awaited, Rec
<1>2. CASE Crash
  <2>1. UNCHANGED <<jobs, run>> /\ batch' = {} /\ Rec'.pc = "idle"
    BY <1>2, ActorNames DEF Crash, ActorIdle, Rec
  <2>2. ASSUME NEW s \in Slots, run[s].phase # "free"
        PROVE  Abandoned(s)'
    <3>1. jobs[run[s].id].status # "queued"
      <4>1. CASE Abandoned(s)
        BY <4>1 DEF Abandoned
      <4>2. CASE Awaited(s)
        <5>1. Rec.pc = "wait" /\ run[s].id = Rec.id
          BY <4>2, ActorNames DEF Awaited, Inv, ActorOK, Rec
        <5>2. QED
          BY <5>1 DEF Guarded
      <4>3. QED
        BY <2>2, <4>1, <4>2 DEF Alone
    <3>2. QED
      BY <2>1, <3>1 DEF Abandoned
  <2>3. QED
    BY <2>1, <2>2 DEF Alone
<1>3. CASE Exit
  BY <1>3, ActorNames, AloneFrame DEF Exit, ActorIdle, NoNewRuns, Awaited, Rec
<1>4. ~GracefulStop
  BY DEF GracefulStop, Fault, NoAbandonedRetry
<1>5. QED
  BY <1>1, <1>2, <1>3, <1>4

(* With asynchronous jobs only, and whatever master or workers die, SQL    *)
(* statements fail or callbacks are lost, repeated or late: no job is      *)
(* executed twice at the same time.                                        *)
THEOREM OneRun ==
    ASSUME AsyncOnly, NoAbandonedRetry
    PROVE  Spec => []AtMostOneRun
<1>1. Init => Alone
  BY DEF Init, SlotFree, Alone
<1>2. Inv /\ Guarded /\ Alone /\ [Next]_vars => Alone'
  <2> SUFFICES ASSUME Inv, Guarded, Alone, [Next]_vars PROVE Alone'
    OBVIOUS
  <2>1. AsyncStep
    BY AsyncSteps
  <2>2. QED
    BY <2>1, SubmitAlone, ScanAlone, StartAlone, EndAlone, DispatchAlone, WorkerAlone, ProcessAlone
    DEF AsyncStep
<1>3. Alone => AtMostOneRun
  BY DEF Alone, AtMostOneRun
<1>4. QED
  BY <1>1, <1>2, <1>3, InvHolds, GuardHolds, PTL DEF Spec

-----------------------------------------------------------------------------
(* As long as nothing goes wrong *)

(* Recovery has everything in hand: it waits for the only run there is,    *)
(* the row it dispatches is the only dispatching one, its snapshot is      *)
(* exact, and when it comes to write an error the row has no success.      *)
InHand ==
    /\ late = {}
    /\ Rec.pc # "stopped"
    /\ \A s \in Slots : run[s].phase # "free" => Awaited(s)
    /\ \A b \in batch : b.status = "queued" /\ jobs[b.id].status = "queued"
    /\ \A r \in ReqIDs : jobs[r].status = "dispatching" => Rec.pc # "idle" /\ Rec.id = r
    /\ Rec.pc = "select" => jobs[Rec.id].status = "dispatching"
    /\ Rec.pc = "wait" =>
            \/ jobs[Rec.id].status = "dispatching"
            \/ /\ run[Rec.slot].phase = "reply"
               /\ jobs[Rec.id].status = "succeeded" => run[Rec.slot].ok
    /\ Rec.pc = "err" => jobs[Rec.id].status # "succeeded"

SuccessKept ==
    \A r \in ReqIDs : jobs[r].status = "succeeded" => jobs'[r].status = "succeeded"

(* Without a fault so far, and in this step. *)
LEMMA NoFault ==
    ASSUME Inv, faults' = 0
    PROVE  \A kind : ~Fault(kind)
BY DEF Inv, ScalarsOK, Fault

(* A new job. *)
LEMMA SubmitInHand ==
    ASSUME Inv, InHand, NEW r \in ReqIDs, NEW f \in Fps, CreateJob(r, f) \/ ReadJob(r, f)
    PROVE  InHand' /\ SuccessKept
<1>1. CASE CreateJob(r, f)
  <2>1. StatusBecomes(r, "queued") /\ ~Exists(r) /\ UNCHANGED <<actor, batch, run, late>>
    BY <1>1, MarkStatus DEF CreateJob, Create, Inv
  <2>2. Rec.pc # "idle" => Rec.id \in ReqIDs /\ jobs'[Rec.id].status = jobs[Rec.id].status
    BY <2>1, NamesExist DEF StatusBecomes
  <2>3. \A b \in batch : jobs'[b.id].status = jobs[b.id].status
    BY <2>1, NamesExist DEF StatusBecomes
  <2>4. SuccessKept
    BY <2>1 DEF SuccessKept, StatusBecomes, Exists
  <2>5. Rec' = Rec /\ \A s \in Slots : Awaited(s)' = Awaited(s)
    BY <2>1 DEF Rec, Awaited
  <2>6. QED
    BY <2>1, <2>2, <2>3, <2>4, <2>5 DEF InHand, StatusBecomes
<1>2. CASE ReadJob(r, f)
  BY <1>2 DEF ReadJob, InHand, SuccessKept, Awaited, Rec
<1>3. QED
  BY <1>1, <1>2

(* Recovery finds queued rows and nothing else. *)
LEMMA ScanInHand ==
    ASSUME Inv, InHand, RecoverScan
    PROVE  InHand' /\ SuccessKept
<1>1. /\ batch' = {Snapshot(r) : r \in ListRecoverable(clock, BatchSize)}
      /\ UNCHANGED <<jobs, actor, run, late>> /\ Rec.pc = "idle"
  BY DEF RecoverScan, Rec
<1>2. \A r \in ListRecoverable(clock, BatchSize) : r \in ReqIDs /\ jobs[r].status = "queued"
  BY <1>1 DEF ListRecoverable, Recoverable, InHand
<1>3. \A b \in batch' : b.status = "queued" /\ jobs[b.id].status = "queued"
  BY <1>1, <1>2 DEF Snapshot
<1>4. Rec' = Rec /\ \A s \in Slots : Awaited(s)' = Awaited(s)
  BY <1>1 DEF Rec, Awaited
<1>5. QED
  BY <1>1, <1>3, <1>4 DEF InHand, SuccessKept

(* Recovery dispatches a queued row. *)
LEMMA StartInHand ==
    ASSUME Inv, AttemptInv, InHand, NEW s \in batch, NEW n \in Nat, RecoverQueued(s, n)
    PROVE  InHand' /\ SuccessKept
<1>1. /\ StatusBecomes(s.id, "dispatching") /\ s.id \in ReqIDs /\ Rec.pc = "idle"
      /\ batch' = batch \ {s} /\ Rec'.id = s.id /\ Rec'.pc = "select" /\ UNCHANGED <<run, late>>
  BY MarkStatus, NamesExist, ActorNames DEF RecoverQueued, EnterDispatch, Inv, Rec, ActorType
<1>2. jobs[s.id].status = "queued"
  BY DEF InHand
<1>3. \A b \in batch' : b \in batch /\ b.id # s.id /\ b.id \in ReqIDs
  BY <1>1, NamesExist DEF AttemptInv
<1>4. \A b \in batch' : b.status = "queued" /\ jobs'[b.id].status = "queued"
  BY <1>1, <1>3 DEF InHand, StatusBecomes
<1>5. \A r \in ReqIDs : jobs'[r].status = "dispatching" => r = s.id
  BY <1>1 DEF InHand, StatusBecomes
<1>6. \A t \in Slots : run[t].phase = "free"
  BY <1>1 DEF InHand, Awaited
<1>7. jobs'[s.id].status = "dispatching" /\ SuccessKept
  BY <1>1, <1>2 DEF StatusBecomes, SuccessKept
<1>8. QED
  BY <1>1, <1>4, <1>5, <1>6, <1>7 DEF InHand

(* Recovery ends its dispatch. *)
LEMMA EndInHand ==
    ASSUME Inv, AttemptInv, InHand, RecoverySucceeded \/ RecoveryFailed
    PROVE  InHand' /\ SuccessKept
<1> DEFINE r == Rec.id
<1>1. /\ Rec.pc \in {"ok", "err"} /\ Rec'.pc = "idle" /\ UNCHANGED <<batch, run, late>>
      /\ \/ MarkSucceeded(r, Rec.resp)
         \/ MarkRecoveryError(r) /\ Rec.pc = "err"
  BY ActorNames DEF RecoverySucceeded, RecoveryFailed, Inv, ActorIdle, Rec, ActorType
<1>2. r \in ReqIDs
  BY <1>1, NamesExist
<1>3. /\ \A q \in ReqIDs \ {r} : jobs'[q].status = jobs[q].status
      /\ jobs'[r].status # "dispatching"
      /\ jobs'[r].status = "succeeded" \/ Rec.pc = "err"
  BY <1>1, <1>2, MarkStatus DEF MarkRecoveryError, Inv, StatusBecomes
<1>4. \A b \in batch : b.id \in ReqIDs \ {r}
  BY <1>1, NamesExist DEF AttemptInv, Rec
<1>5. \A t \in Slots : run[t].phase = "free"
  BY <1>1 DEF InHand, Awaited
<1>6. SuccessKept
  BY <1>3 DEF InHand, SuccessKept
<1>7. \A q \in ReqIDs : jobs'[q].status # "dispatching"
  BY <1>1, <1>3 DEF InHand
<1>8. QED
  BY <1>1, <1>3, <1>4, <1>5, <1>6, <1>7 DEF InHand

(* The dispatcher. *)
LEMMA DispatchInHand ==
    ASSUME Inv, InHand, faults' = 0, DispatchStep(Recovery)
    PROVE  InHand' /\ SuccessKept
<1>0. UNCHANGED <<jobs, batch, late>> /\ run \in [Slots -> RunType] /\ SuccessKept
  BY DEF DispatchStep, NoCandidates, Rejected, Refused, Forward, Reply, ReplyGarbled,
         TransportError, FinalMarkFails, Inv, SuccessKept
<1>1. CASE NoCandidates(Recovery) \/ Rejected(Recovery) \/ Refused(Recovery)
  <2>1. /\ UNCHANGED run /\ Rec.pc = "select" /\ Rec'.pc \in {"select", "err"} /\ Rec'.id = Rec.id
    BY <1>1, RecMoves DEF NoCandidates, Rejected, Refused
  <2>2. \A t \in Slots : run[t].phase = "free"
    BY <2>1 DEF InHand, Awaited
  <2>3. QED
    BY <1>0, <2>1, <2>2 DEF InHand
<1>2. CASE Reply(Recovery)
  <2>1. /\ run' = [run EXCEPT ![Rec.slot] = SlotFree] /\ Rec.pc = "wait" /\ Rec'.id = Rec.id
        /\ Rec'.pc = IF run[Rec.slot].ok THEN "ok" ELSE "err"
        /\ run[Rec.slot].phase = "reply"
    BY <1>2, RecMoves DEF Reply, Answered, Rec
  <2>2. \A t \in Slots : run'[t].phase = "free"
    BY <1>0, <2>1 DEF InHand, Awaited, SlotFree
  <2>3. QED
    BY <1>0, <2>1, <2>2 DEF InHand
<1>3. ASSUME NEW s \in Slots, Forward(Recovery, s)
      PROVE  InHand' /\ SuccessKept
  <2>1. Rec.pc = "select" /\ Rec'.pc = "wait" /\ Rec'.id = Rec.id /\ Rec'.slot = s
    BY <1>3, RecMoves
  <2>2. \A t \in Slots \ {s} : run'[t] = run[t]
    BY <1>0, <1>3 DEF Forward
  <2>3. \A t \in Slots : run'[t].phase # "free" => Awaited(t)'
    BY <2>1, <2>2 DEF InHand, Awaited
  <2>4. QED
    BY <1>0, <2>1, <2>3 DEF InHand
<1>4. ~ReplyGarbled(Recovery) /\ ~TransportError(Recovery) /\ ~FinalMarkFails(Recovery)
  BY NoFault DEF ReplyGarbled, TransportError, FinalMarkFails
<1>5. QED
  BY <1>1, <1>2, <1>3, <1>4 DEF DispatchStep

(* The worker reports to the row that recovery is dispatching. *)
LEMMA WorkerInHand ==
    ASSUME Inv, AttemptInv, InHand, faults' = 0, NEW s \in Slots, WorkerStep(s)
    PROVE  InHand' /\ SuccessKept
<1>0. run \in [Slots -> RunType] /\ StoreInv
  BY DEF Inv
<1>1. /\ ~CallbackRepeated(s) /\ ~CallbackLost(s) /\ ~CallbackDelayed(s) /\ ~WorkerCrash(s)
  BY NoFault DEF CallbackRepeated, CallbackLost, CallbackDelayed, WorkerCrash
<1>2. run[s].phase # "free"
  BY <1>1 DEF WorkerStep, Execute, Callback, CallbackRejected, ReplyDropped
<1>3. Awaited(s) /\ run[s].id = Rec.id /\ Rec.id \in ReqIDs
  <2>1. Awaited(s)
    BY <1>2 DEF InHand
  <2>2. run[s].id = Rec.id
    BY <2>1, ActorNames DEF Awaited, Rec, Inv, ActorOK
  <2>3. QED
    BY <1>2, <2>1, <2>2, NamesExist
<1>4. ~ReplyDropped(s)
  BY <1>3, ActorNames DEF ReplyDropped, Waiter, Awaited, Rec
<1>5. UNCHANGED <<actor, batch, late>>
  BY <1>1, <1>4 DEF WorkerStep, Execute, Callback, CallbackRejected
<1>6. Rec' = Rec /\ \A t \in Slots : Awaited(t)' = Awaited(t)
  BY <1>5 DEF Rec, Awaited
<1>7. \A t \in Slots \ {s} : run'[t] = run[t]
  BY <1>0, <1>1, <1>4 DEF WorkerStep, Execute, Callback, CallbackRejected, Reported
<1>8. \A t \in Slots : run'[t].phase # "free" => Awaited(t)'
  BY <1>3, <1>6, <1>7 DEF InHand
<1>9. run[s].phase \in {"running", "report"} /\ jobs[Rec.id].status = "dispatching"
  <2>1. run[s].phase \in {"running", "report"}
    BY <1>1, <1>4 DEF WorkerStep, Execute, Callback, CallbackRejected
  <2>2. QED
    BY <1>3, <2>1 DEF InHand, Awaited
<1>10. CASE UNCHANGED jobs
  BY <1>3, <1>5, <1>6, <1>8, <1>9, <1>10 DEF InHand, SuccessKept, Awaited
<1>11. CASE Callback(s)
  <2>1. StatusBecomes(Rec.id, IF run[s].ok THEN "succeeded" ELSE "failed")
    BY <1>0, <1>3, <1>11, CompletionSettles DEF Callback
  <2>2. run'[s].phase = "reply" /\ run'[s].ok = run[s].ok
    BY <1>0, <1>11 DEF Callback, Reported, RunType
  <2>3. SuccessKept
    BY <1>9, <2>1 DEF SuccessKept, StatusBecomes
  <2>4. \A b \in batch' : b.status = "queued" /\ jobs'[b.id].status = "queued"
    <3>1. \A b \in batch : b.id \in ReqIDs /\ b.id # Rec.id
      BY <1>3, NamesExist DEF AttemptInv, Awaited, Rec
    <3>2. QED
      BY <1>5, <2>1, <3>1 DEF InHand, StatusBecomes
  <2>5. /\ jobs'[Rec.id].status = "succeeded" => run'[s].ok
        /\ Rec.pc = "wait" /\ Rec.slot = s
    BY <1>3, <2>1, <2>2 DEF StatusBecomes, Awaited
  <2>6. \A r \in ReqIDs : jobs'[r].status # "dispatching"
    BY <2>1 DEF InHand, StatusBecomes
  <2>7. QED
    BY <1>5, <1>6, <1>8, <2>2, <2>3, <2>4, <2>5, <2>6 DEF InHand
<1>12. QED
  BY <1>1, <1>4, <1>10, <1>11 DEF WorkerStep, Execute, CallbackRejected

(* Everything else needs a fault, or does not concern recovery. *)
LEMMA OtherInHand ==
    ASSUME Inv, InHand, faults' = 0,
           \/ \E s \in batch : RecoverExpired(s) \/ RecoverFails(s)
           \/ \E m \in late : LateCallback(m)
           \/ Tick \/ Crash \/ GracefulStop \/ Exit \/ UNCHANGED vars
    PROVE  InHand' /\ SuccessKept
<1>1. \A s \in batch : ~RecoverExpired(s) /\ ~RecoverFails(s)
  BY NoFault DEF RecoverExpired, RecoverFails, InHand
<1>2. ~Crash /\ ~GracefulStop /\ ~Exit
  BY NoFault DEF Crash, GracefulStop, Exit, InHand, Rec
<1>3. Tick \/ UNCHANGED vars
  BY <1>1, <1>2 DEF InHand
<1>4. UNCHANGED <<jobs, actor, batch, run, late>>
  BY <1>3 DEF Tick, vars
<1>5. QED
  BY <1>4 DEF InHand, SuccessKept, Awaited, Rec

(* Every step without a fault. *)
LEMMA NextInHand ==
    ASSUME AsyncOnly, Inv, AttemptInv, faults = 0 => InHand, [Next]_vars, faults' = 0
    PROVE  InHand' /\ SuccessKept
<1>1. AsyncStep
  BY AsyncSteps
<1>2. faults = 0
  <2>1. faults' = faults \/ faults' = faults + 1
    BY DEF Next, vars, HandlerStep, AsyncOnly, RecoveryStep, DispatchStep, WorkerStep, Fault,
       CreateJob, ReadJob, RecoverScan, RecoverExpired, RecoverFails, RecoverQueued, RecoverySucceeded,
       RecoveryFailed, NoCandidates, Refused, Rejected, Forward, Reply, ReplyGarbled, TransportError,
       FinalMarkFails, Execute, Callback, CallbackRejected, CallbackRepeated, CallbackLost,
       CallbackDelayed, ReplyDropped, WorkerCrash, LateCallback, Tick, Crash, GracefulStop, Exit
  <2>2. QED
    BY <2>1 DEF Inv, ScalarsOK
<1>3. QED
  BY <1>1, <1>2, SubmitInHand, ScanInHand, StartInHand, EndInHand, DispatchInHand, WorkerInHand,
     OtherInHand
  DEF AsyncStep

(* For asynchronous jobs: as long as nothing goes wrong, a stored success  *)
(* stays, although recovery works from a snapshot and the result arrives   *)
(* on two ways.                                                            *)
THEOREM SuccessStays ==
    ASSUME AsyncOnly
    PROVE  Spec => SucceededIsFinalWithoutFaults
<1> DEFINE CalmInv == faults = 0 => InHand
<1>1. Init => CalmInv
  <2> SUFFICES ASSUME Init PROVE InHand
    OBVIOUS
  <2>1. Rec.pc = "idle"
    BY ActorNames DEF Init, ActorIdle, Rec
  <2>2. QED
    BY <2>1 DEF Init, StoreInit, NoJob, SlotFree, InHand
<1>2. Inv /\ AttemptInv /\ CalmInv /\ [Next]_vars => CalmInv'
  BY NextInHand
<1>3. Inv /\ AttemptInv /\ CalmInv /\ [Next]_vars =>
          [\A r \in ReqIDs :
            jobs[r].status = "succeeded" /\ faults' = 0 => jobs'[r].status = "succeeded"]_vars
  BY NextInHand DEF SuccessKept
<1> HIDE DEF CalmInv
<1>4. QED
  BY <1>1, <1>2, <1>3, InvHolds, AttemptInvHolds, PTL DEF Spec, SucceededIsFinalWithoutFaults
=============================================================================

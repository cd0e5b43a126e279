--------------------------- MODULE JobServiceProofs ---------------------------
(***************************************************************************)
(* The master's job handling implements JobService: a proof that every     *)
(* step of DurableJobs is a step of the abstract service, or none at all,  *)
(* from the invariant of DurableJobsProofs.                                *)
(***************************************************************************)
EXTENDS DurableJobsProofs

(* The abstract state a table stands for. *)
Contents == [r \in ReqIDs |-> jobs[r].fp]

Tries == [r \in ReqIDs |-> jobs[r].attempt]

Results == [r \in ReqIDs |-> jobs[r].resp]

-----------------------------------------------------------------------------
(* The statements of the job store, as the service sees them. *)

(* An UPDATE of one row changes the abstract state of that row only. *)
LEMMA UpdateSeen ==
    ASSUME StoreInv, NEW r \in ReqIDs, NEW row \in JobRecord,
           jobs' = [jobs EXCEPT ![r] = row]
    PROVE  /\ Contents' = [Contents EXCEPT ![r] = row.fp]
           /\ Tries' = [Tries EXCEPT ![r] = row.attempt]
           /\ Results' = [Results EXCEPT ![r] = row.resp]
<1>1. \A q \in ReqIDs : jobs'[q] = IF q = r THEN row ELSE jobs[q]
  BY DEF StoreInv
<1>2. Contents' = [q \in ReqIDs |-> IF q = r THEN row.fp ELSE Contents[q]]
  BY <1>1 DEF Contents
<1>3. Tries' = [q \in ReqIDs |-> IF q = r THEN row.attempt ELSE Tries[q]]
  BY <1>1 DEF Tries
<1>4. Results' = [q \in ReqIDs |-> IF q = r THEN row.resp ELSE Results[q]]
  BY <1>1 DEF Results
<1>5. QED
  BY <1>2, <1>3, <1>4 DEF Contents, Tries, Results

(* INSERT binds the content of a request that had none. *)
LEMMA CreateSeen ==
    ASSUME StoreInv, NEW r \in ReqIDs, NEW f \in Fps, Create(r, f)
    PROVE  /\ Contents[r] = NoFp
           /\ Contents' = [Contents EXCEPT ![r] = f]
           /\ UNCHANGED <<Tries, Results>>
<1>1. jobs[r].status = "none" /\ RowOK(jobs[r])
  BY DEF Create, Exists, StoreInv
<1>2. jobs[r].fp = NoFp /\ jobs[r].attempt = 0 /\ jobs[r].resp = NoFp
  BY <1>1 DEF RowOK
<1> DEFINE row == NewJobRecord(f)
<1>3. row \in JobRecord /\ row.fp = f /\ row.attempt = 0 /\ row.resp = NoFp
  BY DEF NewJobRecord, JobRecord, JobStatus
<1>4. jobs' = [jobs EXCEPT ![r] = row]
  BY DEF Create
<1> HIDE DEF row
<1>5. /\ Contents' = [Contents EXCEPT ![r] = f]
      /\ Tries' = [Tries EXCEPT ![r] = 0]
      /\ Results' = [Results EXCEPT ![r] = NoFp]
  BY <1>3, <1>4, UpdateSeen
<1>6. QED
  BY <1>2, <1>5 DEF Contents, Tries, Results

(* MarkQueued, MarkFailed and MarkAmbiguous change nothing the service     *)
(* promises anything about: a stored response survives them.               *)
LEMMA MarkUnseen ==
    ASSUME StoreInv, NEW r \in ReqIDs, MarkQueued(r) \/ MarkFailed(r) \/ MarkAmbiguous(r)
    PROVE  UNCHANGED <<Contents, Tries, Results>>
<1>1. PICK st \in JobStatus : jobs' = [jobs EXCEPT ![r].status = st, ![r].lease = 0]
  BY DEF MarkQueued, MarkFailed, MarkAmbiguous, JobStatus
<1> DEFINE row == [jobs[r] EXCEPT !.status = st, !.lease = 0]
<1>2. jobs[r] \in JobRecord
  BY DEF StoreInv
<1>3. /\ row \in JobRecord
      /\ row.fp = jobs[r].fp /\ row.attempt = jobs[r].attempt /\ row.resp = jobs[r].resp
  BY <1>2 DEF JobRecord
<1>4. jobs' = [jobs EXCEPT ![r] = row]
  BY <1>1
<1> HIDE DEF row
<1>5. QED
  BY <1>3, <1>4, UpdateSeen DEF Contents, Tries, Results

(* MarkDispatching counts an attempt. *)
LEMMA MarkDispatchingSeen ==
    ASSUME StoreInv, NEW r \in ReqIDs, NEW l \in Nat, MarkDispatching(r, l)
    PROVE  /\ Tries' = [Tries EXCEPT ![r] = @ + 1]
           /\ UNCHANGED <<Contents, Results>>
<1> DEFINE n == jobs[r].attempt + 1
           row == [jobs[r] EXCEPT !.status = "dispatching", !.attempt = n, !.lease = l]
<1>1. jobs[r] \in JobRecord /\ n \in Nat
  BY DEF StoreInv, JobRecord
<1>2. /\ row \in JobRecord
      /\ row.fp = jobs[r].fp /\ row.attempt = n /\ row.resp = jobs[r].resp
  BY <1>1 DEF JobRecord, JobStatus
<1>3. jobs' = [jobs EXCEPT ![r] = row]
  BY DEF MarkDispatching
<1> HIDE DEF row
<1>4. /\ Contents' = [Contents EXCEPT ![r] = row.fp]
      /\ Tries' = [Tries EXCEPT ![r] = row.attempt]
      /\ Results' = [Results EXCEPT ![r] = row.resp]
  BY <1>2, <1>3, UpdateSeen
<1>5. QED
  BY <1>2, <1>4 DEF Contents, Tries, Results

(* MarkSucceeded records a response. *)
LEMMA MarkSucceededSeen ==
    ASSUME StoreInv, NEW r \in ReqIDs, NEW response \in Fps, MarkSucceeded(r, response)
    PROVE  /\ Results' = [Results EXCEPT ![r] = response]
           /\ UNCHANGED <<Contents, Tries>>
<1> DEFINE row == [jobs[r] EXCEPT !.status = "succeeded", !.lease = 0, !.resp = response]
<1>1. jobs[r] \in JobRecord
  BY DEF StoreInv
<1>2. /\ row \in JobRecord
      /\ row.fp = jobs[r].fp /\ row.attempt = jobs[r].attempt /\ row.resp = response
  BY <1>1 DEF JobRecord, JobStatus
<1>3. jobs' = [jobs EXCEPT ![r] = row]
  BY DEF MarkSucceeded
<1> HIDE DEF row
<1>4. /\ Contents' = [Contents EXCEPT ![r] = row.fp]
      /\ Tries' = [Tries EXCEPT ![r] = row.attempt]
      /\ Results' = [Results EXCEPT ![r] = row.resp]
  BY <1>2, <1>3, UpdateSeen
<1>5. QED
  BY <1>2, <1>4 DEF Contents, Tries, Results

-----------------------------------------------------------------------------
(* The steps of the service, in terms of the table. *)

Stutter == UNCHANGED <<Contents, Tries, Results, served>>

(* A step that leaves the table and the answers alone is a stutter. *)
LEMMA NothingSeen ==
    ASSUME UNCHANGED <<jobs, served>>
    PROVE  Stutter
BY DEF Stutter, Contents, Tries, Results

(* A new row is Accept. *)
LEMMA AcceptSeen ==
    ASSUME StoreInv, NEW r \in ReqIDs, NEW f \in Fps, Create(r, f), UNCHANGED served
    PROVE  Service!Next
<1>1. Service!Accept(r, f)
  BY CreateSeen DEF Service!Accept, Contents, Tries, Results
<1>2. QED
  BY <1>1 DEF Service!Next

(* MarkDispatching of a known row is Try. *)
LEMMA TrySeen ==
    ASSUME StoreInv, NEW r \in ReqIDs, NEW f, Known(jobs, r, f), NEW l \in Nat,
           MarkDispatching(r, l), UNCHANGED served
    PROVE  Service!Next
<1>1. Contents[r] # NoFp
  BY JobStoreAssumption DEF Known, Contents
<1>2. Service!Try(r)
  BY <1>1, MarkDispatchingSeen DEF Service!Try, Contents, Tries, Results
<1>3. QED
  BY <1>2 DEF Service!Next

(* A stored result of a dispatched row is Record. *)
LEMMA RecordSeen ==
    ASSUME StoreInv, NEW r, NEW f, Dispatched(jobs, r, f),
           MarkSucceeded(r, f), UNCHANGED served
    PROVE  Service!Next
<1>1. r \in ReqIDs /\ f \in Fps /\ f = Contents[r] /\ Tries[r] > 0
  BY DEF Dispatched, Known, Contents, Tries
<1>2. Service!Record(r)
  BY <1>1, MarkSucceededSeen DEF Service!Record, Service!Recorded, Contents, Tries, Results
<1>3. QED
  BY <1>1, <1>2 DEF Service!Next

(* ... and RecordAndAnswer when it is handed to the client as well. *)
LEMMA RecordAndAnswerSeen ==
    ASSUME StoreInv, NEW r, NEW f, Dispatched(jobs, r, f),
           MarkSucceeded(r, f), Serve(r, f, f)
    PROVE  Service!Next
<1>1. r \in ReqIDs /\ f \in Fps /\ f = Contents[r] /\ Tries[r] > 0
  BY DEF Dispatched, Known, Contents, Tries
<1>2. Service!Recorded(r) = [Results EXCEPT ![r] = f]
  BY <1>1 DEF Service!Recorded, Contents, Results
<1>3. Service!AnswerOf(Service!Recorded(r), r) = [id |-> r, asked |-> f, resp |-> f]
  BY <1>1, <1>2 DEF Service!AnswerOf, Contents, Results
<1>4. served' = served \cup {Service!AnswerOf(Service!Recorded(r), r)}
  BY <1>3 DEF Serve
<1>5. Results' = Service!Recorded(r) /\ UNCHANGED <<Contents, Tries>>
  BY <1>1, <1>2, MarkSucceededSeen
<1>6. Service!RecordAndAnswer(r)
  BY <1>1, <1>4, <1>5 DEF Service!RecordAndAnswer, Contents, Tries, Results
<1>7. QED
  BY <1>1, <1>6 DEF Service!Next

(* A stored response that is read is Answer. *)
LEMMA AnswerSeen ==
    ASSUME StoreInv, NEW r \in ReqIDs, NEW f \in Fps, jobs[r].fp = f,
           jobs[r].resp # NoFp, Serve(r, f, jobs[r].resp), UNCHANGED jobs
    PROVE  Service!Next
<1>1. Results[r] # NoFp
  BY DEF Results
<1>2. Service!AnswerOf(Results, r) = [id |-> r, asked |-> f, resp |-> jobs[r].resp]
  BY DEF Service!AnswerOf, Results
<1>3. Service!Answer(r)
  BY <1>1, <1>2 DEF Service!Answer, Serve, Results
<1>4. QED
  BY <1>3 DEF Service!Next

(* A completion report of a dispatched row is Record or a stutter. *)
LEMMA CompleteSeen ==
    ASSUME StoreInv, NEW r, NEW f, Dispatched(jobs, r, f), NEW ok, Complete(r, ok, f),
           UNCHANGED served
    PROVE  Service!Next \/ Stutter
<1>1. r \in ReqIDs
  BY DEF Dispatched, Known
<1>2. CASE MarkSucceeded(r, f)
  BY <1>2, RecordSeen
<1>3. CASE MarkFailed(r)
  BY <1>1, <1>3, MarkUnseen DEF Stutter
<1>4. QED
  BY <1>2, <1>3 DEF Complete

-----------------------------------------------------------------------------
(* The steps of DurableJobs. *)

(* Submissions and reads. *)
LEMMA SubmitSeen ==
    ASSUME Inv, NEW r \in ReqIDs, NEW f \in Fps, CreateJob(r, f) \/ ReadJob(r, f)
    PROVE  Service!Next
BY AcceptSeen, AnswerSeen DEF CreateJob, ReadJob, Inv

(* A handler of an execute request. *)
LEMMA HandlerSeen ==
    ASSUME Inv, NEW h \in Handlers, HandlerStep(h)
    PROVE  Service!Next \/ Stutter
<1>0. h \in Actors /\ StoreInv
  BY DEF Actors, Inv
<1>1. ASSUME NEW r \in ReqIDs, NEW f \in Fps,
             BeginNew(h, r, f) \/ BeginRetry(h, r, f) \/ BeginReplay(h, r, f)
      PROVE  Service!Next \/ Stutter
  BY <1>0, <1>1, AcceptSeen, AnswerSeen, NothingSeen
  DEF BeginNew, BeginRetry, BeginReplay, SameRequest
<1>2. ASSUME NEW n \in 0..MaxWorkers, StartExecute(h, n)
      PROVE  Service!Next
  <2>1. Known(jobs, actor[h].id, actor[h].fp) /\ actor[h].id \in ReqIDs
    BY <1>0, <1>2 DEF StartExecute, Inv, ActorOK, Known
  <2>2. clock + LeaseTTL \in Nat
    BY DurableJobsAssumption DEF Inv, ScalarsOK
  <2>3. QED
    BY <1>0, <1>2, <2>1, <2>2, TrySeen DEF StartExecute
<1>3. CASE ExecuteSucceeded(h)
  <2>1. actor[h].resp = actor[h].fp /\ Dispatched(jobs, actor[h].id, actor[h].fp)
    BY <1>0, <1>3 DEF ExecuteSucceeded, Inv, ActorOK, Dispatched
  <2>2. QED
    BY <1>0, <1>3, <2>1, RecordAndAnswerSeen DEF ExecuteSucceeded
<1>4. CASE ExecuteFailed(h)
  <2>1. actor[h].id \in ReqIDs
    BY <1>0, <1>4 DEF ExecuteFailed, Inv, ActorOK, Known
  <2>2. QED
    BY <1>0, <1>4, <2>1, MarkUnseen DEF ExecuteFailed, Stutter
<1>5. CASE StartExecuteFails(h) \/ Cancelled(h)
  BY <1>5, NothingSeen DEF StartExecuteFails, Cancelled
<1>6. QED
  BY <1>1, <1>2, <1>3, <1>4, <1>5 DEF HandlerStep

(* The error path of recovery, after a dispatch or at a graceful stop. *)
LEMMA RecoveryErrorSeen ==
    ASSUME Inv, actor[Recovery].pc # "idle", MarkRecoveryError(actor[Recovery].id),
           UNCHANGED served
    PROVE  Stutter
<1>1. actor[Recovery].id \in ReqIDs
  BY ActorNames DEF Inv, ActorOK, Known
<1>2. QED
  BY <1>1, MarkUnseen DEF MarkRecoveryError, Inv, Stutter

(* The recovery loop. *)
LEMMA RecoverySeen ==
    ASSUME Inv, RecoveryStep
    PROVE  Service!Next \/ Stutter
<1>0. StoreInv
  BY DEF Inv
<1>1. CASE RecoverScan
  BY <1>1, NothingSeen DEF RecoverScan
<1>2. ASSUME NEW s \in batch, RecoverExpired(s) \/ RecoverFails(s)
      PROVE  Stutter
  <2>1. s.id \in ReqIDs
    BY DEF Inv, Known
  <2>2. QED
    BY <1>0, <1>2, <2>1, MarkUnseen, NothingSeen DEF RecoverExpired, RecoverFails, Stutter
<1>3. ASSUME NEW s \in batch, NEW n \in 0..MaxWorkers, RecoverQueued(s, n)
      PROVE  Service!Next
  <2>1. Known(jobs, s.id, s.fp) /\ s.id \in ReqIDs
    BY DEF Inv, Known
  <2>2. scanNow + LeaseTTL \in Nat
    BY DurableJobsAssumption DEF Inv, ScalarsOK
  <2>3. QED
    BY <1>0, <1>3, <2>1, <2>2, TrySeen DEF RecoverQueued
<1>4. CASE RecoverySucceeded
  <2>1. /\ actor[Recovery].resp = actor[Recovery].fp
        /\ Dispatched(jobs, actor[Recovery].id, actor[Recovery].fp)
    BY <1>4, ActorNames DEF RecoverySucceeded, Inv, ActorOK, Dispatched
  <2>2. QED
    BY <1>0, <1>4, <2>1, RecordSeen DEF RecoverySucceeded
<1>5. CASE RecoveryFailed
  BY <1>5, RecoveryErrorSeen DEF RecoveryFailed
<1>6. QED
  BY <1>1, <1>2, <1>3, <1>4, <1>5 DEF RecoveryStep

(* A dispatch neither writes the table nor answers the client. *)
LEMMA DispatchSeen ==
    ASSUME Inv, NEW a \in Actors, DispatchStep(a)
    PROVE  Stutter
BY NothingSeen
DEF DispatchStep, NoCandidates, Refused, Rejected, Forward, Reply, ReplyGarbled,
    TransportError, FinalMarkFails

(* The workers write through the completion callback only. *)
LEMMA WorkerSeen ==
    ASSUME Inv, NEW s \in Slots, WorkerStep(s)
    PROVE  Service!Next \/ Stutter
<1>1. CASE Callback(s) \/ CallbackRepeated(s)
  <2>1. Dispatched(jobs, run[s].id, run[s].fp) /\ StoreInv
    BY <1>1 DEF Callback, CallbackRepeated, Inv, RunOK
  <2>2. QED
    BY <1>1, <2>1, CompleteSeen DEF Callback, CallbackRepeated
<1>2. CASE UNCHANGED <<jobs, served>>
  BY <1>2, NothingSeen
<1>3. QED
  BY <1>1, <1>2
  DEF WorkerStep, Execute, CallbackRejected, CallbackLost, CallbackDelayed, ReplyDropped,
      WorkerCrash

(* Late callbacks, the clock and the end of a master process. *)
LEMMA ProcessSeen ==
    ASSUME Inv, (\E m \in late : LateCallback(m)) \/ Tick \/ Crash \/ GracefulStop \/ Exit
    PROVE  Service!Next \/ Stutter
<1>1. ASSUME NEW m \in late, LateCallback(m)
      PROVE  Service!Next \/ Stutter
  <2>1. Dispatched(jobs, m.id, m.fp) /\ StoreInv
    BY DEF Inv
  <2>2. QED
    BY <1>1, <2>1, CompleteSeen DEF LateCallback
<1>2. CASE GracefulStop
  BY <1>2, RecoveryErrorSeen DEF GracefulStop
<1>3. CASE Tick \/ Crash \/ Exit
  BY <1>3, NothingSeen DEF Tick, Crash, Exit
<1>4. QED
  BY <1>1, <1>2, <1>3

-----------------------------------------------------------------------------
(* The job handling of the master implements the abstract job service: an  *)
(* accepted request keeps its content, executions are counted first, and a *)
(* result, once stored, is the one of that content, stays and is the only  *)
(* thing clients are given.                                                *)
THEOREM ServiceImplemented == Spec => ImplementsJobService
<1>1. Init => Service!Init
  BY DEF Init, StoreInit, NoJob, Service!Init
<1>2. Inv /\ [Next]_vars => [Service!Next]_(Service!vars)
  <2> SUFFICES ASSUME Inv, [Next]_vars
               PROVE  Service!Next \/ UNCHANGED Service!vars
    OBVIOUS
  <2>1. Stutter => UNCHANGED Service!vars
    BY DEF Stutter, Service!vars, Contents, Tries, Results
  <2>2. CASE UNCHANGED vars
    BY <2>1, <2>2, NothingSeen DEF vars
  <2>3. CASE Next
    BY <2>1, <2>3, SubmitSeen, HandlerSeen, RecoverySeen, DispatchSeen, WorkerSeen, ProcessSeen
    DEF Next
  <2>4. QED
    BY <2>2, <2>3
<1>3. QED
  BY <1>1, <1>2, InvHolds, PTL DEF Spec, ImplementsJobService, Service!Spec
=============================================================================

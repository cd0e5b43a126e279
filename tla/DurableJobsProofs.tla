-------------------------- MODULE DurableJobsProofs --------------------------
(***************************************************************************)
(* Proofs about DurableJobs, for any number of jobs, handlers, workers and *)
(* faults of every kind: what the job store holds is always consistent     *)
(* with itself and with what handlers, recovery and workers are doing.     *)
(***************************************************************************)
EXTENDS DurableJobs, FiniteSetTheorems, TLAPS

(* A row by itself: exactly a dispatching row has a lease, a succeeded row *)
(* has a response, and a response belongs to the row's own request.        *)
RowOK(row) ==
    /\ row \in JobRecord
    /\ row.status = "none" => row.fp = NoFp /\ row.attempt = 0
    /\ row.status # "none" => row.fp \in Fps
    /\ row.resp \in {NoFp, row.fp}
    /\ row.status = "succeeded" => row.resp # NoFp
    /\ row.lease > 0 <=> row.status = "dispatching"

StoreInv ==
    /\ jobs \in [ReqIDs -> JobRecord]
    /\ \A r \in ReqIDs : RowOK(jobs[r])
    /\ updated \in [ReqIDs -> Nat]

(* What every step leaves alone: rows do not vanish, their fingerprint is  *)
(* fixed and their attempt counter never goes back.                        *)
RowsKept ==
    \A q \in ReqIDs : Exists(q) =>
        /\ jobs'[q].status # "none"
        /\ jobs'[q].fp = jobs[q].fp
        /\ jobs'[q].attempt >= jobs[q].attempt

-----------------------------------------------------------------------------
(* The statements of the job store. *)

(* Ranks stay natural numbers. *)
LEMMA TouchType ==
    ASSUME updated \in [ReqIDs -> Nat], NEW r \in ReqIDs, Touch(r)
    PROVE  updated' \in [ReqIDs -> Nat]
<1>1. Cardinality(ReqIDs) \in Nat
  BY FS_CardinalityType, JobStoreAssumption
<1>2. ASSUME NEW q \in ReqIDs
      PROVE  (IF q = r THEN Cardinality(ReqIDs)
              ELSE IF updated[q] > updated[r] THEN updated[q] - 1 ELSE updated[q]) \in Nat
  BY <1>1
<1>3. QED
  BY <1>2 DEF Touch

(* An UPDATE of one row that keeps its fingerprint, does not lower its     *)
(* attempt and leaves a consistent row keeps the store consistent.         *)
LEMMA RowUpdate ==
    ASSUME StoreInv, NEW r \in ReqIDs, NEW row, RowOK(row), Touch(r),
           jobs' = [jobs EXCEPT ![r] = row],
           Exists(r) => /\ row.status # "none"
                        /\ row.fp = jobs[r].fp
                        /\ row.attempt >= jobs[r].attempt
    PROVE  StoreInv' /\ RowsKept
<1>1. updated' \in [ReqIDs -> Nat]
  BY TouchType DEF StoreInv
<1>2. jobs' \in [ReqIDs -> JobRecord]
  BY DEF StoreInv, RowOK
<1>3. \A q \in ReqIDs : jobs'[q] = IF q = r THEN row ELSE jobs[q]
  BY DEF StoreInv
<1>4. \A q \in ReqIDs : RowOK(jobs'[q])
  BY <1>3 DEF StoreInv
<1>5. RowsKept
  BY <1>3 DEF RowsKept, Exists, StoreInv, JobRecord
<1>6. QED
  BY <1>1, <1>2, <1>4, <1>5 DEF StoreInv

(* Create inserts a consistent queued row. *)
LEMMA CreateStep ==
    ASSUME StoreInv, NEW r \in ReqIDs, NEW f \in Fps, Create(r, f)
    PROVE  /\ StoreInv' /\ RowsKept
           /\ jobs'[r].status = "queued" /\ jobs'[r].fp = f /\ jobs'[r].attempt = 0
<1> DEFINE row == NewJobRecord(f)
<1>1. RowOK(row) /\ row.status = "queued" /\ row.fp = f /\ row.attempt = 0
  BY JobStoreAssumption DEF RowOK, JobRecord, JobStatus, NewJobRecord
<1> HIDE DEF row
<1>2. jobs' = [jobs EXCEPT ![r] = row] /\ Touch(r) /\ ~Exists(r)
  BY DEF Create, row
<1>3. jobs'[r] = row
  BY <1>2 DEF StoreInv
<1>4. QED
  BY <1>1, <1>2, <1>3, RowUpdate

(* MarkQueued leaves a consistent row without a lease. *)
LEMMA MarkQueuedStep ==
    ASSUME StoreInv, NEW r \in ReqIDs, Exists(r), MarkQueued(r)
    PROVE  /\ StoreInv' /\ RowsKept
           /\ jobs'[r].status = "queued" /\ jobs'[r].attempt = jobs[r].attempt
<1> DEFINE row == [jobs[r] EXCEPT !.status = "queued", !.lease = 0]
<1>1. jobs[r] \in JobRecord /\ RowOK(jobs[r])
  BY DEF StoreInv
<1>2. jobs' = [jobs EXCEPT ![r] = row] /\ Touch(r)
  BY DEF MarkQueued
<1>3. /\ row \in JobRecord
      /\ row.status = "queued" /\ row.lease = 0
      /\ row.fp = jobs[r].fp /\ row.resp = jobs[r].resp /\ row.attempt = jobs[r].attempt
  BY <1>1 DEF JobRecord, JobStatus
<1> HIDE DEF row
<1>4. RowOK(row)
  BY <1>1, <1>3 DEF RowOK, Exists
<1>5. jobs'[r] = row
  BY <1>2 DEF StoreInv
<1>6. row.attempt >= jobs[r].attempt
  BY <1>1, <1>3 DEF JobRecord
<1>7. QED
  BY <1>1, <1>2, <1>3, <1>4, <1>5, <1>6, RowUpdate DEF JobRecord

(* MarkFailed leaves a consistent row without a lease. *)
LEMMA MarkFailedStep ==
    ASSUME StoreInv, NEW r \in ReqIDs, Exists(r), MarkFailed(r)
    PROVE  /\ StoreInv' /\ RowsKept
           /\ jobs'[r].status = "failed" /\ jobs'[r].attempt = jobs[r].attempt
<1> DEFINE row == [jobs[r] EXCEPT !.status = "failed", !.lease = 0]
<1>1. jobs[r] \in JobRecord /\ RowOK(jobs[r])
  BY DEF StoreInv
<1>2. jobs' = [jobs EXCEPT ![r] = row] /\ Touch(r)
  BY DEF MarkFailed
<1>3. /\ row \in JobRecord
      /\ row.status = "failed" /\ row.lease = 0
      /\ row.fp = jobs[r].fp /\ row.resp = jobs[r].resp /\ row.attempt = jobs[r].attempt
  BY <1>1 DEF JobRecord, JobStatus
<1> HIDE DEF row
<1>4. RowOK(row)
  BY <1>1, <1>3 DEF RowOK, Exists
<1>5. jobs'[r] = row
  BY <1>2 DEF StoreInv
<1>6. row.attempt >= jobs[r].attempt
  BY <1>1, <1>3 DEF JobRecord
<1>7. QED
  BY <1>1, <1>2, <1>3, <1>4, <1>5, <1>6, RowUpdate DEF JobRecord

(* MarkAmbiguous leaves a consistent row without a lease. *)
LEMMA MarkAmbiguousStep ==
    ASSUME StoreInv, NEW r \in ReqIDs, Exists(r), MarkAmbiguous(r)
    PROVE  /\ StoreInv' /\ RowsKept
           /\ jobs'[r].status = "ambiguous" /\ jobs'[r].attempt = jobs[r].attempt
<1> DEFINE row == [jobs[r] EXCEPT !.status = "ambiguous", !.lease = 0]
<1>1. jobs[r] \in JobRecord /\ RowOK(jobs[r])
  BY DEF StoreInv
<1>2. jobs' = [jobs EXCEPT ![r] = row] /\ Touch(r)
  BY DEF MarkAmbiguous
<1>3. /\ row \in JobRecord
      /\ row.status = "ambiguous" /\ row.lease = 0
      /\ row.fp = jobs[r].fp /\ row.resp = jobs[r].resp /\ row.attempt = jobs[r].attempt
  BY <1>1 DEF JobRecord, JobStatus
<1> HIDE DEF row
<1>4. RowOK(row)
  BY <1>1, <1>3 DEF RowOK, Exists
<1>5. jobs'[r] = row
  BY <1>2 DEF StoreInv
<1>6. row.attempt >= jobs[r].attempt
  BY <1>1, <1>3 DEF JobRecord
<1>7. QED
  BY <1>1, <1>2, <1>3, <1>4, <1>5, <1>6, RowUpdate DEF JobRecord

(* MarkDispatching counts the attempt and sets the lease. *)
LEMMA MarkDispatchingStep ==
    ASSUME StoreInv, NEW r \in ReqIDs, Exists(r), NEW until \in Nat \ {0},
           MarkDispatching(r, until)
    PROVE  /\ StoreInv' /\ RowsKept
           /\ jobs'[r].attempt = jobs[r].attempt + 1 /\ jobs'[r].attempt > 0
<1> DEFINE row == [jobs[r] EXCEPT !.status = "dispatching", !.attempt = @ + 1, !.lease = until]
<1>1. jobs[r] \in JobRecord /\ RowOK(jobs[r])
  BY DEF StoreInv
<1>2. jobs' = [jobs EXCEPT ![r] = row] /\ Touch(r)
  BY DEF MarkDispatching
<1>3. /\ row \in JobRecord
      /\ row.status = "dispatching" /\ row.lease = until
      /\ row.fp = jobs[r].fp /\ row.resp = jobs[r].resp /\ row.attempt = jobs[r].attempt + 1
  <2>1. /\ jobs[r].attempt + 1 \in Nat /\ until \in Nat
        /\ "dispatching" \in JobStatus \cup {"none"}
    BY <1>1 DEF JobRecord, JobStatus
  <2>2. row \in JobRecord
    BY <1>1, <2>1 DEF JobRecord
  <2>3. QED
    BY <1>1, <2>2 DEF JobRecord
<1> HIDE DEF row
<1>4. RowOK(row)
  BY <1>1, <1>3 DEF RowOK, Exists
<1>5. jobs'[r] = row
  BY <1>2 DEF StoreInv
<1>6. row.attempt >= jobs[r].attempt
  BY <1>1, <1>3 DEF JobRecord
<1>7. jobs'[r].attempt = jobs[r].attempt + 1 /\ jobs'[r].attempt > 0
  BY <1>1, <1>3, <1>5 DEF JobRecord
<1>8. StoreInv' /\ RowsKept
  BY <1>2, <1>3, <1>4, <1>6, RowUpdate
<1>9. QED
  BY <1>7, <1>8

(* MarkSucceeded with the row's own response leaves a row that can be replayed. *)
LEMMA MarkSucceededStep ==
    ASSUME StoreInv, NEW r \in ReqIDs, Exists(r), NEW response \in Fps,
           response = jobs[r].fp, MarkSucceeded(r, response)
    PROVE  /\ StoreInv' /\ RowsKept
           /\ jobs'[r].status = "succeeded" /\ jobs'[r].attempt = jobs[r].attempt
<1> DEFINE row == [jobs[r] EXCEPT !.status = "succeeded", !.lease = 0, !.resp = response]
<1>1. jobs[r] \in JobRecord /\ RowOK(jobs[r])
  BY DEF StoreInv
<1>2. jobs' = [jobs EXCEPT ![r] = row] /\ Touch(r)
  BY DEF MarkSucceeded
<1>3. /\ row \in JobRecord
      /\ row.status = "succeeded" /\ row.lease = 0
      /\ row.fp = jobs[r].fp /\ row.resp = response /\ row.attempt = jobs[r].attempt
  BY <1>1 DEF JobRecord, JobStatus
<1> HIDE DEF row
<1>4. RowOK(row)
  BY <1>1, <1>3, JobStoreAssumption DEF RowOK, Exists
<1>5. jobs'[r] = row
  BY <1>2 DEF StoreInv
<1>6. row.attempt >= jobs[r].attempt
  BY <1>1, <1>3 DEF JobRecord
<1>7. QED
  BY <1>1, <1>2, <1>3, <1>4, <1>5, <1>6, RowUpdate DEF JobRecord

-----------------------------------------------------------------------------
(* The inductive invariant. *)

ActorType ==
    [pc: {"idle", "mark", "select", "wait", "ok", "err", "stopped"},
     id: ReqIDs \cup {NoID}, fp: Fps \cup {NoFp}, left: Nat,
     slot: Slots \cup {NoSlot}, resp: Fps \cup {NoFp}]

RunType ==
    [phase: {"free", "running", "report", "reply"},
     id: ReqIDs \cup {NoID}, fp: Fps \cup {NoFp}, ok: BOOLEAN]

BatchType ==
    [id: ReqIDs, fp: Fps, status: {"queued", "dispatching"}, attempt: Nat, rank: Nat]

LateType == [id: ReqIDs, ok: BOOLEAN, fp: Fps]

ServedType == [id: ReqIDs, asked: Fps, resp: Fps]

(* The table j has a row for request r with content f. *)
Known(j, r, f) == r \in ReqIDs /\ f \in Fps /\ j[r].status # "none" /\ j[r].fp = f

(* ... and it counts an attempt. *)
Dispatched(j, r, f) == Known(j, r, f) /\ j[r].attempt > 0

(* What a handler or recovery relies on, at each point of its program. *)
ActorOK(x, j, w) ==
    /\ x.pc # "idle" => Known(j, x.id, x.fp)
    /\ x.pc \in {"select", "wait", "ok", "err"} => j[x.id].attempt > 0
    /\ x.pc = "ok" => x.resp = x.fp
    /\ x.pc = "wait" =>
        /\ x.left > 0
        /\ x.slot \in Slots
        /\ w[x.slot].phase # "free"
        /\ w[x.slot].id = x.id
        /\ w[x.slot].fp = x.fp

RunOK(x, j) == x.phase # "free" => Dispatched(j, x.id, x.fp)

ScalarsOK == scanNow \in Nat \ {0} /\ tried \in Nat /\ clock \in Nat \ {0} /\ faults \in Nat

Inv ==
    /\ StoreInv
    /\ actor \in [Actors -> ActorType]
    /\ run \in [Slots -> RunType]
    /\ \A a \in Actors : ActorOK(actor[a], jobs, run)
    /\ \A a, b \in Actors :
        actor[a].pc = "wait" /\ actor[b].pc = "wait" /\ actor[a].slot = actor[b].slot => a = b
    /\ \A s \in Slots : RunOK(run[s], jobs)
    /\ \A b \in batch : b \in BatchType /\ Known(jobs, b.id, b.fp)
    /\ \A m \in late : m \in LateType /\ Dispatched(jobs, m.id, m.fp)
    /\ \A c \in served : c \in ServedType /\ c.resp = c.asked
    /\ ScalarsOK

(* The four parts of the new state, as far as the invariant is concerned.  *)
(* Nobody starts to wait in a step that ActorsFollow describes.            *)
ActorsFollow ==
    /\ actor' \in [Actors -> ActorType]
    /\ \A a \in Actors :
        \/ /\ actor'[a] = actor[a]
           /\ actor[a].pc = "wait" =>
                /\ run'[actor[a].slot].phase # "free"
                /\ run'[actor[a].slot].id = run[actor[a].slot].id
                /\ run'[actor[a].slot].fp = run[actor[a].slot].fp
        \/ actor'[a].pc # "wait" /\ ActorOK(actor'[a], jobs', run')

RunsFollow ==
    /\ run' \in [Slots -> RunType]
    /\ \A s \in Slots :
        \/ run'[s].phase = "free"
        \/ run[s].phase # "free" /\ run'[s].id = run[s].id /\ run'[s].fp = run[s].fp

BatchFollows ==
    \A b \in batch' : b \in batch \/ (b \in BatchType /\ Known(jobs', b.id, b.fp))

LateFollows ==
    \A m \in late' : m \in late \/ (m \in LateType /\ Dispatched(jobs', m.id, m.fp))

ServedFollows ==
    \A c \in served' : c \in served \/ (c \in ServedType /\ c.resp = c.asked)

StoreFollows == StoreInv' /\ RowsKept

(* A step that leaves the table alone keeps it consistent. *)
LEMMA StoreUnchanged ==
    ASSUME StoreInv, UNCHANGED <<jobs, updated>>
    PROVE  StoreFollows
<1>1. StoreInv'
  BY DEF StoreInv
<1>2. RowsKept
  BY DEF RowsKept, Exists, StoreInv, JobRecord
<1>3. QED
  BY <1>1, <1>2 DEF StoreFollows

(* What holds of a row keeps holding of it. *)
LEMMA KnownKept ==
    ASSUME StoreInv, StoreFollows, NEW r, NEW f
    PROVE  /\ Known(jobs, r, f) => Known(jobs', r, f)
           /\ Dispatched(jobs, r, f) => Dispatched(jobs', r, f)
<1>1. Known(jobs, r, f) => Known(jobs', r, f) /\ jobs'[r].attempt >= jobs[r].attempt
  BY DEF Known, StoreFollows, RowsKept, Exists
<1>2. r \in ReqIDs => jobs[r].attempt \in Nat /\ jobs'[r].attempt \in Nat
  BY DEF StoreInv, StoreFollows, JobRecord
<1>3. Dispatched(jobs, r, f) => Dispatched(jobs', r, f)
  <2> SUFFICES ASSUME Dispatched(jobs, r, f) PROVE Dispatched(jobs', r, f)
    OBVIOUS
  <2>1. Known(jobs, r, f) /\ r \in ReqIDs /\ jobs[r].attempt > 0
    BY DEF Dispatched, Known
  <2>2. jobs'[r].attempt > 0
    BY <1>1, <1>2, <2>1
  <2>3. QED
    BY <1>1, <2>1, <2>2 DEF Dispatched
<1>4. QED
  BY <1>1, <1>3

(* The invariant from its parts. *)
LEMMA Assemble ==
    ASSUME Inv, StoreFollows, ActorsFollow, RunsFollow, BatchFollows, LateFollows,
           ServedFollows, ScalarsOK'
    PROVE  Inv'
<1>1. StoreInv
  BY DEF Inv
<1>2. ASSUME NEW a \in Actors
      PROVE  ActorOK(actor'[a], jobs', run')
  <2>1. CASE actor'[a].pc # "wait" /\ ActorOK(actor'[a], jobs', run')
    BY <2>1
  <2>2. CASE /\ actor'[a] = actor[a]
             /\ actor[a].pc = "wait" =>
                  /\ run'[actor[a].slot].phase # "free"
                  /\ run'[actor[a].slot].id = run[actor[a].slot].id
                  /\ run'[actor[a].slot].fp = run[actor[a].slot].fp
    <3> DEFINE x == actor[a]
    <3>1. ActorOK(x, jobs, run)
      BY DEF Inv
    <3> HIDE DEF x
    <3>2. x.pc # "idle" => Known(jobs', x.id, x.fp)
      BY <1>1, <3>1, KnownKept DEF ActorOK
    <3>3. x.pc \in {"select", "wait", "ok", "err"} => Dispatched(jobs', x.id, x.fp)
      <4>1. x.pc \in {"select", "wait", "ok", "err"} => Dispatched(jobs, x.id, x.fp)
        BY <3>1 DEF ActorOK, Dispatched
      <4>2. QED
        BY <1>1, <4>1, KnownKept
    <3>4. ActorOK(x, jobs', run')
      BY <2>2, <3>1, <3>2, <3>3 DEF ActorOK, Dispatched, x
    <3>5. QED
      BY <2>2, <3>4 DEF x
  <2>3. QED
    BY <2>1, <2>2 DEF ActorsFollow
<1>3. ASSUME NEW a \in Actors, NEW b \in Actors,
             actor'[a].pc = "wait", actor'[b].pc = "wait", actor'[a].slot = actor'[b].slot
      PROVE  a = b
  BY <1>3 DEF ActorsFollow, Inv
<1>4. ASSUME NEW s \in Slots
      PROVE  RunOK(run'[s], jobs')
  <2>1. RunOK(run[s], jobs)
    BY DEF Inv
  <2>2. run[s].phase # "free" => Dispatched(jobs', run[s].id, run[s].fp)
    BY <1>1, <2>1, KnownKept DEF RunOK
  <2>3. QED
    BY <2>2 DEF RunOK, RunsFollow
<1>5. \A b \in batch' : b \in BatchType /\ Known(jobs', b.id, b.fp)
  BY <1>1, KnownKept DEF BatchFollows, Inv
<1>6. \A m \in late' : m \in LateType /\ Dispatched(jobs', m.id, m.fp)
  BY <1>1, KnownKept DEF LateFollows, Inv
<1>7. \A c \in served' : c \in ServedType /\ c.resp = c.asked
  BY DEF ServedFollows, Inv
<1>8. QED
  BY <1>2, <1>3, <1>4, <1>5, <1>6, <1>7 DEF Inv, StoreFollows, ActorsFollow, RunsFollow

(* The parts that a step leaves alone. *)
LEMMA Unchanged ==
    ASSUME Inv
    PROVE  /\ UNCHANGED <<actor, run>> => ActorsFollow
           /\ UNCHANGED run => RunsFollow
           /\ UNCHANGED batch => BatchFollows
           /\ UNCHANGED late => LateFollows
           /\ UNCHANGED served => ServedFollows
<1>1. UNCHANGED <<actor, run>> => ActorsFollow
  BY DEF Inv, ActorsFollow, ActorOK
<1>2. UNCHANGED run => RunsFollow
  BY DEF Inv, RunsFollow
<1>3. QED
  BY <1>1, <1>2 DEF BatchFollows, LateFollows, ServedFollows

(* Only actor a changes, and it is not waiting afterwards. *)
LEMMA OneActorFollows ==
    ASSUME Inv, NEW a \in Actors, NEW x \in ActorType, x.pc # "wait",
           ActorOK(x, jobs', run'), actor' = [actor EXCEPT ![a] = x],
           \A b \in Actors \ {a} : actor[b].pc = "wait" =>
                run'[actor[b].slot] = run[actor[b].slot]
    PROVE  ActorsFollow
<1>1. actor' \in [Actors -> ActorType]
  BY DEF Inv
<1>2. \A b \in Actors : actor'[b] = IF b = a THEN x ELSE actor[b]
  BY DEF Inv
<1>3. ASSUME NEW b \in Actors, b # a, actor[b].pc = "wait"
      PROVE  run'[actor[b].slot].phase # "free" /\ run'[actor[b].slot] = run[actor[b].slot]
  BY <1>3 DEF Inv, ActorOK
<1>4. QED
  BY <1>1, <1>2, <1>3 DEF ActorsFollow

-----------------------------------------------------------------------------
(* Facts about the building blocks of the actions. *)

(* A process that has let go of its request relies on nothing. *)
LEMMA IdleOK ==
    ASSUME NEW j, NEW w
    PROVE  ActorIdle \in ActorType /\ ActorIdle.pc = "idle" /\ ActorOK(ActorIdle, j, w)
BY DEF ActorIdle, ActorType, ActorOK

(* A process becomes idle. *)
LEMMA BecomesIdle ==
    ASSUME Inv, NEW a \in Actors, actor' = [actor EXCEPT ![a] = ActorIdle], UNCHANGED run
    PROVE  ActorsFollow
BY IdleOK, OneActorFollows

(* Every process becomes idle. *)
LEMMA AllIdle ==
    ASSUME actor' = [a \in Actors |-> ActorIdle]
    PROVE  ActorsFollow
BY IdleOK DEF ActorsFollow

(* A client is served the response to its own request. *)
LEMMA ServeOK ==
    ASSUME NEW r \in ReqIDs, NEW f \in Fps, Serve(r, f, f)
    PROVE  ServedFollows
BY DEF Serve, ServedFollows, ServedType

(* The row of a known request exists. *)
LEMMA KnownExists ==
    ASSUME NEW r, NEW f, Known(jobs, r, f)
    PROVE  r \in ReqIDs /\ f \in Fps /\ Exists(r) /\ jobs[r].fp = f
BY DEF Known, Exists

(* handleJobCompletion keeps the store consistent. *)
LEMMA CompletionOK ==
    ASSUME StoreInv, NEW r, NEW f, Known(jobs, r, f), NEW ok, Complete(r, ok, f)
    PROVE  StoreFollows
<1>1. r \in ReqIDs /\ f \in Fps /\ Exists(r) /\ jobs[r].fp = f
  BY KnownExists
<1>2. CASE ok
  BY <1>1, <1>2, MarkSucceededStep DEF Complete, StoreFollows
<1>3. CASE ~ok
  BY <1>1, <1>3, MarkFailedStep DEF Complete, StoreFollows
<1>4. QED
  BY <1>2, <1>3

(* markRecoveryError keeps the store consistent. *)
LEMMA RecoveryErrorOK ==
    ASSUME StoreInv, NEW r, NEW f, Known(jobs, r, f), MarkRecoveryError(r)
    PROVE  StoreFollows
<1>1. r \in ReqIDs /\ Exists(r)
  BY KnownExists
<1>2. MarkFailed(r) \/ MarkQueued(r)
  BY DEF MarkRecoveryError
<1>3. QED
  BY <1>1, <1>2, MarkFailedStep, MarkQueuedStep DEF StoreFollows

(* Recovery is one of the processes, and so is every handler. *)
LEMMA ActorNames == Recovery \in Actors /\ \A h \in Handlers : h \in Actors
BY DEF Actors

-----------------------------------------------------------------------------
(* Gateway. *)

(* Submissions and reads preserve the invariant. *)
LEMMA SubmitStep ==
    ASSUME Inv, NEW r \in ReqIDs, NEW f \in Fps, CreateJob(r, f) \/ ReadJob(r, f)
    PROVE  Inv'
<1>1. CASE CreateJob(r, f)
  <2>1. StoreFollows
    BY <1>1, CreateStep DEF CreateJob, Inv, StoreFollows
  <2>2. QED
    BY <1>1, <2>1, Unchanged, Assemble DEF CreateJob, Inv, ScalarsOK
<1>2. CASE ReadJob(r, f)
  <2>1. jobs[r].resp = f
    BY <1>2, JobStoreAssumption DEF ReadJob, Inv, StoreInv, RowOK
  <2>2. ServedFollows
    BY <1>2, <2>1, ServeOK DEF ReadJob
  <2>3. StoreFollows
    BY <1>2, StoreUnchanged DEF ReadJob, Inv
  <2>4. QED
    BY <1>2, <2>2, <2>3, Unchanged, Assemble DEF ReadJob, Inv, ScalarsOK
<1>3. QED
  BY <1>1, <1>2

(* A process takes up request r with content f. *)
LEMMA TakesUp ==
    ASSUME Inv, NEW a \in Actors, NEW r, NEW f, Known(jobs', r, f), UNCHANGED run,
           actor' = [actor EXCEPT ![a].pc = "mark", ![a].id = r, ![a].fp = f]
    PROVE  ActorsFollow
<1> DEFINE x == [actor[a] EXCEPT !.pc = "mark", !.id = r, !.fp = f]
<1>1. r \in ReqIDs /\ f \in Fps
  BY DEF Known
<1>2. actor' = [actor EXCEPT ![a] = x]
  OBVIOUS
<1>3. actor[a] \in ActorType
  BY DEF Inv
<1>4. x \in ActorType /\ x.pc = "mark" /\ x.id = r /\ x.fp = f
  BY <1>1, <1>3 DEF ActorType
<1> HIDE DEF x
<1>5. ActorOK(x, jobs', run')
  BY <1>4 DEF ActorOK
<1>6. QED
  BY <1>2, <1>4, <1>5, OneActorFollows

(* beginDurableJob preserves the invariant. *)
LEMMA BeginStep ==
    ASSUME Inv, NEW h \in Handlers, NEW r \in ReqIDs, NEW f \in Fps,
           BeginNew(h, r, f) \/ BeginRetry(h, r, f) \/ BeginReplay(h, r, f)
    PROVE  Inv'
<1>1. CASE BeginNew(h, r, f)
  <2>1. StoreFollows /\ Known(jobs', r, f)
    BY <1>1, CreateStep DEF BeginNew, Inv, StoreFollows, Known
  <2>2. ActorsFollow
    BY <1>1, <2>1, TakesUp, ActorNames DEF BeginNew
  <2>3. QED
    BY <1>1, <2>1, <2>2, Unchanged, Assemble DEF BeginNew, Inv, ScalarsOK
<1>2. CASE BeginRetry(h, r, f)
  <2>1. StoreFollows
    BY <1>2, StoreUnchanged DEF BeginRetry, Inv
  <2>2. Known(jobs', r, f)
    BY <1>2 DEF BeginRetry, SameRequest, Known, Exists
  <2>3. ActorsFollow
    BY <1>2, <2>2, TakesUp, ActorNames DEF BeginRetry
  <2>4. QED
    BY <1>2, <2>1, <2>3, Unchanged, Assemble DEF BeginRetry, Inv, ScalarsOK
<1>3. CASE BeginReplay(h, r, f)
  <2>1. jobs[r].resp = f
    BY <1>3 DEF BeginReplay, SameRequest, Inv, StoreInv, RowOK
  <2>2. ServedFollows
    BY <1>3, <2>1, ServeOK DEF BeginReplay
  <2>3. StoreFollows
    BY <1>3, StoreUnchanged DEF BeginReplay, Inv
  <2>4. QED
    BY <1>3, <2>2, <2>3, Unchanged, Assemble DEF BeginReplay, Inv, ScalarsOK
<1>4. QED
  BY <1>1, <1>2, <1>3

(* executeDurable up to the dispatch preserves the invariant. *)
LEMMA StartExecuteStep ==
    ASSUME Inv, NEW h \in Handlers, NEW n \in Nat, StartExecute(h, n)
    PROVE  Inv'
<1> DEFINE x == [actor[h] EXCEPT !.pc = "select", !.left = n]
           r == actor[h].id
<1>1. h \in Actors /\ actor[h] \in ActorType /\ ActorOK(actor[h], jobs, run)
  BY ActorNames DEF Inv
<1>2. Known(jobs, r, actor[h].fp)
  BY <1>1 DEF StartExecute, ActorOK
<1>3. clock + LeaseTTL \in Nat \ {0}
  BY DurableJobsAssumption DEF Inv, ScalarsOK
<1>4. StoreFollows /\ jobs'[r].attempt > 0
  BY <1>2, <1>3, KnownExists, MarkDispatchingStep DEF StartExecute, Inv, StoreFollows
<1>5. Known(jobs', r, actor[h].fp)
  BY <1>2, <1>4, KnownKept DEF Inv
<1>6. actor' = [actor EXCEPT ![h] = x]
  BY DEF StartExecute, EnterDispatch
<1>7. x \in ActorType /\ x.pc = "select" /\ x.id = r /\ x.fp = actor[h].fp
  BY <1>1 DEF ActorType
<1> HIDE DEF x
<1>8. ActorOK(x, jobs', run')
  BY <1>4, <1>5, <1>7 DEF ActorOK
<1>9. ActorsFollow
  BY <1>1, <1>6, <1>7, <1>8, OneActorFollows DEF StartExecute
<1>10. QED
  BY <1>4, <1>9, Unchanged, Assemble DEF StartExecute, Inv, ScalarsOK

(* The other ends of an execute handler preserve the invariant. *)
LEMMA HandlerEndStep ==
    ASSUME Inv, NEW h \in Handlers,
           StartExecuteFails(h) \/ ExecuteSucceeded(h) \/ ExecuteFailed(h)
    PROVE  Inv'
<1>1. h \in Actors /\ ActorOK(actor[h], jobs, run)
  BY ActorNames DEF Inv
<1>2. Known(jobs, actor[h].id, actor[h].fp)
  BY <1>1 DEF StartExecuteFails, ExecuteSucceeded, ExecuteFailed, ActorOK
<1>3. actor' = [actor EXCEPT ![h] = ActorIdle] /\ UNCHANGED run
  BY DEF StartExecuteFails, ExecuteSucceeded, ExecuteFailed
<1>4. ActorsFollow
  BY <1>1, <1>3, BecomesIdle
<1>5. CASE StartExecuteFails(h)
  <2>1. StoreFollows
    BY <1>5, StoreUnchanged DEF StartExecuteFails, Inv
  <2>2. ScalarsOK'
    BY <1>5 DEF StartExecuteFails, Fault, Inv, ScalarsOK
  <2>3. QED
    BY <1>4, <1>5, <2>1, <2>2, Unchanged, Assemble DEF StartExecuteFails
<1>6. CASE ExecuteSucceeded(h)
  <2>1. actor[h].resp = actor[h].fp
    BY <1>1, <1>6 DEF ExecuteSucceeded, ActorOK
  <2>2. StoreFollows
    BY <1>2, <1>6, <2>1, KnownExists, MarkSucceededStep DEF ExecuteSucceeded, Inv, StoreFollows
  <2>3. ServedFollows
    BY <1>2, <1>6, <2>1, KnownExists, ServeOK DEF ExecuteSucceeded
  <2>4. QED
    BY <1>4, <1>6, <2>2, <2>3, Unchanged, Assemble DEF ExecuteSucceeded, Inv, ScalarsOK
<1>7. CASE ExecuteFailed(h)
  <2>1. StoreFollows
    BY <1>2, <1>7, KnownExists, MarkFailedStep DEF ExecuteFailed, Inv, StoreFollows
  <2>2. QED
    BY <1>4, <1>7, <2>1, Unchanged, Assemble DEF ExecuteFailed, Inv, ScalarsOK
<1>8. QED
  BY <1>5, <1>6, <1>7

-----------------------------------------------------------------------------
(* Recovery. *)

(* A scan preserves the invariant: it copies rows that exist. *)
LEMMA RecoverScanStep ==
    ASSUME Inv, RecoverScan
    PROVE  Inv'
<1>1. ASSUME NEW r \in ListRecoverable(clock, BatchSize)
      PROVE  Snapshot(r) \in BatchType /\ Known(jobs', Snapshot(r).id, Snapshot(r).fp)
  <2>1. r \in ReqIDs /\ jobs[r].status \in {"queued", "dispatching"}
    BY <1>1 DEF ListRecoverable, Recoverable
  <2>2. RowOK(jobs[r]) /\ jobs[r] \in JobRecord /\ updated[r] \in Nat
    BY <2>1 DEF Inv, StoreInv
  <2>3. jobs[r].fp \in Fps
    BY <2>1, <2>2 DEF RowOK
  <2>4. Snapshot(r) \in BatchType
    BY <2>1, <2>2, <2>3 DEF Snapshot, BatchType, JobRecord
  <2>5. Known(jobs', r, jobs[r].fp)
    BY <2>1, <2>3 DEF RecoverScan, Known
  <2>6. QED
    BY <2>4, <2>5 DEF Snapshot
<1>2. BatchFollows
  BY <1>1 DEF RecoverScan, BatchFollows
<1>3. StoreFollows
  BY StoreUnchanged DEF RecoverScan, Inv
<1>4. QED
  BY <1>2, <1>3, Unchanged, Assemble DEF RecoverScan, Inv, ScalarsOK

(* The rows of a scan that are only marked, or whose statement fails.      *)
LEMMA RecoverMarkStep ==
    ASSUME Inv, NEW s \in batch, RecoverExpired(s) \/ RecoverFails(s)
    PROVE  Inv'
<1>1. Known(jobs, s.id, s.fp)
  BY DEF Inv
<1>2. BatchFollows
  BY DEF RecoverExpired, RecoverFails, BatchFollows
<1>3. CASE RecoverExpired(s)
  <2>1. StoreFollows
    BY <1>1, <1>3, KnownExists, MarkAmbiguousStep DEF RecoverExpired, Inv, StoreFollows
  <2>2. QED
    BY <1>2, <1>3, <2>1, Unchanged, Assemble DEF RecoverExpired, Inv, ScalarsOK
<1>4. CASE RecoverFails(s)
  <2>1. StoreFollows
    BY <1>4, StoreUnchanged DEF RecoverFails, Inv
  <2>2. ScalarsOK'
    BY <1>4 DEF RecoverFails, Fault, Inv, ScalarsOK
  <2>3. QED
    BY <1>2, <1>4, <2>1, <2>2, Unchanged, Assemble DEF RecoverFails
<1>5. QED
  BY <1>3, <1>4

(* Recovery takes up a queued row. *)
LEMMA RecoverQueuedStep ==
    ASSUME Inv, NEW s \in batch, NEW n \in Nat, RecoverQueued(s, n)
    PROVE  Inv'
<1> DEFINE x == [actor[Recovery] EXCEPT !.pc = "select", !.left = n, !.id = s.id, !.fp = s.fp]
<1>1. Known(jobs, s.id, s.fp) /\ s \in BatchType /\ actor[Recovery] \in ActorType
  BY ActorNames DEF Inv
<1>2. scanNow + LeaseTTL \in Nat \ {0}
  BY DurableJobsAssumption DEF Inv, ScalarsOK
<1>3. StoreFollows /\ jobs'[s.id].attempt > 0
  BY <1>1, <1>2, KnownExists, MarkDispatchingStep DEF RecoverQueued, Inv, StoreFollows
<1>4. Known(jobs', s.id, s.fp)
  BY <1>1, <1>3, KnownKept DEF Inv
<1>5. actor' = [actor EXCEPT ![Recovery] = x]
  BY ActorNames DEF RecoverQueued, EnterDispatch, Inv
<1>6. x \in ActorType /\ x.pc = "select" /\ x.id = s.id /\ x.fp = s.fp
  BY <1>1 DEF ActorType, BatchType
<1> HIDE DEF x
<1>7. ActorOK(x, jobs', run')
  BY <1>3, <1>4, <1>6 DEF ActorOK
<1>8. ActorsFollow
  BY <1>5, <1>6, <1>7, ActorNames, OneActorFollows DEF RecoverQueued
<1>9. BatchFollows
  BY DEF RecoverQueued, BatchFollows
<1>10. ScalarsOK'
  BY <1>1 DEF RecoverQueued, Inv, ScalarsOK, BatchType
<1>11. QED
  BY <1>3, <1>8, <1>9, <1>10, Unchanged, Assemble DEF RecoverQueued

(* The end of a recovery dispatch preserves the invariant. *)
LEMMA RecoveryEndStep ==
    ASSUME Inv, RecoverySucceeded \/ RecoveryFailed
    PROVE  Inv'
<1>1. ActorOK(actor[Recovery], jobs, run)
  BY ActorNames DEF Inv
<1>2. Known(jobs, actor[Recovery].id, actor[Recovery].fp)
  BY <1>1 DEF RecoverySucceeded, RecoveryFailed, ActorOK
<1>3. ActorsFollow
  BY BecomesIdle, ActorNames DEF RecoverySucceeded, RecoveryFailed
<1>4. StoreFollows
  <2>1. CASE RecoverySucceeded
    <3>1. actor[Recovery].resp = actor[Recovery].fp
      BY <1>1, <2>1 DEF RecoverySucceeded, ActorOK
    <3>2. QED
      BY <1>2, <2>1, <3>1, KnownExists, MarkSucceededStep
      DEF RecoverySucceeded, Inv, StoreFollows
  <2>2. CASE RecoveryFailed
    BY <1>2, <2>2, RecoveryErrorOK DEF RecoveryFailed, Inv
  <2>3. QED
    BY <2>1, <2>2
<1>5. QED
  BY <1>3, <1>4, Unchanged, Assemble DEF RecoverySucceeded, RecoveryFailed, Inv, ScalarsOK

(* A final statement that fails preserves the invariant. *)
LEMMA FinalMarkFailsStep ==
    ASSUME Inv, NEW a \in Actors, FinalMarkFails(a)
    PROVE  Inv'
<1>1. ActorsFollow
  BY BecomesIdle DEF FinalMarkFails
<1>2. StoreFollows
  BY StoreUnchanged DEF FinalMarkFails, Inv
<1>3. ScalarsOK'
  BY DEF FinalMarkFails, Fault, Inv, ScalarsOK
<1>4. QED
  BY <1>1, <1>2, <1>3, Unchanged, Assemble DEF FinalMarkFails

-----------------------------------------------------------------------------
(* Dispatcher. *)

(* A dispatching process moves on to another point that is not "wait" or   *)
(* "ok", keeping its request, and the runs of the others are untouched.    *)
LEMMA MovesOn ==
    ASSUME Inv, NEW a \in Actors, actor[a].pc \in {"select", "wait"},
           NEW x \in ActorType, x.pc \in {"select", "err"}, x.id = actor[a].id,
           x.fp = actor[a].fp, actor' = [actor EXCEPT ![a] = x], UNCHANGED jobs,
           \A b \in Actors \ {a} : actor[b].pc = "wait" =>
                run'[actor[b].slot] = run[actor[b].slot]
    PROVE  ActorsFollow
<1>1. ActorOK(actor[a], jobs, run)
  BY DEF Inv
<1>2. ActorOK(x, jobs', run')
  BY <1>1 DEF ActorOK
<1>3. QED
  BY <1>2, OneActorFollows

(* The record of a process whose candidate list shrinks. *)
LEMMA NextCandidateType ==
    ASSUME NEW x \in ActorType, x.left > 0
    PROVE  LET y == [x EXCEPT !.pc = "select", !.left = @ - 1, !.slot = NoSlot]
           IN  y \in ActorType /\ y.pc = "select" /\ y.id = x.id /\ y.fp = x.fp
<1>1. x.left - 1 \in Nat
  BY DEF ActorType
<1>2. QED
  BY <1>1 DEF ActorType

(* The record of a process whose dispatch failed. *)
LEMMA ErrType ==
    ASSUME NEW x \in ActorType
    PROVE  /\ LET y == [x EXCEPT !.pc = "err", !.slot = NoSlot]
              IN  y \in ActorType /\ y.pc = "err" /\ y.id = x.id /\ y.fp = x.fp
           /\ LET y == [x EXCEPT !.pc = "err"]
              IN  y \in ActorType /\ y.pc = "err" /\ y.id = x.id /\ y.fp = x.fp
BY DEF ActorType

(* Selection steps, broken connections and cancelled clients preserve the  *)
(* invariant.                                                              *)
LEMMA SelectStep ==
    ASSUME Inv, NEW a \in Actors,
           NoCandidates(a) \/ Rejected(a) \/ Refused(a) \/ TransportError(a) \/ Cancelled(a)
    PROVE  Inv'
<1>1. actor[a] \in ActorType /\ ActorOK(actor[a], jobs, run)
  BY DEF Inv
<1>2. ActorsFollow
  <2>1. CASE NoCandidates(a) \/ Rejected(a)
    <3> DEFINE y == [actor[a] EXCEPT !.pc = "err"]
    <3>1. actor' = [actor EXCEPT ![a] = y]
      BY <2>1 DEF NoCandidates, Rejected
    <3>2. y \in ActorType /\ y.pc = "err" /\ y.id = actor[a].id /\ y.fp = actor[a].fp
      BY <1>1, ErrType
    <3> HIDE DEF y
    <3>3. QED
      BY <2>1, <3>1, <3>2, MovesOn DEF NoCandidates, Rejected
  <2>2. CASE Cancelled(a)
    <3> DEFINE y == [actor[a] EXCEPT !.pc = "err", !.slot = NoSlot]
    <3>1. actor' = [actor EXCEPT ![a] = y]
      BY <2>2 DEF Cancelled
    <3>2. y \in ActorType /\ y.pc = "err" /\ y.id = actor[a].id /\ y.fp = actor[a].fp
      BY <1>1, ErrType
    <3> HIDE DEF y
    <3>3. QED
      BY <2>2, <3>1, <3>2, MovesOn DEF Cancelled
  <2>3. CASE Refused(a) \/ TransportError(a)
    <3> DEFINE y == [actor[a] EXCEPT !.pc = "select", !.left = @ - 1, !.slot = NoSlot]
    <3>1. actor' = [actor EXCEPT ![a] = y]
      BY <2>3 DEF Refused, TransportError, NextCandidate
    <3>2. actor[a].left > 0
      BY <1>1, <2>3 DEF Refused, TransportError, ActorOK
    <3>3. y \in ActorType /\ y.pc = "select" /\ y.id = actor[a].id /\ y.fp = actor[a].fp
      BY <1>1, <3>2, NextCandidateType
    <3> HIDE DEF y
    <3>4. QED
      BY <2>3, <3>1, <3>3, MovesOn DEF Refused, TransportError
  <2>4. QED
    BY <2>1, <2>2, <2>3
<1>3. StoreFollows
  BY StoreUnchanged DEF NoCandidates, Rejected, Refused, TransportError, Cancelled, Inv
<1>4. ScalarsOK'
  BY DEF NoCandidates, Rejected, Refused, TransportError, Cancelled, Fault, Inv, ScalarsOK
<1>5. QED
  BY <1>2, <1>3, <1>4, Unchanged, Assemble
  DEF NoCandidates, Rejected, Refused, TransportError, Cancelled

(* Forwarding preserves the invariant: the new run refers to a row that    *)
(* counts the attempt, and nobody else waits for its slot.                 *)
LEMMA ForwardStep ==
    ASSUME Inv, NEW a \in Actors, NEW s \in Slots, Forward(a, s)
    PROVE  Inv'
<1> DEFINE x == [actor[a] EXCEPT !.pc = "wait", !.slot = s]
           w == [run[s] EXCEPT !.phase = "running", !.id = actor[a].id, !.fp = actor[a].fp]
<1>1. /\ actor[a] \in ActorType /\ ActorOK(actor[a], jobs, run) /\ run[s] \in RunType
      /\ actor[a].pc = "select" /\ actor[a].left > 0 /\ run[s].phase = "free"
  BY DEF Inv, Forward
<1>2. Dispatched(jobs, actor[a].id, actor[a].fp)
  BY <1>1 DEF ActorOK, Dispatched
<1>3. actor' = [actor EXCEPT ![a] = x] /\ run' = [run EXCEPT ![s] = w]
  BY DEF Forward
<1>4. /\ x \in ActorType
      /\ x.pc = "wait" /\ x.slot = s /\ x.left = actor[a].left
      /\ x.id = actor[a].id /\ x.fp = actor[a].fp
  BY <1>1 DEF ActorType
<1>5. w \in RunType /\ w.phase = "running" /\ w.id = actor[a].id /\ w.fp = actor[a].fp
  BY <1>1, <1>2 DEF RunType, Dispatched, Known
<1> HIDE DEF x, w
<1>6. /\ actor' \in [Actors -> ActorType]
      /\ run' \in [Slots -> RunType]
      /\ \A b \in Actors : actor'[b] = IF b = a THEN x ELSE actor[b]
      /\ \A t \in Slots : run'[t] = IF t = s THEN w ELSE run[t]
  BY <1>3, <1>4, <1>5 DEF Inv
<1>7. \A b \in Actors : actor[b].pc = "wait" => actor[b].slot # s
  BY <1>1 DEF Inv, ActorOK
<1>8. UNCHANGED <<jobs, updated, batch, scanNow, tried, late, clock, faults, served>>
  BY DEF Forward
<1>9. ASSUME NEW b \in Actors
      PROVE  ActorOK(actor'[b], jobs', run')
  <2>1. CASE b = a
    BY <1>1, <1>2, <1>4, <1>5, <1>6, <1>8, <2>1 DEF ActorOK, Dispatched
  <2>2. CASE b # a
    <3>1. actor'[b] = actor[b] /\ ActorOK(actor[b], jobs, run)
      BY <1>6, <2>2 DEF Inv
    <3>2. actor[b].pc = "wait" => run'[actor[b].slot] = run[actor[b].slot]
      BY <1>6, <1>7, <3>1 DEF ActorOK
    <3>3. QED
      BY <1>8, <3>1, <3>2 DEF ActorOK
  <2>3. QED
    BY <2>1, <2>2
<1>10. \A b, c \in Actors :
          actor'[b].pc = "wait" /\ actor'[c].pc = "wait" /\ actor'[b].slot = actor'[c].slot
            => b = c
  BY <1>4, <1>6, <1>7 DEF Inv
<1>11. \A t \in Slots : RunOK(run'[t], jobs')
  BY <1>2, <1>5, <1>6, <1>8 DEF RunOK, Inv
<1>12. StoreInv' /\ ScalarsOK'
  BY <1>8 DEF Inv, StoreInv, ScalarsOK
<1>13. QED
  BY <1>6, <1>8, <1>9, <1>10, <1>11, <1>12 DEF Inv

(* A slot that becomes free. *)
LEMMA SlotFreed ==
    ASSUME Inv, NEW s \in Slots, run' = [run EXCEPT ![s] = SlotFree]
    PROVE  RunsFollow /\ \A t \in Slots \ {s} : run'[t] = run[t]
<1>1. SlotFree \in RunType /\ SlotFree.phase = "free"
  BY DEF SlotFree, RunType
<1>2. \A t \in Slots : run'[t] = IF t = s THEN SlotFree ELSE run[t]
  BY DEF Inv
<1>3. run' \in [Slots -> RunType]
  BY <1>1 DEF Inv
<1>4. QED
  BY <1>1, <1>2, <1>3 DEF RunsFollow

(* An answer from a worker preserves the invariant: a success carries the  *)
(* response to the process's own request.                                  *)
LEMMA ReplyStep ==
    ASSUME Inv, NEW a \in Actors, Reply(a) \/ ReplyGarbled(a)
    PROVE  Inv'
<1> DEFINE s == actor[a].slot
<1>1. actor[a] \in ActorType /\ ActorOK(actor[a], jobs, run) /\ actor[a].pc = "wait"
  BY DEF Inv, Reply, ReplyGarbled, Answered
<1>2. s \in Slots /\ run[s].fp = actor[a].fp /\ run[s] \in RunType
  BY <1>1 DEF ActorOK, Inv
<1>3. run' = [run EXCEPT ![s] = SlotFree]
  BY DEF Reply, ReplyGarbled
<1>4. RunsFollow /\ \A t \in Slots \ {s} : run'[t] = run[t]
  BY <1>2, <1>3, SlotFreed
<1>5. \A b \in Actors \ {a} : actor[b].pc = "wait" => run'[actor[b].slot] = run[actor[b].slot]
  BY <1>1, <1>4 DEF Inv, ActorOK
<1>6. UNCHANGED <<jobs, updated, batch, scanNow, tried, late, clock, served>>
  BY DEF Reply, ReplyGarbled
<1>7. ActorsFollow
  <2>1. CASE Reply(a)
    <3> DEFINE y == [actor[a] EXCEPT !.pc = IF run[s].ok THEN "ok" ELSE "err",
                                     !.resp = IF run[s].ok THEN run[s].fp ELSE NoFp,
                                     !.slot = NoSlot]
    <3>1. actor' = [actor EXCEPT ![a] = y]
      BY <2>1 DEF Reply
    <3>2. /\ y \in ActorType
          /\ y.pc = (IF run[s].ok THEN "ok" ELSE "err")
          /\ y.resp = (IF run[s].ok THEN run[s].fp ELSE NoFp)
          /\ y.id = actor[a].id /\ y.fp = actor[a].fp
      <4>1. /\ (IF run[s].ok THEN "ok" ELSE "err") \in {"ok", "err"}
            /\ (IF run[s].ok THEN run[s].fp ELSE NoFp) \in Fps \cup {NoFp}
        BY <1>2 DEF RunType
      <4>2. QED
        BY <1>1, <4>1 DEF ActorType
    <3> HIDE DEF y
    <3>3. y.pc # "wait" /\ ActorOK(y, jobs', run')
      BY <1>1, <1>2, <1>6, <3>2 DEF ActorOK
    <3>4. QED
      BY <1>5, <3>1, <3>2, <3>3, OneActorFollows
  <2>2. CASE ReplyGarbled(a)
    <3> DEFINE y == [actor[a] EXCEPT !.pc = "err", !.slot = NoSlot]
    <3>1. actor' = [actor EXCEPT ![a] = y]
      BY <2>2 DEF ReplyGarbled
    <3>2. y \in ActorType /\ y.pc = "err" /\ y.id = actor[a].id /\ y.fp = actor[a].fp
      BY <1>1, ErrType
    <3> HIDE DEF y
    <3>3. QED
      BY <1>1, <1>5, <1>6, <3>1, <3>2, MovesOn
  <2>3. QED
    BY <2>1, <2>2
<1>8. StoreFollows
  BY <1>6, StoreUnchanged DEF Inv
<1>9. ScalarsOK'
  BY DEF Reply, ReplyGarbled, Fault, Inv, ScalarsOK
<1>10. QED
  BY <1>4, <1>6, <1>7, <1>8, <1>9, Unchanged, Assemble

-----------------------------------------------------------------------------
(* Workers. *)

(* A run moves on without becoming another run. *)
LEMMA RunMovesOn ==
    ASSUME Inv, NEW s \in Slots, NEW w \in RunType, run[s].phase # "free",
           w.phase # "free", w.id = run[s].id, w.fp = run[s].fp,
           run' = [run EXCEPT ![s] = w], UNCHANGED actor
    PROVE  ActorsFollow /\ RunsFollow
<1>1. /\ run' \in [Slots -> RunType]
      /\ \A t \in Slots : run'[t] = IF t = s THEN w ELSE run[t]
  BY DEF Inv
<1>2. RunsFollow
  BY <1>1 DEF RunsFollow
<1>3. ASSUME NEW a \in Actors, actor[a].pc = "wait"
      PROVE  /\ run'[actor[a].slot].phase # "free"
             /\ run'[actor[a].slot].id = run[actor[a].slot].id
             /\ run'[actor[a].slot].fp = run[actor[a].slot].fp
  BY <1>1, <1>3 DEF Inv, ActorOK
<1>4. ActorsFollow
  BY <1>3 DEF ActorsFollow, Inv
<1>5. QED
  BY <1>2, <1>4

(* The end of a run preserves the invariant. *)
LEMMA ExecuteStep ==
    ASSUME Inv, NEW s \in Slots, NEW ok \in BOOLEAN, Execute(s, ok)
    PROVE  Inv'
<1> DEFINE w == [run[s] EXCEPT !.phase = "report", !.ok = ok]
<1>1. run[s] \in RunType /\ run[s].phase # "free"
  BY DEF Inv, Execute
<1>2. run' = [run EXCEPT ![s] = w]
  BY DEF Execute
<1>3. w \in RunType /\ w.phase = "report" /\ w.id = run[s].id /\ w.fp = run[s].fp
  BY <1>1 DEF RunType
<1> HIDE DEF w
<1>4. ActorsFollow /\ RunsFollow
  BY <1>1, <1>2, <1>3, RunMovesOn DEF Execute
<1>5. StoreFollows
  BY StoreUnchanged DEF Execute, Inv
<1>6. QED
  BY <1>4, <1>5, Unchanged, Assemble DEF Execute, Inv, ScalarsOK

(* Completion callbacks, stored, repeated, lost or delayed, preserve the   *)
(* invariant.                                                              *)
LEMMA CallbackStep ==
    ASSUME Inv, NEW s \in Slots,
           Callback(s) \/ CallbackRepeated(s) \/ CallbackRejected(s) \/ CallbackLost(s) \/ CallbackDelayed(s)
    PROVE  Inv'
<1>1. run[s] \in RunType /\ run[s].phase = "report"
  BY DEF Inv, Callback, CallbackRepeated, CallbackRejected, CallbackLost, CallbackDelayed
<1>2. Dispatched(jobs, run[s].id, run[s].fp)
  BY <1>1 DEF Inv, RunOK
<1>3. StoreFollows
  <2>1. CASE Callback(s) \/ CallbackRepeated(s)
    BY <1>2, <2>1, CompletionOK DEF Callback, CallbackRepeated, Inv, Dispatched
  <2>2. CASE CallbackRejected(s) \/ CallbackLost(s) \/ CallbackDelayed(s)
    BY <2>2, StoreUnchanged DEF CallbackRejected, CallbackLost, CallbackDelayed, Inv
  <2>3. QED
    BY <2>1, <2>2
<1>4. ActorsFollow /\ RunsFollow
  <2>1. CASE CallbackRepeated(s)
    BY <2>1, Unchanged DEF CallbackRepeated
  <2>2. CASE Callback(s) \/ CallbackRejected(s) \/ CallbackLost(s) \/ CallbackDelayed(s)
    <3> DEFINE w == [run[s] EXCEPT !.phase = "reply"]
    <3>1. run' = [run EXCEPT ![s] = w]
      BY <2>2 DEF Callback, CallbackRejected, CallbackLost, CallbackDelayed, Reported
    <3>2. w \in RunType /\ w.phase = "reply" /\ w.id = run[s].id /\ w.fp = run[s].fp
      BY <1>1 DEF RunType
    <3> HIDE DEF w
    <3>3. QED
      BY <1>1, <2>2, <3>1, <3>2, RunMovesOn DEF Callback, CallbackRejected, CallbackLost, CallbackDelayed
  <2>3. QED
    BY <2>1, <2>2
<1>5. LateFollows
  <2>1. CASE CallbackDelayed(s)
    <3> DEFINE m == [id |-> run[s].id, ok |-> run[s].ok, fp |-> run[s].fp]
    <3>1. late' = late \cup {m} /\ UNCHANGED jobs
      BY <2>1 DEF CallbackDelayed
    <3>2. m \in LateType /\ Dispatched(jobs, m.id, m.fp)
      BY <1>1, <1>2 DEF LateType, RunType, Dispatched, Known
    <3> HIDE DEF m
    <3>3. QED
      BY <3>1, <3>2 DEF LateFollows
  <2>2. CASE Callback(s) \/ CallbackRepeated(s) \/ CallbackRejected(s) \/ CallbackLost(s)
    BY <2>2, Unchanged DEF Callback, CallbackRepeated, CallbackRejected, CallbackLost
  <2>3. QED
    BY <2>1, <2>2
<1>6. ScalarsOK'
  BY DEF Callback, CallbackRepeated, CallbackRejected, CallbackLost, CallbackDelayed, Fault, Inv, ScalarsOK
<1>7. QED
  BY <1>3, <1>4, <1>5, <1>6, Unchanged, Assemble
  DEF Callback, CallbackRepeated, CallbackRejected, CallbackLost, CallbackDelayed

(* A callback that arrives late preserves the invariant. *)
LEMMA LateCallbackStep ==
    ASSUME Inv, NEW m \in late, LateCallback(m)
    PROVE  Inv'
<1>1. Known(jobs, m.id, m.fp)
  BY DEF Inv, Dispatched
<1>2. StoreFollows
  BY <1>1, CompletionOK DEF LateCallback, Inv
<1>3. LateFollows
  BY DEF LateCallback, LateFollows
<1>4. QED
  BY <1>2, <1>3, Unchanged, Assemble DEF LateCallback, Inv, ScalarsOK

(* A run whose answer nobody waits for, and a worker that dies, preserve   *)
(* the invariant.                                                          *)
LEMMA RunEndStep ==
    ASSUME Inv, NEW s \in Slots, ReplyDropped(s) \/ WorkerCrash(s)
    PROVE  Inv'
<1>1. run' = [run EXCEPT ![s] = SlotFree]
  BY DEF ReplyDropped, WorkerCrash
<1>2. RunsFollow /\ \A t \in Slots \ {s} : run'[t] = run[t]
  BY <1>1, SlotFreed
<1>3. StoreFollows /\ UNCHANGED jobs
  BY StoreUnchanged DEF ReplyDropped, WorkerCrash, Inv
<1>4. ASSUME NEW a \in Actors, a \notin Waiter(s), actor[a].pc = "wait"
      PROVE  run'[actor[a].slot].phase # "free" /\ run'[actor[a].slot] = run[actor[a].slot]
  <2>1. actor[a].slot \in Slots \ {s} /\ run[actor[a].slot].phase # "free"
    BY <1>4 DEF Waiter, Inv, ActorOK
  <2>2. QED
    BY <1>2, <2>1
<1>5. ActorsFollow
  <2>1. CASE ReplyDropped(s)
    BY <1>4, <2>1 DEF ReplyDropped, ActorsFollow, Inv
  <2>2. CASE WorkerCrash(s)
    <3> DEFINE y(a) == [actor[a] EXCEPT !.pc = "select", !.left = @ - 1, !.slot = NoSlot]
    <3>1. ASSUME NEW a \in Waiter(s)
          PROVE  /\ actor'[a] = y(a) /\ y(a) \in ActorType /\ y(a).pc = "select"
                 /\ y(a).id = actor[a].id /\ y(a).fp = actor[a].fp
                 /\ ActorOK(actor[a], jobs, run) /\ actor[a].pc = "wait"
      <4>1. a \in Actors /\ actor[a].pc = "wait"
        BY DEF Waiter
      <4>2. actor[a] \in ActorType /\ ActorOK(actor[a], jobs, run)
        BY <4>1 DEF Inv
      <4>3. actor[a].left > 0
        BY <4>1, <4>2 DEF ActorOK
      <4>4. NextCandidate(a)[a] = y(a)
        BY <4>1 DEF NextCandidate, Inv
      <4>5. actor'[a] = y(a)
        BY <2>2, <4>1, <4>4 DEF WorkerCrash
      <4>6. QED
        BY <4>1, <4>2, <4>3, <4>5, NextCandidateType
    <3> HIDE DEF y
    <3>2. ASSUME NEW a \in Waiter(s)
          PROVE  actor'[a] \in ActorType /\ actor'[a].pc # "wait" /\ ActorOK(actor'[a], jobs', run')
      BY <1>3, <3>1 DEF ActorOK
    <3>3. ASSUME NEW a \in Actors \ Waiter(s)
          PROVE  actor'[a] = actor[a] /\ actor[a] \in ActorType
      BY <2>2 DEF WorkerCrash, Inv
    <3>4. actor' \in [Actors -> ActorType]
      <4>1. actor' = [a \in Actors |-> IF a \in Waiter(s) THEN NextCandidate(a)[a] ELSE actor[a]]
        BY <2>2 DEF WorkerCrash
      <4>2. \A a \in Actors : actor'[a] \in ActorType
        BY <3>2, <3>3
      <4>3. QED
        BY <4>1, <4>2
    <3>5. QED
      BY <1>4, <3>2, <3>3, <3>4 DEF ActorsFollow
  <2>3. QED
    BY <2>1, <2>2
<1>6. ScalarsOK'
  BY DEF ReplyDropped, WorkerCrash, Fault, Inv, ScalarsOK
<1>7. QED
  BY <1>2, <1>3, <1>5, <1>6, Unchanged, Assemble DEF ReplyDropped, WorkerCrash

-----------------------------------------------------------------------------
(* Time, and the end of a master process. *)

(* The passing of time and the end of the master preserve the invariant:   *)
(* the workers' runs outlive the master, and their rows are still there.   *)
LEMMA ProcessStep ==
    ASSUME Inv, Tick \/ Crash \/ GracefulStop \/ Exit
    PROVE  Inv'
<1>1. CASE Tick
  <2>1. StoreFollows
    BY <1>1, StoreUnchanged DEF Tick, Inv
  <2>2. ScalarsOK'
    BY <1>1 DEF Tick, Inv, ScalarsOK
  <2>3. QED
    BY <1>1, <2>1, <2>2, Unchanged, Assemble DEF Tick
<1>2. CASE Crash
  <2>1. StoreFollows
    BY <1>2, StoreUnchanged DEF Crash, Inv
  <2>2. ActorsFollow
    BY <1>2, AllIdle DEF Crash
  <2>3. BatchFollows /\ LateFollows
    BY <1>2 DEF Crash, BatchFollows, LateFollows
  <2>4. ScalarsOK'
    BY <1>2 DEF Crash, Fault, Inv, ScalarsOK
  <2>5. QED
    BY <1>2, <2>1, <2>2, <2>3, <2>4, Unchanged, Assemble DEF Crash
<1>3. CASE GracefulStop
  <2> DEFINE y == [actor[Recovery] EXCEPT !.pc = "stopped", !.slot = NoSlot]
  <2>1. Known(jobs, actor[Recovery].id, actor[Recovery].fp)
    BY <1>3, ActorNames DEF GracefulStop, Inv, ActorOK
  <2>2. StoreFollows
    BY <1>3, <2>1, RecoveryErrorOK DEF GracefulStop, Inv
  <2>3. actor' = [actor EXCEPT ![Recovery] = y] /\ UNCHANGED run
    BY <1>3 DEF GracefulStop
  <2>4. /\ y \in ActorType /\ y.pc = "stopped"
        /\ y.id = actor[Recovery].id /\ y.fp = actor[Recovery].fp
    BY ActorNames DEF Inv, ActorType
  <2> HIDE DEF y
  <2>5. ActorOK(y, jobs', run')
    BY <2>1, <2>2, <2>4, KnownKept DEF ActorOK, Inv
  <2>6. ActorsFollow
    BY <2>3, <2>4, <2>5, ActorNames, OneActorFollows
  <2>7. BatchFollows
    BY <1>3 DEF GracefulStop, BatchFollows
  <2>8. ScalarsOK'
    BY <1>3 DEF GracefulStop, Fault, Inv, ScalarsOK
  <2>9. QED
    BY <1>3, <2>2, <2>6, <2>7, <2>8, Unchanged, Assemble DEF GracefulStop
<1>4. CASE Exit
  <2>1. StoreFollows
    BY <1>4, StoreUnchanged DEF Exit, Inv
  <2>2. ActorsFollow
    BY <1>4, AllIdle DEF Exit
  <2>3. LateFollows
    BY <1>4 DEF Exit, LateFollows
  <2>4. ScalarsOK'
    BY <1>4 DEF Exit, Inv, ScalarsOK
  <2>5. QED
    BY <1>4, <2>1, <2>2, <2>3, <2>4, Unchanged, Assemble DEF Exit
<1>5. QED
  BY <1>1, <1>2, <1>3, <1>4

-----------------------------------------------------------------------------
(* The initial states satisfy the invariant: the table is empty. *)
THEOREM InitInv == Init => Inv
<1> SUFFICES ASSUME Init PROVE Inv
  OBVIOUS
<1>1. RowOK(NoJob)
  BY DEF RowOK, NoJob, JobRecord, JobStatus
<1>2. StoreInv
  BY <1>1 DEF Init, StoreInit, StoreInv, RowOK
<1>3. /\ actor \in [Actors -> ActorType]
      /\ \A a \in Actors : actor[a].pc = "idle" /\ ActorOK(actor[a], jobs, run)
  BY IdleOK DEF Init
<1>4. run \in [Slots -> RunType] /\ \A s \in Slots : RunOK(run[s], jobs)
  BY DEF Init, SlotFree, RunType, RunOK
<1>5. ScalarsOK
  BY DEF Init, ScalarsOK
<1>6. QED
  BY <1>2, <1>3, <1>4, <1>5 DEF Init, Inv

(* Every step of every process preserves the invariant. *)
THEOREM NextInv == Inv /\ [Next]_vars => Inv'
<1> SUFFICES ASSUME Inv, [Next]_vars PROVE Inv'
  OBVIOUS
<1>1. ASSUME NEW r \in ReqIDs, NEW f \in Fps, CreateJob(r, f) \/ ReadJob(r, f)
      PROVE  Inv'
  BY <1>1, SubmitStep
<1>2. ASSUME NEW h \in Handlers, HandlerStep(h)
      PROVE  Inv'
  <2>1. \A n \in 0..MaxWorkers : n \in Nat
    BY DurableJobsAssumption
  <2>2. h \in Actors
    BY ActorNames
  <2>3. QED
    BY <1>2, <2>1, <2>2, BeginStep, StartExecuteStep, HandlerEndStep, SelectStep DEF HandlerStep
<1>3. CASE RecoveryStep
  <2>1. \A n \in 0..MaxWorkers : n \in Nat
    BY DurableJobsAssumption
  <2>2. QED
    BY <1>3, <2>1, RecoverScanStep, RecoverMarkStep, RecoverQueuedStep, RecoveryEndStep
    DEF RecoveryStep
<1>4. ASSUME NEW a \in Actors, DispatchStep(a)
      PROVE  Inv'
  BY <1>4, SelectStep, ForwardStep, ReplyStep, FinalMarkFailsStep DEF DispatchStep
<1>5. ASSUME NEW s \in Slots, WorkerStep(s)
      PROVE  Inv'
  BY <1>5, ExecuteStep, CallbackStep, RunEndStep DEF WorkerStep
<1>6. ASSUME NEW m \in late, LateCallback(m)
      PROVE  Inv'
  BY <1>6, LateCallbackStep
<1>7. CASE Tick \/ Crash \/ GracefulStop \/ Exit
  BY <1>7, ProcessStep
<1>8. CASE UNCHANGED vars
  <2>1. StoreFollows
    BY <1>8, StoreUnchanged DEF vars, Inv
  <2>2. QED
    BY <1>8, <2>1, Unchanged, Assemble DEF vars, Inv, ScalarsOK
<1>9. QED
  BY <1>1, <1>2, <1>3, <1>4, <1>5, <1>6, <1>7, <1>8 DEF Next

(* The inductive invariant holds in every reachable state. *)
THEOREM InvHolds == Spec => []Inv
<1>1. Init => Inv
  BY InitInv
<1>2. Inv /\ [Next]_vars => Inv'
  BY NextInv
<1>3. QED
  BY <1>1, <1>2, PTL DEF Spec

(* The variables keep their types. *)
THEOREM TypeCorrect == Spec => []TypeOK
<1>1. Inv => TypeOK
  BY DEF Inv, StoreInv, ScalarsOK, TypeOK, ActorType, RunType, BatchType, LateType, ServedType
<1>2. QED
  BY <1>1, InvHolds, PTL

(* Whatever a worker executes or reports has a row that counts the attempt *)
(* and holds the request: the master persists a job before dispatching it. *)
THEOREM PersistenceHolds == Spec => []PersistedBeforeDispatch
<1>1. Inv => PersistedBeforeDispatch
  BY DEF Inv, PersistedBeforeDispatch, RunOK, Dispatched, Known
<1>2. QED
  BY <1>1, InvHolds, PTL

(* No response is stored or returned for a request it was not computed     *)
(* from, whichever request ids clients reuse.                              *)
THEOREM ResponsesMatch == Spec => []ResponseMatchesRequest
<1>1. Inv => ResponseMatchesRequest
  BY DEF Inv, StoreInv, RowOK, ResponseMatchesRequest
<1>2. QED
  BY <1>1, InvHolds, PTL

(* A succeeded row can always be replayed. *)
THEOREM ReplayHolds == Spec => []SucceededIsReplayable
<1>1. Inv => SucceededIsReplayable
  BY DEF Inv, StoreInv, RowOK, SucceededIsReplayable
<1>2. QED
  BY <1>1, InvHolds, PTL

(* Recovery can find every dispatching row: exactly those carry a lease. *)
THEOREM LeasesHold == Spec => []LeasedIffDispatching
<1>1. Inv => LeasedIffDispatching
  BY DEF Inv, StoreInv, RowOK, LeasedIffDispatching
<1>2. QED
  BY <1>1, InvHolds, PTL

-----------------------------------------------------------------------------
(* Runs and attempts.  Every attempt entitles its dispatch to one run per  *)
(* candidate: what is running for a job, and what its dispatches may still *)
(* start, stay within the attempts its row counts.                         *)

Live(r) == {s \in Slots : run[s].phase # "free" /\ run[s].id = r}

(* The dispatch x may still start its i-th last run. *)
MayStart(x, i) ==
    \/ x.pc = "select" /\ i <= x.left
    \/ x.pc = "wait" /\ i < x.left

Owed(r) ==
    {p \in Actors \X (Nat \ {0}) : actor[p[1]].id = r /\ MayStart(actor[p[1]], p[2])}

Within(L, O, n) ==
    /\ IsFiniteSet(L) /\ IsFiniteSet(O)
    /\ Cardinality(L) + Cardinality(O) <= MaxWorkers * n

CountInv == \A r \in ReqIDs : Within(Live(r), Owed(r), jobs[r].attempt)

(* Fewer runs, fewer candidates or more attempts. *)
LEMMA WithinFewer ==
    ASSUME NEW L, NEW O, NEW n \in Nat, Within(L, O, n),
           NEW M \in SUBSET L, NEW P \in SUBSET O, NEW m \in Nat, m >= n
    PROVE  Within(M, P, m)
<1>1. /\ IsFiniteSet(M) /\ IsFiniteSet(P)
      /\ Cardinality(M) <= Cardinality(L) /\ Cardinality(P) <= Cardinality(O)
  BY FS_Subset DEF Within
<1>2. /\ Cardinality(M) \in Nat /\ Cardinality(L) \in Nat
      /\ Cardinality(P) \in Nat /\ Cardinality(O) \in Nat
  BY <1>1, FS_CardinalityType DEF Within
<1>3. MaxWorkers * n \in Nat /\ MaxWorkers * m \in Nat /\ MaxWorkers * m >= MaxWorkers * n
  <2>1. MaxWorkers \in Nat
    BY DurableJobsAssumption
  <2>2. PICK k \in Nat : m = n + k
    <3>1. m - n \in Nat /\ m = n + (m - n)
      OBVIOUS
    <3>2. QED
      BY <3>1
  <2>3. MaxWorkers * m = MaxWorkers * n + MaxWorkers * k /\ MaxWorkers * k \in Nat
    BY <2>1, <2>2
  <2>4. QED
    BY <2>1, <2>3
<1>4. Cardinality(L) + Cardinality(O) <= MaxWorkers * n
  BY DEF Within
<1>5. Cardinality(M) + Cardinality(P) <= MaxWorkers * m
  BY <1>1, <1>2, <1>3, <1>4
<1>6. QED
  BY <1>1, <1>5 DEF Within

(* A candidate becomes a run. *)
LEMMA WithinForward ==
    ASSUME NEW L, NEW O, NEW n \in Nat, Within(L, O, n), NEW s, NEW p \in O
    PROVE  Within(L \cup {s}, O \ {p}, n)
<1>1. /\ IsFiniteSet(L \cup {s}) /\ IsFiniteSet(O \ {p})
      /\ Cardinality(L \cup {s}) = Cardinality(L) \/ Cardinality(L \cup {s}) = Cardinality(L) + 1
      /\ Cardinality(O \ {p}) = Cardinality(O) - 1
  BY FS_AddElement, FS_RemoveElement DEF Within
<1>2. Cardinality(L) \in Nat /\ Cardinality(O) \in Nat /\ MaxWorkers * n \in Nat
  BY FS_CardinalityType, DurableJobsAssumption DEF Within
<1>3. Cardinality(L) + Cardinality(O) <= MaxWorkers * n
  BY DEF Within
<1>4. Cardinality(L \cup {s}) + Cardinality(O \ {p}) <= MaxWorkers * n
  BY <1>1, <1>2, <1>3
<1>5. QED
  BY <1>1, <1>4 DEF Within

(* One more attempt pays for the candidates of one more dispatch. *)
LEMMA WithinStart ==
    ASSUME NEW L, NEW O, NEW n \in Nat, Within(L, O, n), NEW a, NEW k \in 0..MaxWorkers
    PROVE  Within(L, O \cup ({a} \X (1..k)), n + 1)
<1> DEFINE N == {a} \X (1..k)
<1>1. MaxWorkers \in Nat /\ k \in Nat /\ k <= MaxWorkers
  BY DurableJobsAssumption
<1>2. IsFiniteSet(1..k) /\ Cardinality(1..k) = k
  BY <1>1, FS_Interval
<1>3. IsFiniteSet({a}) /\ Cardinality({a}) = 1
  BY FS_Singleton
<1>4. IsFiniteSet(N) /\ Cardinality(N) = 1 * k
  BY <1>2, <1>3, FS_Product
<1> HIDE DEF N
<1>5. /\ IsFiniteSet(O \cup N) /\ IsFiniteSet(O \cap N)
      /\ Cardinality(O \cup N) = Cardinality(O) + Cardinality(N) - Cardinality(O \cap N)
  BY <1>4, FS_Union, FS_Intersection DEF Within
<1>6. /\ Cardinality(L) \in Nat /\ Cardinality(O) \in Nat /\ Cardinality(O \cap N) \in Nat
      /\ Cardinality(N) = k
  BY <1>1, <1>4, <1>5, FS_CardinalityType DEF Within
<1>7. MaxWorkers * (n + 1) = MaxWorkers * n + MaxWorkers /\ MaxWorkers * n \in Nat
  BY <1>1
<1>8. Cardinality(L) + Cardinality(O) <= MaxWorkers * n
  BY DEF Within
<1>9. Cardinality(L) + Cardinality(O \cup N) <= MaxWorkers * (n + 1)
  BY <1>1, <1>5, <1>6, <1>7, <1>8
<1>10. QED
  BY <1>5, <1>9 DEF Within, N

(* No attempt is taken back, no run starts, and no dispatch gets more      *)
(* candidates or another job.                                              *)
AttemptsKept == \A q \in ReqIDs : jobs'[q].attempt = jobs[q].attempt

RunsKept ==
    \A s \in Slots : run'[s].phase # "free" => run[s].phase # "free" /\ run'[s].id = run[s].id

StartsKept(a) ==
    \A i \in Nat \ {0} : MayStart(actor'[a], i) => MayStart(actor[a], i) /\ actor'[a].id = actor[a].id

(* A step of that kind keeps the count. *)
LEMMA CountFrame ==
    ASSUME Inv, CountInv, AttemptsKept, RunsKept, \A a \in Actors : StartsKept(a)
    PROVE  CountInv'
<1>1. SUFFICES ASSUME NEW r \in ReqIDs
               PROVE  Within(Live(r)', Owed(r)', jobs'[r].attempt)
  BY DEF CountInv
<1>2. Live(r)' \in SUBSET Live(r)
  BY DEF Live, RunsKept
<1>3. Owed(r)' \in SUBSET Owed(r)
  BY DEF Owed, StartsKept
<1>4. jobs[r].attempt \in Nat /\ jobs'[r].attempt = jobs[r].attempt
  BY DEF Inv, StoreInv, JobRecord, AttemptsKept
<1>5. Within(Live(r), Owed(r), jobs[r].attempt)
  BY DEF CountInv
<1> HIDE DEF Live, Owed
<1>6. QED
  BY <1>2, <1>3, <1>4, <1>5, WithinFewer

(* Only MarkDispatching counts. *)
LEMMA MarkKeepsAttempts ==
    ASSUME StoreInv, NEW r,
           \/ MarkQueued(r)
           \/ MarkFailed(r)
           \/ MarkAmbiguous(r)
           \/ \E response : MarkSucceeded(r, response)
           \/ \E f : Create(r, f)
    PROVE  AttemptsKept
<1>1. jobs \in [ReqIDs -> JobRecord]
  BY DEF StoreInv
<1>2. CASE MarkQueued(r)
  BY <1>1, <1>2 DEF MarkQueued, AttemptsKept, JobRecord
<1>3. CASE MarkFailed(r)
  BY <1>1, <1>3 DEF MarkFailed, AttemptsKept, JobRecord
<1>4. CASE MarkAmbiguous(r)
  BY <1>1, <1>4 DEF MarkAmbiguous, AttemptsKept, JobRecord
<1>5. ASSUME NEW response, MarkSucceeded(r, response)
      PROVE  AttemptsKept
  BY <1>1, <1>5 DEF MarkSucceeded, AttemptsKept, JobRecord
<1>6. ASSUME NEW f, Create(r, f)
      PROVE  AttemptsKept
  <2>1. \A q \in ReqIDs : jobs'[q] = IF q = r THEN NewJobRecord(f) ELSE jobs[q]
    BY <1>1, <1>6 DEF Create
  <2>2. r \in ReqIDs => jobs[r].attempt = 0
    BY <1>6 DEF Create, Exists, StoreInv, RowOK
  <2>3. QED
    BY <2>1, <2>2 DEF AttemptsKept, NewJobRecord
<1>7. QED
  BY <1>2, <1>3, <1>4, <1>5, <1>6

(* A dispatch that has ended starts nothing. *)
LEMMA EndedStartsNothing ==
    ASSUME NEW a, actor'[a].pc \notin {"select", "wait"}
    PROVE  StartsKept(a)
BY DEF StartsKept, MayStart

LEMMA SameStarts ==
    ASSUME NEW a, actor'[a] = actor[a]
    PROVE  StartsKept(a)
BY DEF StartsKept

(* The next candidate is one fewer, after a refusal as after a run. *)
LEMMA FewerStarts ==
    ASSUME Inv, NEW a \in Actors, actor[a].pc \in {"select", "wait"},
           actor'[a] = NextCandidate(a)[a]
    PROVE  StartsKept(a)
<1>1. actor[a] \in ActorType
  BY DEF Inv
<1>2. /\ actor'[a].pc = "select" /\ actor'[a].left = actor[a].left - 1
      /\ actor'[a].id = actor[a].id /\ actor[a].left \in Nat
  BY <1>1 DEF NextCandidate, Inv, ActorType
<1>3. QED
  BY <1>2 DEF StartsKept, MayStart

(* Steps that write at most a row and at most one actor. *)
LEMMA OneActorCounts ==
    ASSUME Inv, CountInv, AttemptsKept, RunsKept, NEW a, StartsKept(a),
           \A b \in Actors \ {a} : actor'[b] = actor[b]
    PROVE  CountInv'
BY SameStarts, CountFrame

(* The gateway's handlers, up to the start of a dispatch and after it. *)
LEMMA HandlerCounts ==
    ASSUME Inv, CountInv, NEW h \in Handlers,
           \/ \E r \in ReqIDs, f \in Fps :
                BeginNew(h, r, f) \/ BeginRetry(h, r, f) \/ BeginReplay(h, r, f)
           \/ StartExecuteFails(h)
           \/ ExecuteSucceeded(h)
           \/ ExecuteFailed(h)
           \/ Cancelled(h)
    PROVE  CountInv'
<1>0. h \in Actors /\ StoreInv /\ actor \in [Actors -> ActorType]
  BY ActorNames DEF Inv
<1>1. RunsKept
  BY DEF BeginNew, BeginRetry, BeginReplay, StartExecuteFails, ExecuteSucceeded, ExecuteFailed,
         Cancelled, RunsKept
<1>2. AttemptsKept
  <2>1. CASE UNCHANGED jobs
    BY <2>1 DEF AttemptsKept
  <2>2. QED
    BY <1>0, <2>1, MarkKeepsAttempts
    DEF BeginNew, BeginRetry, BeginReplay, StartExecuteFails, ExecuteSucceeded, ExecuteFailed, Cancelled
<1>3. \A b \in Actors \ {h} : actor'[b] = actor[b]
  BY <1>0 DEF BeginNew, BeginRetry, BeginReplay, StartExecuteFails, ExecuteSucceeded, ExecuteFailed,
         Cancelled
<1>4. actor'[h] = actor[h] \/ actor'[h].pc \notin {"select", "wait"}
  <2>1. ASSUME NEW r \in ReqIDs, NEW f \in Fps,
               BeginNew(h, r, f) \/ BeginRetry(h, r, f) \/ BeginReplay(h, r, f)
        PROVE  actor'[h] = actor[h] \/ actor'[h].pc = "mark"
    <3>1. CASE BeginReplay(h, r, f)
      BY <3>1 DEF BeginReplay
    <3>2. CASE BeginNew(h, r, f) \/ BeginRetry(h, r, f)
      <4>1. actor' = [actor EXCEPT ![h].pc = "mark", ![h].id = r, ![h].fp = f]
        BY <3>2 DEF BeginNew, BeginRetry
      <4>2. QED
        BY <1>0, <4>1 DEF ActorType
    <3>3. QED
      BY <2>1, <3>1, <3>2
  <2>2. CASE StartExecuteFails(h) \/ ExecuteSucceeded(h) \/ ExecuteFailed(h)
    BY <1>0, <2>2 DEF StartExecuteFails, ExecuteSucceeded, ExecuteFailed, ActorIdle
  <2>3. CASE Cancelled(h)
    BY <1>0, <2>3 DEF Cancelled, ActorType
  <2>4. QED
    BY <2>1, <2>2, <2>3
<1>5. QED
  BY <1>1, <1>2, <1>3, <1>4, EndedStartsNothing, SameStarts, OneActorCounts

(* Recovery, apart from the start of a dispatch. *)
LEMMA RecoveryCounts ==
    ASSUME Inv, CountInv,
           \/ RecoverScan
           \/ \E s \in batch : RecoverExpired(s) \/ RecoverFails(s)
           \/ RecoverySucceeded
           \/ RecoveryFailed
           \/ GracefulStop
    PROVE  CountInv'
<1>0. Recovery \in Actors /\ StoreInv /\ actor \in [Actors -> ActorType]
  BY ActorNames DEF Inv
<1>1. RunsKept
  BY DEF RecoverScan, RecoverExpired, RecoverFails, RecoverySucceeded, RecoveryFailed, GracefulStop,
         RunsKept
<1>2. AttemptsKept
  <2>1. CASE UNCHANGED jobs
    BY <2>1 DEF AttemptsKept
  <2>2. QED
    BY <1>0, <2>1, MarkKeepsAttempts
    DEF RecoverScan, RecoverExpired, RecoverFails, RecoverySucceeded, RecoveryFailed, GracefulStop,
        MarkRecoveryError
<1>3. \A b \in Actors \ {Recovery} : actor'[b] = actor[b]
  BY <1>0 DEF RecoverScan, RecoverExpired, RecoverFails, RecoverySucceeded, RecoveryFailed, GracefulStop
<1>4. actor'[Recovery] = actor[Recovery] \/ actor'[Recovery].pc \notin {"select", "wait"}
  BY <1>0 DEF RecoverScan, RecoverExpired, RecoverFails, RecoverySucceeded, RecoveryFailed, GracefulStop,
         ActorIdle, ActorType
<1>5. QED
  BY <1>1, <1>2, <1>3, <1>4, EndedStartsNothing, SameStarts, OneActorCounts

(* A new attempt: n candidates for it, and none before. *)
LEMMA StartCounts ==
    ASSUME Inv, CountInv, NEW a \in Actors, NEW r \in ReqIDs, NEW n \in 0..MaxWorkers, NEW until,
           actor[a].pc \notin {"select", "wait"}, MarkDispatching(r, until),
           actor'[a].id = r, actor'[a].pc = "select", actor'[a].left = n,
           \A b \in Actors \ {a} : actor'[b] = actor[b], UNCHANGED run
    PROVE  CountInv'
<1>1. /\ \A q \in ReqIDs : jobs[q].attempt \in Nat
      /\ \A q \in ReqIDs : jobs'[q].attempt = IF q = r THEN jobs[q].attempt + 1 ELSE jobs[q].attempt
  BY DEF Inv, StoreInv, JobRecord, MarkDispatching
<1>2. \A q \in ReqIDs : Live(q)' = Live(q)
  BY DEF Live
<1>3. n \in Nat
  BY DurableJobsAssumption
<1>4. ASSUME NEW q \in ReqIDs, q # r
      PROVE  Within(Live(q)', Owed(q)', jobs'[q].attempt)
  <2>1. Owed(q)' \in SUBSET Owed(q)
    BY <1>4 DEF Owed
  <2>2. Within(Live(q), Owed(q), jobs[q].attempt) /\ jobs'[q].attempt = jobs[q].attempt
    BY <1>1, <1>4 DEF CountInv
  <2> HIDE DEF Live, Owed
  <2>3. QED
    BY <1>1, <1>2, <2>1, <2>2, WithinFewer
<1>5. Within(Live(r)', Owed(r)', jobs'[r].attempt)
  <2> DEFINE O == Owed(r) \cup ({a} \X (1..n))
  <2>1. Owed(r)' \in SUBSET O
    <3>1. SUFFICES ASSUME NEW p \in Owed(r)' PROVE p \in O
      OBVIOUS
    <3>2. /\ p \in Actors \X (Nat \ {0}) /\ p[1] \in Actors /\ p[2] \in Nat \ {0}
          /\ p = <<p[1], p[2]>>
          /\ actor'[p[1]].id = r /\ MayStart(actor'[p[1]], p[2])
      BY DEF Owed
    <3>3. CASE p[1] = a
      <4>1. p[2] <= n
        BY <3>2, <3>3 DEF MayStart
      <4>2. p[2] \in 1..n
        BY <1>3, <3>2, <4>1
      <4>3. QED
        BY <3>2, <3>3, <4>2
    <3>4. CASE p[1] # a
      BY <3>2, <3>4 DEF Owed
    <3>5. QED
      BY <3>3, <3>4
  <2>2. Within(Live(r), O, jobs[r].attempt + 1)
    BY <1>1, WithinStart DEF CountInv
  <2>3. jobs'[r].attempt = jobs[r].attempt + 1 /\ jobs'[r].attempt \in Nat /\ Live(r)' = Live(r)
    BY <1>1, <1>2
  <2>4. jobs'[r].attempt >= jobs[r].attempt + 1 /\ jobs[r].attempt + 1 \in Nat
    BY <1>1, <2>3
  <2> HIDE DEF O, Live, Owed
  <2>5. QED
    BY <2>1, <2>2, <2>3, <2>4, WithinFewer
<1>6. QED
  BY <1>4, <1>5 DEF CountInv

(* A handler or recovery starts a dispatch. *)
LEMMA DispatchCounts ==
    ASSUME Inv, CountInv,
           \/ \E h \in Handlers, n \in 0..MaxWorkers : StartExecute(h, n)
           \/ \E s \in batch, n \in 0..MaxWorkers : RecoverQueued(s, n)
    PROVE  CountInv'
<1>0. actor \in [Actors -> ActorType]
  BY DEF Inv
<1>1. ASSUME NEW h \in Handlers, NEW n \in 0..MaxWorkers, StartExecute(h, n)
      PROVE  CountInv'
  <2>1. h \in Actors /\ actor[h].pc = "mark" /\ actor[h].id \in ReqIDs
    BY <1>1, ActorNames DEF StartExecute, Inv, ActorOK, Known
  <2>2. /\ actor'[h].id = actor[h].id /\ actor'[h].pc = "select" /\ actor'[h].left = n
        /\ \A b \in Actors \ {h} : actor'[b] = actor[b]
        /\ UNCHANGED run /\ MarkDispatching(actor[h].id, clock + LeaseTTL)
    BY <1>0, <1>1, <2>1 DEF StartExecute, EnterDispatch, ActorType
  <2>3. QED
    BY <2>1, <2>2, StartCounts
<1>2. ASSUME NEW s \in batch, NEW n \in 0..MaxWorkers, RecoverQueued(s, n)
      PROVE  CountInv'
  <2>1. Recovery \in Actors /\ actor[Recovery].pc = "idle" /\ s.id \in ReqIDs
    BY <1>2, ActorNames DEF RecoverQueued, Inv, Known
  <2>2. /\ actor'[Recovery].id = s.id /\ actor'[Recovery].pc = "select" /\ actor'[Recovery].left = n
        /\ \A b \in Actors \ {Recovery} : actor'[b] = actor[b]
        /\ UNCHANGED run /\ MarkDispatching(s.id, scanNow + LeaseTTL)
    <3>1. actor' = [EnterDispatch(Recovery, n) EXCEPT ![Recovery].id = s.id, ![Recovery].fp = s.fp]
      BY <1>2 DEF RecoverQueued
    <3>2. /\ EnterDispatch(Recovery, n)[Recovery].pc = "select"
          /\ EnterDispatch(Recovery, n)[Recovery].left = n
          /\ EnterDispatch(Recovery, n) \in [Actors -> ActorType]
          /\ \A b \in Actors \ {Recovery} : EnterDispatch(Recovery, n)[b] = actor[b]
      <4>1. n \in Nat
        BY DurableJobsAssumption
      <4>2. QED
        BY <1>0, <2>1, <4>1 DEF EnterDispatch, ActorType
    <3>3. QED
      BY <1>2, <2>1, <3>1, <3>2 DEF RecoverQueued, ActorType
  <2>3. QED
    BY <2>1, <2>2, StartCounts
<1>3. QED
  BY <1>1, <1>2

(* A run takes the place of a candidate. *)
LEMMA ForwardCounts ==
    ASSUME Inv, CountInv, NEW a \in Actors, NEW s \in Slots, Forward(a, s)
    PROVE  CountInv'
<1>0. PICK r, left : r = actor[a].id /\ left = actor[a].left
  OBVIOUS
<1>1. actor \in [Actors -> ActorType] /\ run \in [Slots -> RunType]
  BY DEF Inv
<1>2. /\ actor[a].pc = "select" /\ left > 0 /\ left \in Nat
      /\ actor'[a].pc = "wait" /\ actor'[a].left = left /\ actor'[a].id = r
      /\ \A b \in Actors \ {a} : actor'[b] = actor[b]
  BY <1>0, <1>1 DEF Forward, ActorType
<1>3. /\ run[s].phase = "free" /\ run'[s].phase = "running" /\ run'[s].id = r
      /\ \A t \in Slots \ {s} : run'[t] = run[t]
  BY <1>0, <1>1 DEF Forward, RunType
<1>4. UNCHANGED jobs /\ \A q \in ReqIDs : jobs[q].attempt \in Nat
  BY DEF Forward, Inv, StoreInv, JobRecord
<1>5. ASSUME NEW q \in ReqIDs, q # r
      PROVE  Within(Live(q)', Owed(q)', jobs'[q].attempt)
  <2>1. Live(q)' \in SUBSET Live(q)
    BY <1>3, <1>5 DEF Live
  <2>2. Owed(q)' \in SUBSET Owed(q)
    BY <1>2, <1>5 DEF Owed
  <2>3. Within(Live(q), Owed(q), jobs[q].attempt)
    BY DEF CountInv
  <2> HIDE DEF Live, Owed
  <2>4. QED
    BY <1>4, <2>1, <2>2, <2>3, WithinFewer
<1>6. ASSUME r \in ReqIDs
      PROVE  Within(Live(r)', Owed(r)', jobs'[r].attempt)
  <2> DEFINE p == <<a, left>>
  <2>1. Live(r)' \in SUBSET (Live(r) \cup {s})
    BY <1>3 DEF Live
  <2>2. p \in Owed(r)
    BY <1>0, <1>2 DEF Owed, MayStart
  <2>3. Owed(r)' \in SUBSET (Owed(r) \ {p})
    <3>1. SUFFICES ASSUME NEW x \in Owed(r)' PROVE x \in Owed(r) /\ x # p
      OBVIOUS
    <3>2. /\ x \in Actors \X (Nat \ {0}) /\ x[1] \in Actors /\ x[2] \in Nat \ {0}
          /\ actor'[x[1]].id = r /\ MayStart(actor'[x[1]], x[2])
      BY <1>4 DEF Owed
    <3>3. CASE x[1] = a
      <4>1. x[2] < left
        BY <1>2, <3>2, <3>3 DEF MayStart
      <4>2. x # p
        BY <1>2, <3>2, <4>1
      <4>3. MayStart(actor[x[1]], x[2]) /\ actor[x[1]].id = r
        BY <1>0, <1>2, <3>2, <3>3, <4>1 DEF MayStart
      <4>4. QED
        BY <3>2, <4>2, <4>3 DEF Owed
    <3>4. CASE x[1] # a
      <4>1. MayStart(actor[x[1]], x[2]) /\ actor[x[1]].id = r /\ x # p
        BY <1>2, <3>2, <3>4
      <4>2. QED
        BY <3>2, <4>1 DEF Owed
    <3>5. QED
      BY <3>3, <3>4
  <2>4. Within(Live(r), Owed(r), jobs[r].attempt) /\ jobs[r].attempt \in Nat
    BY <1>4, <1>6 DEF CountInv
  <2> HIDE DEF Live, Owed, p
  <2>5. Within(Live(r) \cup {s}, Owed(r) \ {p}, jobs[r].attempt)
    BY <2>2, <2>4, WithinForward
  <2>6. jobs[r].attempt >= jobs[r].attempt /\ jobs'[r].attempt = jobs[r].attempt
    BY <1>4, <2>4
  <2>7. QED
    BY <2>1, <2>3, <2>4, <2>5, <2>6, WithinFewer
<1>7. QED
  BY <1>5, <1>6 DEF CountInv

(* The rest of a dispatch starts no run. *)
LEMMA SelectCounts ==
    ASSUME Inv, CountInv, NEW a \in Actors,
           \/ NoCandidates(a) \/ Refused(a) \/ Rejected(a) \/ Reply(a) \/ ReplyGarbled(a)
           \/ TransportError(a) \/ FinalMarkFails(a)
    PROVE  CountInv'
<1>0. actor \in [Actors -> ActorType] /\ run \in [Slots -> RunType]
  BY DEF Inv
<1>1. AttemptsKept
  BY DEF NoCandidates, Refused, Rejected, Reply, ReplyGarbled, TransportError, FinalMarkFails,
         AttemptsKept
<1>2. RunsKept
  BY <1>0 DEF NoCandidates, Refused, Rejected, Reply, ReplyGarbled, TransportError, FinalMarkFails,
         RunsKept, SlotFree
<1>3. \A b \in Actors \ {a} : actor'[b] = actor[b]
  BY <1>0 DEF NoCandidates, Refused, Rejected, Reply, ReplyGarbled, TransportError, FinalMarkFails,
         NextCandidate
<1>4. StartsKept(a)
  <2>1. CASE Refused(a) \/ TransportError(a)
    BY <2>1, FewerStarts DEF Refused, TransportError
  <2>2. CASE NoCandidates(a) \/ Rejected(a) \/ ReplyGarbled(a)
    <3>1. actor'[a].pc = "err"
      BY <1>0, <2>2 DEF NoCandidates, Rejected, ReplyGarbled, ActorType
    <3>2. QED
      BY <3>1, EndedStartsNothing
  <2>3. CASE Reply(a)
    <3>1. actor'[a].pc \in {"ok", "err"}
      BY <1>0, <2>3 DEF Reply, ActorType
    <3>2. QED
      BY <3>1, EndedStartsNothing
  <2>4. CASE FinalMarkFails(a)
    <3>1. actor'[a].pc = "idle"
      BY <1>0, <2>4 DEF FinalMarkFails, ActorIdle
    <3>2. QED
      BY <3>1, EndedStartsNothing
  <2>5. QED
    BY <2>1, <2>2, <2>3, <2>4
<1>5. QED
  BY <1>1, <1>2, <1>3, <1>4, OneActorCounts

(* Workers end runs. *)
LEMMA WorkerCounts ==
    ASSUME Inv, CountInv,
           (\E s \in Slots : WorkerStep(s)) \/ (\E m \in late : LateCallback(m))
    PROVE  CountInv'
<1>0. actor \in [Actors -> ActorType] /\ run \in [Slots -> RunType] /\ StoreInv
  BY DEF Inv
<1>1. ASSUME NEW m \in late, LateCallback(m)
      PROVE  CountInv'
  <2>1. AttemptsKept
    BY <1>0, <1>1, MarkKeepsAttempts DEF LateCallback, Complete
  <2>2. RunsKept /\ \A a \in Actors : StartsKept(a)
    BY <1>1, SameStarts DEF LateCallback, RunsKept
  <2>3. QED
    BY <2>1, <2>2, CountFrame
<1>2. ASSUME NEW s \in Slots, WorkerStep(s)
      PROVE  CountInv'
  <2>1. AttemptsKept
    <3>1. CASE UNCHANGED jobs
      BY <3>1 DEF AttemptsKept
    <3>2. CASE Callback(s) \/ CallbackRepeated(s)
      BY <1>0, <3>2, MarkKeepsAttempts DEF Callback, CallbackRepeated, Complete
    <3>3. QED
      BY <1>2, <3>1, <3>2 DEF WorkerStep, Execute, CallbackRejected, CallbackLost,
         CallbackDelayed, ReplyDropped, WorkerCrash
  <2>2. RunsKept
    <3>1. CASE ReplyDropped(s) \/ WorkerCrash(s)
      BY <1>0, <3>1 DEF ReplyDropped, WorkerCrash, SlotFree, RunsKept
    <3>2. CASE \E ok \in BOOLEAN : Execute(s, ok)
      BY <1>0, <3>2 DEF Execute, RunsKept, RunType
    <3>3. CASE \/ Callback(s) \/ CallbackRepeated(s) \/ CallbackRejected(s) \/ CallbackLost(s)
               \/ CallbackDelayed(s)
      BY <1>0, <3>3 DEF Callback, CallbackRepeated, CallbackRejected, CallbackLost,
         CallbackDelayed, Reported, RunsKept, RunType
    <3>4. QED
      BY <1>2, <3>1, <3>2, <3>3 DEF WorkerStep
  <2>3. ASSUME NEW a \in Actors
        PROVE  StartsKept(a)
    <3>1. CASE WorkerCrash(s)
      <4>1. CASE a \in Waiter(s)
        BY <3>1, <4>1, FewerStarts DEF WorkerCrash, Waiter
      <4>2. CASE a \notin Waiter(s)
        BY <3>1, <4>2, SameStarts DEF WorkerCrash
      <4>3. QED
        BY <4>1, <4>2
    <3>2. CASE ~WorkerCrash(s)
      <4>1. UNCHANGED actor
        BY <1>2, <3>2 DEF WorkerStep, Execute, Callback, CallbackRepeated, CallbackRejected, CallbackLost,
           CallbackDelayed, ReplyDropped
      <4>2. QED
        BY <4>1, SameStarts
    <3>3. QED
      BY <3>1, <3>2
  <2>4. QED
    BY <2>1, <2>2, <2>3, CountFrame
<1>3. QED
  BY <1>1, <1>2

(* Clients, the clock, and the end of the master process. *)
LEMMA ProcessCounts ==
    ASSUME Inv, CountInv,
           \/ \E r \in ReqIDs, f \in Fps : CreateJob(r, f) \/ ReadJob(r, f)
           \/ Tick \/ Crash \/ Exit \/ UNCHANGED vars
    PROVE  CountInv'
<1>1. AttemptsKept
  <2>1. CASE UNCHANGED jobs
    BY <2>1 DEF AttemptsKept
  <2>2. ASSUME NEW r \in ReqIDs, NEW f \in Fps, CreateJob(r, f)
        PROVE  AttemptsKept
    BY <2>2, MarkKeepsAttempts DEF CreateJob, Inv
  <2>3. QED
    BY <2>1, <2>2 DEF ReadJob, Tick, Crash, Exit, vars
<1>2. RunsKept
  BY DEF CreateJob, ReadJob, Tick, Crash, Exit, vars, RunsKept
<1>3. ASSUME NEW a \in Actors
      PROVE  StartsKept(a)
  <2>1. actor'[a] = actor[a] \/ actor'[a] = ActorIdle
    BY DEF CreateJob, ReadJob, Tick, Crash, Exit, vars
  <2>2. QED
    BY <2>1, SameStarts, EndedStartsNothing DEF ActorIdle
<1>4. QED
  BY <1>1, <1>2, <1>3, CountFrame

(* For any number of handlers, workers, candidates and faults: the runs of *)
(* a job, the ones nobody waits for any more included, belong to attempts  *)
(* its row counts.                                                         *)
THEOREM RunsHold == Spec => []RunsCounted
<1>1. Init => CountInv
  <2> SUFFICES ASSUME Init, NEW r \in ReqIDs PROVE Within(Live(r), Owed(r), jobs[r].attempt)
    BY DEF CountInv
  <2>1. Live(r) = {} /\ Owed(r) = {}
    BY DEF Init, SlotFree, ActorIdle, Live, Owed, MayStart
  <2>2. IsFiniteSet({}) /\ Cardinality({}) = 0
    BY FS_EmptySet
  <2>3. jobs[r].attempt = 0 /\ MaxWorkers * 0 = 0
    BY DurableJobsAssumption DEF Init, StoreInit, NoJob
  <2>4. QED
    BY <2>1, <2>2, <2>3 DEF Within
<1>2. Inv /\ CountInv /\ [Next]_vars => CountInv'
  <2> SUFFICES ASSUME Inv, CountInv, [Next]_vars PROVE CountInv'
    OBVIOUS
  <2>1. CASE (\E r \in ReqIDs, f \in Fps : CreateJob(r, f) \/ ReadJob(r, f)) \/ UNCHANGED vars
    BY <2>1, ProcessCounts
  <2>2. ASSUME NEW h \in Handlers, HandlerStep(h)
        PROVE  CountInv'
    BY <2>2, HandlerCounts, DispatchCounts DEF HandlerStep
  <2>3. CASE RecoveryStep
    BY <2>3, RecoveryCounts, DispatchCounts DEF RecoveryStep
  <2>4. ASSUME NEW a \in Actors, DispatchStep(a)
        PROVE  CountInv'
    BY <2>4, SelectCounts, ForwardCounts DEF DispatchStep
  <2>5. CASE (\E s \in Slots : WorkerStep(s)) \/ (\E m \in late : LateCallback(m))
    BY <2>5, WorkerCounts
  <2>6. CASE Tick \/ Crash \/ Exit
    BY <2>6, ProcessCounts
  <2>7. CASE GracefulStop
    BY <2>7, RecoveryCounts
  <2>8. QED
    BY <2>1, <2>2, <2>3, <2>4, <2>5, <2>6, <2>7 DEF Next
<1>3. Inv /\ CountInv => RunsCounted
  <2> SUFFICES ASSUME Inv, CountInv, NEW r \in ReqIDs
               PROVE  Cardinality(Live(r)) <= MaxWorkers * jobs[r].attempt
    BY DEF RunsCounted, Live
  <2>1. /\ IsFiniteSet(Live(r)) /\ IsFiniteSet(Owed(r))
        /\ Cardinality(Live(r)) + Cardinality(Owed(r)) <= MaxWorkers * jobs[r].attempt
    BY DEF CountInv, Within
  <2>2. Cardinality(Live(r)) \in Nat /\ Cardinality(Owed(r)) \in Nat
    BY <2>1, FS_CardinalityType
  <2>3. MaxWorkers \in Nat /\ jobs[r].attempt \in Nat
    BY DurableJobsAssumption DEF Inv, StoreInv, JobRecord
  <2>4. MaxWorkers * jobs[r].attempt \in Nat
    BY <2>3
  <2>5. QED
    BY <2>1, <2>2, <2>4
<1>4. QED
  BY <1>1, <1>2, <1>3, InvHolds, PTL DEF Spec
=============================================================================

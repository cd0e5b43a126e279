------------------------------- MODULE JobStore -------------------------------
(***************************************************************************)
(* The durable job table of the master (internal/master/sqlite_job_store   *)
(* .go): one row per request_id.  Every operator below is one SQL          *)
(* statement, so it is atomic; none of the UPDATEs looks at the status or  *)
(* the attempt that the row already has.                                   *)
(*                                                                         *)
(* A request body is abstracted to its fingerprint, and so is the response *)
(* it computes: `resp` is the fingerprint of the request that was executed *)
(* to obtain the stored response.  worker_id (every caller passes ""),     *)
(* last_error (text) and max_attempts (the same configured value in every  *)
(* row) are left out.  JobRunning is reserved: no code writes it.          *)
(***************************************************************************)
EXTENDS Integers, FiniteSets

CONSTANTS
    ReqIDs,        \* request identifiers, the table's primary key
    Fps,           \* execution fingerprints
    NoFp,          \* an empty response_json
    MaxAttempts    \* JOB_MAX_ATTEMPTS

ASSUME JobStoreAssumption ==
    /\ IsFiniteSet(ReqIDs)
    /\ NoFp \notin Fps
    /\ MaxAttempts \in Nat \ {0}

VARIABLES
    jobs,      \* the table; a row with status "none" does not exist
    updated    \* the rows' rank in updated_at order; 0 for an absent row

storeVars == <<jobs, updated>>

JobStatus == {"queued", "dispatching", "succeeded", "failed", "ambiguous"}

JobRecord ==
    [status: JobStatus \cup {"none"}, fp: Fps \cup {NoFp}, attempt: Nat,
     lease: Nat, resp: Fps \cup {NoFp}]

NoJob == [status |-> "none", fp |-> NoFp, attempt |-> 0, lease |-> 0, resp |-> NoFp]

StoreInit ==
    /\ jobs = [r \in ReqIDs |-> NoJob]
    /\ updated = [r \in ReqIDs |-> 0]

Exists(r) == jobs[r].status # "none"

(* updated_at := now, which makes the row the last in updated_at order.    *)
(* Ranks stand for the timestamps: only their order is ever used.          *)
Touch(r) ==
    updated' = [q \in ReqIDs |->
        IF q = r THEN Cardinality(ReqIDs)
        ELSE IF updated[q] > updated[r] THEN updated[q] - 1 ELSE updated[q]]

NewJobRecord(f) ==
    [status |-> "queued", fp |-> f, attempt |-> 0, lease |-> 0, resp |-> NoFp]

(* INSERT; the primary key makes it fail with ErrJobExists on a second use. *)
Create(r, f) ==
    /\ ~Exists(r)
    /\ jobs' = [jobs EXCEPT ![r] = NewJobRecord(f)]
    /\ Touch(r)

MarkQueued(r) ==
    /\ jobs' = [jobs EXCEPT ![r].status = "queued", ![r].lease = 0]
    /\ Touch(r)

(* Mutant: a row that is being dispatched already is not counted again. *)
MarkDispatchingOnce(r, leaseUntil) ==
    /\ jobs' = [jobs EXCEPT ![r].attempt = IF jobs[r].status = "dispatching" THEN @ ELSE @ + 1,
                            ![r].status = "dispatching",
                            ![r].lease = leaseUntil]
    /\ Touch(r)

MarkDispatching(r, leaseUntil) ==
    /\ jobs' = [jobs EXCEPT ![r].status = "dispatching",
                            ![r].attempt = @ + 1,
                            ![r].lease = leaseUntil]
    /\ Touch(r)

(* Mutant: the response is not written. *)
MarkSucceededNoResponse(r, response) ==
    /\ jobs' = [jobs EXCEPT ![r].status = "succeeded", ![r].lease = 0]
    /\ Touch(r)

MarkSucceeded(r, response) ==
    /\ jobs' = [jobs EXCEPT ![r].status = "succeeded", ![r].lease = 0,
                            ![r].resp = response]
    /\ Touch(r)

(* Mutant: the lease survives the failure. *)
MarkFailedKeepsLease(r) ==
    /\ jobs' = [jobs EXCEPT ![r].status = "failed"]
    /\ Touch(r)

(* Mutant: a failure clears the stored response. *)
MarkFailedDropsResponse(r) ==
    /\ jobs' = [jobs EXCEPT ![r].status = "failed", ![r].lease = 0, ![r].resp = NoFp]
    /\ Touch(r)

MarkFailed(r) ==
    /\ jobs' = [jobs EXCEPT ![r].status = "failed", ![r].lease = 0]
    /\ Touch(r)

(* Mutant: an expired job is queued again. *)
MarkAmbiguousRequeues(r) ==
    /\ jobs' = [jobs EXCEPT ![r].status = "queued", ![r].lease = 0]
    /\ Touch(r)

MarkAmbiguous(r) ==
    /\ jobs' = [jobs EXCEPT ![r].status = "ambiguous", ![r].lease = 0]
    /\ Touch(r)

(* Mutant: expired leases are not looked at. *)
RecoverableQueuedOnly(now) == {r \in ReqIDs : jobs[r].status = "queued"}

(* The WHERE clause of ListRecoverable. *)
Recoverable(now) ==
    {r \in ReqIDs :
        \/ jobs[r].status = "queued"
        \/ jobs[r].status = "dispatching" /\ 0 < jobs[r].lease /\ jobs[r].lease <= now}

(* ORDER BY updated_at ASC LIMIT n: the n rows written longest ago. *)
ListRecoverable(now, limit) ==
    LET rows == Recoverable(now)
    IN  {r \in rows : Cardinality({q \in rows : updated[q] < updated[r]}) < limit}
=============================================================================

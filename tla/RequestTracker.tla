---------------------------- MODULE RequestTracker ----------------------------
(***************************************************************************)
(* The in-memory request tracker of a gateway without a job store          *)
(* (internal/master/request_tracker.go) together with the execute handlers *)
(* that use it: Begin, dispatch, then Complete or Forget.  Each tracker    *)
(* method holds the tracker's mutex, so it is one step; the dispatch       *)
(* between two of them is not.                                             *)
(*                                                                         *)
(* Gateway.requests() creates the tracker on first use without a lock.     *)
(* Only the tracker the field points to is ever consulted again, so a      *)
(* handler that had read nil and installs its own tracker late replaces    *)
(* the entries by an empty map.                                            *)
(***************************************************************************)
EXTENDS Integers, FiniteSets

CONSTANTS
    ReqIDs, Fps, NoFp, NoID,
    Handlers,      \* concurrent POST /api/v1/execute handlers
    TTL,           \* EXECUTION_REQUEST_CACHE_TTL, in ticks
    MaxEntries,    \* EXECUTION_REQUEST_CACHE_MAX_ENTRIES
    FirstCallers   \* the handlers that may reach requests() before a tracker exists

ASSUME RequestTrackerAssumption ==
    /\ IsFiniteSet(ReqIDs)
    /\ NoFp \notin Fps
    /\ NoID \notin ReqIDs
    /\ TTL \in Nat \ {0}
    /\ MaxEntries \in Nat \ {0}
    /\ FirstCallers \subseteq Handlers

VARIABLES
    entries,     \* the map; an entry in state "none" is absent
    seen,        \* rank of each entry in lastSeen order (the sequence counter)
    handler,     \* the request each handler is dispatching
    installed,   \* Gateway.Requests is not nil
    sawNil,      \* handlers inside requests() that have read nil
    served       \* responses handed to clients

vars == <<entries, seen, handler, installed, sawNil, served>>

Absent == [state |-> "none", fp |-> NoFp, resp |-> NoFp, age |-> 0]

HandlerIdle == [pc |-> "idle", id |-> NoID, fp |-> NoFp]

Init ==
    /\ entries = [r \in ReqIDs |-> Absent]
    /\ seen = [r \in ReqIDs |-> 0]
    /\ handler = [h \in Handlers |-> HandlerIdle]
    /\ installed = FALSE
    /\ sawNil = {}
    /\ served = {}

-----------------------------------------------------------------------------
(* Tracker operations, as functions of the map. *)

Present(e) == {r \in ReqIDs : e[r].state # "none"}
Completed(e) == {r \in ReqIDs : e[r].state = "completed"}

Without(e, gone) == [r \in ReqIDs |-> IF r \in gone THEN Absent ELSE e[r]]

(* An entry whose age is exactly the TTL is kept. *)
removeExpiredCompleted(e) == Without(e, {r \in Completed(e) : e[r].age > TTL})

(* Mutant: every other rank moves down. *)
TouchedShiftsAll(r) ==
    [q \in ReqIDs |-> IF q = r THEN Cardinality(ReqIDs) ELSE seen[q] - 1]

(* nextSequence: r becomes the entry seen last. *)
Touched(r) ==
    [q \in ReqIDs |->
        IF q = r THEN Cardinality(ReqIDs)
        ELSE IF seen[q] > seen[r] THEN seen[q] - 1 ELSE seen[q]]

(* Mutant: entries in flight are evicted like any other. *)
evictAnyOverLimit(e, order) ==
    LET excess == Cardinality(Present(e)) - MaxEntries
    IN  Without(e, {r \in Present(e) :
                       Cardinality({q \in Present(e) : order[q] < order[r]}) < excess})

(* Mutant: the loop stops one entry early. *)
evictOneTooFew(e, order) ==
    LET excess == Cardinality(Present(e)) - MaxEntries - 1
    IN  Without(e, {r \in Completed(e) :
                       Cardinality({q \in Completed(e) : order[q] < order[r]}) < excess})

(* The least recently seen completed entries go, one by one, until the map *)
(* fits or none is left; entries in flight are never dropped.              *)
evictCompletedOverLimit(e, order) ==
    LET excess == Cardinality(Present(e)) - MaxEntries
    IN  Without(e, {r \in Completed(e) :
                       Cardinality({q \in Completed(e) : order[q] < order[r]}) < excess})

Started(f) == [state |-> "started", fp |-> f, resp |-> NoFp, age |-> 0]

Stored(e, r, response) ==
    [e EXCEPT ![r].state = "completed", ![r].resp = response, ![r].age = 0]

-----------------------------------------------------------------------------
(* Gateway.handleExecute without a job store. *)

CanCall(h) == handler[h].pc = "idle" /\ h \notin sawNil /\ installed

(* Begin on an unknown id: the handler goes on to dispatch. *)
BeginStarted(h, r, f) ==
    /\ CanCall(h)
    /\ LET live == removeExpiredCompleted(entries)
       IN  /\ live[r].state = "none"
           /\ entries' = evictCompletedOverLimit([live EXCEPT ![r] = Started(f)], Touched(r))
    /\ seen' = Touched(r)
    /\ handler' = [handler EXCEPT ![h] = [pc |-> "running", id |-> r, fp |-> f]]
    /\ UNCHANGED <<installed, sawNil, served>>

(* Mutant: the fingerprint is not compared. *)
MatchesAnyContent(e, r, f) == e[r].state # "none"

Matches(e, r, f) == e[r].state # "none" /\ e[r].fp = f

(* Begin on a completed entry: its response is replayed. *)
BeginCompleted(h, r, f) ==
    /\ CanCall(h)
    /\ LET live == removeExpiredCompleted(entries)
       IN  /\ Matches(live, r, f)
           /\ live[r].state = "completed"
           /\ served' = served \cup {[id |-> r, asked |-> f, resp |-> live[r].resp]}
           /\ entries' = live
    /\ seen' = Touched(r)
    /\ UNCHANGED <<handler, installed, sawNil>>

(* Begin answered 409, for a running or for a different request, and Stats *)
(* only remove what has expired.                                           *)
Sweep ==
    /\ installed
    /\ entries' = removeExpiredCompleted(entries)
    /\ UNCHANGED <<seen, handler, installed, sawNil, served>>

(* The dispatch succeeded: Complete, if the entry is still there, and reply. *)
Complete(h) ==
    /\ handler[h].pc = "running"
    /\ LET r == handler[h].id
       IN  /\ IF entries[r].state = "none"
                THEN UNCHANGED <<entries, seen>>
                ELSE /\ seen' = Touched(r)
                     /\ entries' = evictCompletedOverLimit(
                            Stored(entries, r, handler[h].fp), Touched(r))
           /\ served' = served \cup {[id |-> r, asked |-> handler[h].fp, resp |-> handler[h].fp]}
    /\ handler' = [handler EXCEPT ![h] = HandlerIdle]
    /\ UNCHANGED <<installed, sawNil>>

(* Mutant: a failed dispatch leaves its entry behind. *)
ForgetNothing(h) ==
    /\ handler[h].pc = "running"
    /\ handler' = [handler EXCEPT ![h] = HandlerIdle]
    /\ UNCHANGED <<entries, seen, installed, sawNil, served>>

(* The dispatch failed: whatever entry the id has is deleted. *)
Forget(h) ==
    /\ handler[h].pc = "running"
    /\ entries' = Without(entries, {handler[h].id})
    /\ handler' = [handler EXCEPT ![h] = HandlerIdle]
    /\ UNCHANGED <<seen, installed, sawNil, served>>

(* requests(): the nil check and the assignment are two steps. *)
ReadNil(h) ==
    /\ h \in FirstCallers
    /\ handler[h].pc = "idle"
    /\ ~installed
    /\ sawNil' = sawNil \cup {h}
    /\ UNCHANGED <<entries, seen, handler, installed, served>>

Install(h) ==
    /\ h \in sawNil
    /\ sawNil' = sawNil \ {h}
    /\ installed' = TRUE
    /\ entries' = Without(entries, ReqIDs)
    /\ seen' = [r \in ReqIDs |-> 0]
    /\ UNCHANGED <<handler, served>>

(* Ages stop at TTL + 1, where an entry counts as expired. *)
Tick ==
    /\ entries' = [r \in ReqIDs |->
            IF entries[r].state = "completed" /\ entries[r].age <= TTL
              THEN [entries[r] EXCEPT !.age = @ + 1]
              ELSE entries[r]]
    /\ UNCHANGED <<seen, handler, installed, sawNil, served>>

Next ==
    \/ \E h \in Handlers, r \in ReqIDs, f \in Fps :
        BeginStarted(h, r, f) \/ BeginCompleted(h, r, f)
    \/ \E h \in Handlers : Complete(h) \/ Forget(h) \/ ReadNil(h) \/ Install(h)
    \/ Sweep
    \/ Tick

Spec == Init /\ [][Next]_vars

-----------------------------------------------------------------------------
Running == {h \in Handlers : handler[h].pc = "running"}

(* The types of the variables. *)
TypeOK ==
    /\ entries \in [ReqIDs -> [state: {"none", "started", "completed"}, fp: Fps \cup {NoFp},
                               resp: Fps \cup {NoFp}, age: 0..(TTL + 1)]]
    /\ seen \in [ReqIDs -> Nat]
    /\ handler \in [Handlers -> [pc: {"idle", "running"}, id: ReqIDs \cup {NoID},
                                 fp: Fps \cup {NoFp}]]
    /\ installed \in BOOLEAN
    /\ sawNil \subseteq Handlers
    /\ served \subseteq [id: ReqIDs, asked: Fps, resp: Fps]

(* A request that is running is not started a second time: "the gateway     *)
(* returns 409 request_in_progress".                                        *)
OneRunnerPerRequest ==
    \A g, h \in Running : handler[g].id = handler[h].id => g = h

(* Entries in flight and running handlers correspond: a handler's own entry *)
(* is still there when it calls Complete or Forget, whatever expired or was *)
(* evicted meanwhile, and no entry stays in flight, rejecting every retry,  *)
(* after its handler is gone.                                               *)
InFlightIffRunning ==
    /\ \A r \in ReqIDs :
        entries[r].state = "started" <=> \E h \in Running : handler[h].id = r
    /\ \A h \in Running : entries[handler[h].id].fp = handler[h].fp

(* The map outgrows its limit only by requests in flight. *)
CapacityRespected ==
    Cardinality(Present(entries)) > MaxEntries => Completed(entries) = {}

(* A client is only given a response computed from the request it sent. *)
ResponseMatchesRequest == \A c \in served : c.resp = c.asked
=============================================================================

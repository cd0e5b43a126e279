------------------------ MODULE RequestTrackerProofs ------------------------
(***************************************************************************)
(* Proofs about RequestTracker, for any number of requests and handlers,   *)
(* any TTL and any limit, when the tracker has been created before two     *)
(* handlers can race for it (FirstCallers has at most one element).        *)
(***************************************************************************)
EXTENDS RequestTracker, FiniteSetTheorems, WellFoundedInduction, TLAPS

Entry == [state: {"none", "started", "completed"}, fp: Fps \cup {NoFp},
          resp: Fps \cup {NoFp}, age: 0..(TTL + 1)]

EntryMap == [ReqIDs -> Entry]

(* What a running handler holds. *)
HandlersHold ==
    \A h \in Running : handler[h].id \in ReqIDs /\ handler[h].fp \in Fps

(* A completed entry holds the response to its own request. *)
CompletedMatch ==
    \A r \in Completed(entries) : entries[r].fp \in Fps /\ entries[r].resp = entries[r].fp

(* With a single first caller, nobody installs a tracker over one in use. *)
InstalledOnce ==
    /\ sawNil \subseteq FirstCallers
    /\ installed => sawNil = {}
    /\ ~installed => Running = {} /\ entries = [r \in ReqIDs |-> Absent]

Inv ==
    /\ TypeOK
    /\ HandlersHold
    /\ InstalledOnce
    /\ OneRunnerPerRequest
    /\ InFlightIffRunning
    /\ CompletedMatch
    /\ ResponseMatchesRequest

-----------------------------------------------------------------------------
(* The cardinality of the key space, used as the highest rank, is a number. *)
LEMMA RankIsNat == Cardinality(ReqIDs) \in Nat
BY FS_CardinalityType, RequestTrackerAssumption

(* Ranks stay natural numbers. *)
LEMMA TouchedType ==
    ASSUME seen \in [ReqIDs -> Nat], NEW r \in ReqIDs
    PROVE  Touched(r) \in [ReqIDs -> Nat]
<1>1. ASSUME NEW q \in ReqIDs
      PROVE  (IF q = r THEN Cardinality(ReqIDs)
              ELSE IF seen[q] > seen[r] THEN seen[q] - 1 ELSE seen[q]) \in Nat
  <2>1. CASE q = r
    BY <2>1, RankIsNat
  <2>2. CASE q # r /\ seen[q] > seen[r]
    BY <2>2
  <2>3. CASE q # r /\ ~(seen[q] > seen[r])
    BY <2>3
  <2>4. QED
    BY <2>1, <2>2, <2>3
<1>2. QED
  BY <1>1 DEF Touched

(* An absent entry is a well-formed value of the map. *)
LEMMA AbsentIsEntry == Absent \in Entry
BY RequestTrackerAssumption DEF Absent, Entry

(* d is e with some completed entries removed. *)
Removal(e, d) ==
    /\ d \in EntryMap
    /\ \A r \in ReqIDs : d[r] = e[r] \/ (e[r].state = "completed" /\ d[r] = Absent)

(* Removing completed entries leaves a map without them and nothing else. *)
LEMMA RemovalWithout ==
    ASSUME NEW e \in EntryMap, NEW gone \in SUBSET Completed(e)
    PROVE  Removal(e, Without(e, gone))
BY AbsentIsEntry DEF Without, Completed, EntryMap, Removal

(* removeExpiredCompleted removes completed entries only. *)
LEMMA ExpiryRemoves ==
    ASSUME NEW e \in EntryMap
    PROVE  Removal(e, removeExpiredCompleted(e))
BY RemovalWithout DEF removeExpiredCompleted

(* evictCompletedOverLimit removes completed entries only, whatever the    *)
(* order it goes by.                                                       *)
LEMMA EvictionRemoves ==
    ASSUME NEW e \in EntryMap, NEW order
    PROVE  Removal(e, evictCompletedOverLimit(e, order))
<1> DEFINE excess == Cardinality(Present(e)) - MaxEntries
           gone == {r \in Completed(e) :
                       Cardinality({q \in Completed(e) : order[q] < order[r]}) < excess}
<1>1. gone \in SUBSET Completed(e)
  OBVIOUS
<1>2. evictCompletedOverLimit(e, order) = Without(e, gone)
  BY DEF evictCompletedOverLimit
<1> HIDE DEF gone
<1>3. QED
  BY <1>1, <1>2, RemovalWithout

-----------------------------------------------------------------------------
(* The initial states satisfy the inductive invariant. *)
THEOREM InitInv == Init => Inv
<1> SUFFICES ASSUME Init PROVE Inv
  OBVIOUS
<1>1. Running = {}
  BY DEF Init, Running, HandlerIdle
<1>2. Completed(entries) = {}
  BY DEF Init, Completed, Absent
<1>3. TypeOK
  BY AbsentIsEntry, RequestTrackerAssumption DEF Init, TypeOK, Entry, HandlerIdle
<1>4. InFlightIffRunning
  BY <1>1 DEF Init, InFlightIffRunning, Absent
<1>5. InstalledOnce
  BY <1>1 DEF Init, InstalledOnce
<1>6. QED
  BY <1>1, <1>2, <1>3, <1>4, <1>5
  DEF Init, Inv, HandlersHold, OneRunnerPerRequest, CompletedMatch, ResponseMatchesRequest

-----------------------------------------------------------------------------
(* Removing completed entries preserves what the invariant says of the map. *)
LEMMA RemovalPreserves ==
    ASSUME Inv, Removal(entries, entries'), UNCHANGED handler
    PROVE  InFlightIffRunning' /\ CompletedMatch'
<1>1. \A r \in ReqIDs : entries'[r].state = "started" <=> entries[r].state = "started"
  BY DEF Removal, Absent
<1>2. \A r \in ReqIDs : entries[r].state = "started" => entries'[r] = entries[r]
  BY DEF Removal
<1>3. Running' = Running
  BY DEF Running
<1>4. InFlightIffRunning'
  BY <1>1, <1>2, <1>3 DEF InFlightIffRunning, Inv, HandlersHold
<1>5. CompletedMatch'
  BY DEF CompletedMatch, Completed, Removal, Absent, Inv
<1>6. QED
  BY <1>4, <1>5

(* Begin on an unknown id preserves the invariant: the id had no runner,   *)
(* and only completed entries make room for it.                            *)
LEMMA BeginStartedStep ==
    ASSUME Inv, NEW h \in Handlers, NEW r \in ReqIDs, NEW f \in Fps, BeginStarted(h, r, f)
    PROVE  Inv'
<1> DEFINE live == removeExpiredCompleted(entries)
           grown == [live EXCEPT ![r] = Started(f)]
<1>1. entries \in EntryMap
  BY DEF Inv, TypeOK, EntryMap, Entry
<1>2. Removal(entries, live)
  BY <1>1, ExpiryRemoves
<1>3. live[r].state = "none" /\ entries' = evictCompletedOverLimit(grown, Touched(r))
  BY DEF BeginStarted
<1>4. live \in EntryMap
  BY <1>2 DEF Removal
<1> HIDE DEF live
<1>5. Started(f) \in Entry
  BY RequestTrackerAssumption DEF Started, Entry
<1>6. grown \in EntryMap
  BY <1>4, <1>5 DEF EntryMap
<1>7. /\ grown[r] = Started(f)
      /\ \A q \in ReqIDs \ {r} : grown[q] = live[q]
  BY <1>4 DEF EntryMap
<1> HIDE DEF grown
<1>8. Removal(grown, entries')
  BY <1>3, <1>6, EvictionRemoves
<1>9. entries'[r] = Started(f)
  BY <1>7, <1>8 DEF Removal, Started
<1>10. \A q \in ReqIDs \ {r} :
          entries'[q] = entries[q] \/ (entries[q].state = "completed" /\ entries'[q] = Absent)
  BY <1>2, <1>7, <1>8 DEF Removal
<1>11. entries[r].state # "started"
  BY <1>2, <1>3 DEF Removal, Absent
<1>12. handler' = [handler EXCEPT ![h] = [pc |-> "running", id |-> r, fp |-> f]]
  BY DEF BeginStarted
<1>13. /\ h \notin Running
       /\ Running' = Running \cup {h}
       /\ handler'[h] = [pc |-> "running", id |-> r, fp |-> f]
       /\ \A g \in Running : handler'[g] = handler[g]
  BY <1>12 DEF BeginStarted, CanCall, Running, Inv, TypeOK
<1>14. \A g \in Running : handler[g].id # r
  BY <1>11 DEF Inv, InFlightIffRunning
<1>15. TypeOK'
  <2>1. entries' \in EntryMap
    BY <1>8 DEF Removal
  <2>2. seen' \in [ReqIDs -> Nat]
    BY TouchedType DEF BeginStarted, Inv, TypeOK
  <2>3. handler' \in [Handlers -> [pc: {"idle", "running"}, id: ReqIDs \cup {NoID},
                                   fp: Fps \cup {NoFp}]]
    BY <1>12 DEF Inv, TypeOK
  <2>4. QED
    BY <2>1, <2>2, <2>3 DEF BeginStarted, Inv, TypeOK, EntryMap, Entry
<1>16. HandlersHold'
  BY <1>13 DEF HandlersHold, Inv
<1>17. InstalledOnce'
  BY DEF BeginStarted, CanCall, Inv, InstalledOnce
<1>18. OneRunnerPerRequest'
  BY <1>13, <1>14 DEF OneRunnerPerRequest, Inv
<1>19. InFlightIffRunning'
  <2>1. \A q \in ReqIDs : entries'[q].state = "started" <=> \E g \in Running' : handler'[g].id = q
    <3>1. ASSUME NEW q \in ReqIDs, q # r
          PROVE  entries'[q].state = "started" <=> \E g \in Running' : handler'[g].id = q
      <4>1. entries'[q].state = "started" <=> entries[q].state = "started"
        BY <1>10, <3>1 DEF Absent
      <4>2. (\E g \in Running' : handler'[g].id = q) <=> (\E g \in Running : handler[g].id = q)
        BY <1>13, <3>1
      <4>3. QED
        BY <4>1, <4>2 DEF Inv, InFlightIffRunning
    <3>2. entries'[r].state = "started" /\ \E g \in Running' : handler'[g].id = r
      BY <1>9, <1>13 DEF Started
    <3>3. QED
      BY <3>1, <3>2
  <2>2. \A g \in Running' : entries'[handler'[g].id].fp = handler'[g].fp
    <3>1. entries'[handler'[h].id].fp = handler'[h].fp
      BY <1>9, <1>13 DEF Started
    <3>2. ASSUME NEW g \in Running
          PROVE  entries'[handler'[g].id].fp = handler'[g].fp
      <4>1. handler[g].id \in ReqIDs \ {r} /\ entries[handler[g].id].state = "started"
        BY <1>14 DEF Inv, InFlightIffRunning, HandlersHold
      <4>2. entries'[handler[g].id] = entries[handler[g].id]
        BY <1>10, <4>1
      <4>3. QED
        BY <4>2, <1>13 DEF Inv, InFlightIffRunning
    <3>3. QED
      BY <3>1, <3>2, <1>13
  <2>3. QED
    BY <2>1, <2>2 DEF InFlightIffRunning
<1>20. CompletedMatch'
  BY <1>9, <1>10 DEF CompletedMatch, Completed, Inv, Absent, Started
<1>21. ResponseMatchesRequest'
  BY DEF BeginStarted, Inv, ResponseMatchesRequest
<1>22. QED
  BY <1>15, <1>16, <1>17, <1>18, <1>19, <1>20, <1>21 DEF Inv

(* Replaying a completed entry preserves the invariant: its response was   *)
(* computed from the fingerprint the client sent.                          *)
LEMMA BeginCompletedStep ==
    ASSUME Inv, NEW h \in Handlers, NEW r \in ReqIDs, NEW f \in Fps, BeginCompleted(h, r, f)
    PROVE  Inv'
<1> DEFINE live == removeExpiredCompleted(entries)
<1>1. Removal(entries, live)
  BY ExpiryRemoves DEF Inv, TypeOK, EntryMap, Entry
<1>2. /\ live[r].fp = f
      /\ live[r].state = "completed"
      /\ served' = served \cup {[id |-> r, asked |-> f, resp |-> live[r].resp]}
      /\ entries' = live
  BY DEF BeginCompleted, Matches
<1> HIDE DEF live
<1>3. entries[r].state = "completed" /\ live[r] = entries[r]
  BY <1>1, <1>2 DEF Removal, Absent
<1>4. live[r].resp = f
  BY <1>2, <1>3 DEF Inv, CompletedMatch, Completed
<1>5. TypeOK'
  <2>1. entries' \in EntryMap
    BY <1>1, <1>2 DEF Removal
  <2>2. seen' \in [ReqIDs -> Nat]
    BY TouchedType DEF BeginCompleted, Inv, TypeOK
  <2>3. served' \subseteq [id: ReqIDs, asked: Fps, resp: Fps]
    BY <1>2, <1>4 DEF Inv, TypeOK
  <2>4. QED
    BY <2>1, <2>2, <2>3 DEF BeginCompleted, Inv, TypeOK, EntryMap, Entry
<1>6. InFlightIffRunning' /\ CompletedMatch'
  BY <1>1, <1>2, RemovalPreserves DEF BeginCompleted
<1>7. ResponseMatchesRequest'
  BY <1>2, <1>4 DEF Inv, ResponseMatchesRequest
<1>8. InstalledOnce'
  BY DEF BeginCompleted, CanCall, Inv, InstalledOnce
<1>9. HandlersHold' /\ OneRunnerPerRequest'
  BY DEF BeginCompleted, Inv, HandlersHold, OneRunnerPerRequest, Running
<1>10. QED
  BY <1>5, <1>6, <1>7, <1>8, <1>9 DEF Inv

(* Sweep preserves the invariant. *)
LEMMA SweepStep ==
    ASSUME Inv, Sweep
    PROVE  Inv'
<1>1. Removal(entries, entries')
  BY ExpiryRemoves DEF Inv, TypeOK, EntryMap, Entry, Sweep
<1>2. TypeOK'
  BY <1>1 DEF Removal, Sweep, Inv, TypeOK, EntryMap, Entry
<1>3. InFlightIffRunning' /\ CompletedMatch'
  BY <1>1, RemovalPreserves DEF Sweep
<1>4. InstalledOnce'
  BY DEF Sweep, Inv, InstalledOnce
<1>5. HandlersHold' /\ OneRunnerPerRequest' /\ ResponseMatchesRequest'
  BY DEF Sweep, Inv, HandlersHold, OneRunnerPerRequest, ResponseMatchesRequest, Running
<1>6. QED
  BY <1>2, <1>3, <1>4, <1>5 DEF Inv

(* When a handler stops running, the others keep what they hold. *)
LEMMA HandlerLeaves ==
    ASSUME Inv, NEW h \in Running, handler' = [handler EXCEPT ![h] = HandlerIdle]
    PROVE  /\ Running' = Running \ {h}
           /\ \A g \in Running \ {h} : handler'[g] = handler[g] /\ handler[g].id # handler[h].id
           /\ HandlersHold'
           /\ OneRunnerPerRequest'
           /\ handler' \in [Handlers -> [pc: {"idle", "running"}, id: ReqIDs \cup {NoID},
                                         fp: Fps \cup {NoFp}]]
<1>1. Running' = Running \ {h}
  BY DEF Running, HandlerIdle, Inv, TypeOK
<1>2. \A g \in Running \ {h} : handler'[g] = handler[g] /\ handler[g].id # handler[h].id
  BY DEF Running, Inv, OneRunnerPerRequest, TypeOK
<1>3. HandlersHold'
  BY <1>1, <1>2 DEF Inv, HandlersHold
<1>4. OneRunnerPerRequest'
  BY <1>1, <1>2 DEF Inv, OneRunnerPerRequest
<1>5. handler' \in [Handlers -> [pc: {"idle", "running"}, id: ReqIDs \cup {NoID},
                                 fp: Fps \cup {NoFp}]]
  BY RequestTrackerAssumption DEF Inv, TypeOK, HandlerIdle
<1>6. QED
  BY <1>1, <1>2, <1>3, <1>4, <1>5

(* When a handler stops running and its entry is no longer in flight, the  *)
(* entries of the others being untouched, the correspondence is preserved. *)
LEMMA EntryLeaves ==
    ASSUME Inv, NEW h \in Running, handler' = [handler EXCEPT ![h] = HandlerIdle],
           entries'[handler[h].id].state # "started",
           \A q \in ReqIDs \ {handler[h].id} :
              entries'[q] = entries[q]
                \/ (entries[q].state = "completed" /\ entries'[q] = Absent)
    PROVE  InFlightIffRunning'
<1>1. /\ Running' = Running \ {h}
      /\ \A g \in Running \ {h} : handler'[g] = handler[g] /\ handler[g].id # handler[h].id
  BY HandlerLeaves
<1>2. \A q \in ReqIDs : entries'[q].state = "started" <=> \E g \in Running' : handler'[g].id = q
  <2>1. ASSUME NEW q \in ReqIDs, q # handler[h].id
        PROVE  entries'[q].state = "started" <=> \E g \in Running' : handler'[g].id = q
    <3>1. entries'[q].state = "started" <=> entries[q].state = "started"
      BY <2>1 DEF Absent
    <3>2. (\E g \in Running' : handler'[g].id = q) <=> (\E g \in Running : handler[g].id = q)
      BY <1>1, <2>1
    <3>3. QED
      BY <3>1, <3>2 DEF Inv, InFlightIffRunning
  <2>2. ~ \E g \in Running' : handler'[g].id = handler[h].id
    BY <1>1
  <2>3. QED
    BY <2>1, <2>2
<1>3. ASSUME NEW g \in Running'
      PROVE  entries'[handler'[g].id].fp = handler'[g].fp
  <2>1. /\ g \in Running
        /\ handler'[g] = handler[g]
        /\ handler[g].id \in ReqIDs \ {handler[h].id}
    BY <1>1, <1>3 DEF Inv, HandlersHold
  <2>2. entries[handler[g].id].state = "started"
    BY <2>1 DEF Inv, InFlightIffRunning
  <2>3. entries'[handler[g].id] = entries[handler[g].id]
    BY <2>1, <2>2
  <2>4. QED
    BY <2>1, <2>3 DEF Inv, InFlightIffRunning
<1>4. QED
  BY <1>2, <1>3 DEF InFlightIffRunning

(* What storing a response does to the map. *)
LEMMA StoredResponse ==
    ASSUME NEW e \in EntryMap, NEW r \in ReqIDs, NEW f \in Fps
    PROVE  /\ Stored(e, r, f) \in EntryMap
           /\ Stored(e, r, f)[r].state = "completed"
           /\ Stored(e, r, f)[r].fp = e[r].fp
           /\ Stored(e, r, f)[r].resp = f
           /\ \A q \in ReqIDs \ {r} : Stored(e, r, f)[q] = e[q]
<1> DEFINE done == [e EXCEPT ![r].state = "completed", ![r].resp = f, ![r].age = 0]
<1>1. 0 \in 0..(TTL + 1)
  BY RequestTrackerAssumption
<1>2. done[r] \in Entry
  BY <1>1 DEF EntryMap, Entry
<1>3. done \in EntryMap
  BY <1>2 DEF EntryMap
<1>4. /\ done[r].state = "completed"
      /\ done[r].fp = e[r].fp
      /\ done[r].resp = f
      /\ \A q \in ReqIDs \ {r} : done[q] = e[q]
  BY DEF EntryMap, Entry
<1>5. QED
  BY <1>3, <1>4 DEF Stored

(* Complete preserves the invariant: the handler's own entry is there, so  *)
(* the response is stored under the fingerprint it was computed from.      *)
LEMMA CompleteStep ==
    ASSUME Inv, NEW h \in Handlers, Complete(h)
    PROVE  Inv'
<1> DEFINE r == handler[h].id
           done == Stored(entries, r, handler[h].fp)
<1>1. h \in Running /\ r \in ReqIDs /\ handler[h].fp \in Fps
  BY DEF Complete, Running, Inv, HandlersHold
<1>2. entries[r].state = "started" /\ entries[r].fp = handler[h].fp
  BY <1>1 DEF Inv, InFlightIffRunning
<1>3. /\ entries' = evictCompletedOverLimit(done, Touched(r))
      /\ seen' = Touched(r)
      /\ served' = served \cup {[id |-> r, asked |-> handler[h].fp, resp |-> handler[h].fp]}
      /\ handler' = [handler EXCEPT ![h] = HandlerIdle]
      /\ UNCHANGED <<installed, sawNil>>
  BY <1>2 DEF Complete
<1>4. entries \in EntryMap
  BY DEF Inv, TypeOK, EntryMap, Entry
<1>5. /\ done \in EntryMap
      /\ done[r].state = "completed"
      /\ done[r].fp = handler[h].fp
      /\ done[r].resp = handler[h].fp
      /\ \A q \in ReqIDs \ {r} : done[q] = entries[q]
  BY <1>1, <1>2, <1>4, StoredResponse
<1> HIDE DEF done
<1>6. Removal(done, entries')
  BY <1>3, <1>5, EvictionRemoves
<1>7. \A q \in ReqIDs \ {r} :
          entries'[q] = entries[q] \/ (entries[q].state = "completed" /\ entries'[q] = Absent)
  BY <1>5, <1>6 DEF Removal
<1>8. entries'[r] = done[r] \/ entries'[r] = Absent
  BY <1>1, <1>6 DEF Removal
<1>9. InFlightIffRunning'
  <2>1. entries'[handler[h].id].state # "started"
    BY <1>5, <1>8 DEF Absent
  <2>2. QED
    BY <1>1, <1>3, <1>7, <2>1, EntryLeaves
<1>10. CompletedMatch'
  <2>1. ASSUME NEW q \in ReqIDs, entries'[q].state = "completed"
        PROVE  entries'[q].fp \in Fps /\ entries'[q].resp = entries'[q].fp
    <3>1. CASE q = r
      BY <2>1, <3>1, <1>1, <1>5, <1>8 DEF Absent
    <3>2. CASE q # r
      BY <2>1, <3>2, <1>7 DEF Absent, Inv, CompletedMatch, Completed
    <3>3. QED
      BY <3>1, <3>2
  <2>2. QED
    BY <2>1 DEF CompletedMatch, Completed
<1>11. HandlersHold' /\ OneRunnerPerRequest'
  BY <1>1, <1>3, HandlerLeaves
<1>12. TypeOK'
  <2>1. entries' \in EntryMap
    BY <1>6 DEF Removal
  <2>2. seen' \in [ReqIDs -> Nat]
    BY <1>1, <1>3, TouchedType DEF Inv, TypeOK
  <2>3. handler' \in [Handlers -> [pc: {"idle", "running"}, id: ReqIDs \cup {NoID},
                                   fp: Fps \cup {NoFp}]]
    BY <1>1, <1>3, HandlerLeaves
  <2>4. served' \subseteq [id: ReqIDs, asked: Fps, resp: Fps]
    BY <1>1, <1>3 DEF Inv, TypeOK
  <2>5. QED
    BY <2>1, <2>2, <2>3, <2>4, <1>3 DEF Inv, TypeOK, EntryMap, Entry
<1>13. InstalledOnce'
  BY <1>1, <1>3 DEF Inv, InstalledOnce
<1>14. ResponseMatchesRequest'
  BY <1>3 DEF Inv, ResponseMatchesRequest
<1>15. QED
  BY <1>9, <1>10, <1>11, <1>12, <1>13, <1>14 DEF Inv

(* Forget preserves the invariant. *)
LEMMA ForgetStep ==
    ASSUME Inv, NEW h \in Handlers, Forget(h)
    PROVE  Inv'
<1> DEFINE r == handler[h].id
<1>1. h \in Running /\ r \in ReqIDs
  BY DEF Forget, Running, Inv, HandlersHold
<1>2. /\ entries' = Without(entries, {r})
      /\ handler' = [handler EXCEPT ![h] = HandlerIdle]
      /\ UNCHANGED <<seen, installed, sawNil, served>>
  BY DEF Forget
<1>3. /\ entries' \in EntryMap
      /\ entries'[r] = Absent
      /\ \A q \in ReqIDs \ {r} : entries'[q] = entries[q]
  BY <1>1, <1>2, AbsentIsEntry DEF Without, Inv, TypeOK, EntryMap, Entry
<1>4. InFlightIffRunning'
  <2>1. entries'[handler[h].id].state # "started"
    BY <1>3 DEF Absent
  <2>2. \A q \in ReqIDs \ {handler[h].id} :
            entries'[q] = entries[q]
              \/ (entries[q].state = "completed" /\ entries'[q] = Absent)
    BY <1>3
  <2>3. QED
    BY <1>1, <1>2, <2>1, <2>2, EntryLeaves
<1>5. CompletedMatch'
  BY <1>3 DEF CompletedMatch, Completed, Absent, Inv
<1>6. HandlersHold' /\ OneRunnerPerRequest'
  BY <1>1, <1>2, HandlerLeaves
<1>7. TypeOK'
  <2>1. handler' \in [Handlers -> [pc: {"idle", "running"}, id: ReqIDs \cup {NoID},
                                   fp: Fps \cup {NoFp}]]
    BY <1>1, <1>2, HandlerLeaves
  <2>2. QED
    BY <2>1, <1>2, <1>3 DEF Inv, TypeOK, EntryMap, Entry
<1>8. InstalledOnce'
  BY <1>1, <1>2 DEF Inv, InstalledOnce
<1>9. ResponseMatchesRequest'
  BY <1>2 DEF Inv, ResponseMatchesRequest
<1>10. QED
  BY <1>4, <1>5, <1>6, <1>7, <1>8, <1>9 DEF Inv

-----------------------------------------------------------------------------
(* At most one handler can be inside requests() while there is no tracker. *)
SingleFirstCaller == \A g, h \in FirstCallers : g = h

(* ReadNil preserves the invariant. *)
LEMMA ReadNilStep ==
    ASSUME Inv, NEW h \in Handlers, ReadNil(h)
    PROVE  Inv'
<1>1. TypeOK'
  BY DEF ReadNil, Inv, TypeOK
<1>2. InstalledOnce'
  BY DEF ReadNil, Inv, InstalledOnce, Running
<1>3. /\ HandlersHold' /\ OneRunnerPerRequest' /\ InFlightIffRunning'
      /\ CompletedMatch' /\ ResponseMatchesRequest'
  BY DEF ReadNil, Inv, HandlersHold, OneRunnerPerRequest, InFlightIffRunning,
         CompletedMatch, Completed, ResponseMatchesRequest, Running
<1>4. QED
  BY <1>1, <1>2, <1>3 DEF Inv

(* Install preserves the invariant when nobody else has read nil: there is *)
(* no tracker yet, so no entry is lost.                                    *)
LEMMA InstallStep ==
    ASSUME Inv, SingleFirstCaller, NEW h \in Handlers, Install(h)
    PROVE  Inv'
<1>1. h \in sawNil /\ ~installed
  BY DEF Install, Inv, InstalledOnce
<1>2. Running = {} /\ entries = [r \in ReqIDs |-> Absent]
  BY <1>1 DEF Inv, InstalledOnce
<1>3. entries' = entries
  BY <1>2 DEF Install, Without
<1>4. sawNil' = {}
  BY <1>1 DEF Install, Inv, InstalledOnce, SingleFirstCaller
<1>5. TypeOK'
  BY <1>3, <1>4 DEF Install, Inv, TypeOK
<1>6. InstalledOnce'
  BY <1>4 DEF Install, InstalledOnce
<1>7. /\ HandlersHold' /\ OneRunnerPerRequest' /\ InFlightIffRunning'
      /\ CompletedMatch' /\ ResponseMatchesRequest'
  BY <1>3 DEF Install, Inv, HandlersHold, OneRunnerPerRequest, InFlightIffRunning,
              CompletedMatch, Completed, ResponseMatchesRequest, Running
<1>8. QED
  BY <1>5, <1>6, <1>7 DEF Inv

(* Tick preserves the invariant: it only makes completed entries older. *)
LEMMA TickStep ==
    ASSUME Inv, Tick
    PROVE  Inv'
<1>1. ASSUME NEW r \in ReqIDs
      PROVE  /\ entries'[r] \in Entry
             /\ entries'[r].state = entries[r].state
             /\ entries'[r].fp = entries[r].fp
             /\ entries'[r].resp = entries[r].resp
  <2>1. entries[r] \in Entry
    BY DEF Inv, TypeOK, Entry
  <2>2. CASE entries[r].state = "completed" /\ entries[r].age <= TTL
    <3>1. entries'[r] = [entries[r] EXCEPT !.age = @ + 1]
      BY <2>2 DEF Tick
    <3>2. entries[r].age + 1 \in 0..(TTL + 1)
      BY <2>1, <2>2, RequestTrackerAssumption DEF Entry
    <3>3. QED
      BY <2>1, <3>1, <3>2 DEF Entry
  <2>3. CASE ~(entries[r].state = "completed" /\ entries[r].age <= TTL)
    <3>1. entries'[r] = entries[r]
      BY <2>3 DEF Tick
    <3>2. QED
      BY <2>1, <3>1
  <2>4. QED
    BY <2>2, <2>3
<1>2. TypeOK'
  <2>1. entries' \in [ReqIDs -> Entry]
    BY <1>1 DEF Tick
  <2>2. QED
    BY <2>1 DEF Tick, Inv, TypeOK, Entry
<1>3. InstalledOnce'
  <2>1. ASSUME ~installed
        PROVE  entries' = entries
    BY <2>1 DEF Tick, Inv, InstalledOnce, Absent
  <2>2. QED
    BY <2>1 DEF Tick, Inv, InstalledOnce, Running
<1>4. InFlightIffRunning'
  BY <1>1 DEF Tick, Inv, HandlersHold, InFlightIffRunning, Running
<1>5. CompletedMatch'
  BY <1>1 DEF Inv, CompletedMatch, Completed
<1>6. HandlersHold' /\ OneRunnerPerRequest' /\ ResponseMatchesRequest'
  BY DEF Tick, Inv, HandlersHold, OneRunnerPerRequest, ResponseMatchesRequest, Running
<1>7. QED
  BY <1>2, <1>3, <1>4, <1>5, <1>6 DEF Inv

(* Every step preserves the inductive invariant. *)
THEOREM NextInv ==
    ASSUME SingleFirstCaller
    PROVE  Inv /\ [Next]_vars => Inv'
<1> SUFFICES ASSUME Inv, [Next]_vars PROVE Inv'
  OBVIOUS
<1>1. ASSUME NEW h \in Handlers, NEW r \in ReqIDs, NEW f \in Fps,
             BeginStarted(h, r, f) \/ BeginCompleted(h, r, f)
      PROVE  Inv'
  BY <1>1, BeginStartedStep, BeginCompletedStep
<1>2. ASSUME NEW h \in Handlers, Complete(h) \/ Forget(h) \/ ReadNil(h) \/ Install(h)
      PROVE  Inv'
  BY <1>2, CompleteStep, ForgetStep, ReadNilStep, InstallStep
<1>3. CASE Sweep
  BY <1>3, SweepStep
<1>4. CASE Tick
  BY <1>4, TickStep
<1>5. CASE UNCHANGED vars
  <2>1. TypeOK'
    BY <1>5 DEF vars, Inv, TypeOK
  <2>2. Running' = Running /\ Completed(entries)' = Completed(entries)
    BY <1>5 DEF vars, Running, Completed
  <2>3. QED
    BY <1>5, <2>1, <2>2
    DEF vars, Inv, HandlersHold, InstalledOnce, OneRunnerPerRequest,
        InFlightIffRunning, CompletedMatch, ResponseMatchesRequest
<1>6. QED
  BY <1>1, <1>2, <1>3, <1>4, <1>5 DEF Next

(* Every reachable state of a gateway whose tracker is created by one      *)
(* handler satisfies the inductive invariant.                              *)
THEOREM InvHolds ==
    ASSUME SingleFirstCaller
    PROVE  Spec => []Inv
<1>1. Init => Inv
  BY InitInv
<1>2. Inv /\ [Next]_vars => Inv'
  BY NextInv
<1>3. QED
  BY <1>1, <1>2, PTL DEF Spec

(* The variables keep their types. *)
THEOREM TypeCorrect ==
    ASSUME SingleFirstCaller
    PROVE  Spec => []TypeOK
<1>1. Inv => TypeOK
  BY DEF Inv
<1>2. QED
  BY <1>1, InvHolds, PTL

(* A running request is never started again, whatever expires or is        *)
(* evicted while it runs.                                                  *)
THEOREM RunsOnce ==
    ASSUME SingleFirstCaller
    PROVE  Spec => []OneRunnerPerRequest
<1>1. Inv => OneRunnerPerRequest
  BY DEF Inv
<1>2. QED
  BY <1>1, InvHolds, PTL

(* An entry is in flight exactly while a handler is running its request.   *)
THEOREM InFlightTracked ==
    ASSUME SingleFirstCaller
    PROVE  Spec => []InFlightIffRunning
<1>1. Inv => InFlightIffRunning
  BY DEF Inv
<1>2. QED
  BY <1>1, InvHolds, PTL

(* No client is given the response to somebody else's request content. *)
THEOREM ResponsesMatch ==
    ASSUME SingleFirstCaller
    PROVE  Spec => []ResponseMatchesRequest
<1>1. Inv => ResponseMatchesRequest
  BY DEF Inv
<1>2. QED
  BY <1>1, InvHolds, PTL

-----------------------------------------------------------------------------
(* A nonempty set of ranked elements has one of least rank. *)
LEMMA LeastRanked ==
    ASSUME NEW S, S # {}, NEW order, \A x \in S : order[x] \in Nat
    PROVE  \E x \in S : \A y \in S : order[x] <= order[y]
<1> DEFINE T == {order[x] : x \in S}
<1>1. T \subseteq Nat /\ T # {}
  OBVIOUS
<1>2. \E m \in T : \A n \in T : ~(<<n, m>> \in OpToRel(<, Nat))
  <2> HIDE DEF T
  <2>1. QED
    BY <1>1, NatLessThanWellFounded, WFMin, Zenon
<1>3. PICK m \in T : \A n \in T : ~(n < m)
  BY <1>1, <1>2 DEF OpToRel
<1>4. PICK x \in S : order[x] = m
  BY <1>3
<1>5. \A y \in S : order[x] <= order[y]
  BY <1>1, <1>3, <1>4
<1>6. QED
  BY <1>5

(* Of the elements of a finite ranked set, at least n have fewer than n    *)
(* others below them, or all of them do.                                   *)
LEMMA LowestEnough ==
    ASSUME NEW C, IsFiniteSet(C), NEW order, \A x \in C : order[x] \in Nat, NEW n \in Int
    PROVE  LET low == {x \in C : Cardinality({y \in C : order[y] < order[x]}) < n}
           IN  low = C \/ Cardinality(low) >= n
<1> DEFINE below(x) == {y \in C : order[y] < order[x]}
           low == {x \in C : Cardinality(below(x)) < n}
<1>1. IsFiniteSet(low) /\ Cardinality(low) \in Nat
  BY FS_Subset, FS_CardinalityType
<1>2. SUFFICES ASSUME low # C, Cardinality(low) < n PROVE FALSE
  BY <1>1
<1>3. C \ low # {} /\ \A x \in C \ low : order[x] \in Nat
  BY <1>2
<1>4. PICK x \in C \ low : \A y \in C \ low : order[x] <= order[y]
  <2> HIDE DEF low
  <2>1. QED
    BY <1>3, LeastRanked
<1>5. below(x) \subseteq low
  BY <1>4
<1>6. Cardinality(below(x)) <= Cardinality(low)
  <2> HIDE DEF below, low
  <2>1. QED
    BY <1>1, <1>5, FS_Subset
<1>7. Cardinality(below(x)) \in Nat
  <2>1. IsFiniteSet(below(x))
    BY FS_Subset
  <2> HIDE DEF below
  <2>2. QED
    BY <2>1, FS_CardinalityType
<1>8. Cardinality(below(x)) < n
  <2> HIDE DEF below, low
  <2>1. QED
    BY <1>1, <1>2, <1>6, <1>7
<1>9. QED
  BY <1>4, <1>8

(* The map d outgrows the limit only by requests in flight. *)
Fits(d) == Cardinality(Present(d)) > MaxEntries => Completed(d) = {}

(* Eviction leaves a map that fits. *)
LEMMA EvictionFits ==
    ASSUME NEW e \in EntryMap, NEW order \in [ReqIDs -> Nat]
    PROVE  Fits(evictCompletedOverLimit(e, order))
<1> DEFINE excess == Cardinality(Present(e)) - MaxEntries
           C == Completed(e)
           gone == {r \in C : Cardinality({q \in C : order[q] < order[r]}) < excess}
           d == Without(e, gone)
<1>1. d = evictCompletedOverLimit(e, order)
  BY DEF evictCompletedOverLimit
<1>2. /\ IsFiniteSet(Present(e)) /\ IsFiniteSet(C)
      /\ Cardinality(Present(e)) \in Nat
      /\ excess \in Int
  BY RequestTrackerAssumption, FS_Subset, FS_CardinalityType DEF Present, Completed
<1>3. gone = C \/ Cardinality(gone) >= excess
  <2>1. \A x \in C : order[x] \in Nat
    BY DEF Completed
  <2> HIDE DEF C, excess
  <2>2. QED
    BY <1>2, <2>1, LowestEnough
<1>4. gone \subseteq C
  OBVIOUS
<1> HIDE DEF gone
<1>5. Present(d) = Present(e) \ gone /\ Completed(d) = C \ gone
  BY <1>4 DEF Present, Completed, Without, Absent
<1>6. Present(e) \cap gone = gone
  BY <1>4 DEF Present, Completed
<1>7. Cardinality(Present(d)) = Cardinality(Present(e)) - Cardinality(gone)
  BY <1>2, <1>5, <1>6, FS_Difference
<1>8. Cardinality(gone) \in Nat
  <2>1. IsFiniteSet(gone)
    BY <1>2, <1>4, FS_Subset
  <2>2. QED
    BY <2>1, FS_CardinalityType
<1>9. CASE gone = C
  BY <1>1, <1>5, <1>9 DEF Fits
<1>10. CASE Cardinality(gone) >= excess
  <2>1. Cardinality(Present(d)) <= MaxEntries
    BY <1>2, <1>7, <1>8, <1>10, RequestTrackerAssumption
  <2>2. Cardinality(Present(d)) \in Nat
    BY <1>2, <1>5, FS_Difference, FS_CardinalityType
  <2>3. QED
    BY <1>1, <2>1, <2>2, RequestTrackerAssumption DEF Fits
<1>11. QED
  BY <1>3, <1>9, <1>10

(* A map with fewer entries, and no more completed ones, still fits. *)
LEMMA FewerFits ==
    ASSUME NEW e, NEW d, Fits(e), Present(d) \subseteq Present(e),
           Completed(d) \subseteq Completed(e)
    PROVE  Fits(d)
<1>1. /\ IsFiniteSet(Present(e))
      /\ IsFiniteSet(Present(d))
      /\ Cardinality(Present(e)) \in Nat
      /\ Cardinality(Present(d)) \in Nat
  BY RequestTrackerAssumption, FS_Subset, FS_CardinalityType DEF Present
<1>2. Cardinality(Present(d)) <= Cardinality(Present(e))
  BY <1>1, FS_Subset
<1>3. QED
  BY <1>1, <1>2, RequestTrackerAssumption DEF Fits

(* Every step leaves a map that fits. *)
LEMMA CapacityStep ==
    ASSUME Inv, CapacityRespected, [Next]_vars
    PROVE  CapacityRespected'
<1>1. SUFFICES Fits(entries')
  BY DEF CapacityRespected, Fits, Present, Completed
<1>2. Fits(entries)
  BY DEF CapacityRespected, Fits
<1>3. entries \in EntryMap /\ seen \in [ReqIDs -> Nat]
  BY DEF Inv, TypeOK, EntryMap, Entry
<1>4. ASSUME NEW d, Removal(entries, d)
      PROVE  Fits(d)
  <2>1. Present(d) \subseteq Present(entries) /\ Completed(d) \subseteq Completed(entries)
    BY <1>4 DEF Removal, Present, Completed, Absent
  <2>2. QED
    BY <1>2, <2>1, FewerFits
<1>5. ASSUME NEW h \in Handlers, NEW r \in ReqIDs, NEW f \in Fps, BeginStarted(h, r, f)
      PROVE  Fits(entries')
  <2> DEFINE live == removeExpiredCompleted(entries)
             grown == [live EXCEPT ![r] = Started(f)]
  <2>1. entries' = evictCompletedOverLimit(grown, Touched(r))
    BY <1>5 DEF BeginStarted
  <2>2. live \in EntryMap
    BY <1>3, ExpiryRemoves DEF Removal
  <2>3. Started(f) \in Entry
    BY RequestTrackerAssumption DEF Started, Entry
  <2> HIDE DEF live
  <2>4. grown \in EntryMap
    BY <2>2, <2>3 DEF EntryMap
  <2> HIDE DEF grown
  <2>5. QED
    BY <2>1, <2>4, <1>3, TouchedType, EvictionFits
<1>6. ASSUME NEW h \in Handlers, NEW r \in ReqIDs, NEW f \in Fps, BeginCompleted(h, r, f)
      PROVE  Fits(entries')
  <2>1. entries' = removeExpiredCompleted(entries)
    BY <1>6 DEF BeginCompleted
  <2>2. QED
    BY <2>1, <1>3, <1>4, ExpiryRemoves
<1>7. ASSUME NEW h \in Handlers, Complete(h)
      PROVE  Fits(entries')
  <2>1. CASE entries' = entries
    BY <1>2, <2>1
  <2>2. CASE entries' = evictCompletedOverLimit(Stored(entries, handler[h].id, handler[h].fp),
                                                Touched(handler[h].id))
    <3>1. handler[h].id \in ReqIDs /\ handler[h].fp \in Fps
      BY <1>7 DEF Complete, Running, Inv, HandlersHold
    <3>2. Stored(entries, handler[h].id, handler[h].fp) \in EntryMap
      BY <1>3, <3>1, StoredResponse
    <3>3. QED
      BY <2>2, <3>1, <3>2, <1>3, TouchedType, EvictionFits
  <2>3. QED
    BY <1>7, <2>1, <2>2 DEF Complete
<1>8. ASSUME NEW gone, entries' = Without(entries, gone)
      PROVE  Fits(entries')
  <2>1. Present(entries') \subseteq Present(entries) /\ Completed(entries') \subseteq Completed(entries)
    BY <1>8 DEF Without, Present, Completed, Absent
  <2>2. QED
    BY <1>2, <2>1, FewerFits
<1>9. ASSUME NEW h \in Handlers, Forget(h) \/ ReadNil(h) \/ Install(h)
      PROVE  Fits(entries')
  BY <1>2, <1>8, <1>9 DEF Forget, ReadNil, Install
<1>10. CASE Sweep
  BY <1>3, <1>4, <1>10, ExpiryRemoves DEF Sweep
<1>11. CASE Tick
  <2>1. \A r \in ReqIDs : entries'[r].state = entries[r].state
    BY <1>3, <1>11 DEF Tick, EntryMap, Entry
  <2>2. Present(entries') \subseteq Present(entries) /\ Completed(entries') \subseteq Completed(entries)
    BY <2>1 DEF Present, Completed
  <2>3. QED
    BY <1>2, <2>2, FewerFits
<1>12. CASE UNCHANGED vars
  BY <1>2, <1>12 DEF vars
<1>13. QED
  BY <1>5, <1>6, <1>7, <1>9, <1>10, <1>11, <1>12 DEF Next

(* The tracker's memory is bounded: beyond the configured limit it only    *)
(* keeps requests that are in flight.                                      *)
THEOREM CapacityHolds ==
    ASSUME SingleFirstCaller
    PROVE  Spec => []CapacityRespected
<1>1. Init => CapacityRespected
  BY DEF Init, CapacityRespected, Completed, Absent
<1>2. Inv /\ CapacityRespected /\ [Next]_vars => CapacityRespected'
  BY CapacityStep
<1>3. QED
  BY <1>1, <1>2, InvHolds, PTL DEF Spec
=============================================================================

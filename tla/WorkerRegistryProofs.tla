------------------------- MODULE WorkerRegistryProofs -------------------------
(***************************************************************************)
(* Proofs about WorkerRegistry, for any number of workers, dispatches and  *)
(* faults of every kind: type correctness, that a worker which drained     *)
(* itself stays out of the schedule, and that rescheduling never returns   *)
(* to a worker that failed the request.                                    *)
(***************************************************************************)
EXTENDS WorkerRegistry, TLAPS

EntryType ==
    [state: {"none", "ready", "draining"}, cap: BOOLEAN, age: 0..(StaleTimeout + 1)]

Message ==
    [kind: {"register", "heartbeat", "drain"}, node: Workers, cap: BOOLEAN]

Candidate == [id: Workers, cap: BOOLEAN]

Call ==
    [pc: {"idle", "select", "forward"}, cands: SUBSET Candidate,
     target: Workers \cup {NoWorker}, tried: SUBSET Workers]

Registries == [Workers -> EntryType]

-----------------------------------------------------------------------------
(* The methods of the registry keep it a map of entries. *)

(* A new entry is fresh. *)
LEMMA ZeroAge == 0 \in 0..(StaleTimeout + 1)
BY WorkerRegistryAssumption

(* Every method, and the handlers that call them, return a registry, and   *)
(* touch no entry but that of the worker they are about.                   *)
LEMMA HandleOK ==
    ASSUME NEW reg \in Registries, NEW m \in Message
    PROVE  /\ Handle(reg, m) \in Registries
           /\ \A w \in Workers : w # m.node => Handle(reg, m)[w] = reg[w]
           /\ m.kind = "heartbeat" => Handle(reg, m)[m.node].state = reg[m.node].state
           /\ m.kind = "drain" => Handle(reg, m)[m.node].state # "ready"
<1>0. m.node \in Workers /\ m.cap \in BOOLEAN /\ m.kind \in {"register", "heartbeat", "drain"}
  BY DEF Message
<1>1. CASE m.kind = "register"
  <2> DEFINE x == [state |-> "ready", cap |-> FALSE, age |-> 0]
  <2>1. x \in EntryType
    BY ZeroAge DEF EntryType
  <2>2. Handle(reg, m) = [reg EXCEPT ![m.node] = x]
    BY <1>1 DEF Handle, RegisterWorker
  <2> HIDE DEF x
  <2>3. QED
    BY <1>0, <1>1, <2>1, <2>2 DEF Registries
<1>2. CASE m.kind = "heartbeat"
  <2> DEFINE x == [reg[m.node] EXCEPT !.cap = m.cap, !.age = 0]
  <2>1. x \in EntryType /\ x.state = reg[m.node].state
    BY <1>0, ZeroAge DEF EntryType, Registries
  <2>2. Handle(reg, m) = reg \/ Handle(reg, m) = [reg EXCEPT ![m.node] = x]
    BY <1>2 DEF Handle, UpdateWorkerStatus
  <2> HIDE DEF x
  <2>3. QED
    BY <1>0, <1>2, <2>1, <2>2 DEF Registries
<1>3. CASE m.kind = "drain"
  <2> DEFINE x == [reg[m.node] EXCEPT !.state = "draining", !.age = 0]
  <2>1. x \in EntryType /\ x.state = "draining"
    BY <1>0, ZeroAge DEF EntryType, Registries
  <2>2. \/ Handle(reg, m) = reg /\ reg[m.node].state = "none"
        \/ Handle(reg, m) = [reg EXCEPT ![m.node] = x]
    BY <1>3 DEF Handle, DrainWorker
  <2> HIDE DEF x
  <2>3. QED
    BY <1>0, <1>3, <2>1, <2>2 DEF Registries
<1>4. QED
  BY <1>0, <1>1, <1>2, <1>3

(* A request of worker w is a message about w. *)
LEMMA RequestOK ==
    ASSUME NEW w \in Workers, Sending(w), NEW c \in Figures(w)
    PROVE  Request(w, c) \in Message /\ Request(w, c).node = w /\ Request(w, c).kind = process[w]
BY DEF Sending, Figures, Request, Message

(* After names a state of the telemetry goroutine. *)
LEMMA AfterOK ==
    ASSUME NEW step \in {"register", "heartbeat", "drain"}
    PROVE  After(step) \in {"heartbeat", "wait", "down"} /\ (step = "drain" <=> After(step) = "down")
BY DEF After

-----------------------------------------------------------------------------
(* The inductive invariant. *)

(* A worker that drained itself is down: nothing of it is under way except *)
(* what was delayed.                                                       *)
DrainInv ==
    \A w \in Workers : drained[w] = "self" => process[w] = "down" /\ registry[w].state # "ready"

(* Candidates have not been tried, and the target is one of them. *)
CallInv ==
    \A d \in Dispatches :
        /\ dispatch[d].pc = "idle" => dispatch[d] = DispatchIdle
        /\ \A c \in dispatch[d].cands : c.id \notin dispatch[d].tried
        /\ dispatch[d].pc = "forward" =>
            \E c \in dispatch[d].cands : c.id = dispatch[d].target

Inv == TypeOK /\ DrainInv /\ CallInv

RegistrySide ==
    /\ registry \in Registries
    /\ process \in [Workers -> {"down", "register", "heartbeat", "wait", "drain"}]
    /\ delayed \subseteq Message
    /\ drained \in [Workers -> {"no", "self", "operator"}]
    /\ DrainInv

CallSide ==
    /\ dispatch \in [Dispatches -> Call]
    /\ CallInv

Scalars ==
    /\ faults \in 0..MaxFaults
    /\ ca \in Nat
    /\ bundle \in [Workers -> Nat]
    /\ loaded \in [Workers -> Nat]

(* The three parts of the invariant. *)
LEMMA Parts == Inv <=> RegistrySide /\ CallSide /\ Scalars
BY DEF Inv, TypeOK, RegistrySide, CallSide, Scalars, Registries, EntryType, Message, Call, Candidate

(* Parts, in the next state. *)
LEMMA PartsNext == Inv' <=> RegistrySide' /\ CallSide' /\ Scalars'
BY DEF Inv, TypeOK, RegistrySide, CallSide, Scalars, Registries, EntryType, Message, Call, Candidate,
       DrainInv, CallInv

(* A step that leaves a part alone keeps it. *)
LEMMA CallsKept ==
    ASSUME CallSide, UNCHANGED dispatch
    PROVE  CallSide'
BY DEF CallSide, CallInv

LEMMA RegistryKept ==
    ASSUME RegistrySide, UNCHANGED <<registry, process, delayed, drained>>
    PROVE  RegistrySide'
BY DEF RegistrySide, DrainInv, Registries

LEMMA ScalarsKept ==
    ASSUME Scalars, UNCHANGED certVars,
           UNCHANGED faults \/ \E k \in Faults : Fault(k)
    PROVE  Scalars'
BY WorkerRegistryAssumption DEF Scalars, certVars, Fault

-----------------------------------------------------------------------------
(* Telemetry. *)

(* A worker that starts. *)
LEMMA BootStep ==
    ASSUME Inv, NEW w \in Workers, Boot(w)
    PROVE  Inv'
<1>0. RegistrySide /\ CallSide /\ Scalars
  BY Parts
<1>1. RegistrySide'
  <2>1. process' \in [Workers -> {"down", "register", "heartbeat", "wait", "drain"}]
    BY <1>0 DEF Boot, RegistrySide
  <2>2. drained' \in [Workers -> {"no", "self", "operator"}]
    BY <1>0 DEF Boot, RegistrySide
  <2>3. \A v \in Workers : drained'[v] = "self" => v # w /\ drained[v] = "self" /\ process'[v] = process[v]
    BY <1>0 DEF Boot, RegistrySide
  <2>4. DrainInv'
    BY <1>0, <2>3 DEF Boot, RegistrySide, DrainInv
  <2>5. QED
    BY <1>0, <2>1, <2>2, <2>4 DEF Boot, RegistrySide, Registries
<1>2. Scalars'
  BY <1>0 DEF Boot, Scalars
<1>3. CallSide'
  BY <1>0, CallsKept DEF Boot
<1>4. QED
  BY <1>1, <1>2, <1>3, PartsNext

(* The goroutine goes on, or ends after its drain request. *)
LEMMA AdvanceOK ==
    ASSUME RegistrySide, NEW w \in Workers, Sending(w), Advance(w)
    PROVE  /\ process' \in [Workers -> {"down", "register", "heartbeat", "wait", "drain"}]
           /\ \A v \in Workers : v # w => process'[v] = process[v]
           /\ process'[w] = "down" <=> process[w] = "drain"
           /\ drained[w] # "self"
<1>1. After(process[w]) \in {"heartbeat", "wait", "down"}
      /\ (process[w] = "drain" <=> After(process[w]) = "down")
  BY AfterOK DEF Sending
<1>2. process' = [process EXCEPT ![w] = After(process[w])]
  BY DEF Advance
<1>3. drained[w] # "self"
  BY DEF RegistrySide, DrainInv, Sending
<1>4. QED
  BY <1>1, <1>2, <1>3 DEF RegistrySide

(* A telemetry request, handled at once. *)
LEMMA SendStep ==
    ASSUME Inv, NEW w \in Workers, NEW c \in Figures(w), Send(w, c)
    PROVE  Inv'
<1>0. RegistrySide /\ CallSide /\ Scalars /\ Sending(w) /\ Advance(w)
  BY Parts DEF Send
<1> DEFINE m == Request(w, c)
<1>1. m \in Message /\ m.node = w /\ m.kind = process[w]
  BY <1>0, RequestOK
<1>2. registry' = Handle(registry, m)
  BY DEF Send
<1> HIDE DEF m
<1>3. /\ registry' \in Registries
      /\ \A v \in Workers : v # w => registry'[v] = registry[v]
      /\ process[w] = "drain" => registry'[w].state # "ready"
  BY <1>0, <1>1, <1>2, HandleOK DEF RegistrySide
<1>4. /\ drained' \in [Workers -> {"no", "self", "operator"}]
      /\ \A v \in Workers : v # w => drained'[v] = drained[v]
      /\ drained'[w] = "self" => process[w] = "drain" \/ drained[w] = "self"
  BY <1>0 DEF Send, Drained, RegistrySide
<1>5. DrainInv'
  BY <1>0, <1>3, <1>4, AdvanceOK DEF DrainInv, RegistrySide
<1>6. RegistrySide'
  BY <1>0, <1>3, <1>4, <1>5, AdvanceOK DEF RegistrySide, Registries, Send
<1>7. CallSide' /\ Scalars'
  BY <1>0, CallsKept, ScalarsKept DEF Send
<1>8. QED
  BY <1>6, <1>7, PartsNext

(* A request that is refused, lost or delayed. *)
LEMMA NotHandledStep ==
    ASSUME Inv, NEW w \in Workers,
           SendRefused(w) \/ SendLost(w) \/ \E c \in Figures(w) : SendDelayed(w, c)
    PROVE  Inv'
<1>0. RegistrySide /\ CallSide /\ Scalars /\ Sending(w) /\ Advance(w)
  BY Parts DEF SendRefused, SendLost, SendDelayed
<1>1. UNCHANGED <<registry, drained, dispatch, certVars>>
  BY DEF SendRefused, SendLost, SendDelayed
<1>2. delayed' \subseteq Message
  BY <1>0, RequestOK DEF SendRefused, SendLost, SendDelayed, RegistrySide
<1>3. DrainInv'
  BY <1>0, <1>1, AdvanceOK DEF DrainInv, RegistrySide
<1>4. RegistrySide'
  BY <1>0, <1>1, <1>2, <1>3, AdvanceOK DEF RegistrySide, Registries
<1>5. UNCHANGED faults \/ \E k \in Faults : Fault(k)
  BY DEF SendRefused, SendLost, SendDelayed, Fault
<1>6. CallSide' /\ Scalars'
  BY <1>0, <1>1, <1>5, CallsKept, ScalarsKept
<1>7. QED
  BY <1>4, <1>6, PartsNext

(* A request that arrives late. *)
LEMMA DeliverStep ==
    ASSUME Inv, NEW m \in delayed, Deliver(m)
    PROVE  Inv'
<1>0. RegistrySide /\ CallSide /\ Scalars
  BY Parts
<1>1. m \in Message /\ m.node \in Workers /\ m.kind \in {"register", "heartbeat", "drain"}
  BY <1>0 DEF RegistrySide, Message
<1>2. /\ registry' \in Registries
      /\ \A v \in Workers : v # m.node => registry'[v] = registry[v]
      /\ m.kind = "heartbeat" => registry'[m.node].state = registry[m.node].state
      /\ m.kind = "drain" => registry'[m.node].state # "ready"
  BY <1>0, <1>1, HandleOK DEF RegistrySide, Deliver
<1>3. \/ /\ m.kind = "drain" /\ process[m.node] = "down"
         /\ drained' = drained \/ drained' = [drained EXCEPT ![m.node] = "self"]
      \/ m.kind = "register" /\ drained' = [drained EXCEPT ![m.node] = "no"]
      \/ m.kind # "register" /\ drained' = drained
  BY <1>1 DEF Deliver, Drained
<1>4. /\ drained' \in [Workers -> {"no", "self", "operator"}]
      /\ \A v \in Workers : v # m.node => drained'[v] = drained[v]
  BY <1>0, <1>1, <1>3 DEF RegistrySide
<1>5. ASSUME drained'[m.node] = "self"
      PROVE  process[m.node] = "down" /\ registry'[m.node].state # "ready"
  BY <1>0, <1>1, <1>2, <1>3, <1>5 DEF RegistrySide, DrainInv
<1>6. UNCHANGED process /\ delayed' \subseteq delayed
  BY DEF Deliver
<1>7. DrainInv'
  BY <1>0, <1>2, <1>4, <1>5, <1>6 DEF DrainInv, RegistrySide
<1>8. RegistrySide'
  BY <1>0, <1>2, <1>4, <1>6, <1>7 DEF RegistrySide, Registries
<1>9. CallSide' /\ Scalars'
  BY <1>0, CallsKept, ScalarsKept DEF Deliver
<1>10. QED
  BY <1>8, <1>9, PartsNext

(* The ticker, SIGTERM and the end of a process. *)
LEMMA ProcessStep ==
    ASSUME Inv, NEW w \in Workers, HeartbeatTick(w) \/ Shutdown(w) \/ ProcessEnds(w)
    PROVE  Inv'
<1>0. RegistrySide /\ CallSide /\ Scalars
  BY Parts
<1>1. process' \in [Workers -> {"down", "register", "heartbeat", "wait", "drain"}]
  BY <1>0 DEF HeartbeatTick, Shutdown, ProcessEnds, RegistrySide
<1>2. \A v \in Workers : process[v] = "down" => process'[v] = "down"
  BY <1>0 DEF HeartbeatTick, Shutdown, ProcessEnds, RegistrySide
<1>3. UNCHANGED <<registry, delayed, dispatch, faults, drained, certVars>>
  BY DEF HeartbeatTick, Shutdown, ProcessEnds
<1>4. DrainInv'
  BY <1>0, <1>2, <1>3 DEF DrainInv, RegistrySide
<1>5. RegistrySide'
  BY <1>0, <1>1, <1>3, <1>4 DEF RegistrySide, Registries
<1>6. CallSide' /\ Scalars'
  BY <1>0, <1>3, CallsKept, ScalarsKept
<1>7. QED
  BY <1>5, <1>6, PartsNext

-----------------------------------------------------------------------------
(* The master. *)

(* An operator's drain. *)
LEMMA OperatorStep ==
    ASSUME Inv, NEW w \in Workers, OperatorDrain(w)
    PROVE  Inv'
<1>0. RegistrySide /\ CallSide /\ Scalars
  BY Parts
<1> DEFINE x == [registry[w] EXCEPT !.state = "draining", !.age = 0]
<1>1. x \in EntryType /\ x.state = "draining"
  BY <1>0, ZeroAge DEF EntryType, RegistrySide, Registries
<1>2. registry' = [registry EXCEPT ![w] = x]
  BY DEF OperatorDrain, DrainWorker
<1> HIDE DEF x
<1>3. /\ registry' \in Registries
      /\ \A v \in Workers : registry'[v].state = "ready" => registry[v].state = "ready"
  BY <1>0, <1>1, <1>2 DEF RegistrySide, Registries
<1>4. /\ drained' \in [Workers -> {"no", "self", "operator"}]
      /\ \A v \in Workers : drained'[v] = "self" => drained[v] = "self"
  BY <1>0 DEF OperatorDrain, Drained, RegistrySide
<1>5. UNCHANGED <<process, delayed, dispatch, certVars>>
  BY DEF OperatorDrain
<1>6. DrainInv'
  BY <1>0, <1>3, <1>4, <1>5 DEF DrainInv, RegistrySide
<1>7. RegistrySide'
  BY <1>0, <1>3, <1>4, <1>5, <1>6 DEF RegistrySide, Registries
<1>8. \E k \in Faults : Fault(k)
  BY DEF OperatorDrain, Fault
<1>9. CallSide' /\ Scalars'
  BY <1>0, <1>5, <1>8, CallsKept, ScalarsKept
<1>10. QED
  BY <1>7, <1>9, PartsNext

(* The reaper and the clock make nobody schedulable. *)
LEMMA AgeStep ==
    ASSUME Inv, Cleanup \/ Tick
    PROVE  Inv'
<1>0. RegistrySide /\ CallSide /\ Scalars
  BY Parts
<1>1. Unknown \in EntryType /\ Unknown.state = "none"
  BY ZeroAge DEF Unknown, EntryType
<1>2. ASSUME NEW v \in Workers
      PROVE  /\ registry[v] \in EntryType
             /\ [registry[v] EXCEPT !.age = @ + 1].state = registry[v].state
             /\ registry[v].age <= StaleTimeout =>
                    [registry[v] EXCEPT !.age = @ + 1] \in EntryType
  <2>1. registry[v] \in EntryType /\ registry[v].age \in 0..(StaleTimeout + 1)
    BY <1>0 DEF RegistrySide, Registries, EntryType
  <2>2. registry[v].age <= StaleTimeout => registry[v].age + 1 \in 0..(StaleTimeout + 1)
    BY <2>1, WorkerRegistryAssumption
  <2>3. QED
    BY <2>1, <2>2 DEF EntryType
<1>3. /\ registry' \in Registries
      /\ \A v \in Workers : registry'[v].state = "ready" => registry[v].state = "ready"
  <2>1. CASE Cleanup
    BY <1>1, <1>2, <2>1 DEF Cleanup, CleanupAt, Registries
  <2>2. CASE Tick
    <3> DEFINE y(v) == [registry[v] EXCEPT !.age = @ + 1]
    <3>1. registry' = [v \in Workers |->
                IF registry[v].state # "none" /\ registry[v].age <= StaleTimeout
                  THEN y(v) ELSE registry[v]]
      BY <2>2 DEF Tick
    <3>2. \A v \in Workers : /\ registry[v] \in EntryType /\ y(v).state = registry[v].state
                             /\ registry[v].age <= StaleTimeout => y(v) \in EntryType
      BY <1>2
    <3> HIDE DEF y
    <3>3. QED
      BY <3>1, <3>2 DEF Registries
  <2>3. QED
    BY <2>1, <2>2
<1>4. UNCHANGED <<process, delayed, dispatch, faults, drained, certVars>>
  BY DEF Cleanup, Tick
<1>5. DrainInv'
  BY <1>0, <1>3, <1>4 DEF DrainInv, RegistrySide
<1>6. RegistrySide'
  BY <1>0, <1>3, <1>4, <1>5 DEF RegistrySide
<1>7. CallSide' /\ Scalars'
  BY <1>0, <1>4, CallsKept, ScalarsKept
<1>8. QED
  BY <1>6, <1>7, PartsNext

(* The record of an idle call. *)
LEMMA IdleOK == DispatchIdle \in Call /\ DispatchIdle.pc = "idle" /\ DispatchIdle.cands = {}
BY DEF DispatchIdle, Call, Candidate

(* A restart of the master, with or without new certificates. *)
LEMMA RestartStep ==
    ASSUME Inv, NEW auto \in AutoGenerateCerts, Restart(auto)
    PROVE  Inv'
<1>0. RegistrySide /\ CallSide /\ Scalars
  BY Parts
<1>1. Unknown \in EntryType /\ Unknown.state = "none"
  BY ZeroAge DEF Unknown, EntryType
<1>2. registry' \in Registries /\ \A w \in Workers : registry'[w].state = "none"
  BY <1>1 DEF Restart, Registries
<1>3. DrainInv'
  BY <1>0, <1>2 DEF DrainInv, RegistrySide, Restart
<1>4. RegistrySide'
  BY <1>0, <1>2, <1>3 DEF RegistrySide, Restart
<1>5. dispatch' \in [Dispatches -> Call] /\ \A d \in Dispatches : dispatch'[d] = DispatchIdle
  BY IdleOK DEF Restart
<1>6. CallSide'
  BY <1>5, IdleOK DEF CallSide, CallInv
<1>7. ca' \in Nat /\ bundle' \in [Workers -> Nat]
  BY <1>0 DEF Restart, GenerateCAAndCerts, Scalars
<1>8. Scalars'
  BY <1>0, <1>7, WorkerRegistryAssumption DEF Scalars, Restart, Fault
<1>9. QED
  BY <1>4, <1>6, <1>8, PartsNext

-----------------------------------------------------------------------------
(* The dispatcher. *)

(* One call of Dispatch goes on; its new record is consistent. *)
LEMMA CallUpdate ==
    ASSUME Inv, NEW d \in Dispatches, NEW x \in Call,
           dispatch' = [dispatch EXCEPT ![d] = x],
           x.pc = "idle" => x = DispatchIdle,
           \A c \in x.cands : c.id \notin x.tried,
           x.pc = "forward" => \E c \in x.cands : c.id = x.target,
           UNCHANGED <<registry, process, delayed, faults, drained, certVars>>
    PROVE  Inv'
<1>0. RegistrySide /\ CallSide /\ Scalars
  BY Parts
<1>1. \A e \in Dispatches : dispatch'[e] = IF e = d THEN x ELSE dispatch[e]
  BY <1>0 DEF CallSide
<1>2. CallInv'
  BY <1>0, <1>1 DEF CallInv, CallSide
<1>3. CallSide'
  BY <1>0, <1>2 DEF CallSide
<1>4. QED
  BY <1>0, <1>3, RegistryKept, ScalarsKept, PartsNext

(* Every step of a call keeps its record consistent: a snapshot is all     *)
(* untried, a failed target leaves the candidates when it is marked tried. *)
LEMMA DispatchingStep ==
    ASSUME Inv, NEW d \in Dispatches, DispatchStep(d)
    PROVE  Inv'
<1>0. RegistrySide /\ CallSide /\ Scalars
  BY Parts
<1>1. dispatch[d] \in Call
  BY <1>0 DEF CallSide
<1>2. CASE BeginDispatch(d)
  <2> DEFINE cs == {[id |-> w, cap |-> registry[w].cap] : w \in GetSchedulableWorkers(registry)}
             x == [dispatch[d] EXCEPT !.pc = "select", !.cands = cs]
  <2>1. dispatch[d] = DispatchIdle
    BY <1>0, <1>2 DEF BeginDispatch, CallSide, CallInv
  <2>2. cs \subseteq Candidate
    BY <1>0 DEF GetSchedulableWorkers, Candidate, RegistrySide, Registries, EntryType
  <2>3. dispatch' = [dispatch EXCEPT ![d] = x]
    BY <1>2 DEF BeginDispatch
  <2> HIDE DEF cs
  <2>4. x \in Call /\ x.pc = "select" /\ x.tried = {}
    <3>1. dispatch[d].tried = {}
      BY <2>1 DEF DispatchIdle
    <3>2. x \in Call /\ x.pc = "select" /\ x.tried = dispatch[d].tried
      BY <1>1, <2>2 DEF Call
    <3>3. QED
      BY <3>1, <3>2
  <2>5. UNCHANGED <<registry, process, delayed, faults, drained, certVars>>
    BY <1>2 DEF BeginDispatch
  <2> HIDE DEF x
  <2>6. QED
    BY <2>3, <2>4, <2>5, CallUpdate
<1>3. ASSUME NEW c \in dispatch[d].cands, SelectWorker(d, c)
      PROVE  Inv'
  <2> DEFINE x == [dispatch[d] EXCEPT !.pc = "forward", !.target = c.id]
  <2>1. c.id \in Workers
    BY <1>1, <1>3 DEF Call, Candidate
  <2>2. /\ x \in Call /\ x.pc = "forward" /\ x.target = c.id
        /\ x.cands = dispatch[d].cands /\ x.tried = dispatch[d].tried
    BY <1>1, <2>1 DEF Call
  <2>3. dispatch' = [dispatch EXCEPT ![d] = x]
    BY <1>3 DEF SelectWorker
  <2>4. \A b \in dispatch[d].cands : b.id \notin dispatch[d].tried
    BY <1>0 DEF CallSide, CallInv
  <2>5. UNCHANGED <<registry, process, delayed, faults, drained, certVars>>
    BY <1>3 DEF SelectWorker
  <2> HIDE DEF x
  <2>6. QED
    BY <1>3, <2>2, <2>3, <2>4, <2>5, CallUpdate
<1>4. CASE GiveUp(d) \/ ForwardDone(d) \/ ForwardCancelled(d)
  <2>1. /\ dispatch' = [dispatch EXCEPT ![d] = DispatchIdle]
        /\ UNCHANGED <<registry, process, delayed, faults, drained, certVars>>
    BY <1>4 DEF GiveUp, ForwardDone, ForwardCancelled
  <2>2. QED
    BY <2>1, IdleOK, CallUpdate
<1>5. CASE ForwardRetryable(d)
  <2> DEFINE t == dispatch[d].target
             cs == removeWorkerCandidate(dispatch[d].cands, t)
             x == [dispatch[d] EXCEPT !.pc = "select", !.cands = cs,
                                      !.tried = dispatch[d].tried \cup {t}, !.target = NoWorker]
  <2>1. /\ dispatch' = [dispatch EXCEPT ![d] = x]
        /\ UNCHANGED <<registry, process, delayed, faults, drained, certVars>>
    BY <1>5 DEF ForwardRetryable
  <2>2. t \in Workers
    <3>1. PICK c \in dispatch[d].cands : c.id = t
      BY <1>0, <1>5 DEF ForwardRetryable, CallSide, CallInv
    <3>2. QED
      BY <1>1, <3>1 DEF Call, Candidate
  <2>3. cs \subseteq dispatch[d].cands /\ \A c \in cs : c.id # t
    BY DEF removeWorkerCandidate
  <2>4. \A c \in dispatch[d].cands : c.id \notin dispatch[d].tried
    BY <1>0 DEF CallSide, CallInv
  <2> HIDE DEF cs, t
  <2>5. /\ x \in Call /\ x.pc = "select" /\ x.cands = cs
        /\ x.tried = dispatch[d].tried \cup {t}
    BY <1>1, <2>2, <2>3 DEF Call
  <2> HIDE DEF x
  <2>6. \A c \in x.cands : c.id \notin x.tried
    BY <2>3, <2>4, <2>5
  <2>7. QED
    BY <2>1, <2>5, <2>6, CallUpdate
<1>6. QED
  BY <1>2, <1>3, <1>4, <1>5 DEF DispatchStep

-----------------------------------------------------------------------------
(* The invariant holds initially and in every step. *)
THEOREM InvHolds == Spec => []Inv
<1>1. Init => Inv
  <2> SUFFICES ASSUME Init PROVE Inv
    OBVIOUS
  <2>1. Unknown \in EntryType
    BY ZeroAge DEF Unknown, EntryType
  <2>2. RegistrySide
    BY <2>1 DEF Init, RegistrySide, Registries, DrainInv
  <2>3. dispatch \in [Dispatches -> Call] /\ \A d \in Dispatches : dispatch[d] = DispatchIdle
    BY IdleOK DEF Init
  <2>4. CallSide
    BY <2>3, IdleOK DEF CallSide, CallInv
  <2>5. Scalars
    BY WorkerRegistryAssumption DEF Init, Scalars
  <2>6. QED
    BY <2>2, <2>4, <2>5, Parts
<1>2. Inv /\ [Next]_vars => Inv'
  <2> SUFFICES ASSUME Inv, [Next]_vars PROVE Inv'
    OBVIOUS
  <2>1. ASSUME NEW w \in Workers, WorkerStep(w)
        PROVE  Inv'
    BY <2>1, BootStep, SendStep, NotHandledStep, ProcessStep, OperatorStep DEF WorkerStep
  <2>2. ASSUME NEW d \in Dispatches, DispatchStep(d)
        PROVE  Inv'
    BY <2>2, DispatchingStep
  <2>3. ASSUME NEW m \in delayed, Deliver(m)
        PROVE  Inv'
    BY <2>3, DeliverStep
  <2>4. ASSUME NEW auto \in AutoGenerateCerts, Restart(auto)
        PROVE  Inv'
    BY <2>4, RestartStep
  <2>5. CASE Cleanup \/ Tick
    BY <2>5, AgeStep
  <2>6. CASE UNCHANGED vars
    <3>1. RegistrySide /\ CallSide /\ Scalars
      BY Parts
    <3>2. QED
      BY <2>6, <3>1, RegistryKept, CallsKept, ScalarsKept, PartsNext DEF vars, certVars
  <2>7. QED
    BY <2>1, <2>2, <2>3, <2>4, <2>5, <2>6 DEF Next
<1>3. QED
  BY <1>1, <1>2, PTL DEF Spec

(* The registry, the goroutines and the calls keep their types; an entry   *)
(* never gets older than the reaper can notice.                            *)
THEOREM TypeCorrect == Spec => []TypeOK
<1>1. Inv => TypeOK
  BY DEF Inv
<1>2. QED
  BY <1>1, InvHolds, PTL

(* A worker that drained itself on shutdown is not scheduled until it is   *)
(* started again, for any number of workers and any faults.                *)
THEOREM SelfDrainHolds == Spec => []SelfDrainRespected
<1>1. Inv => SelfDrainRespected
  BY DEF Inv, DrainInv, SelfDrainRespected
<1>2. QED
  BY <1>1, InvHolds, PTL

(* Rescheduling never returns to a worker that failed the request,         *)
(* whatever the registry says of it by then.                               *)
THEOREM NoSecondTryHolds == Spec => []NoSecondTry
<1>1. Inv => NoSecondTry
  BY DEF Inv, CallInv, NoSecondTry
<1>2. QED
  BY <1>1, InvHolds, PTL
=============================================================================

--------------------------- MODULE MCWorkerRegistry ---------------------------
(* Model-checking instances of WorkerRegistry. *)
EXTENDS WorkerRegistry, TLC

CONSTANTS w1, w2

MCWorkers == {w1, w2}
MCDistance == [w \in MCWorkers |-> IF w = w1 THEN 1 ELSE 2]
=============================================================================

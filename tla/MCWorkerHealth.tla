--------------------------- MODULE MCWorkerHealth ---------------------------
(* Values of the constants of WorkerHealth. *)
EXTENDS WorkerHealth

CONSTANTS w1, q1, r1

OneWorker  == {w1}
NoRequest  == {}
OneRequest == {q1}
OneReader  == {r1}
=============================================================================

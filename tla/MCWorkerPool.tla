------------------------------ MODULE MCWorkerPool ------------------------------
(***************************************************************************)
(* Model values for WorkerPool: one worker and the flusher.                 *)
(***************************************************************************)
EXTENDS WorkerPoolProps

CONSTANTS w1, flusher

OneWorker == {w1}
=============================================================================

---------------------------- MODULE MCWorkerPool ----------------------------
(* Instances of WorkerPool for TLC; the cfg files choose the sizes. *)
EXTENDS WorkerPool, TLC
=============================================================================

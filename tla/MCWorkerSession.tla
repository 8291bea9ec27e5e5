-------------------------- MODULE MCWorkerSession ---------------------------
(* WorkerSession for TLC. *)
EXTENDS WorkerSession
=============================================================================

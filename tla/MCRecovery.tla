----------------------------- MODULE MCRecovery -----------------------------
(* Model values for Recovery: the harness of the first task can resume. *)
EXTENDS Recovery

MCResumes == {1}
=============================================================================

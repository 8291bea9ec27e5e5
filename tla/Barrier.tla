------------------------------ MODULE Barrier ------------------------------
(***************************************************************************)
(* The verdict of a barrier: what collectBarrierInputs gathers             *)
(* (internal/supervisor/barrier_collect.go), how AuditScopes and           *)
(* ClassifyHighRisk judge a change (internal/verify) and EvaluateBarrier   *)
(* (internal/wave/evaluator.go).                                           *)
(*                                                                         *)
(* The tasks of a wave are taken together.  A change is a pair of the wave *)
(* that made it and what the audit makes of its path:                      *)
(*   uncertain     owned by two leases, ephemeral or high-risk: a warning  *)
(*   unauthorized  in no lease                                             *)
(* A clean change is no change here: it never changes a verdict.           *)
(***************************************************************************)
EXTENDS Integers

Final == 0      \* the final verification, a barrier over all waves

Kinds == {"uncertain", "unauthorized"}
BarrierResults == {"passed", "passed_with_warnings", "blocked", "failed", "cancelled"}
EndedTasks == {"verified_success", "verified_partial", "verification_failed", "blocked",
               "failed", "cancelled"}

\* The leases of the audit of wave w are those of its own tasks; the final audit has all.
Unauthorized(w, c) == c[2] = "unauthorized" \/ (w # Final /\ c[1] # w)
OwnerUncertain(w, c) == ~Unauthorized(w, c) /\ c[2] = "uncertain"

\* BarrierInputs: a task status (with the reports of the tasks, ReportAssessment), the
\* pending decisions, the audited changes and the evidence: every check passed, every
\* report is present and intact, no instruction is left queued.
Inputs(w, status, pending, changes, evidence) ==
    [wave |-> w, task |-> status, pending |-> pending, changes |-> changes,
     evidence |-> evidence]

BarrierErrors(in) ==
    \/ ~in.evidence
    \/ in.task \in {"failed", "verification_failed"}
    \/ \E c \in in.changes : Unauthorized(in.wave, c)

BarrierWarnings(in) ==
    \/ in.task = "verified_partial"
    \/ \E c \in in.changes : OwnerUncertain(in.wave, c)

EvaluateIgnoresTasks(in) ==
    CASE in.task = "cancelled" -> "cancelled"
      [] in.task # "cancelled" /\ ~in.evidence -> "failed"
      [] in.task # "cancelled" /\ in.evidence /\ (in.task = "blocked" \/ in.pending) -> "blocked"
      [] OTHER -> IF BarrierWarnings(in) THEN "passed_with_warnings" ELSE "passed"

EvaluateBarrier(in) ==
    CASE in.task = "cancelled" -> "cancelled"
      [] in.task # "cancelled" /\ BarrierErrors(in) -> "failed"
      [] in.task # "cancelled" /\ ~BarrierErrors(in) /\ (in.task = "blocked" \/ in.pending) ->
            "blocked"
      [] OTHER -> IF BarrierWarnings(in) THEN "passed_with_warnings" ELSE "passed"
=============================================================================

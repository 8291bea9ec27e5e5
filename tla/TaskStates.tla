----------------------------- MODULE TaskStates -----------------------------
(***************************************************************************)
(* Task and Run statuses and the task transition table                     *)
(* (internal/state/state.go, internal/domain/models.go).                   *)
(***************************************************************************)

TaskStatuses == {"planned", "running", "blocked", "reported_complete", "verifying",
                 "verification_failed", "verified_success", "verified_partial",
                 "failed", "cancelled"}

\* The successors of a status in taskTransitions.
TaskTransitions(s) ==
    CASE s = "planned"             -> {"running", "blocked", "failed", "cancelled"}
      [] s = "running"             -> {"blocked", "reported_complete", "failed", "cancelled"}
      [] s = "blocked"             -> {"running", "reported_complete", "failed", "cancelled"}
      [] s = "reported_complete"   -> {"verifying", "failed", "cancelled"}
      [] s = "verifying"           -> {"verified_success", "verified_partial",
                                       "verification_failed", "cancelled"}
      [] s = "verification_failed" -> {"running", "failed", "cancelled"}
      [] s = "verified_partial"    -> {"running"}
      [] OTHER                     -> {}

ValidateTaskTransition(from, to) == from = to \/ to \in TaskTransitions(from)

RunStatuses == {"planned", "starting", "running", "recovering", "barrier",
                "completed", "failed", "cancelled", "degraded"}
=============================================================================

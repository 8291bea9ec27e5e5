---------------------------- MODULE ProcessTree -----------------------------
(***************************************************************************)
(* The process group of one worker, and what TerminateTree                 *)
(* (internal/process/controller.go) can report of it.                      *)
(*                                                                         *)
(* The group is its root and whether any other member is alive.            *)
(* TerminateTree inspects the group, sends up to three signals and         *)
(* inspects it after each; what the members do about a signal is up to     *)
(* them, and whoever calls it sees only what its last inspection saw.  So  *)
(* a call is open from its start until it returns, and the group changes   *)
(* meanwhile.                                                              *)
(***************************************************************************)
VARIABLES
    root,       \* the harness process: alive, gone, or its pid reused
    child       \* another member of its process group is alive

treeVars == <<root, child>>

TreeTypeOK == root \in {"alive", "gone", "reused"} /\ child \in BOOLEAN

TreeInit == root = "alive" /\ child \in BOOLEAN

-----------------------------------------------------------------------------
(* The operating system. *)

RootExits == root = "alive" /\ root' = "gone" /\ UNCHANGED child

\* The pid of the reaped root is given to an unrelated process.
PidReused == root = "gone" /\ root' = "reused" /\ UNCHANGED child

Forks == root = "alive" /\ ~child /\ child' = TRUE /\ UNCHANGED root

ChildExits == child /\ child' = FALSE /\ UNCHANGED root

OperatingSystem == RootExits \/ PidReused \/ Forks \/ ChildExits

-----------------------------------------------------------------------------
\* A root with another start token is reported before the group is scanned; a
\* live root is a member of its own group.
inspectTreeState ==
    CASE root = "reused" -> "reused"
      [] root = "gone" /\ ~child -> "gone"
      [] OTHER -> "remaining"

\* TerminationResult with its error: TreeExited, PIDReused, RemainingPIDs, or
\* nothing when an inspection failed or the caller's context ended.  "none" stands
\* for no call.
Results == {"none", "gone", "reused", "remaining", "failed"}

\* A call of TerminateTree may return r now.
TerminateTree(r) == r \in {inspectTreeState, "failed"}

TreeExited(r) == r \in {"gone", "reused"}

\* The group has no member left; an empty group stays empty.
TreeEmpty == root # "alive" /\ ~child

\* controller.go:24-26 "TreeExited=true only when the controller confirmed the
\* original tree is gone (or PID reuse)".
Truthful(r) ==
    /\ r = "gone" => TreeEmpty
    /\ r = "reused" => root = "reused"
=============================================================================

---------------------------- MODULE MessageRules ----------------------------
(***************************************************************************)
(* The vocabulary of run-scoped messages (internal/message/message.go) and *)
(* the rules a complete line of messages.jsonl is validated against when   *)
(* the journal is replayed (internal/message/store.go).                    *)
(*                                                                         *)
(* A journal line is abstracted to the fields the Router ever changes: its *)
(* type, status, delivery mode, delivery attempts and resolution.  The     *)
(* identity and payload fields are copied from record to record by every   *)
(* Router operation and are left out.                                      *)
(***************************************************************************)
EXTENDS Integers, Sequences

CONSTANTS
    Resolutions,    \* the canonical resolutions a decision can receive
    NoResolution    \* an empty Resolution field

ASSUME NoResolutionIsNone == NoResolution \notin Resolutions

DecisionTypes == {"question", "scope_expansion_request", "permission_request"}
Types == DecisionTypes \cup {"instruction"}

Statuses == {"created", "validated", "queued", "delivered", "acknowledged",
             "answered", "expired", "failed"}

DeliveryModes == {"immediate", "next_turn", "resume", "unsupported"}

\* The DeliveryMode field left empty.
NoMode == "none"

Message == [type     : Types,
            status   : Statuses,
            mode     : DeliveryModes \cup {NoMode},
            attempts : Nat,
            res      : Resolutions \cup {NoResolution}]

IsDecisionType(t) == t \in DecisionTypes

IsTerminal(s) == s \in {"answered", "expired", "failed"}

\* The successors of a status in statusTransitions.
StatusTransitions(s) ==
    CASE s = "created"      -> {"validated", "failed"}
      [] s = "validated"    -> {"queued", "failed"}
      [] s = "queued"       -> {"delivered", "answered", "expired", "failed"}
      [] s = "delivered"    -> {"acknowledged", "answered", "expired", "failed"}
      [] s = "acknowledged" -> {"answered", "expired", "failed"}
      [] OTHER              -> {}

ValidateTransition(from, to) ==
    from = to \/ (~IsTerminal(from) /\ to \in StatusTransitions(from))

-----------------------------------------------------------------------------
(* Validation of a journal line. *)

DeliveryModePresenceOK(v) == v.mode = NoMode \/ v.type = "instruction"

StatusFieldsOK(v) ==
    /\ DeliveryModePresenceOK(v)
    /\ v.status \in {"created", "validated", "delivered"} => v.res = NoResolution
    /\ (v.status = "queued" /\ v.res # NoResolution) => IsDecisionType(v.type)
    /\ v.status = "answered" => v.res # NoResolution

FirstModeOK(v) ==
    v.mode # NoMode =>
        /\ DeliveryModePresenceOK(v)
        /\ v.status \in {"validated", "queued"}

\* A DeliveryMode once set stays, but for the one reclassification of a queued
\* instruction whose session is gone.
ModeChangeOK(prev, next) ==
    IF prev.mode = NoMode
    THEN FirstModeOK(next)
    ELSE \/ next.mode = prev.mode
         \/ /\ prev.type = "instruction"
            /\ prev.status = "queued" /\ next.status = "queued"
            /\ prev.mode = "next_turn" /\ next.mode = "resume"

\* validateMessageLifecycle: may line next follow line prev of the same id?
LifecycleOK(prev, next) ==
    /\ StatusFieldsOK(next)
    /\ prev.type = next.type
    /\ ModeChangeOK(prev, next)
    /\ next.attempts >= prev.attempts
    /\ prev.res # NoResolution => next.res = prev.res
    /\ ValidateTransition(prev.status, next.status)

FirstRecordOK(v) == StatusFieldsOK(v) /\ FirstModeOK(v)

\* ReplayDetailed accepts the lines of one message id.
Replayable(lines) ==
    /\ lines # <<>> => FirstRecordOK(lines[1])
    /\ \A i \in 2..Len(lines) : LifecycleOK(lines[i - 1], lines[i])

Last(lines) == lines[Len(lines)]
=============================================================================

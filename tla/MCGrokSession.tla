--------------------------- MODULE MCGrokSession ---------------------------
(* Two requests before the first prompt, one SendMessage after it, and a   *)
(* public channel and progress queue of one event each, so that both fill. *)
EXTENDS GrokSession

MCCriticalKinds == {"notice", "result.submitted", "turn.failed"}
=============================================================================

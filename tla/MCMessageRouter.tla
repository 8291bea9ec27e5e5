-------------------------- MODULE MCMessageRouter ---------------------------
(* Model-checking instance of MessageRouter: clients, ids and resolutions   *)
(* are interchangeable.                                                     *)
EXTENDS MessageRouter, TLC

Symmetry ==
    Permutations(MessageIDs) \cup Permutations(Clients) \cup Permutations(Resolutions)
=============================================================================

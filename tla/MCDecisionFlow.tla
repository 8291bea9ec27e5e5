--------------------------- MODULE MCDecisionFlow ---------------------------
(* Model-checking instance of DecisionFlow. *)
EXTENDS DecisionFlow, TLC

Symmetry == Permutations(ScopeRequests) \cup Permutations(Requests \ ScopeRequests)
            \cup Permutations(Resolvers)
=============================================================================

---------------------------- MODULE MCWaveScopes ----------------------------
(* Names, wildcards and files small enough to list, yet with every kind of *)
(* pattern: plain, "*", a name prefix, and "**" first, last and in between. *)
EXTENDS WaveScopes, TLC

MCWild == [s \in {"*", "a*"} |-> IF s = "*" THEN {"a", "ab", "b"} ELSE {"a", "ab"}]

MCPatterns ==
    {<<"a", "b">>, <<"a", "*">>, <<"a*", "b">>, <<"a", "**">>, <<"**", "b">>,
     <<"b", "**">>, <<"a", "**", "b">>, <<"b", "a">>, <<"b", "b">>,
     <<"ab", "b">>}

MCPaths ==
    {<<"b">>, <<"a", "a">>, <<"a", "b">>, <<"ab", "b">>, <<"b", "a">>, <<"b", "b">>,
     <<"a", "a", "b">>, <<"b", "ab">>}

MCHighRisk == {<<"b", "**">>}

(* The tasks differ in nothing but their plans.                            *)
TaskSymmetry == Permutations(Tasks)

MCEphemeral == {<<"**", "ab">>}
=============================================================================

-------------------------- MODULE WaveScopesProofs --------------------------
(***************************************************************************)
(* Proofs about WaveScopes, for every set of tasks, patterns and files:    *)
(* the overlap test of package scope is safe, and hence the write leases   *)
(* of a started wave stay apart, whatever is granted later.                *)
(***************************************************************************)
EXTENDS WaveScopes, FiniteSetTheorems, WellFoundedInduction, TLAPS

\* A non-empty set of naturals has a least element.
LEMMA LeastElement ==
    ASSUME NEW S \in SUBSET Nat, S # {}
    PROVE  \E i \in S : \A j \in S : i <= j
  <1>1. PICK i \in S : \A j \in S : ~ (<<j, i>> \in OpToRel(<, Nat))
    BY WFMin, NatLessThanWellFounded, Zenon
  <1>2. \A j \in S : ~ (j < i)
    BY <1>1 DEF OpToRel
  <1>3. QED
    BY <1>2

\* A finite set with no two different elements has at most one.
LEMMA AtMostOne ==
    ASSUME NEW S, IsFiniteSet(S), \A x, y \in S : x = y
    PROVE  Cardinality(S) <= 1
  <1>1. CASE S = {}
    BY <1>1, FS_EmptySet
  <1>2. CASE S # {}
    <2>1. PICK x \in S : TRUE
      BY <1>2
    <2>2. S = {x}
      BY <2>1
    <2>3. QED
      BY <2>2, FS_Singleton
  <1>3. QED
    BY <1>1, <1>2

\* And conversely.
LEMMA OnlyOne ==
    ASSUME NEW S, IsFiniteSet(S), ~(Cardinality(S) > 1), NEW x \in S, NEW y \in S
    PROVE  x = y
  <1>1. SUFFICES ASSUME x # y PROVE FALSE
    OBVIOUS
  <1>2. IsFiniteSet({x}) /\ Cardinality({x}) = 1
    BY FS_Singleton
  <1>3. IsFiniteSet({x} \cup {y}) /\ Cardinality({x} \cup {y}) = 2
    <2>1. Cardinality({x} \cup {y}) = IF y \in {x} THEN Cardinality({x}) ELSE Cardinality({x}) + 1
      BY <1>2, FS_AddElement, Zenon
    <2>2. IsFiniteSet({x} \cup {y})
      BY <1>2, FS_AddElement, Zenon
    <2>3. QED
      BY <1>1, <1>2, <2>1, <2>2
  <1>4. Cardinality({x} \cup {y}) <= Cardinality(S)
    <2>1. {x} \cup {y} \in SUBSET S
      OBVIOUS
    <2>2. QED
      BY <2>1, FS_Subset, Zenon
  <1>5. Cardinality(S) \in Nat
    BY FS_CardinalityType
  <1>6. QED
    BY <1>3, <1>4, <1>5

-----------------------------------------------------------------------------
(* Patterns. *)

AllPatterns == Patterns \union HighRiskFiles \union EphemeralPaths

\* Segments before the first wildcard stand for themselves: a path that a pattern matches
\* begins with them, and is nothing else if the pattern has no wildcard.
LEMMA MatchedPrefix ==
    ASSUME NEW p \in Seq(STRING), NEW f \in Seq(STRING), Match(p, f),
           NEW n \in 0..Len(p), \A i \in 1..n : ~IsWild(p[i])
    PROVE  /\ n <= Len(f)
           /\ \A i \in 1..n : f[i] = p[i]
           /\ n = Len(p) => Len(f) = n
  <1>1. PICK cut \in [0..Len(p) -> 0..Len(f)] :
           /\ cut[0] = 0 /\ cut[Len(p)] = Len(f)
           /\ \A i \in 1..Len(p) :
                 cut[i - 1] <= cut[i] /\ StandsFor(p, i, SubSeq(f, cut[i - 1] + 1, cut[i]))
    BY DEF Match
  <1>2. ASSUME NEW i \in 1..n, cut[i - 1] = i - 1
        PROVE  cut[i] = i /\ f[i] = p[i]
    <2>0. n \in Nat /\ n <= Len(p) /\ Len(p) \in Nat /\ Len(f) \in Nat
      OBVIOUS
    <2>1. i \in 1..Len(p) /\ i - 1 \in 0..Len(p) /\ i \in 0..Len(p) /\ i \in Nat
      BY <2>0
    <2>2. cut[i] \in 0..Len(f) /\ i - 1 <= cut[i]
      BY <1>1, <1>2, <2>1
    <2>3. StandsFor(p, i, SubSeq(f, i, cut[i]))
      BY <1>1, <1>2, <2>1
    <2>4. ~IsWild(p[i])
      OBVIOUS
    <2>5. Len(SubSeq(f, i, cut[i])) = 1 /\ SubSeq(f, i, cut[i])[1] = p[i]
      BY <2>3, <2>4 DEF StandsFor, IsWild
    <2>6. cut[i] = i
      BY <2>0, <2>1, <2>2, <2>5
    <2>7. SubSeq(f, i, i)[1] = f[i]
      BY <2>0, <2>1, <2>2, <2>6
    <2>8. QED
      BY <2>5, <2>6, <2>7
  <1>3. \A i \in 0..n : cut[i] = i
    <2> DEFINE wrong == {i \in 0..n : cut[i] # i}
    <2>1. SUFFICES ASSUME wrong # {} PROVE FALSE
      OBVIOUS
    <2>2. wrong \in SUBSET Nat
      OBVIOUS
    <2>3. PICK k \in wrong : \A j \in wrong : k <= j
      <3> HIDE DEF wrong
      <3> QED BY <2>1, <2>2, LeastElement
    <2>4. k \in 0..n /\ cut[k] # k
      OBVIOUS
    <2>5. k # 0
      BY <1>1, <2>4
    <2>6. k \in 1..n /\ k - 1 \in 0..n
      BY <2>4, <2>5
    <2>7. cut[k - 1] = k - 1
      BY <2>3, <2>6
    <2>8. QED
      BY <1>2, <2>4, <2>6, <2>7
  <1>4. \A i \in 1..n : f[i] = p[i]
    <2>1. TAKE i \in 1..n
    <2>2. i - 1 \in 0..n
      OBVIOUS
    <2>3. QED
      BY <1>2, <1>3, <2>2
  <1>5. cut[n] = n /\ n \in 0..Len(p)
    BY <1>3
  <1>6. QED
    BY <1>1, <1>4, <1>5

\* The prefix that MayOverlap compares is a prefix of the pattern and has no wildcard.
LEMMA StaticPrefix ==
    ASSUME NEW p \in Seq(STRING)
    PROVE  \E n \in 0..Len(p) : /\ staticPrefix(p) = SubSeq(p, 1, n)
                                /\ \A i \in 1..n : ~IsWild(p[i])
  <1> DEFINE good(n) == /\ \A i \in 1..n : ~IsWild(p[i])
                        /\ n < Len(p) => IsWild(p[n + 1])
             wild == {i \in 1..Len(p) : IsWild(p[i])}
  <1>1. \E n \in 0..Len(p) : good(n)
    <2>1. CASE wild = {}
      <3>1. good(Len(p)) /\ Len(p) \in 0..Len(p)
        BY <2>1
      <3>2. QED
        BY <3>1
    <2>2. CASE wild # {}
      <3>1. wild \in SUBSET Nat
        OBVIOUS
      <3>2. PICK k \in wild : \A j \in wild : k <= j
        <4> HIDE DEF wild
        <4> QED BY <2>2, <3>1, LeastElement
      <3>3. k \in 1..Len(p) /\ IsWild(p[k])
        OBVIOUS
      <3>4. \A i \in 1..(k - 1) : ~IsWild(p[i])
        BY <3>2, <3>3
      <3>5. k - 1 \in 0..Len(p) /\ (k - 1) + 1 = k
        BY <3>3
      <3>6. good(k - 1)
        BY <3>3, <3>4, <3>5
      <3>7. QED
        BY <3>5, <3>6
    <2>3. QED
      BY <2>1, <2>2
  <1> DEFINE m == CHOOSE n \in 0..Len(p) : good(n)
  <1>2. m \in 0..Len(p) /\ good(m)
    BY <1>1
  <1>3. staticPrefix(p) = SubSeq(p, 1, m)
    BY DEF staticPrefix
  <1>4. QED
    BY <1>2, <1>3

\* A pattern without a wildcard matches only itself.
LEMMA PlainMatch ==
    ASSUME NEW p \in Seq(STRING), NEW f \in Seq(STRING), Match(p, f), ~hasWildcard(p)
    PROVE  f = p
  <1>1. Len(p) \in 0..Len(p) /\ \A i \in 1..Len(p) : ~IsWild(p[i])
    BY DEF hasWildcard
  <1>2. Len(f) = Len(p) /\ \A i \in 1..Len(p) : f[i] = p[i]
    BY <1>1, MatchedPrefix
  <1>3. QED
    BY <1>2

\* MayOverlap of package scope is safe: what it calls disjoint has no file in common.
THEOREM OverlapIsSafe ==
    ASSUME NEW a \in Seq(STRING), NEW b \in Seq(STRING), NEW f \in Seq(STRING),
           Match(a, f), Match(b, f)
    PROVE  MayOverlap(a, b)
  <1>1. CASE ~hasWildcard(a)
    <2>1. f = a
      BY <1>1, PlainMatch
    <2>2. CASE ~hasWildcard(b)
      BY <1>1, <2>1, <2>2, PlainMatch DEF MayOverlap
    <2>3. CASE hasWildcard(b)
      BY <1>1, <2>1, <2>3 DEF MayOverlap
    <2>4. QED
      BY <2>2, <2>3
  <1>2. CASE hasWildcard(a) /\ ~hasWildcard(b)
    BY <1>2, PlainMatch DEF MayOverlap
  <1>3. CASE hasWildcard(a) /\ hasWildcard(b)
    <2>1. PICK n \in 0..Len(a) : /\ staticPrefix(a) = SubSeq(a, 1, n)
                                 /\ \A i \in 1..n : ~IsWild(a[i])
      BY StaticPrefix
    <2>2. PICK m \in 0..Len(b) : /\ staticPrefix(b) = SubSeq(b, 1, m)
                                 /\ \A i \in 1..m : ~IsWild(b[i])
      BY StaticPrefix
    <2>3. \A i \in 1..n : f[i] = a[i]
      BY <2>1, MatchedPrefix
    <2>4. \A i \in 1..m : f[i] = b[i]
      BY <2>2, MatchedPrefix
    <2>5. /\ DOMAIN SubSeq(a, 1, n) = 1..n /\ \A i \in 1..n : SubSeq(a, 1, n)[i] = a[i]
          /\ DOMAIN SubSeq(b, 1, m) = 1..m /\ \A i \in 1..m : SubSeq(b, 1, m)[i] = b[i]
      OBVIOUS
    <2>6. Compatible(staticPrefix(a), staticPrefix(b))
      BY <2>1, <2>2, <2>3, <2>4, <2>5 DEF Compatible
    <2>7. QED
      BY <1>3, <2>6 DEF MayOverlap
  <1>4. QED
    BY <1>1, <1>2, <1>3

\* The same of the tables.
LEMMA TableIsSafe ==
    ASSUME NEW a \in AllPatterns, NEW b \in AllPatterns, NEW f,
           f \in Covers[a], f \in Covers[b]
    PROVE  Overlap[a][b]
  <1>1. f \in Paths /\ Match(a, f) /\ Match(b, f)
    BY DEF Covers, AllPatterns
  <1>2. a \in Seq(STRING) /\ b \in Seq(STRING) /\ f \in Seq(STRING)
    BY <1>1, ScopeShapes DEF AllPatterns
  <1>3. MayOverlap(a, b)
    BY <1>1, <1>2, OverlapIsSafe
  <1>4. QED
    BY <1>3 DEF Overlap, Covers, AllPatterns

-----------------------------------------------------------------------------
(* The inductive invariant. *)

PlanOK ==
    plan \in [Tasks -> [write : SUBSET Patterns, reads : SUBSET Patterns,
                        forbidden : SUBSET Patterns, flaw : Flaws]]

\* What the last preflight, of the plan or of an expansion, has found out about the leases.
Apart(scopes) ==
    /\ ~WriteReadConflict(scopes)
    /\ FindOverlaps(scopes) = {}
    /\ ~HighRiskShared(scopes)

Granted == \A t \in Tasks : \A p \in lease[t] \ plan[t].write :
              ~AnyOverlap({p}, plan[t].forbidden)

\* A lease only grows: what it covered when the file was changed it still covers.
Witnessed == \A c \in changed : /\ c.path \in Paths /\ c.author \in Tasks
                                /\ c.leased \in BOOLEAN
                                /\ c.leased => c.author \in CoveringOwners(c.path, lease)

ScopesInv ==
    /\ TypeOK /\ PlanOK
    /\ wave = "planned" => lease = [t \in Tasks |-> plan[t].write]
    /\ Started => Apart(lease)
    /\ Granted
    /\ Witnessed
    /\ wave = "audited" => audit = AuditScopes({c.path : c \in changed}, lease)

LEMMA InitScopes == Init => ScopesInv
  <1> SUFFICES ASSUME Init PROVE ScopesInv
    OBVIOUS
  <1>1. PlanOK
    <2>1. PICK write \in [Tasks -> Patterns], flaw \in Flaws, cs \in SUBSET Clauses :
             \E what \in [cs -> Patterns] :
                plan = [t \in Tasks |->
                   [write     |-> {write[t]},
                    reads     |-> {what[c] : c \in {d \in cs : d = <<t, "reads">>}},
                    forbidden |-> {what[c] : c \in {d \in cs : d = <<t, "forbidden">>}},
                    flaw      |-> flaw]]
      BY DEF Init
    <2>2. PICK what \in [cs -> Patterns] :
                plan = [t \in Tasks |->
                   [write     |-> {write[t]},
                    reads     |-> {what[c] : c \in {d \in cs : d = <<t, "reads">>}},
                    forbidden |-> {what[c] : c \in {d \in cs : d = <<t, "forbidden">>}},
                    flaw      |-> flaw]]
      BY <2>1
    <2>3. \A S \in SUBSET cs : {what[c] : c \in S} \in SUBSET Patterns
      OBVIOUS
    <2>4. \A t \in Tasks : plan[t] \in [write : SUBSET Patterns, reads : SUBSET Patterns,
                        forbidden : SUBSET Patterns, flaw : Flaws]
      BY <2>2, <2>3
    <2>5. QED
      BY <2>2, <2>4 DEF PlanOK
  <1>2. lease = [t \in Tasks |-> plan[t].write]
    BY DEF Init
  <1>3. TypeOK
    BY <1>1, <1>2 DEF Init, TypeOK, PlanOK
  <1>4. Granted /\ Witnessed
    BY <1>2 DEF Init, Granted, Witnessed
  <1>5. QED
    BY <1>1, <1>2, <1>3, <1>4 DEF Init, ScopesInv, Started

LEMMA NextScopes == ScopesInv /\ [Next]_vars => ScopesInv'
  <1> SUFFICES ASSUME ScopesInv, [Next]_vars PROVE ScopesInv'
    OBVIOUS
  <1>1. CASE preflightWave
    <2>1. UNCHANGED <<plan, lease, public, granted, changed, audit>>
      BY <1>1 DEF preflightWave
    <2>2. /\ wave = "planned" /\ wave' \in {"running", "rejected"}
          /\ wave' = "running" => Preflight([t \in Tasks |-> plan[t].write])
      BY <1>1 DEF preflightWave, EvaluatePreflight
    <2>3. wave' = "running" => Apart(lease)
      BY <2>2 DEF ScopesInv, Apart, Preflight
    <2>4. Apart(lease)' <=> Apart(lease)
      BY <2>1 DEF Apart, WriteReadConflict, FindOverlaps, HighRiskShared,
         ownersPotentiallyClaiming, AnyOverlap
    <2>5. TypeOK' /\ PlanOK' /\ Granted' /\ Witnessed'
      BY <2>1, <2>2 DEF ScopesInv, TypeOK, PlanOK, Granted, Witnessed, CoveringOwners,
         AnyOverlap
    <2>6. QED
      BY <2>1, <2>2, <2>3, <2>4, <2>5 DEF ScopesInv, Started
  <1>2. ASSUME NEW t \in Tasks, NEW p \in Patterns, NEW needs \in BOOLEAN,
               NEW allow \in BOOLEAN, approveScope(t, {p}, needs, allow)
        PROVE  ScopesInv'
    <2>1. /\ wave = "running" /\ ~Forbidden(t, {p}) /\ Preflight(Expanded(t, {p}))
          /\ lease' = [lease EXCEPT ![t] = @ \union {p}]
          /\ public' = [public EXCEPT ![t] = @ \/ allow]
          /\ UNCHANGED <<plan, wave, changed, audit>>
      BY <1>2 DEF approveScope
    <2>2. TypeOK' /\ PlanOK'
      BY <2>1 DEF ScopesInv, TypeOK, PlanOK
    <2>3. Apart(lease)'
      <3>1. Apart(Expanded(t, {p}))
        BY <2>1 DEF Apart, Preflight
      <3>2. Expanded(t, {p}) = lease'
        BY <2>1 DEF Expanded
      <3>3. QED
        BY <2>1, <3>1, <3>2 DEF Apart, WriteReadConflict, FindOverlaps, HighRiskShared,
           ownersPotentiallyClaiming, AnyOverlap
    <2>4. Granted'
      <3>1. ASSUME NEW u \in Tasks, NEW q \in lease'[u] \ plan[u].write
            PROVE  ~AnyOverlap({q}, plan[u].forbidden)
        <4>1. CASE q \in lease[u]
          BY <4>1 DEF ScopesInv, Granted
        <4>2. CASE q \notin lease[u]
          <5>1. u = t /\ q = p
            BY <2>1, <4>2 DEF ScopesInv, TypeOK
          <5>2. QED
            BY <2>1, <5>1 DEF Forbidden
        <4>3. QED
          BY <4>1, <4>2
      <3>2. QED
        BY <2>1, <3>1 DEF Granted, AnyOverlap
    <2>5. Witnessed'
      <3>1. \A u \in Tasks : lease[u] \subseteq lease'[u]
        BY <2>1 DEF ScopesInv, TypeOK
      <3>2. QED
        BY <2>1, <3>1 DEF ScopesInv, Witnessed, CoveringOwners
    <2>6. QED
      BY <2>1, <2>2, <2>3, <2>4, <2>5 DEF ScopesInv, Started
  <1>3. ASSUME NEW t \in Tasks, NEW f \in Paths, Write(t, f)
        PROVE  ScopesInv'
    <2>1. /\ wave = "running"
          /\ changed' = changed \union
               {[path |-> f, author |-> t, leased |-> \E p \in lease[t] : f \in Covers[p]]}
          /\ UNCHANGED <<plan, lease, public, wave, granted, audit>>
      BY <1>3 DEF Write
    <2>2. Witnessed'
      <3> DEFINE covered == \E p \in lease[t] : f \in Covers[p]
                 new == [path |-> f, author |-> t, leased |-> covered]
      <3>1. covered \in BOOLEAN
        OBVIOUS
      <3>2. covered => t \in CoveringOwners(f, lease)
        BY DEF CoveringOwners
      <3>3. changed' = changed \union {new}
        BY <2>1
      <3> HIDE DEF covered
      <3>4. new.path = f /\ new.author = t /\ new.leased = covered
        OBVIOUS
      <3> HIDE DEF new
      <3>5. \A c \in changed' : /\ c.path \in Paths /\ c.author \in Tasks
                                /\ c.leased \in BOOLEAN
                                /\ c.leased => c.author \in CoveringOwners(c.path, lease)
        BY <3>1, <3>2, <3>3, <3>4 DEF ScopesInv, Witnessed
      <3>6. QED
        BY <2>1, <3>5 DEF Witnessed, CoveringOwners
    <2>3. Apart(lease)' <=> Apart(lease)
      BY <2>1 DEF Apart, WriteReadConflict, FindOverlaps, HighRiskShared,
         ownersPotentiallyClaiming, AnyOverlap
    <2>4. TypeOK' /\ PlanOK' /\ Granted'
      BY <2>1 DEF ScopesInv, TypeOK, PlanOK, Granted, AnyOverlap
    <2>5. QED
      BY <2>1, <2>2, <2>3, <2>4 DEF ScopesInv, Started
  <1>4. CASE collectBarrierInputs
    <2>1. /\ wave = "running" /\ wave' = "audited"
          /\ audit' = AuditScopes({c.path : c \in changed}, lease)
          /\ UNCHANGED <<plan, lease, public, granted, changed>>
      BY <1>4 DEF collectBarrierInputs
    <2>2. Apart(lease)' <=> Apart(lease)
      BY <2>1 DEF Apart, WriteReadConflict, FindOverlaps, HighRiskShared,
         ownersPotentiallyClaiming, AnyOverlap
    <2>3. TypeOK' /\ PlanOK' /\ Granted' /\ Witnessed'
      BY <2>1 DEF ScopesInv, TypeOK, PlanOK, Granted, Witnessed, CoveringOwners, AnyOverlap
    <2>4. AuditScopes({c.path : c \in changed}, lease)' = AuditScopes({c.path : c \in changed}, lease)
      BY <2>1 DEF AuditScopes, CoveringOwners
    <2>5. QED
      BY <2>1, <2>2, <2>3, <2>4 DEF ScopesInv, Started
  <1>5. CASE UNCHANGED vars
    <2>1. UNCHANGED <<plan, lease, public, wave, granted, changed, audit>>
      BY <1>5 DEF vars
    <2>2. Apart(lease)' <=> Apart(lease)
      BY <2>1 DEF Apart, WriteReadConflict, FindOverlaps, HighRiskShared,
         ownersPotentiallyClaiming, AnyOverlap
    <2>3. TypeOK' /\ PlanOK' /\ Granted' /\ Witnessed'
      BY <2>1 DEF ScopesInv, TypeOK, PlanOK, Granted, Witnessed, CoveringOwners, AnyOverlap
    <2>4. AuditScopes({c.path : c \in changed}, lease)' = AuditScopes({c.path : c \in changed}, lease)
      BY <2>1 DEF AuditScopes, CoveringOwners
    <2>5. QED
      BY <2>1, <2>2, <2>3, <2>4 DEF ScopesInv, Started
  <1>6. QED
    BY <1>1, <1>2, <1>3, <1>4, <1>5 DEF Next

\* The invariant holds in every reachable state, for any tasks, patterns and files.
THEOREM ScopesInvariant == Spec => []ScopesInv
  <1>1. QED
    BY InitScopes, NextScopes, PTL DEF Spec

-----------------------------------------------------------------------------
(* What it implies. *)

\* Disjoint patterns have no file in common, so no file has two owners.
LEMMA OneOwner ==
    ASSUME ScopesInv, Apart(lease), NEW f,
           NEW t \in CoveringOwners(f, lease), NEW u \in CoveringOwners(f, lease)
    PROVE  t = u
  <1>1. SUFFICES ASSUME t # u PROVE FALSE
    OBVIOUS
  <1>2. t \in Tasks /\ u \in Tasks
    BY DEF CoveringOwners
  <1>3. PICK a \in lease[t] : f \in Covers[a]
    BY DEF CoveringOwners
  <1>4. PICK b \in lease[u] : f \in Covers[b]
    BY DEF CoveringOwners
  <1>5. a \in AllPatterns /\ b \in AllPatterns
    BY <1>2 DEF ScopesInv, TypeOK, AllPatterns
  <1>6. AnyOverlap(lease[t], lease[u])
    BY <1>3, <1>4, <1>5, TableIsSafe DEF AnyOverlap
  <1>7. {t, u} \in FindOverlaps(lease)
    BY <1>1, <1>2, <1>6 DEF FindOverlaps
  <1>8. QED
    BY <1>7 DEF Apart

LEMMA OwnersFinite ==
    ASSUME NEW f
    PROVE  IsFiniteSet(CoveringOwners(f, lease))
  <1>1. CoveringOwners(f, lease) \in SUBSET Tasks
    BY DEF CoveringOwners
  <1>2. QED
    BY <1>1, ScopeShapes, FS_Subset

LEMMA ScopesIsolate == ScopesInv => Isolation
  <1> SUFFICES ASSUME ScopesInv, Started PROVE Isolation
    BY DEF Isolation
  <1>0. Apart(lease)
    BY DEF ScopesInv
  <1>1. \A f \in Paths : Cardinality(CoveringOwners(f, lease)) <= 1
    BY <1>0, OneOwner, OwnersFinite, AtMostOne
  <1>2. ASSUME NEW r \in Tasks, NEW p \in plan[r].reads, NEW f \in Covers[p],
               NEW t \in CoveringOwners(f, lease)
        PROVE  t = r
    <2>1. SUFFICES ASSUME t # r PROVE FALSE
      OBVIOUS
    <2>2. t \in Tasks
      BY DEF CoveringOwners
    <2>3. PICK b \in lease[t] : f \in Covers[b]
      BY DEF CoveringOwners
    <2>4. p \in AllPatterns /\ b \in AllPatterns
      BY <2>2 DEF ScopesInv, TypeOK, PlanOK, AllPatterns
    <2>5. Overlap[p][b]
      BY <2>3, <2>4, TableIsSafe
    <2>6. WriteReadConflict(lease)
      BY <2>1, <2>2, <2>5 DEF WriteReadConflict, AnyOverlap
    <2>7. QED
      BY <1>0, <2>6 DEF Apart
  <1>3. ASSUME NEW p \in HighRiskFiles
        PROVE  Cardinality(UNION {CoveringOwners(f, lease) : f \in Covers[p]}) <= 1
    <2> DEFINE owners == UNION {CoveringOwners(f, lease) : f \in Covers[p]}
               claiming == ownersPotentiallyClaiming(p, lease)
    <2>1. ASSUME NEW t \in owners PROVE t \in claiming
      <3>1. PICK f \in Covers[p] : t \in CoveringOwners(f, lease)
        OBVIOUS
      <3>2. t \in Tasks
        BY <3>1 DEF CoveringOwners
      <3>3. PICK b \in lease[t] : f \in Covers[b]
        BY <3>1 DEF CoveringOwners
      <3>4. p \in AllPatterns /\ b \in AllPatterns
        BY <3>2 DEF ScopesInv, TypeOK, AllPatterns
      <3>5. Overlap[p][b]
        BY <3>1, <3>3, <3>4, TableIsSafe
      <3>6. QED
        BY <3>2, <3>5 DEF ownersPotentiallyClaiming, AnyOverlap
    <2>2. claiming \in SUBSET Tasks
      BY DEF ownersPotentiallyClaiming
    <2>3. IsFiniteSet(claiming)
      <3> HIDE DEF claiming
      <3> QED BY <2>2, ScopeShapes, FS_Subset
    <2>4. ~(Cardinality(claiming) > 1)
      BY <1>0 DEF Apart, HighRiskShared
    <2> HIDE DEF owners, claiming
    <2>5. \A x, y \in claiming : x = y
      BY <2>3, <2>4, OnlyOne
    <2>6. owners \in SUBSET claiming
      BY <2>1
    <2>7. IsFiniteSet(owners)
      BY <2>3, <2>6, FS_Subset
    <2>8. Cardinality(owners) <= 1
      BY <2>5, <2>6, <2>7, AtMostOne
    <2>9. QED
      BY <2>8 DEF owners
  <1>4. QED
    BY <1>1, <1>2, <1>3 DEF Isolation

\* Tasks of a started wave never own a file together, write what another one reads or share
\* a high-risk object (EvaluatePreflight and approveScope), whatever the patterns are.
THEOREM LeasesStayApart == Spec => []Isolation
  <1>1. QED
    BY ScopesInvariant, ScopesIsolate, PTL

\* No expansion grants what a contract forbids (approveScope).
THEOREM ForbiddenStaysKept == Spec => []ForbiddenKept
  <1>1. ScopesInv => ForbiddenKept
    <2> SUFFICES ASSUME ScopesInv PROVE ForbiddenKept
      OBVIOUS
    <2>1. ASSUME NEW t \in Tasks, NEW p \in lease[t] \ plan[t].write,
                 NEW q \in plan[t].forbidden, NEW f \in Covers[p], f \in Covers[q]
          PROVE  FALSE
      <3>1. p \in AllPatterns /\ q \in AllPatterns
        BY DEF ScopesInv, TypeOK, PlanOK, AllPatterns
      <3>2. Overlap[p][q]
        BY <2>1, <3>1, TableIsSafe
      <3>3. QED
        BY <3>2 DEF ScopesInv, Granted, AnyOverlap
    <2>2. QED
      BY <2>1 DEF ForbiddenKept, ScopesInv
  <1>2. QED
    BY <1>1, ScopesInvariant, PTL

\* The barrier's audit attributes every change under a lease to its author (AuditScopes),
\* although the lease may have been granted after the plan.
THEOREM AuditStaysTrue == Spec => []AuditNamesTheAuthor
  <1>1. ScopesInv => AuditNamesTheAuthor
    <2> SUFFICES ASSUME ScopesInv, wave = "audited", NEW c \in changed
                 PROVE  \/ Ephemeral(c.path) /\ c.path \in audit.ephemeral
                        \/ c.leased /\ <<c.path, {c.author}>> \in audit.authorized
                        \/ ~c.leased /\ CoveringOwners(c.path, lease) = {}
                                     /\ c.path \in audit.unauthorized
                        \/ ~c.leased /\ CoveringOwners(c.path, lease) # {}
      BY DEF AuditNamesTheAuthor
    <2> DEFINE files == {d.path : d \in changed}
               kept == {f \in files : ~Ephemeral(f)}
    <2>1. /\ audit.ephemeral = files \ kept
          /\ audit.unauthorized = {f \in kept : Cardinality(CoveringOwners(f, lease)) = 0}
          /\ audit.authorized = {<<f, CoveringOwners(f, lease)>> :
                          f \in {g \in kept : Cardinality(CoveringOwners(g, lease)) = 1}}
      BY DEF ScopesInv, AuditScopes
    <2>2. CASE Ephemeral(c.path)
      BY <2>1, <2>2
    <2>3. CASE ~Ephemeral(c.path) /\ c.leased
      <3>1. c.author \in CoveringOwners(c.path, lease)
        BY <2>3 DEF ScopesInv, Witnessed
      <3>2. Apart(lease)
        BY DEF ScopesInv, Started
      <3>3. CoveringOwners(c.path, lease) = {c.author}
        BY <3>1, <3>2, OneOwner
      <3>4. Cardinality(CoveringOwners(c.path, lease)) = 1
        BY <3>3, FS_Singleton
      <3>5. c.path \in kept
        BY <2>3
      <3>6. <<c.path, CoveringOwners(c.path, lease)>> \in audit.authorized
        BY <2>1, <3>4, <3>5
      <3>7. QED
        BY <2>3, <3>3, <3>6
    <2>4. CASE ~Ephemeral(c.path) /\ ~c.leased
      <3>1. CASE CoveringOwners(c.path, lease) = {}
        <4>1. Cardinality(CoveringOwners(c.path, lease)) = 0
          BY <3>1, FS_EmptySet
        <4>2. c.path \in kept
          BY <2>4
        <4>3. QED
          BY <2>1, <2>4, <3>1, <4>1, <4>2
      <3>2. QED
        BY <2>4, <3>1
    <2>5. QED
      BY <2>2, <2>3, <2>4 DEF ScopesInv, Witnessed
  <1>2. QED
    BY <1>1, ScopesInvariant, PTL
=============================================================================

----------------------------- MODULE WaveScopes -----------------------------
(***************************************************************************)
(* The write leases of a wave: the scope patterns of internal/scope, the   *)
(* preflight that lets a wave start (internal/wave/preflight.go), their    *)
(* expansion while it runs (approveScope) and the audit of its changes     *)
(* (internal/verify/audit.go).                                             *)
(*                                                                         *)
(* A path is a sequence of names and a pattern a sequence of segments: a   *)
(* name, "**", or a wildcard segment that stands for a set of names.       *)
(* Normalize and Compile have done their work: patterns are relative,      *)
(* clean and well-formed.                                                  *)
(***************************************************************************)
EXTENDS Naturals, Sequences, FiniteSets

CONSTANTS
    Tasks,           \* tasks of the wave
    Wild,            \* wildcard segments, as the sets of names they match
    Patterns,        \* patterns that plans and requests use
    Paths,           \* files of the project
    HighRiskFiles,   \* patterns of high-risk global objects
    EphemeralPaths,  \* patterns of the run's audit policy
    MaxClauses,      \* bound on read and forbidden entries of a plan
    MaxExpansions,   \* bound on approved requests
    MaxWrites        \* bound on changed files

ASSUME ScopeBounds == {MaxClauses, MaxExpansions, MaxWrites} \subseteq Nat
ASSUME ScopeShapes ==
    /\ IsFiniteSet(Tasks)
    /\ Patterns \union HighRiskFiles \union EphemeralPaths \subseteq Seq(STRING)
    /\ Paths \subseteq Seq(STRING)

VARIABLES
    plan,        \* per task: planned WriteScope, KnownReadDependencies, ForbiddenScope
    lease,       \* per task: WriteScope of the snapshot
    public,      \* per task: AllowPublicInterfaceChange
    wave,        \* "planned", "running", "rejected", "audited"
    granted,     \* approved expansions so far
    changed,     \* changed files: path, author, and whether its lease covered it
    audit        \* the barrier's ScopeAudit

vars == <<plan, lease, public, wave, granted, changed, audit>>

-----------------------------------------------------------------------------
(* Package scope.                                                          *)

IsWild(segment) == segment = "**" \/ segment \in DOMAIN Wild

hasWildcard(p) == \E i \in DOMAIN p : IsWild(p[i])

(* What segment i of p may stand for, as the expression of globRegex says: *)
(* "**/" for any number of directories, a final "**" for the rest of the   *)
(* path, any other segment for one name.                                   *)
StandsFor(p, i, names) ==
    IF p[i] = "**" THEN i = Len(p) => names # <<>>
    ELSE /\ Len(names) = 1
         /\ IF p[i] \in DOMAIN Wild THEN names[1] \in Wild[p[i]] ELSE names[1] = p[i]

(* A pattern matches the path it can be laid along: segment i stands for   *)
(* the names after cut[i - 1] up to cut[i].                                *)
Match(p, f) ==
    \E cut \in [0..Len(p) -> 0..Len(f)] :
       /\ cut[0] = 0 /\ cut[Len(p)] = Len(f)
       /\ \A i \in 1..Len(p) :
             cut[i - 1] <= cut[i] /\ StandsFor(p, i, SubSeq(f, cut[i - 1] + 1, cut[i]))

(* The files each pattern names; a table, computed once.                   *)
Covers == [p \in Patterns \union HighRiskFiles \union EphemeralPaths |->
              {f \in Paths : Match(p, f)}]

staticPrefix(p) ==
    LET n == CHOOSE n \in 0..Len(p) :
                /\ \A i \in 1..n : ~IsWild(p[i])
                /\ n < Len(p) => IsWild(p[n + 1])
    IN  SubSeq(p, 1, n)

Compatible(s, t) == \A i \in DOMAIN s \intersect DOMAIN t : s[i] = t[i]

MayOverlap(a, b) ==
    IF ~hasWildcard(a) /\ ~hasWildcard(b) THEN a = b
    ELSE IF ~hasWildcard(a) THEN Match(b, a)
    ELSE IF ~hasWildcard(b) THEN Match(a, b)
    ELSE Compatible(staticPrefix(a), staticPrefix(b))

(* MayOverlap as a table.                                                  *)
Overlap == [a \in DOMAIN Covers |-> [b \in DOMAIN Covers |-> MayOverlap(a, b)]]

AnyOverlap(s, t) == \E a \in s, b \in t : Overlap[a][b]

FindOverlaps(scopes) ==
    {pair \in SUBSET Tasks : \E t, u \in pair : t # u /\ pair = {t, u}
                                                  /\ AnyOverlap(scopes[t], scopes[u])}

CoveringOwners(f, scopes) == {t \in Tasks : \E p \in scopes[t] : f \in Covers[p]}

-----------------------------------------------------------------------------
(* Package wave: the preflight.  The texts of a contract are summed up in  *)
(* the flaw the checks find in them.                                       *)

(* A field missing or malformed, a dependency within the wave, validation  *)
(* of the whole repository, and the duties towards the other tasks.        *)
ValidateContract(t) == plan[t].flaw # "contract" /\ plan[t].write # {}
SingleTaskOK(t) == plan[t].flaw \notin {"same_wave_dependency", "global_validation"}
checkParallelResponsibilities ==
    Cardinality(Tasks) > 1 => \A t \in Tasks : plan[t].flaw # "responsibility"

ownersPotentiallyClaiming(p, scopes) == {t \in Tasks : AnyOverlap({p}, scopes[t])}

WriteReadConflict(scopes) ==
    \E r, w \in Tasks : r # w /\ AnyOverlap(plan[r].reads, scopes[w])

HighRiskShared(scopes) ==
    \E p \in HighRiskFiles : Cardinality(ownersPotentiallyClaiming(p, scopes)) > 1

Preflight(scopes) ==
    /\ \A t \in Tasks : ValidateContract(t) /\ SingleTaskOK(t)
    /\ checkParallelResponsibilities
    /\ ~WriteReadConflict(scopes)
    /\ FindOverlaps(scopes) = {}
    /\ ~HighRiskShared(scopes)

(* What the probe of a harness finds; an unverified version is a warning.  *)
Probes == {"fine", "compatibility_unverified", "incompatible", "probe_failed",
           "not_installed", "not_authenticated", "not_registered"}

harnessIssues(probe) == probe \notin {"fine", "compatibility_unverified"}

EvaluatePreflight(scopes, probe) == Preflight(scopes) /\ ~harnessIssues(probe)

-----------------------------------------------------------------------------
(* Package verify: the audit of changed files.                             *)

Ephemeral(f) == \E p \in EphemeralPaths : f \in Covers[p]

NoAudit == [authorized |-> {}, ephemeral |-> {}, unauthorized |-> {}, uncertain |-> {}]

AuditScopes(files, scopes) ==
    LET kept   == {f \in files : ~Ephemeral(f)}
        own(f) == Cardinality(CoveringOwners(f, scopes))
    IN  [authorized   |-> {<<f, CoveringOwners(f, scopes)>> : f \in {g \in kept : own(g) = 1}},
         ephemeral    |-> files \ kept,
         unauthorized |-> {f \in kept : own(f) = 0},
         uncertain    |-> {f \in kept : own(f) > 1}]

-----------------------------------------------------------------------------
Flaws == {"none", "contract", "same_wave_dependency", "global_validation", "responsibility"}

Clauses == {<<t, k>> : t \in Tasks, k \in {"reads", "forbidden"}}

(* A plan: a pattern to write for every task, and at most MaxClauses read  *)
(* dependencies and forbidden scopes.                                      *)
Init ==
    /\ \E write \in [Tasks -> Patterns], flaw \in Flaws, cs \in SUBSET Clauses :
          /\ Cardinality(cs) <= MaxClauses
          /\ \E what \in [cs -> Patterns] :
                plan = [t \in Tasks |->
                   [write     |-> {write[t]},
                    reads     |-> {what[c] : c \in {d \in cs : d = <<t, "reads">>}},
                    forbidden |-> {what[c] : c \in {d \in cs : d = <<t, "forbidden">>}},
                    flaw      |-> flaw]]
    /\ lease = [t \in Tasks |-> plan[t].write]
    /\ public = [t \in Tasks |-> FALSE]
    /\ wave = "planned" /\ granted = 0 /\ changed = {} /\ audit = NoAudit

(* The planned scopes, a probe of the harness, and whether the hooks that  *)
(* permission routing needs can be installed.                              *)
preflightWave ==
    /\ wave = "planned"
    /\ \E probe \in Probes, hooks \in BOOLEAN :
          wave' = IF EvaluatePreflight([t \in Tasks |-> plan[t].write], probe) /\ hooks
                  THEN "running" ELSE "rejected"
    /\ UNCHANGED <<plan, lease, public, granted, changed, audit>>

(* A plausible slip: the preflight of an expansion sees the others' plans. *)
ExpandedAgainstPlan(t, req) ==
    [u \in Tasks |-> IF u = t THEN lease[t] \union req ELSE plan[u].write]

(* The scopes the expansion's preflight looks at: the candidate's.         *)
Expanded(t, req) == [lease EXCEPT ![t] = @ \union req]

(* A plausible slip: a forbidden scope conflicts only if it is requested.  *)
ForbiddenByName(t, req) == req \intersect plan[t].forbidden # {}

Forbidden(t, req) == AnyOverlap(req, plan[t].forbidden)

(* approveScope, one Commit: the request is refused, found already granted, *)
(* or granted after a preflight of the wave as it would be then.           *)
approveScope(t, req, needsPublic, allowPublic) ==
    /\ wave = "running" /\ granted < MaxExpansions
    /\ ~Forbidden(t, req)
    /\ ~(req \subseteq lease[t] /\ public[t] = allowPublic)
    /\ needsPublic => allowPublic
    /\ Preflight(Expanded(t, req))
    /\ lease' = [lease EXCEPT ![t] = @ \union req]
    /\ public' = [public EXCEPT ![t] = @ \/ allowPublic]
    /\ granted' = granted + 1
    /\ UNCHANGED <<plan, wave, changed, audit>>

(* A worker (external) changes a file, one of its lease or any other.      *)
Write(t, f) ==
    /\ wave = "running" /\ Cardinality(changed) < MaxWrites
    /\ f \notin {c.path : c \in changed}
    /\ changed' = changed \union
          {[path |-> f, author |-> t, leased |-> \E p \in lease[t] : f \in Covers[p]]}
    /\ UNCHANGED <<plan, lease, public, wave, granted, audit>>

(* A plausible slip: the audit takes the leases from the plan.             *)
auditThePlan ==
    /\ wave = "running"
    /\ wave' = "audited"
    /\ audit' = AuditScopes({c.path : c \in changed}, [t \in Tasks |-> plan[t].write])
    /\ UNCHANGED <<plan, lease, public, granted, changed>>

(* The barrier's audit of what changed since the wave began, against the   *)
(* leases of the snapshot.                                                 *)
collectBarrierInputs ==
    /\ wave = "running"
    /\ wave' = "audited"
    /\ audit' = AuditScopes({c.path : c \in changed}, lease)
    /\ UNCHANGED <<plan, lease, public, granted, changed>>

Next ==
    \/ preflightWave
    \/ \E t \in Tasks, p \in Patterns, needs, allow \in BOOLEAN :
          approveScope(t, {p}, needs, allow)
    \/ \E t \in Tasks, f \in Paths : Write(t, f)
    \/ collectBarrierInputs

Spec == Init /\ [][Next]_vars

-----------------------------------------------------------------------------
Started == wave \in {"running", "audited"}

(* Types, and a wave that has started still has its whole plan.            *)
TypeOK ==
    /\ lease \in [Tasks -> SUBSET Patterns]
    /\ public \in [Tasks -> BOOLEAN]
    /\ wave \in {"planned", "running", "rejected", "audited"}
    /\ \A t \in Tasks : plan[t].write \subseteq lease[t]
    /\ wave # "audited" => audit = NoAudit

(* A wave that started keeps its tasks apart, after any expansions: no     *)
(* file has two owners (what MayOverlap calls disjoint matches no file in  *)
(* common), no task may write what another one has declared to read, and   *)
(* the files of one high-risk object are leased to one task at most.       *)
Isolation ==
    Started =>
       /\ \A f \in Paths : Cardinality(CoveringOwners(f, lease)) <= 1
       /\ \A r \in Tasks : \A p \in plan[r].reads : \A f \in Covers[p] :
             CoveringOwners(f, lease) \subseteq {r}
       /\ \A p \in HighRiskFiles :
             Cardinality(UNION {CoveringOwners(f, lease) : f \in Covers[p]}) <= 1

(* No expansion gives a task a file that its contract forbids to it.       *)
ForbiddenKept ==
    /\ TypeOK
    /\ \A t \in Tasks : \A p \in lease[t] \ plan[t].write : \A q \in plan[t].forbidden :
       Covers[p] \intersect Covers[q] = {}

(* The audit tells the truth about a wave: a file changed under its        *)
(* author's lease, granted at any time, is attributed to that author; one  *)
(* that no lease covers is unauthorized; only ephemeral files are exempt.  *)
AuditNamesTheAuthor ==
    wave = "audited" => \A c \in changed :
       \/ Ephemeral(c.path) /\ c.path \in audit.ephemeral
       \/ c.leased /\ <<c.path, {c.author}>> \in audit.authorized
       \/ ~c.leased /\ CoveringOwners(c.path, lease) = {} /\ c.path \in audit.unauthorized
       \/ ~c.leased /\ CoveringOwners(c.path, lease) # {}
=============================================================================

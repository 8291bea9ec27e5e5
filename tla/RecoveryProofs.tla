--------------------------- MODULE RecoveryProofs ---------------------------
(***************************************************************************)
(* Proofs about Recovery, for any number of tasks, attempts and crashes:   *)
(* a task never has two live workers, an exit that is recorded has         *)
(* happened, and a frozen report that counts is the last attempt's.        *)
(***************************************************************************)
EXTENDS Recovery, FiniteSetTheorems, TLAPS

(* The inductive invariant, task by task. *)

Roots == [1 .. MaxAttempts -> Fates]
Live(o) == \E n \in 1 .. MaxAttempts : o[n] = "alive"

\* The attempt whose process may still be there; a legacy task has one it did not record.
LastAttempt(ts) == IF ts.attempts = <<>> THEN 1 ELSE Len(ts.attempts)

\* A record that the code can have written.
Shape(ts) ==
    /\ ts \in TaskState
    /\ ts.active <= Len(ts.attempts) /\ Len(ts.attempts) <= MaxAttempts
    /\ ts.report.attempt <= Len(ts.attempts)
    /\ ts.report.attempt # 0 /\ ts.report.stale = FALSE =>
          ts.report.attempt = Len(ts.attempts)

\* A live worker is owned up to.
Accounted(ts, o) ==
    Live(o) => ts.process \in {"orphaned", "unknown"} \/ ts.status = "failed"

TaskInv(ts, o) ==
    /\ Shape(ts)
    /\ \A n \in 1 .. MaxAttempts : o[n] = "alive" => n = LastAttempt(ts)
    /\ Live(o) => ts.process # "exited" /\ ts.status # "planned"
    /\ recoveryTaskTerminal(ts) => Accounted(ts, o)

\* What executeTask relies on from step to step.
DriverInv(ts, o, d) ==
    /\ d \notin Running => Accounted(ts, o)
    /\ d \in {"begun", "counted", "starting"} => ts.process = "starting" /\ ~Live(o)
    /\ d \in {"begun", "counted", "starting", "spawned", "session"} =>
          ts.active = Len(ts.attempts) /\ ts.active # 0
    /\ d \in {"starting", "spawned", "session"} => ts.status = "running"
    /\ d = "unstarted" => ~Live(o)
    /\ d \in {"unconfirmed", "ended", "finished", "reported", "complete", "verifying"}
       /\ Live(o) => ts.process \in {"orphaned", "unknown"}

\* A class that has not been applied yet still fits its task.
DecisionInv(ts, o, class) ==
    /\ class = "already_terminal" => recoveryTaskTerminal(ts)
    /\ class = "never_started" => ts.status = "planned"
    /\ class \in {"exited_resumable", "exited_unresumable"} => ~Live(o)

PhaseInv ==
    /\ phase = "execute" => \A t \in Tasks : DriverInv(task[t], os[t], drv[t])
    /\ phase # "execute" => \A t \in Tasks : drv[t] = "idle"
    /\ phase \in {"classify", "apply"} =>
          \A t \in Tasks : t > applied => DecisionInv(task[t], os[t], decision[t])
    /\ phase = "apply" => applied < NTasks /\ \A t \in Tasks : decision[t] # "none"
    /\ phase \in {"apply", "aggregate"} =>
          \A t \in Tasks : t <= applied => Accounted(task[t], os[t])
    /\ phase = "aggregate" => applied = NTasks
    /\ phase \notin {"apply", "aggregate"} => applied = 0
    /\ phase \notin {"classify", "apply", "aggregate"} => \A t \in Tasks : decision[t] = "none"

RecoveryInv == TypeOK /\ PhaseInv /\ \A t \in Tasks : TaskInv(task[t], os[t])

-----------------------------------------------------------------------------
(* Attempts. *)

LEMMA AttemptReplaced ==
    ASSUME NEW s \in Seq(Attempts), NEW k \in DOMAIN s, NEW a \in Attempts
    PROVE  [s EXCEPT ![k] = a] \in Seq(Attempts) /\ Len([s EXCEPT ![k] = a]) = Len(s)
  OBVIOUS

LEMMA AttemptAdded ==
    ASSUME NEW s \in Seq(Attempts), NEW a \in Attempts
    PROVE  Append(s, a) \in Seq(Attempts) /\ Len(Append(s, a)) = Len(s) + 1
  OBVIOUS

LEMMA EmptySequence ==
    ASSUME NEW s \in Seq(Attempts)
    PROVE  Len(s) \in Nat /\ (s = <<>> <=> Len(s) = 0)
  OBVIOUS

\* A sequence is as long as it is, whatever its entries become.
LEMMA EntriesReplaced ==
    ASSUME NEW s \in Seq(Attempts), NEW r, DOMAIN r = DOMAIN s,
           r = [n \in DOMAIN s |-> r[n]], \A n \in DOMAIN s : r[n] \in Attempts
    PROVE  r \in Seq(Attempts) /\ Len(r) = Len(s)
  OBVIOUS

LEMMA TaskFields ==
    ASSUME NEW ts \in TaskState
    PROVE  /\ ts.attempts \in Seq(Attempts) /\ Len(ts.attempts) \in Nat
           /\ ts.attempts = <<>> <=> Len(ts.attempts) = 0
           /\ ts.active \in Nat /\ ts.process \in Processes
           /\ ts.status \in TaskStatuses /\ ts.worker \in Workers \cup {NoWorker}
           /\ ts.report \in [attempt : Nat, stale : BOOLEAN] /\ ts.final \in BOOLEAN
  <1>1. ts.attempts \in Seq(Attempts)
    BY DEF TaskState
  <1>2. QED
    BY <1>1, EmptySequence DEF TaskState

\* The four fields that TaskInv does not follow through the attempts.
SameFace(ts, f) ==
    f.status = ts.status /\ f.final = ts.final /\ f.process = ts.process
    /\ LastAttempt(f) = LastAttempt(ts)

LEMMA MigrateKeeps ==
    ASSUME NEW ts, Shape(ts)
    PROVE  Shape(migrateAttempts(ts)) /\ SameFace(ts, migrateAttempts(ts))
  <1> DEFINE m == migrateAttempts(ts)
  <1>0. ts \in TaskState
    BY DEF Shape
  <1>1. CASE ts.attempts # <<>> \/ ts.worker = NoWorker
    BY <1>1 DEF migrateAttempts, SameFace
  <1>2. CASE ts.attempts = <<>> /\ ts.worker # NoWorker
    <2>1. PICK out \in {"exited", "orphaned", "running"}, act \in 0 .. 1 :
             m = [ts EXCEPT !.attempts = << [mode |-> "fresh", outcome |-> out, worker |-> ts.worker] >>,
                            !.active = act]
      <3>1. ts.active = 0
        BY <1>0, <1>2, TaskFields DEF Shape
      <3> DEFINE o == CASE ts.process = "exited"   -> "exited"
                         [] ts.process = "orphaned" -> "orphaned"
                         [] OTHER                   -> "running"
                 n == IF o = "running" THEN 1 ELSE ts.active
      <3>2. o \in {"exited", "orphaned", "running"} /\ n \in 0 .. 1
        BY <3>1
      <3>3. m = [ts EXCEPT !.attempts = << [mode |-> "fresh", outcome |-> o, worker |-> ts.worker] >>,
                           !.active = n]
        BY <1>2 DEF migrateAttempts
      <3> HIDE DEF o, n, m
      <3>4. QED
        BY <3>2, <3>3
    <2> DEFINE a == [mode |-> "fresh", outcome |-> out, worker |-> ts.worker]
    <2>2. a \in Attempts
      BY <1>0, <1>2, TaskFields DEF Attempts, Outcomes
    <2>3. <<a>> \in Seq(Attempts) /\ Len(<<a>>) = 1 /\ <<a>> # <<>>
      <3> HIDE DEF a
      <3> QED BY <2>2
    <2>4. m = [ts EXCEPT !.attempts = <<a>>, !.active = act]
      BY <2>1
    <2> HIDE DEF a
    <2>5. /\ m \in TaskState /\ m.attempts = <<a>> /\ m.active = act /\ m.report = ts.report
          /\ m.status = ts.status /\ m.final = ts.final /\ m.process = ts.process
      <3>1. PICK s : s = <<a>>
        OBVIOUS
      <3>2. s \in Seq(Attempts) /\ m = [ts EXCEPT !.attempts = s, !.active = act] /\ act \in Nat
        BY <2>3, <2>4, <3>1
      <3> HIDE DEF m
      <3>3. /\ m \in TaskState /\ m.attempts = s /\ m.active = act /\ m.report = ts.report
            /\ m.status = ts.status /\ m.final = ts.final /\ m.process = ts.process
        BY <1>0, <3>2 DEF TaskState
      <3>4. QED
        BY <3>1, <3>3
    <2>6. ts.report.attempt = 0
      <3>1. ts.report.attempt \in Nat /\ Len(ts.attempts) = 0
        BY <1>0, <1>2, TaskFields
      <3>2. QED
        BY <3>1 DEF Shape
    <2> HIDE DEF m
    <2>7. Shape(m)
      BY <2>3, <2>5, <2>6, RecoveryAssumption DEF Shape
    <2>8. SameFace(ts, m)
      BY <1>2, <2>3, <2>5 DEF SameFace, LastAttempt
    <2>9. QED
      BY <2>7, <2>8 DEF m
  <1>3. QED
    BY <1>1, <1>2

LEMMA FinishKeeps ==
    ASSUME NEW ts, Shape(ts), NEW outcome \in Outcomes
    PROVE  /\ Shape(finishActiveAttempt(ts, outcome))
           /\ SameFace(ts, finishActiveAttempt(ts, outcome))
  <1>0. PICK m : m = migrateAttempts(ts)
    OBVIOUS
  <1>1. Shape(m) /\ SameFace(ts, m) /\ m \in TaskState
    BY <1>0, MigrateKeeps DEF Shape
  <1>2. CASE m.active = 0
    BY <1>0, <1>1, <1>2 DEF finishActiveAttempt
  <1>3. CASE m.active # 0
    <2> DEFINE k == m.active
               a == [m.attempts[k] EXCEPT !.outcome = outcome]
               w == m.attempts[k].worker
               s == [m.attempts EXCEPT ![k] = a]
               f == [m EXCEPT !.attempts = s, !.worker = w, !.active = 0]
    <2>1. /\ m.attempts \in Seq(Attempts) /\ k \in DOMAIN m.attempts
          /\ m.attempts[k] \in Attempts /\ m.attempts # <<>>
      <3>1. m.attempts \in Seq(Attempts) /\ k \in Nat /\ k <= Len(m.attempts)
            /\ (m.attempts = <<>> <=> Len(m.attempts) = 0) /\ Len(m.attempts) \in Nat
        BY <1>1, TaskFields DEF Shape
      <3>2. k \in 1 .. Len(m.attempts) /\ DOMAIN m.attempts = 1 .. Len(m.attempts)
        BY <1>3, <3>1
      <3>3. QED
        BY <3>1, <3>2
    <2>2. a \in Attempts /\ w \in Workers
      BY <2>1 DEF Attempts
    <2>3. s \in Seq(Attempts) /\ Len(s) = Len(m.attempts)
      <3> HIDE DEF a, k
      <3> QED BY <2>1, <2>2, AttemptReplaced
    <2>4. finishActiveAttempt(ts, outcome) = f
      BY <1>0, <1>3 DEF finishActiveAttempt
    <2> HIDE DEF k, a, w, s
    <2>5. /\ f \in TaskState /\ f.attempts = s /\ f.active = 0 /\ f.report = m.report
          /\ f.status = m.status /\ f.final = m.final /\ f.process = m.process
      BY <1>1, <2>2, <2>3 DEF TaskState
    <2> HIDE DEF f
    <2>6. Shape(f)
      <3>1. Len(s) \in Nat
        BY <1>1, <2>3, TaskFields
      <3>2. QED
        BY <1>1, <2>3, <2>5, <3>1 DEF Shape
    <2>7. s # <<>>
      BY <1>1, <2>1, <2>3, EmptySequence
    <2>8. SameFace(ts, f)
      BY <1>1, <2>1, <2>3, <2>5, <2>7 DEF SameFace, LastAttempt
    <2>9. QED
      BY <2>4, <2>6, <2>8
  <1>4. QED
    BY <1>2, <1>3

LEMMA BeginKeeps ==
    ASSUME NEW ts, Shape(ts), NEW mode \in {"fresh", "recovery_resume"},
           Len(ts.attempts) < MaxAttempts
    PROVE  LET b == Begin(ts, mode) IN
           /\ Shape(b) /\ b.status = ts.status /\ b.final = ts.final /\ b.process = "starting"
           /\ b.active = Len(b.attempts) /\ b.active # 0
  <1>0. ts \in TaskState
    BY DEF Shape
  <1>1. PICK w \in Workers : w = IF mode = "recovery_resume" THEN {"id", "native"} ELSE {"id"}
    <2>1. {"id"} \cup {"native"} \in Workers /\ {"id"} \cup {} \in Workers
      BY DEF Workers
    <2>2. {"id"} \cup {"native"} = {"id", "native"} /\ {"id"} \cup {} = {"id"}
      OBVIOUS
    <2>3. QED
      BY <2>1, <2>2
  <1> DEFINE a == [mode |-> mode, outcome |-> "running", worker |-> w]
             s == Append(ts.attempts, a)
             r == [ts.report EXCEPT !.stale = ts.report.attempt # 0]
             b == [ts EXCEPT !.attempts = s, !.active = Len(ts.attempts) + 1, !.worker = w,
                             !.process = "starting", !.report = r]
  <1>2. Begin(ts, mode) = b
    BY <1>1 DEF Begin
  <1>3. a \in Attempts
    BY DEF Attempts, Outcomes
  <1>4. s \in Seq(Attempts) /\ Len(s) = Len(ts.attempts) + 1 /\ Len(ts.attempts) \in Nat
    <2> HIDE DEF a
    <2> QED BY <1>0, <1>3, AttemptAdded, TaskFields
  <1>5. /\ r \in [attempt : Nat, stale : BOOLEAN] /\ r.attempt = ts.report.attempt
        /\ r.attempt \in Nat /\ (r.attempt = 0 \/ r.stale = TRUE)
    <2>1. ts.report \in [attempt : Nat, stale : BOOLEAN]
      BY <1>0, TaskFields
    <2>2. QED
      BY <2>1
  <1> HIDE DEF a, s, r
  <1>6. /\ b \in TaskState /\ b.attempts = s /\ b.active = Len(ts.attempts) + 1 /\ b.report = r
        /\ b.status = ts.status /\ b.final = ts.final /\ b.process = "starting"
    <2>1. "starting" \in Processes /\ Len(ts.attempts) + 1 \in Nat
      BY <1>4 DEF Processes
    <2>2. QED
      BY <1>0, <1>1, <1>4, <1>5, <2>1 DEF TaskState
  <1> HIDE DEF b
  <1>7. Shape(b)
    <2>1. b.active <= Len(b.attempts) /\ Len(b.attempts) <= MaxAttempts
      BY <1>4, <1>6, RecoveryAssumption
    <2>2. b.report.attempt <= Len(b.attempts)
      BY <1>4, <1>5, <1>6 DEF Shape
    <2>3. ~(b.report.attempt # 0 /\ b.report.stale = FALSE)
      BY <1>5, <1>6
    <2>4. QED
      BY <1>6, <2>1, <2>2, <2>3 DEF Shape
  <1>8. QED
    BY <1>2, <1>4, <1>6, <1>7

LEMMA WorkerKeeps ==
    ASSUME NEW ts, Shape(ts), NEW w \in Workers
    PROVE  LET u == updateWorker(ts, w) IN
           /\ Shape(u) /\ SameFace(ts, u) /\ u.active = ts.active
           /\ Len(u.attempts) = Len(ts.attempts)
  <1>0. ts \in TaskState
    BY DEF Shape
  <1> DEFINE q == ts.attempts
             s == [n \in DOMAIN q |-> IF n = ts.active THEN [q[n] EXCEPT !.worker = w] ELSE q[n]]
             u == [ts EXCEPT !.worker = w, !.attempts = s]
  <1>1. updateWorker(ts, w) = u
    BY DEF updateWorker
  <1>2. q \in Seq(Attempts) /\ Len(q) \in Nat /\ (q = <<>> <=> Len(q) = 0)
    BY <1>0, TaskFields
  <1>3. s \in Seq(Attempts) /\ Len(s) = Len(q)
    <2>1. \A n \in DOMAIN q : q[n] \in Attempts
      BY <1>2
    <2>2. \A n \in DOMAIN q : s[n] \in Attempts
      BY <2>1 DEF Attempts
    <2>3. DOMAIN s = DOMAIN q /\ s = [n \in DOMAIN q |-> s[n]]
      OBVIOUS
    <2> HIDE DEF s, q
    <2>4. QED
      BY <1>2, <2>2, <2>3, EntriesReplaced
  <1> HIDE DEF s
  <1>4. /\ u \in TaskState /\ u.attempts = s /\ u.active = ts.active /\ u.report = ts.report
        /\ u.status = ts.status /\ u.final = ts.final /\ u.process = ts.process
    BY <1>0, <1>3 DEF TaskState
  <1>5. s = <<>> <=> Len(s) = 0
    BY <1>3, EmptySequence
  <1> HIDE DEF u
  <1>6. Shape(u)
    BY <1>3, <1>4 DEF Shape
  <1>7. SameFace(ts, u)
    BY <1>2, <1>3, <1>4, <1>5 DEF SameFace, LastAttempt
  <1>8. QED
    BY <1>1, <1>3, <1>4, <1>6, <1>7

LEMMA StatusKeeps ==
    ASSUME NEW ts, Shape(ts), NEW s \in TaskStatuses
    PROVE  LET u == [ts EXCEPT !.status = s] IN
           /\ Shape(u) /\ u.status = s /\ u.process = ts.process /\ u.final = ts.final
           /\ u.attempts = ts.attempts /\ u.active = ts.active
  <1> DEFINE u == [ts EXCEPT !.status = s]
  <1>1. ts \in TaskState
    BY DEF Shape
  <1>2. /\ u \in TaskState /\ u.status = s /\ u.process = ts.process /\ u.final = ts.final
        /\ u.attempts = ts.attempts /\ u.active = ts.active /\ u.report = ts.report
    BY <1>1 DEF TaskState
  <1> HIDE DEF u
  <1>3. Shape(u)
    BY <1>2 DEF Shape
  <1>4. QED
    BY <1>2, <1>3 DEF u

LEMMA FinalKeeps ==
    ASSUME NEW ts, Shape(ts), NEW s \in TaskStatuses
    PROVE  LET u == [ts EXCEPT !.status = s, !.final = (s = "blocked")] IN
           /\ Shape(u) /\ u.status = s /\ u.process = ts.process
           /\ u.attempts = ts.attempts /\ u.active = ts.active
  <1> DEFINE u == [ts EXCEPT !.status = s, !.final = (s = "blocked")]
  <1>1. ts \in TaskState
    BY DEF Shape
  <1>2. /\ u \in TaskState /\ u.status = s /\ u.process = ts.process
        /\ u.attempts = ts.attempts /\ u.active = ts.active /\ u.report = ts.report
    BY <1>1 DEF TaskState
  <1> HIDE DEF u
  <1>3. Shape(u)
    BY <1>2 DEF Shape
  <1>4. QED
    BY <1>2, <1>3 DEF u

LEMMA ProcessKeeps ==
    ASSUME NEW ts, Shape(ts), NEW p \in Processes
    PROVE  LET u == [ts EXCEPT !.process = p] IN
           /\ Shape(u) /\ u.status = ts.status /\ u.process = p /\ u.final = ts.final
           /\ u.attempts = ts.attempts /\ u.active = ts.active
  <1> DEFINE u == [ts EXCEPT !.process = p]
  <1>1. ts \in TaskState
    BY DEF Shape
  <1>2. /\ u \in TaskState /\ u.status = ts.status /\ u.process = p /\ u.final = ts.final
        /\ u.attempts = ts.attempts /\ u.active = ts.active /\ u.report = ts.report
    BY <1>1 DEF TaskState
  <1> HIDE DEF u
  <1>3. Shape(u)
    BY <1>2 DEF Shape
  <1>4. QED
    BY <1>2, <1>3 DEF u

LEMMA ReportKeeps ==
    ASSUME NEW ts, Shape(ts)
    PROVE  LET u == [ts EXCEPT !.report = [attempt |-> Len(ts.attempts), stale |-> FALSE]] IN
           /\ Shape(u) /\ SameFace(ts, u)
           /\ u.attempts = ts.attempts /\ u.active = ts.active
  <1> DEFINE r == [attempt |-> Len(ts.attempts), stale |-> FALSE]
             u == [ts EXCEPT !.report = r]
  <1>1. ts \in TaskState /\ Len(ts.attempts) \in Nat
    BY TaskFields DEF Shape
  <1>2. r \in [attempt : Nat, stale : BOOLEAN] /\ r.attempt = Len(ts.attempts)
    BY <1>1
  <1> HIDE DEF r
  <1>3. /\ u \in TaskState /\ u.status = ts.status /\ u.process = ts.process /\ u.final = ts.final
        /\ u.attempts = ts.attempts /\ u.active = ts.active /\ u.report = r
    BY <1>1, <1>2 DEF TaskState
  <1> HIDE DEF u
  <1>4. Shape(u)
    BY <1>1, <1>2, <1>3 DEF Shape
  <1>5. SameFace(ts, u)
    BY <1>3 DEF SameFace, LastAttempt
  <1>6. QED
    BY <1>3, <1>4, <1>5 DEF u, r

LEMMA FailKeeps ==
    ASSUME NEW ts, Shape(ts)
    PROVE  LET u == failIfLegal(ts) IN
           /\ Shape(u) /\ u.status \in {ts.status, "failed"} /\ u.process = ts.process
           /\ u.final = ts.final /\ u.attempts = ts.attempts /\ u.active = ts.active
  <1>1. "failed" \in TaskStatuses
    BY DEF TaskStatuses
  <1>2. CASE ValidateTaskTransition(ts.status, "failed")
    BY <1>1, <1>2, StatusKeeps DEF failIfLegal
  <1>3. CASE ~ValidateTaskTransition(ts.status, "failed")
    BY <1>3 DEF failIfLegal
  <1>4. QED
    BY <1>2, <1>3

\* Attempts may be rewritten: the task is as well off as before.
LEMMA FaceKeeps ==
    ASSUME NEW ts, NEW f, NEW o, TaskInv(ts, o), Shape(f), SameFace(ts, f)
    PROVE  TaskInv(f, o) /\ (Accounted(ts, o) => Accounted(f, o))
  BY DEF TaskInv, SameFace, Accounted, recoveryTaskTerminal

-----------------------------------------------------------------------------
(* Recovery: what a decision makes of a task. *)

\* A process state that owns up to whatever lives, or an exit where nothing does.
LEMMA ProcessRecorded ==
    ASSUME NEW ts, NEW o, TaskInv(ts, o), NEW f, Shape(f), LastAttempt(f) = LastAttempt(ts),
           f.status \in {ts.status, "failed"}, f.process \in {"orphaned", "unknown"} \/ ~Live(o)
    PROVE  TaskInv(f, o) /\ Accounted(f, o)
  <1>1. Accounted(f, o)
    BY DEF Accounted
  <1>2. Live(o) => f.process # "exited" /\ f.status # "planned"
    BY DEF TaskInv
  <1>3. QED
    BY <1>1, <1>2 DEF TaskInv

LEMMA DecisionApplied ==
    ASSUME NEW ts, NEW o, NEW class \in Classes, TaskInv(ts, o), DecisionInv(ts, o, class)
    PROVE  /\ TaskInv(applyRecoveryDecision(ts, class), o)
           /\ Accounted(applyRecoveryDecision(ts, class), o)
  <1>0. Shape(ts)
    BY DEF TaskInv
  <1>1. ASSUME NEW p \in {"orphaned", "unknown", "exited"}, NEW out \in Outcomes,
               p = "exited" => ~Live(o)
        PROVE  LET u == [ts EXCEPT !.process = p]
                   f == finishActiveAttempt(u, out)
                   g == failIfLegal(f)
               IN  /\ TaskInv(u, o) /\ Accounted(u, o)
                   /\ TaskInv(f, o) /\ Accounted(f, o)
                   /\ TaskInv(g, o) /\ Accounted(g, o)
    <2> DEFINE u == [ts EXCEPT !.process = p]
               f == finishActiveAttempt(u, out)
               g == failIfLegal(f)
    <2>0. p \in Processes
      BY DEF Processes
    <2>1. /\ Shape(u) /\ u.status = ts.status /\ u.process = p /\ u.final = ts.final
          /\ u.attempts = ts.attempts
      BY <1>0, <2>0, ProcessKeeps
    <2> HIDE DEF u
    <2>2. Shape(f) /\ SameFace(u, f)
      BY <2>1, FinishKeeps
    <2> HIDE DEF f
    <2>3. /\ Shape(g) /\ g.status \in {f.status, "failed"} /\ g.process = f.process
          /\ g.attempts = f.attempts
      BY <2>2, FailKeeps
    <2> HIDE DEF g
    <2>4. /\ LastAttempt(u) = LastAttempt(ts) /\ LastAttempt(f) = LastAttempt(ts)
          /\ LastAttempt(g) = LastAttempt(ts)
      BY <2>1, <2>2, <2>3 DEF LastAttempt, SameFace
    <2>5. p \in {"orphaned", "unknown"} \/ ~Live(o)
      BY <1>1
    <2>6. f.status = ts.status /\ f.process = p /\ g.status \in {ts.status, "failed"} /\ g.process = p
      BY <2>1, <2>2, <2>3 DEF SameFace
    <2>7. TaskInv(u, o) /\ Accounted(u, o)
      BY <2>1, <2>4, <2>5, ProcessRecorded
    <2>8. TaskInv(f, o) /\ Accounted(f, o)
      BY <2>2, <2>4, <2>5, <2>6, ProcessRecorded
    <2>9. TaskInv(g, o) /\ Accounted(g, o)
      BY <2>3, <2>4, <2>5, <2>6, ProcessRecorded
    <2>10. QED
      BY <2>7, <2>8, <2>9 DEF u, f, g
  <1>2. {"orphaned", "exited", "pid_reused"} \subseteq Outcomes
    BY DEF Outcomes
  <1>3. CASE class \in {"already_terminal", "never_started"}
    <2>1. applyRecoveryDecision(ts, class) = ts
      BY <1>3 DEF applyRecoveryDecision
    <2>2. Accounted(ts, o)
      BY <1>3 DEF DecisionInv, TaskInv, Accounted
    <2>3. QED
      BY <2>1, <2>2
  <1>4. CASE class = "alive_orphaned"
    <2>1. applyRecoveryDecision(ts, class) =
             finishActiveAttempt([ts EXCEPT !.process = "orphaned"], "orphaned")
      BY <1>4 DEF applyRecoveryDecision
    <2>2. QED
      BY <1>1, <1>2, <2>1
  <1>5. CASE class = "pid_reused"
    <2>1. applyRecoveryDecision(ts, class) =
             failIfLegal(finishActiveAttempt([ts EXCEPT !.process = "unknown"], "pid_reused"))
      BY <1>5 DEF applyRecoveryDecision
    <2>2. QED
      BY <1>1, <1>2, <2>1
  <1>6. CASE class \in {"inspect_unknown", "identity_incomplete"}
    <2>1. applyRecoveryDecision(ts, class) \in
             {finishActiveAttempt([ts EXCEPT !.process = "unknown"], "orphaned"),
              [ts EXCEPT !.process = "unknown"]}
      BY <1>6 DEF applyRecoveryDecision
    <2>2. QED
      BY <1>1, <1>2, <2>1
  <1>7. CASE class = "exited_unresumable"
    <2>1. applyRecoveryDecision(ts, class) =
             failIfLegal(finishActiveAttempt([ts EXCEPT !.process = "exited"], "exited"))
      BY <1>7 DEF applyRecoveryDecision
    <2>2. ~Live(o)
      BY <1>7 DEF DecisionInv
    <2>3. QED
      BY <1>1, <1>2, <2>1, <2>2
  <1>8. CASE class = "missing_identity"
    <2>1. applyRecoveryDecision(ts, class) =
             failIfLegal(finishActiveAttempt([ts EXCEPT !.process = "unknown"], "orphaned"))
      BY <1>8 DEF applyRecoveryDecision
    <2>2. QED
      BY <1>1, <1>2, <2>1
  <1>9. CASE class = "exited_resumable"
    <2>1. applyRecoveryDecision(ts, class) =
             finishActiveAttempt([ts EXCEPT !.process = "exited"], "exited")
      BY <1>9 DEF applyRecoveryDecision
    <2>2. ~Live(o)
      BY <1>9 DEF DecisionInv
    <2>3. QED
      BY <1>1, <1>2, <2>1, <2>2
  <1>10. QED
    BY <1>3, <1>4, <1>5, <1>6, <1>7, <1>8, <1>9 DEF Classes

\* A class fits the task it was made of: only an inspection that found no process says exited.
LEMMA DecisionMade ==
    ASSUME TypeOK, NEW t \in Tasks, TaskInv(task[t], os[t]), NEW i \in Inspect(t)
    PROVE  /\ ClassifyRecovery(task[t], i, t \in Resumes) \in Classes
           /\ DecisionInv(task[t], os[t], ClassifyRecovery(task[t], i, t \in Resumes))
  <1> DEFINE ts == task[t]
             class == ClassifyRecovery(ts, i, t \in Resumes)
  <1>1. i \in {"error", "same", "other", "not_found"}
    BY DEF Inspect
  <1>2. class \in Classes
    BY <1>1 DEF ClassifyRecovery, classifyInspected, Classes
  <1>3. class = "already_terminal" => recoveryTaskTerminal(ts)
    BY <1>1 DEF ClassifyRecovery, classifyInspected
  <1>4. class = "never_started" => ts.status = "planned"
    BY <1>1 DEF ClassifyRecovery, classifyInspected, recoveryTaskNeverStarted
  <1>5. class \in {"exited_resumable", "exited_unresumable"} => i = "not_found"
    BY <1>1 DEF ClassifyRecovery, classifyInspected
  <1>6. i = "not_found" => os[t][LastAttempt(ts)] # "alive"
    BY DEF Inspect, LastAttempt
  <1>7. i = "not_found" => ~Live(os[t])
    BY <1>6 DEF TaskInv, Live
  <1>8. QED
    BY <1>2, <1>3, <1>4, <1>5, <1>7 DEF DecisionInv

-----------------------------------------------------------------------------
(* Steps. *)

LEMMA InitRecovery == Init => RecoveryInv
  <1> SUFFICES ASSUME Init PROVE RecoveryInv
    OBVIOUS
  <1>1. 1 \in 1 .. MaxAttempts /\ 0 \in 0 .. NTasks /\ 0 \in 0 .. MaxCrashes
    BY RecoveryAssumption
  <1>2. \A w \in {NoWorker, {"id", "pid", "native"}} : w \in Workers \cup {NoWorker}
    <2>1. {"id"} \cup {"pid", "native"} \in Workers
      BY DEF Workers
    <2>2. {"id"} \cup {"pid", "native"} = {"id", "pid", "native"}
      OBVIOUS
    <2>3. QED
      BY <2>1, <2>2
  <1>3. ASSUME NEW ts, \/ ts = Planned
                       \/ \E w \in {NoWorker, {"id", "pid", "native"}} : ts = Legacy(w)
        PROVE  /\ ts \in TaskState /\ ts.attempts = <<>> /\ ts.active = 0 /\ ts.report.attempt = 0
               /\ ts.status \in {"planned", "running"} /\ ts.process \in {"queued", "alive"}
               /\ ts = Planned => ts.status = "planned"
    <2>0. <<>> \in Seq(Attempts)
      OBVIOUS
    <2>1. Planned \in TaskState
      BY <2>0 DEF Planned, TaskState, TaskStatuses, Processes, NoReport
    <2>2. \A w \in Workers \cup {NoWorker} : Legacy(w) \in TaskState
      BY <2>1 DEF Legacy, TaskState, TaskStatuses, Processes
    <2>3. /\ Planned.attempts = <<>> /\ Planned.active = 0 /\ Planned.report.attempt = 0
          /\ Planned.status = "planned" /\ Planned.process = "queued"
      BY DEF Planned, NoReport
    <2>4. ASSUME NEW w \in Workers \cup {NoWorker}
          PROVE  /\ Legacy(w).attempts = <<>> /\ Legacy(w).active = 0
                 /\ Legacy(w).report.attempt = 0
                 /\ Legacy(w).status = "running" /\ Legacy(w).process = "alive"
      BY DEF Legacy, Planned, NoReport
    <2>5. CASE ts = Planned
      BY <2>1, <2>3, <2>5
    <2>6. ASSUME NEW w \in {NoWorker, {"id", "pid", "native"}}, ts = Legacy(w)
          PROVE  /\ ts \in TaskState /\ ts.attempts = <<>> /\ ts.active = 0
                 /\ ts.report.attempt = 0 /\ ts.status = "running" /\ ts.process = "alive"
      BY <1>2, <2>2, <2>4, <2>6
    <2>7. QED
      BY <1>3, <2>3, <2>5, <2>6
  <1>4. ASSUME NEW ts, ts \in TaskState, ts.attempts = <<>>, ts.active = 0,
               ts.report.attempt = 0
        PROVE  Shape(ts)
    <2>1. Len(ts.attempts) = 0
      BY <1>4
    <2>2. QED
      BY <1>4, <2>1, RecoveryAssumption DEF Shape
  <1>5. \A t \in Tasks : \/ task[t] = Planned
                         \/ \E w \in {NoWorker, {"id", "pid", "native"}} : task[t] = Legacy(w)
    BY DEF Init
  <1>6. \A t \in Tasks : /\ task[t] \in TaskState /\ task[t].attempts = <<>>
                         /\ task[t].status \in {"planned", "running"}
                         /\ task[t].process \in {"queued", "alive"} /\ Shape(task[t])
                         /\ task[t] = Planned => task[t].status = "planned"
    <2>1. TAKE t \in Tasks
    <2>2. PICK ts : ts = task[t]
      OBVIOUS
    <2>3. /\ ts \in TaskState /\ ts.attempts = <<>> /\ ts.active = 0 /\ ts.report.attempt = 0
          /\ ts.status \in {"planned", "running"} /\ ts.process \in {"queued", "alive"}
          /\ ts = Planned => ts.status = "planned"
      BY <1>3, <1>5, <2>2
    <2>4. Shape(ts)
      BY <1>4, <2>3
    <2>5. QED
      BY <2>2, <2>3, <2>4
  <1>7. \A t \in Tasks : /\ os[t] \in Roots
                         /\ \A n \in 1 .. MaxAttempts :
                               os[t][n] = "alive" => n = 1 /\ task[t].status = "running"
    BY DEF Init, Roots, Fates
  <1>8. \A t \in Tasks : TaskInv(task[t], os[t])
    BY <1>6, <1>7 DEF TaskInv, Live, LastAttempt, recoveryTaskTerminal
  <1>9. TypeOK
    <2>1. task \in [Tasks -> TaskState]
      <3>1. task = [t \in Tasks |-> task[t]]
        BY DEF Init
      <3>2. QED
        BY <1>6, <3>1
    <2>2. os \in [Tasks -> [1 .. MaxAttempts -> Fates]]
      BY DEF Init, Fates
    <2>3. QED
      BY <1>1, <2>1, <2>2 DEF Init, TypeOK, RunStatuses
  <1>10. PhaseInv
    <2>1. CASE phase = "execute"
      <3>1. \A t \in Tasks : task[t].status = "planned" /\ drv[t] = "idle"
        BY <1>6, <2>1 DEF Init
      <3>2. \A t \in Tasks : ~Live(os[t])
        BY <1>7, <3>1 DEF Live
      <3>3. \A t \in Tasks : DriverInv(task[t], os[t], drv[t])
        BY <3>1, <3>2 DEF DriverInv, Accounted
      <3>4. QED
        BY <2>1, <3>3 DEF PhaseInv, Init
    <2>2. CASE phase = "down"
      BY <2>2 DEF PhaseInv, Init
    <2>3. QED
      BY <2>1, <2>2 DEF Init
  <1>11. QED
    BY <1>8, <1>9, <1>10 DEF RecoveryInv

\* A step of one driver, by what it does to its task and its process.
LEMMA DriverMove ==
    ASSUME RecoveryInv, phase = "execute", NEW t \in Tasks, NEW label \in Running \cup Returned,
           drv' = [drv EXCEPT ![t] = label], UNCHANGED supervisorVars,
           run' \in RunStatuses, NEW new, NEW o \in Roots,
           task' = [task EXCEPT ![t] = new], os' = [os EXCEPT ![t] = o],
           TaskInv(new, o), DriverInv(new, o, label)
    PROVE  RecoveryInv'
  <1>1. new \in TaskState
    BY DEF TaskInv, Shape
  <1>2. TypeOK'
    BY <1>1 DEF RecoveryInv, TypeOK, supervisorVars, Roots
  <1>3. /\ task'[t] = new /\ os'[t] = o /\ drv'[t] = label
        /\ \A u \in Tasks : u # t => task'[u] = task[u] /\ os'[u] = os[u] /\ drv'[u] = drv[u]
    BY DEF RecoveryInv, TypeOK
  <1>4. \A u \in Tasks : TaskInv(task'[u], os'[u]) /\ DriverInv(task'[u], os'[u], drv'[u])
    BY <1>3 DEF RecoveryInv, PhaseInv
  <1>5. PhaseInv'
    BY <1>4 DEF RecoveryInv, PhaseInv, supervisorVars
  <1>6. QED
    BY <1>2, <1>4, <1>5 DEF RecoveryInv

\* A step of one driver that leaves its process alone.
LEMMA TaskMove ==
    ASSUME RecoveryInv, phase = "execute", NEW t \in Tasks, NEW label \in Running \cup Returned,
           drv' = [drv EXCEPT ![t] = label], UNCHANGED supervisorVars,
           run' \in RunStatuses, NEW new, task' = [task EXCEPT ![t] = new], os' = os,
           TaskInv(new, os[t]), DriverInv(new, os[t], label)
    PROVE  RecoveryInv'
  <1>1. os[t] \in Roots /\ os' = [os EXCEPT ![t] = os[t]]
    BY DEF RecoveryInv, TypeOK, Roots
  <1>2. QED
    BY <1>1, DriverMove

\* A step of one driver that leaves its task alone, too.
LEMMA LabelMove ==
    ASSUME RecoveryInv, phase = "execute", NEW t \in Tasks, NEW label \in Running \cup Returned,
           drv' = [drv EXCEPT ![t] = label], UNCHANGED supervisorVars,
           run' \in RunStatuses, task' = task, os' = os,
           DriverInv(task[t], os[t], label)
    PROVE  RecoveryInv'
  <1>1. task' = [task EXCEPT ![t] = task[t]] /\ TaskInv(task[t], os[t])
    BY DEF RecoveryInv, TypeOK
  <1>2. QED
    BY <1>1, TaskMove

\* The first half of executeTask, up to the worker's process.
LEMMA BeginStep ==
    ASSUME RecoveryInv, NEW t \in Tasks,
           StartAttempt(t) \/ CountRunning(t) \/ EnterRunning(t) \/ Spawn(t) \/ SpawnFails(t)
    PROVE  RecoveryInv'
  <1>1. /\ phase = "execute" /\ UNCHANGED supervisorVars
        /\ TaskInv(task[t], os[t]) /\ DriverInv(task[t], os[t], drv[t]) /\ run \in RunStatuses
        /\ task[t] \in TaskState /\ os[t] \in Roots
    BY DEF StartAttempt, CountRunning, EnterRunning, Spawn, SpawnFails, At, Goto, RecoveryInv,
       PhaseInv, TypeOK, Roots
  <1>2. PICK ts, o : ts = task[t] /\ o = os[t]
    OBVIOUS
  <1>3. TaskInv(ts, o) /\ DriverInv(ts, o, drv[t]) /\ Shape(ts)
    BY <1>1, <1>2 DEF TaskInv
  <1>4. {"begun", "counted", "starting", "spawned", "unstarted", "ok", "fatal"}
           \subseteq Running \cup Returned
    BY DEF Running, Returned
  <1>5. CASE StartAttempt(t)
    <2>1. drv[t] = "idle" /\ run' = run /\ os' = os
      BY <1>5 DEF StartAttempt, At
    <2>2. Accounted(ts, o)
      BY <1>3, <2>1 DEF DriverInv, Running
    <2>3. \A label \in {"ok", "fatal"} : DriverInv(ts, o, label)
      BY <2>2 DEF DriverInv
    <2>4. ASSUME NEW label \in {"ok", "fatal"}, drv' = [drv EXCEPT ![t] = label], task' = task
          PROVE  RecoveryInv'
      BY <1>1, <1>2, <1>4, <2>1, <2>3, <2>4, LabelMove
    <2>5. PICK m : m = migrateAttempts(ts)
      OBVIOUS
    <2>6. Shape(m) /\ SameFace(ts, m)
      BY <1>3, <2>5, MigrateKeeps
    <2>7. PICK mode : mode = chooseMode(m)
      OBVIOUS
    <2>8. CASE /\ ~recoveryTaskTerminal(ts) /\ ts.process \notin {"orphaned", "unknown"}
               /\ mode # "refused" /\ Len(m.attempts) < MaxAttempts
               /\ task' = [task EXCEPT ![t] = Begin(m, mode)]
               /\ drv' = [drv EXCEPT ![t] = "begun"]
      <3>1. ts.status # "failed" /\ ~Live(o)
        BY <2>2, <2>8 DEF recoveryTaskTerminal, Accounted
      <3>2. mode \in {"fresh", "recovery_resume"}
        BY <2>7, <2>8 DEF chooseMode
      <3>3. PICK b : b = Begin(m, mode)
        OBVIOUS
      <3>4. /\ Shape(b) /\ b.process = "starting" /\ b.active = Len(b.attempts) /\ b.active # 0
        BY <2>6, <2>8, <3>2, <3>3, BeginKeeps
      <3>5. TaskInv(b, o)
        BY <3>1, <3>4 DEF TaskInv, Live, Accounted
      <3>6. DriverInv(b, o, "begun")
        BY <3>1, <3>4 DEF DriverInv, Accounted
      <3>7. QED
        BY <1>1, <1>2, <1>4, <2>1, <2>8, <3>3, <3>5, <3>6, TaskMove
    <2>9. QED
      BY <1>2, <1>5, <2>4, <2>5, <2>7, <2>8 DEF StartAttempt, Goto, CanBegin
  <1>6. CASE CountRunning(t)
    <2>1. /\ drv[t] = "begun" /\ run' = "running" /\ drv' = [drv EXCEPT ![t] = "counted"]
          /\ task' = task /\ os' = os
      BY <1>6 DEF CountRunning, At, Goto
    <2>2. run' \in RunStatuses /\ DriverInv(ts, o, "counted")
      BY <1>3, <2>1 DEF DriverInv, RunStatuses, Running
    <2>3. QED
      BY <1>1, <1>2, <1>4, <2>1, <2>2, LabelMove
  <1>7. CASE EnterRunning(t)
    <2>1. drv[t] = "counted" /\ run' = run /\ os' = os
      BY <1>7 DEF EnterRunning, At
    <2>2. ~Live(o) /\ ts.process = "starting" /\ ts.active = Len(ts.attempts) /\ ts.active # 0
      BY <1>3, <2>1 DEF DriverInv
    <2>3. CASE task' = task /\ drv' = [drv EXCEPT ![t] = "fatal"]
      <3>1. DriverInv(ts, o, "fatal")
        BY <2>2 DEF DriverInv, Accounted
      <3>2. QED
        BY <1>1, <1>2, <1>4, <2>1, <2>3, <3>1, LabelMove
    <2>4. CASE task' = [task EXCEPT ![t].status = "running"] /\ drv' = [drv EXCEPT ![t] = "starting"]
      <3>1. PICK u : u = [ts EXCEPT !.status = "running"]
        OBVIOUS
      <3>2. "running" \in TaskStatuses
        BY DEF TaskStatuses
      <3>3. /\ Shape(u) /\ u.status = "running" /\ u.process = ts.process
            /\ u.attempts = ts.attempts /\ u.active = ts.active
        BY <1>3, <3>1, <3>2, StatusKeeps
      <3>4. TaskInv(u, o) /\ DriverInv(u, o, "starting")
        BY <2>2, <3>3 DEF TaskInv, Live, DriverInv, Accounted, Running
      <3>5. task' = [task EXCEPT ![t] = u]
        BY <1>2, <2>4, <3>1
      <3>6. QED
        BY <1>1, <1>2, <1>4, <2>1, <2>4, <3>4, <3>5, TaskMove
    <2>5. QED
      BY <1>7, <2>3, <2>4 DEF EnterRunning, Goto
  <1>8. CASE Spawn(t)
    <2>1. /\ drv[t] = "starting" /\ run' = run /\ task' = task
          /\ os' = [os EXCEPT ![t][task[t].active] = "alive"]
          /\ drv' = [drv EXCEPT ![t] = "spawned"]
      BY <1>8 DEF Spawn, At, Goto
    <2>2. /\ ~Live(o) /\ ts.process = "starting" /\ ts.active = Len(ts.attempts)
          /\ ts.active # 0 /\ ts.status = "running"
      BY <1>3, <2>1 DEF DriverInv
    <2>3. ts.active \in 1 .. MaxAttempts /\ ts.attempts # <<>>
      <3>1. /\ Len(ts.attempts) \in Nat /\ Len(ts.attempts) <= MaxAttempts
            /\ ts.attempts = <<>> <=> Len(ts.attempts) = 0
        BY <1>1, <1>2, <1>3, TaskFields DEF Shape
      <3>2. QED
        BY <2>2, <3>1, RecoveryAssumption
    <2>4. PICK p : p = [o EXCEPT ![ts.active] = "alive"]
      OBVIOUS
    <2>5. p \in Roots /\ \A n \in 1 .. MaxAttempts : p[n] = "alive" => n = ts.active
      BY <1>1, <1>2, <2>2, <2>3, <2>4 DEF Roots, Live, Fates
    <2>6. TaskInv(ts, p)
      BY <1>3, <2>2, <2>3, <2>5 DEF TaskInv, LastAttempt, recoveryTaskTerminal
    <2>7. DriverInv(ts, p, "spawned")
      BY <2>2 DEF DriverInv, Running
    <2>8. os' = [os EXCEPT ![t] = p] /\ task' = [task EXCEPT ![t] = ts]
      BY <1>2, <2>1, <2>4 DEF RecoveryInv, TypeOK
    <2>9. QED
      BY <1>1, <1>2, <1>4, <2>1, <2>5, <2>6, <2>7, <2>8, DriverMove
  <1>9. CASE SpawnFails(t)
    <2>1. /\ drv[t] = "starting" /\ run' = run /\ os' = os
          /\ task' = [task EXCEPT ![t] = finishActiveAttempt(@, "failed_start")]
          /\ drv' = [drv EXCEPT ![t] = "unstarted"]
      BY <1>9 DEF SpawnFails, At, Goto
    <2>2. ~Live(o)
      BY <1>3, <2>1 DEF DriverInv
    <2>3. PICK f : f = finishActiveAttempt(ts, "failed_start")
      OBVIOUS
    <2>4. Shape(f) /\ SameFace(ts, f)
      BY <1>3, <2>3, FinishKeeps DEF Outcomes
    <2>5. TaskInv(f, o) /\ DriverInv(f, o, "unstarted")
      BY <1>3, <2>2, <2>4, FaceKeeps DEF DriverInv, Running, Accounted
    <2>6. task' = [task EXCEPT ![t] = f]
      BY <1>2, <2>1, <2>3
    <2>7. QED
      BY <1>1, <1>2, <1>4, <2>1, <2>5, <2>6, TaskMove
  <1>10. QED
    BY <1>5, <1>6, <1>7, <1>8, <1>9

\* The second half: the session, its end and what becomes of its report.
LEMMA EndStep ==
    ASSUME RecoveryInv, NEW t \in Tasks,
           \/ RecordSpawn(t) \/ StartFailed(t) \/ ResolveExit(t) \/ Degrade(t) \/ SessionFails(t)
           \/ FinishAttempt(t) \/ FreezeReport(t) \/ ApplyEnvelope(t) \/ EnterVerifying(t)
           \/ Verify(t)
    PROVE  RecoveryInv'
  <1>1. /\ phase = "execute" /\ UNCHANGED supervisorVars /\ os' = os
        /\ TaskInv(task[t], os[t]) /\ DriverInv(task[t], os[t], drv[t]) /\ run \in RunStatuses
        /\ task[t] \in TaskState /\ os[t] \in Roots
    BY DEF RecordSpawn, StartFailed, failTask, ResolveExit, Degrade, SessionFails, FinishAttempt,
       FreezeReport, ApplyEnvelope, EnterVerifying, Verify, At, Goto, RecoveryInv, PhaseInv,
       TypeOK, Roots
  <1>2. PICK ts, o : ts = task[t] /\ o = os[t]
    OBVIOUS
  <1>3. TaskInv(ts, o) /\ DriverInv(ts, o, drv[t]) /\ Shape(ts)
    BY <1>1, <1>2 DEF TaskInv
  <1>4. {"session", "unconfirmed", "ended", "finished", "reported", "complete", "verifying",
         "ok", "failed"} \subseteq Running \cup Returned
    BY DEF Running, Returned
  \* A session that is over, and a status or a report for its task.
  <1>5. ASSUME NEW s \in TaskStatuses \ {"planned"}, NEW label \in Running \cup Returned,
               NEW new, Shape(new), new.status = s, new.process = ts.process,
               LastAttempt(new) = LastAttempt(ts),
               task' = [task EXCEPT ![t] = new], drv' = [drv EXCEPT ![t] = label], run' = run,
               label \in {"finished", "reported", "complete", "verifying"} \cup Returned,
               \/ s = "failed" /\ label = "failed"
               \/ drv[t] \in {"ended", "finished", "reported", "complete", "verifying"}
        PROVE  RecoveryInv'
    <2>1. drv[t] \in {"ended", "finished", "reported", "complete", "verifying"} =>
             (Live(o) => ts.process \in {"orphaned", "unknown"})
      BY <1>3 DEF DriverInv
    <2>2. Accounted(new, o)
      BY <1>5, <2>1 DEF Accounted
    <2>3. TaskInv(new, o)
      BY <1>3, <1>5, <2>2 DEF TaskInv
    <2>4. DriverInv(new, o, label)
      BY <1>5, <2>1, <2>2 DEF DriverInv, Returned
    <2>5. QED
      BY <1>1, <1>2, <1>5, <2>3, <2>4, TaskMove
  <1>6. ASSUME NEW s \in TaskStatuses \ {"planned"}, NEW label \in Running \cup Returned,
               task' = [task EXCEPT ![t].status = s], drv' = [drv EXCEPT ![t] = label], run' = run,
               label \in {"finished", "reported", "complete", "verifying"} \cup Returned,
               \/ s = "failed" /\ label = "failed"
               \/ drv[t] \in {"ended", "finished", "reported", "complete", "verifying"}
        PROVE  RecoveryInv'
    <2>1. PICK u : u = [ts EXCEPT !.status = s]
      OBVIOUS
    <2>2. Shape(u) /\ u.status = s /\ u.process = ts.process /\ u.attempts = ts.attempts
      BY <1>3, <2>1, StatusKeeps
    <2>3. LastAttempt(u) = LastAttempt(ts) /\ task' = [task EXCEPT ![t] = u]
      BY <1>2, <1>6, <2>1, <2>2 DEF LastAttempt
    <2>4. QED
      BY <1>5, <1>6, <2>2, <2>3
  <1>7. CASE StartFailed(t) \/ SessionFails(t)
    <2>1. /\ task' = [task EXCEPT ![t].status = "failed"] /\ drv' = [drv EXCEPT ![t] = "failed"]
          /\ run' = run
      BY <1>7 DEF StartFailed, SessionFails, failTask, Goto
    <2>2. "failed" \in TaskStatuses \ {"planned"} /\ "failed" \in Returned
      BY DEF TaskStatuses, Returned
    <2>3. QED
      BY <1>6, <2>1, <2>2
  <1>8. CASE RecordSpawn(t)
    <2>1. drv[t] = "spawned" /\ run' = run /\ drv' = [drv EXCEPT ![t] = "session"]
      BY <1>8 DEF RecordSpawn, At, Goto
    <2>2. PICK w \in Workers :
             task' = [task EXCEPT ![t] = updateWorker([@ EXCEPT !.process = "alive"], w)]
      BY <1>8 DEF RecordSpawn
    <2>3. ts.status = "running" /\ ts.active = Len(ts.attempts) /\ ts.active # 0
      BY <1>3, <2>1 DEF DriverInv
    <2>4. PICK p : p = [ts EXCEPT !.process = "alive"]
      OBVIOUS
    <2>5. /\ Shape(p) /\ p.status = ts.status /\ p.process = "alive"
          /\ p.attempts = ts.attempts /\ p.active = ts.active
      BY <1>3, <2>4, ProcessKeeps DEF Processes
    <2>6. PICK u : u = updateWorker(p, w)
      OBVIOUS
    <2>7. /\ Shape(u) /\ SameFace(p, u) /\ u.active = p.active
          /\ Len(u.attempts) = Len(p.attempts)
      BY <2>5, <2>6, WorkerKeeps
    <2>8. /\ u.status = "running" /\ u.process = "alive" /\ LastAttempt(u) = LastAttempt(ts)
          /\ u.active = Len(u.attempts) /\ u.active # 0
      BY <2>3, <2>5, <2>7 DEF SameFace, LastAttempt
    <2>9. TaskInv(u, o)
      BY <1>3, <2>7, <2>8 DEF TaskInv, recoveryTaskTerminal
    <2>10. DriverInv(u, o, "session")
      BY <2>8 DEF DriverInv, Running
    <2>11. task' = [task EXCEPT ![t] = u]
      BY <1>2, <2>2, <2>4, <2>6
    <2>12. QED
      BY <1>1, <1>2, <1>4, <2>1, <2>9, <2>10, <2>11, TaskMove
  <1>9. CASE ResolveExit(t)
    <2>1. drv[t] = "session" /\ run' = run
      BY <1>9 DEF ResolveExit, At
    <2>2. PICK p \in {"unknown", "orphaned", "exited"} :
             /\ p = "exited" => os[t][task[t].active] # "alive"
             /\ task' = [task EXCEPT ![t].process = p]
             /\ drv' = [drv EXCEPT ![t] = IF p = "exited" THEN "ended" ELSE "unconfirmed"]
      BY <1>9 DEF ResolveExit, Goto
    <2>3. ts.status = "running" /\ ts.active = Len(ts.attempts) /\ ts.active # 0
      BY <1>3, <2>1 DEF DriverInv
    <2>4. LastAttempt(ts) = ts.active
      <3>1. ts.attempts = <<>> <=> Len(ts.attempts) = 0
        BY <1>1, <1>2, TaskFields
      <3>2. QED
        BY <2>3, <3>1 DEF LastAttempt
    <2>5. p = "exited" => ~Live(o)
      BY <1>2, <1>3, <2>2, <2>4 DEF TaskInv, Live
    <2>6. PICK u : u = [ts EXCEPT !.process = p]
      OBVIOUS
    <2>7. p \in Processes
      BY DEF Processes
    <2>8. Shape(u) /\ u.status = ts.status /\ u.process = p /\ u.attempts = ts.attempts
      BY <1>3, <2>6, <2>7, ProcessKeeps
    <2>9. LastAttempt(u) = LastAttempt(ts) /\ task' = [task EXCEPT ![t] = u]
      BY <1>2, <2>2, <2>6, <2>8 DEF LastAttempt
    <2>10. TaskInv(u, o)
      BY <1>3, <2>3, <2>5, <2>8, <2>9 DEF TaskInv, recoveryTaskTerminal
    <2>11. PICK label \in {"ended", "unconfirmed"} : drv' = [drv EXCEPT ![t] = label]
      BY <2>2
    <2>12. DriverInv(u, o, label)
      BY <2>5, <2>8 DEF DriverInv, Running
    <2>13. QED
      BY <1>1, <1>2, <1>4, <2>1, <2>9, <2>10, <2>11, <2>12, TaskMove
  <1>10. CASE Degrade(t)
    <2>1. /\ drv[t] = "unconfirmed" /\ run' = "degraded" /\ task' = task
          /\ drv' = [drv EXCEPT ![t] = "ended"]
      BY <1>10 DEF Degrade, At, Goto
    <2>2. DriverInv(ts, o, "ended") /\ run' \in RunStatuses
      BY <1>3, <2>1 DEF DriverInv, Running, RunStatuses
    <2>3. QED
      BY <1>1, <1>2, <1>4, <2>1, <2>2, LabelMove
  <1>11. CASE FinishAttempt(t)
    <2>1. PICK out \in {"orphaned", "exited"} :
             /\ drv[t] = "ended" /\ run' = run /\ drv' = [drv EXCEPT ![t] = "finished"]
             /\ task' = [task EXCEPT ![t] = finishActiveAttempt(@, out)]
      BY <1>11 DEF FinishAttempt, At, Goto
    <2>2. PICK f : f = finishActiveAttempt(ts, out)
      OBVIOUS
    <2>3. out \in Outcomes
      BY DEF Outcomes
    <2>4. Shape(f) /\ SameFace(ts, f)
      BY <1>3, <2>2, <2>3, FinishKeeps
    <2>5. TaskInv(f, o)
      BY <1>3, <2>4, FaceKeeps
    <2>6. DriverInv(f, o, "finished")
      BY <1>3, <2>1, <2>4 DEF DriverInv, Running, SameFace
    <2>7. task' = [task EXCEPT ![t] = f]
      BY <1>2, <2>1, <2>2
    <2>8. QED
      BY <1>1, <1>2, <1>4, <2>1, <2>5, <2>6, <2>7, TaskMove
  <1>12. CASE FreezeReport(t)
    <2>1. /\ drv[t] = "finished" /\ run' = run /\ drv' = [drv EXCEPT ![t] = "reported"]
          /\ task' = [task EXCEPT ![t].report = [attempt |-> Len(task[t].attempts), stale |-> FALSE]]
      BY <1>12 DEF FreezeReport, At, Goto
    <2>2. PICK f : f = [ts EXCEPT !.report = [attempt |-> Len(ts.attempts), stale |-> FALSE]]
      OBVIOUS
    <2>3. Shape(f) /\ SameFace(ts, f)
      BY <1>3, <2>2, ReportKeeps
    <2>4. TaskInv(f, o)
      BY <1>3, <2>3, FaceKeeps
    <2>5. DriverInv(f, o, "reported")
      BY <1>3, <2>1, <2>3 DEF DriverInv, Running, SameFace
    <2>6. task' = [task EXCEPT ![t] = f]
      BY <1>2, <2>1, <2>2
    <2>7. QED
      BY <1>1, <1>2, <1>4, <2>1, <2>4, <2>5, <2>6, TaskMove
  <1>13. CASE ApplyEnvelope(t)
    <2>1. drv[t] = "reported" /\ run' = run
      BY <1>13 DEF ApplyEnvelope, At
    <2>2. CASE task' = [task EXCEPT ![t].status = "reported_complete"]
               /\ drv' = [drv EXCEPT ![t] = "complete"]
      <3>1. "reported_complete" \in TaskStatuses \ {"planned"}
        BY DEF TaskStatuses
      <3>2. QED
        BY <1>4, <1>6, <2>1, <2>2, <3>1
    <2>3. ASSUME NEW s \in {"blocked", "failed"},
                 task' = [task EXCEPT ![t].status = s, ![t].final = (s = "blocked")],
                 drv' = [drv EXCEPT ![t] = "ok"]
          PROVE  RecoveryInv'
      <3>2. PICK u : u = [ts EXCEPT !.status = s, !.final = (s = "blocked")]
        OBVIOUS
      <3>3. s \in TaskStatuses \ {"planned"} /\ "ok" \in Returned
        BY DEF TaskStatuses, Returned
      <3>4. Shape(u) /\ u.status = s /\ u.process = ts.process /\ u.attempts = ts.attempts
        BY <1>3, <3>2, <3>3, FinalKeeps
      <3>5. LastAttempt(u) = LastAttempt(ts)
        BY <3>4 DEF LastAttempt
      <3>6. task' = [task EXCEPT ![t] = u]
        BY <1>2, <2>3, <3>2
      <3>7. QED
        BY <1>4, <1>5, <2>1, <2>3, <3>3, <3>4, <3>5, <3>6
    <2>4. QED
      BY <1>13, <2>2, <2>3 DEF ApplyEnvelope, Goto
  <1>14. CASE EnterVerifying(t)
    <2>1. /\ drv[t] = "complete" /\ run' = run /\ drv' = [drv EXCEPT ![t] = "verifying"]
          /\ task' = [task EXCEPT ![t].status = "verifying"]
      BY <1>14 DEF EnterVerifying, At, Goto
    <2>2. "verifying" \in TaskStatuses \ {"planned"}
      BY DEF TaskStatuses
    <2>3. QED
      BY <1>4, <1>6, <2>1, <2>2
  <1>15. CASE Verify(t)
    <2>1. PICK s \in {"verified_success", "verification_failed"}, label \in {"ok", "failed"} :
             /\ drv[t] = "verifying" /\ run' = run /\ drv' = [drv EXCEPT ![t] = label]
             /\ task' = [task EXCEPT ![t].status = s]
      BY <1>15 DEF Verify, At, Goto
    <2>2. s \in TaskStatuses \ {"planned"} /\ label \in Returned
      BY DEF TaskStatuses, Returned
    <2>3. QED
      BY <1>4, <1>6, <2>1, <2>2
  <1>16. QED
    BY <1>7, <1>8, <1>9, <1>10, <1>11, <1>12, <1>13, <1>14, <1>15

-----------------------------------------------------------------------------
(* Recovery, the end of a wave, and the environment. *)

LEMMA ClassifyStep ==
    ASSUME RecoveryInv, NEW t \in Tasks, Classify(t)
    PROVE  RecoveryInv'
  <1>1. /\ phase = "classify" /\ decision[t] = "none"
        /\ \A u \in 1 .. t - 1 : decision[u] # "none"
        /\ phase' = IF t = NTasks THEN "apply" ELSE phase
        /\ UNCHANGED <<run, task, os, applied, drv, crashes>>
    BY DEF Classify
  <1>2. PICK i \in Inspect(t) :
           decision' = [decision EXCEPT ![t] = ClassifyRecovery(task[t], i, t \in Resumes)]
    BY DEF Classify
  <1>3. PICK class : class = ClassifyRecovery(task[t], i, t \in Resumes)
    OBVIOUS
  <1>4. class \in Classes /\ DecisionInv(task[t], os[t], class)
    BY <1>3, DecisionMade DEF RecoveryInv
  <1>5. /\ decision'[t] = class /\ decision' \in [Tasks -> Classes \cup {"none"}]
        /\ \A u \in Tasks : u # t => decision'[u] = decision[u]
    BY <1>2, <1>3, <1>4 DEF RecoveryInv, TypeOK
  <1>6. TypeOK'
    BY <1>1, <1>5 DEF RecoveryInv, TypeOK
  <1>7. applied = 0 /\ \A u \in Tasks : DecisionInv(task[u], os[u], decision'[u])
    <2>1. applied = 0 /\ \A u \in Tasks : u > 0
      BY <1>1 DEF RecoveryInv, PhaseInv, Tasks
    <2>2. QED
      BY <1>1, <1>4, <1>5, <2>1 DEF RecoveryInv, PhaseInv
  <1>8. phase' = "apply" => \A u \in Tasks : decision'[u] # "none"
    <2>1. class # "none"
      BY <1>4 DEF Classes
    <2>2. phase' = "apply" => t = NTasks
      BY <1>1
    <2>3. t = NTasks => \A u \in Tasks : u = t \/ u \in 1 .. t - 1
      BY RecoveryAssumption DEF Tasks
    <2>4. QED
      BY <1>1, <1>5, <2>1, <2>2, <2>3
  <1>9. PhaseInv'
    <2>1. 0 < NTasks /\ \A u \in Tasks : ~(u <= 0)
      BY RecoveryAssumption DEF Tasks
    <2>2. phase' \in {"classify", "apply"}
      BY <1>1
    <2>3. QED
      BY <1>1, <1>7, <1>8, <2>1, <2>2 DEF RecoveryInv, PhaseInv
  <1>10. QED
    BY <1>1, <1>6, <1>9 DEF RecoveryInv

LEMMA ApplyStep ==
    ASSUME RecoveryInv, Apply
    PROVE  RecoveryInv'
  <1>1. /\ phase = "apply" /\ applied' = applied + 1
        /\ phase' = IF applied' = NTasks THEN "aggregate" ELSE phase
        /\ UNCHANGED <<run, os, decision, drv, crashes>>
    BY DEF Apply
  <1>2. PICK t : t = applied + 1
    OBVIOUS
  <1>3. applied \in 0 .. NTasks /\ applied < NTasks /\ t \in Tasks /\ decision[t] # "none"
    BY <1>1, <1>2, RecoveryAssumption DEF RecoveryInv, TypeOK, PhaseInv, Tasks
  <1>4. PICK new : new = applyRecoveryDecision(task[t], decision[t])
    OBVIOUS
  <1>5. task' = [task EXCEPT ![t] = new]
    BY <1>2, <1>4 DEF Apply
  <1>6. TaskInv(new, os[t]) /\ Accounted(new, os[t])
    <2>1. decision[t] \in Classes /\ TaskInv(task[t], os[t])
      BY <1>3 DEF RecoveryInv, TypeOK
    <2>2. t > applied
      BY <1>2, <1>3
    <2>3. DecisionInv(task[t], os[t], decision[t])
      BY <1>1, <1>3, <2>2 DEF RecoveryInv, PhaseInv
    <2>4. QED
      BY <1>4, <2>1, <2>3, DecisionApplied
  <1>7. /\ task' \in [Tasks -> TaskState] /\ task'[t] = new
        /\ \A u \in Tasks : u # t => task'[u] = task[u]
    <2>1. new \in TaskState
      BY <1>6 DEF TaskInv, Shape
    <2>2. QED
      BY <1>3, <1>5, <2>1 DEF RecoveryInv, TypeOK
  <1>8. TypeOK'
    <2>1. applied' \in 0 .. NTasks
      BY <1>1, <1>3, RecoveryAssumption
    <2>2. QED
      BY <1>1, <1>7, <2>1 DEF RecoveryInv, TypeOK
  <1>9. \A u \in Tasks : TaskInv(task'[u], os[u])
    BY <1>6, <1>7 DEF RecoveryInv
  <1>10. \A u \in Tasks : u <= applied' => Accounted(task'[u], os[u])
    <2>1. \A u \in Tasks : u <= applied' => u = t \/ u <= applied
      BY <1>1, <1>2, <1>3 DEF Tasks
    <2>2. QED
      BY <1>1, <1>6, <1>7, <2>1 DEF RecoveryInv, PhaseInv
  <1>11. \A u \in Tasks : u > applied' => DecisionInv(task'[u], os[u], decision[u])
    <2>1. \A u \in Tasks : u > applied' => u # t /\ u > applied
      BY <1>1, <1>2, <1>3 DEF Tasks
    <2>2. QED
      BY <1>1, <1>7, <2>1 DEF RecoveryInv, PhaseInv
  <1>12. phase' = "apply" => applied' < NTasks
    BY <1>1, <1>3, RecoveryAssumption
  <1>13. phase' = "aggregate" => applied' = NTasks
    BY <1>1
  <1>14. phase' \in {"apply", "aggregate"}
    BY <1>1
  <1>15. PhaseInv'
    BY <1>1, <1>10, <1>11, <1>12, <1>13, <1>14 DEF RecoveryInv, PhaseInv
  <1>16. QED
    BY <1>1, <1>8, <1>9, <1>15 DEF RecoveryInv

LEMMA RunStep ==
    ASSUME RecoveryInv, Restart \/ Aggregate \/ EndWave \/ Crash
    PROVE  RecoveryInv'
  <1>1. UNCHANGED <<task, os>>
    BY DEF Restart, Aggregate, EndWave, Crash
  <1>2. CASE Restart
    <2>1. /\ phase = "down" /\ phase' \in {"done", "classify"} /\ run' \in {run, "recovering"}
          /\ UNCHANGED <<decision, applied, drv, crashes>>
      BY <1>2 DEF Restart
    <2>2. TypeOK'
      BY <1>1, <2>1 DEF RecoveryInv, TypeOK, RunStatuses
    <2>3. \A t \in Tasks : DecisionInv(task[t], os[t], "none")
      BY DEF DecisionInv
    <2>4. PhaseInv'
      BY <1>1, <2>1, <2>3 DEF RecoveryInv, PhaseInv
    <2>5. QED
      BY <1>1, <2>2, <2>4 DEF RecoveryInv
  <1>3. CASE Aggregate
    <2>1. /\ phase = "aggregate" /\ phase' \in {"done", "execute"}
          /\ run' \in {"degraded", "failed", "running"}
          /\ decision' = [t \in Tasks |-> "none"] /\ applied' = 0
          /\ UNCHANGED <<drv, crashes>>
      BY <1>3 DEF Aggregate
    <2>2. TypeOK'
      BY <1>1, <2>1, RecoveryAssumption DEF RecoveryInv, TypeOK, RunStatuses
    <2>3. \A t \in Tasks : drv[t] = "idle" /\ Accounted(task[t], os[t])
      <3>1. \A t \in Tasks : t <= NTasks
        BY RecoveryAssumption DEF Tasks
      <3>2. QED
        BY <2>1, <3>1 DEF RecoveryInv, PhaseInv
    <2>4. \A t \in Tasks : DriverInv(task[t], os[t], drv[t])
      BY <2>3 DEF DriverInv
    <2>5. PhaseInv'
      BY <1>1, <2>1, <2>3, <2>4 DEF PhaseInv
    <2>6. QED
      BY <1>1, <2>2, <2>5 DEF RecoveryInv
  <1>4. CASE EndWave
    <2>1. /\ phase = "execute" /\ phase' = "done" /\ run' \in {"failed", run}
          /\ drv' = [t \in Tasks |-> "idle"]
          /\ UNCHANGED <<decision, applied, crashes>>
      BY <1>4 DEF EndWave
    <2>2. TypeOK'
      BY <1>1, <2>1 DEF RecoveryInv, TypeOK, RunStatuses
    <2>3. PhaseInv'
      BY <1>1, <2>1 DEF RecoveryInv, PhaseInv
    <2>4. QED
      BY <1>1, <2>2, <2>3 DEF RecoveryInv
  <1>5. CASE Crash
    <2>1. /\ phase' = "down" /\ run' = run /\ crashes < MaxCrashes /\ crashes' = crashes + 1
          /\ drv' = [t \in Tasks |-> "idle"]
          /\ decision' = [t \in Tasks |-> "none"] /\ applied' = 0
      BY <1>5 DEF Crash
    <2>2. TypeOK'
      <3>1. crashes' \in 0 .. MaxCrashes /\ applied' \in 0 .. NTasks
        BY <2>1, RecoveryAssumption DEF RecoveryInv, TypeOK
      <3>2. QED
        BY <1>1, <2>1, <3>1 DEF RecoveryInv, TypeOK
    <2>3. PhaseInv'
      BY <2>1 DEF PhaseInv
    <2>4. QED
      BY <1>1, <2>2, <2>3 DEF RecoveryInv
  <1>6. QED
    BY <1>2, <1>3, <1>4, <1>5

\* Fewer live processes do no harm.
LEMMA ProcessEnds ==
    ASSUME RecoveryInv, NEW t \in Tasks, NEW n \in 1 .. MaxAttempts,
           WorkerExits(t, n) \/ PidReused(t, n)
    PROVE  RecoveryInv'
  <1>1. UNCHANGED <<run, task, drv, phase, decision, applied, crashes>>
    BY DEF WorkerExits, PidReused, supervisorVars
  <1>2. PICK fate \in {"gone", "reused"} : os' = [os EXCEPT ![t][n] = fate]
    BY DEF WorkerExits, PidReused
  <1>3. /\ os' \in [Tasks -> [1 .. MaxAttempts -> Fates]]
        /\ \A u \in Tasks, k \in 1 .. MaxAttempts : os'[u][k] = "alive" => os[u][k] = "alive"
    BY <1>2 DEF RecoveryInv, TypeOK, Fates
  <1>4. TypeOK'
    BY <1>1, <1>3 DEF RecoveryInv, TypeOK
  <1>5. \A u \in Tasks : Live(os'[u]) => Live(os[u])
    BY <1>3 DEF Live
  <1>6. \A u \in Tasks : TaskInv(task[u], os'[u])
    BY <1>3, <1>5 DEF RecoveryInv, TaskInv, Accounted
  <1>7. PhaseInv'
    BY <1>1, <1>5 DEF RecoveryInv, PhaseInv, DriverInv, DecisionInv, Accounted
  <1>8. QED
    BY <1>1, <1>4, <1>6, <1>7 DEF RecoveryInv

LEMMA NextRecovery == RecoveryInv /\ [Next]_vars => RecoveryInv'
  <1> SUFFICES ASSUME RecoveryInv, [Next]_vars PROVE RecoveryInv'
    OBVIOUS
  <1>1. CASE UNCHANGED vars
    BY <1>1 DEF vars, RecoveryInv, TypeOK, PhaseInv
  <1>2. CASE Supervisor
    BY <1>2, ApplyStep, RunStep, ClassifyStep, BeginStep, EndStep DEF Supervisor, executeTask
  <1>3. CASE Restart \/ Crash
    BY <1>3, RunStep
  <1>4. CASE \E t \in Tasks, n \in 1 .. MaxAttempts : WorkerExits(t, n) \/ PidReused(t, n)
    BY <1>4, ProcessEnds
  <1>5. QED
    BY <1>1, <1>2, <1>3, <1>4 DEF Next

-----------------------------------------------------------------------------

\* The inductive invariant of recovery: only the last attempt of a task may be alive, a class
\* that waits to be applied still fits its task, and a driver starts a worker only where none
\* lives (RecoverRun, executeTask).
THEOREM RecoveryInvariant == Spec => []RecoveryInv
  <1>1. QED
    BY InitRecovery, NextRecovery, PTL DEF Spec

\* However often the Supervisor dies, and whatever it had recorded by then, no task has two
\* live workers, and none runs unseen while tasks execute (recovery.go, execute_task.go).
THEOREM NoSecondWorker == Spec => []WorkersAccountedFor
  <1>1. RecoveryInv => WorkersAccountedFor
    <2> SUFFICES ASSUME RecoveryInv PROVE WorkersAccountedFor
      OBVIOUS
    <2>1. ASSUME NEW t \in Tasks
          PROVE  Cardinality(LiveRoots(t)) <= 1
      <3>1. LiveRoots(t) \subseteq {LastAttempt(task[t])}
        BY DEF RecoveryInv, TaskInv, LiveRoots
      <3>2. CASE LiveRoots(t) = {}
        BY <3>2, FS_EmptySet
      <3>3. CASE LiveRoots(t) # {}
        <4>1. LiveRoots(t) = {LastAttempt(task[t])}
          BY <3>1, <3>3
        <4>2. Cardinality({LastAttempt(task[t])}) = 1
          BY FS_Singleton
        <4>3. QED
          BY <4>1, <4>2
      <3>4. QED
        BY <3>2, <3>3
    <2>2. ASSUME NEW t \in Tasks, phase = "execute", LiveRoots(t) # {}
          PROVE  \/ drv[t] \in Running
                 \/ task[t].process \in {"orphaned", "unknown"}
                 \/ task[t].status = "failed"
      <3>1. Live(os[t])
        BY <2>2 DEF LiveRoots, Live
      <3>2. QED
        BY <2>2, <3>1 DEF RecoveryInv, PhaseInv, DriverInv, Accounted
    <2>3. QED
      BY <2>1, <2>2 DEF WorkersAccountedFor, RecoveryInv
  <1>2. QED
    BY <1>1, RecoveryInvariant, PTL

\* recovery.go:74 "Only typed process-not-found proves exit": a task whose process is recorded
\* as exited has no live worker, in every run.
THEOREM ExitStaysProven == Spec => []ExitIsProven
  <1>1. RecoveryInv => ExitIsProven
    BY DEF RecoveryInv, TaskInv, ExitIsProven, LiveRoots, Live
  <1>2. QED
    BY <1>1, RecoveryInvariant, PTL

\* A frozen report that is not stale is the last attempt's, however attempts, reports and
\* crashes follow each other (execute_task.go:104-105, attempt.go Begin).
THEOREM ReportStaysCurrent == Spec => []FrozenReportIsCurrent
  <1>1. RecoveryInv => FrozenReportIsCurrent
    <2> SUFFICES ASSUME RecoveryInv, NEW t \in Tasks,
                        task[t].report.attempt # 0, ~task[t].report.stale
                 PROVE  task[t].report.attempt = Len(task[t].attempts)
      BY DEF FrozenReportIsCurrent
    <2>1. Shape(task[t]) /\ task[t] \in TaskState
      BY DEF RecoveryInv, TaskInv, Shape
    <2>2. task[t].report.stale \in BOOLEAN
      BY <2>1, TaskFields
    <2>3. task[t].report.stale = FALSE
      BY <2>2
    <2>4. QED
      BY <2>1, <2>3 DEF Shape
  <1>2. QED
    BY <1>1, RecoveryInvariant, PTL
=============================================================================

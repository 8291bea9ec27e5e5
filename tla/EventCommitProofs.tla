-------------------------- MODULE EventCommitProofs --------------------------
(***************************************************************************)
(* Proofs about EventCommit, for any tasks, clients and history and for    *)
(* logs of any length: the log has no gap and no repeat until an fsync     *)
(* fails after a complete write, a restart between commits restores what   *)
(* was in memory, and after a failure nothing moves.                       *)
(***************************************************************************)
EXTENDS EventCommit, FiniteSetTheorems, WellFoundedInduction, TLAPS

(* The inductive invariant. *)

Verdicts == {"verified_success", "verification_failed"}

\* A change that the reducer can apply to a snapshot.
ChangeOK(c) ==
    /\ c.kind = "run" => c.to \in RunStatuses
    /\ c.kind \in {"transition", "envelope", "verdict", "runtime"} =>
          c.task \in Tasks /\ c.to \in TaskStatuses
    /\ c.kind \in {"waiting", "pending", "cleared"} => c.task \in Tasks

\* A change that replay does not show on snapshot s: it is only counted, or repeats a verdict.
\* A verdict follows only from verifying, so it is refused where it does not repeat the status.
Unseen(c, s) ==
    \/ c.kind = "telemetry"
    \/ /\ c.kind = "verdict" /\ c.task \in Tasks /\ c.to \in Verdicts
       /\ s.task[c.task] # "verifying"

\* Nothing after the checkpoint s changes a status.
CaughtUp(s) == \A i \in 1 .. Len(log) : log[i].seq > s.applied => Unseen(log[i].change, s)

MutexInv ==
    /\ mu # Nobody => up = TRUE /\ accepting = TRUE /\ op[mu].stage = "snapshot"
    /\ \A w \in Writers : op[w].stage = "snapshot" => mu = w
    /\ up = FALSE => mu = Nobody /\ \A w \in Writers : op[w] = Idle

\* What a goroutine is about to persist; only its own driver moves a task to verifying.
OpInv(w) ==
    LET c == op[w].change IN
    /\ ChangeOK(c)
    /\ op[w].stage = "telemetry" => c.kind \in {"telemetry", "verdict"}
    /\ c.kind = "verdict" =>
          /\ op[w].stage \in {"telemetry", "close"}
          /\ w \in Tasks /\ c.task = w /\ c.to \in Verdicts /\ runtime[w] = c.to
    /\ c.kind \in {"transition", "envelope", "runtime"} =>
          c.task = w /\ (op[w].stage # "refresh" /\ runtime[w] \in Verdicts => c.to # "verifying")

\* A driver that has seen a verdict is not overtaken by a return to verifying.
VerdictInv ==
    \A t \in Tasks : runtime[t] \in Verdicts =>
        mem.task[t] # "verifying" /\ (mu # Nobody => candidate.task[t] # "verifying")

LogInv ==
    /\ \A i \in 1 .. Len(log) :
          /\ log[i].seq <= nextSeq
          /\ log[i].seq <= Len(History) \/ ChangeOK(log[i].change)
    /\ Len(History) <= disk.applied /\ disk.applied < nextSeq
    /\ Len(History) <= candidate.applied /\ candidate.applied < nextSeq
    /\ syncFailures = 0 => nextSeq = Len(log) + 1 /\ \A i \in 1 .. Len(log) : log[i].seq = i

CheckpointInv ==
    /\ up = TRUE /\ accepting = TRUE /\ mu = Nobody => disk = mem /\ CaughtUp(mem)
    /\ mu # Nobody => CaughtUp(candidate)

CommitInv ==
    /\ TypeOK /\ MutexInv /\ VerdictInv /\ LogInv /\ CheckpointInv
    /\ \A w \in Writers : OpInv(w)

-----------------------------------------------------------------------------
(* Recursion and induction over the log. *)

\* A non-empty set of naturals has a least element.
LEMMA LeastElement ==
    ASSUME NEW S \in SUBSET Nat, S # {}
    PROVE  \E i \in S : \A j \in S : i <= j
  <1>1. PICK i \in S : \A j \in S : ~ (<<j, i>> \in OpToRel(<, Nat))
    BY WFMin, NatLessThanWellFounded, Zenon
  <1>2. \A j \in S : ~ (j < i)
    BY <1>1 DEF OpToRel
  <1>3. QED
    BY <1>2

\* Induction over 0 .. n, for a set instead of a predicate.
LEMMA Induction ==
    ASSUME NEW n \in Nat, NEW S, 0 \in S, \A i \in 0 .. n : i \in S /\ i < n => i + 1 \in S
    PROVE  \A i \in 0 .. n : i \in S
  <1> DEFINE Out == {i \in 0 .. n : i \notin S}
  <1>1. SUFFICES ASSUME Out # {} PROVE FALSE
    OBVIOUS
  <1>2. PICK i \in Out : \A j \in Out : i <= j
    <2>1. Out \in SUBSET Nat
      OBVIOUS
    <2> HIDE DEF Out
    <2>2. QED
      BY <1>1, <2>1, LeastElement
  <1>3. i # 0 /\ i - 1 \in 0 .. n /\ i - 1 < i /\ i - 1 < n /\ i - 1 + 1 = i
    BY <1>2
  <1>4. i - 1 \in S
    BY <1>2, <1>3
  <1>5. QED
    BY <1>2, <1>3, <1>4

\* One step of ReplayEvents, and the function its recursion defines.
Reduce(s, r, e) ==
    IF ~r.ok \/ e.seq <= s.applied THEN r
    ELSE IF Applicable(r.snapshot, e)
    THEN [ok |-> TRUE, snapshot |-> ApplyEvent(r.snapshot, e)]
    ELSE [ok |-> FALSE, snapshot |-> s]

Replay(s, events, n, f) ==
    f = [i \in 0 .. n |-> IF i = 0 THEN [ok |-> TRUE, snapshot |-> s]
                          ELSE Reduce(s, f[i - 1], events[i])]

\* The recursion has a solution, built line by line.
LEMMA ReplayExists ==
    ASSUME NEW s, NEW events, NEW n \in Nat
    PROVE  \E f : Replay(s, events, n, f)
  <1> DEFINE S == {m \in 0 .. n : \E f : Replay(s, events, m, f)}
  <1>1. 0 \in S
    <2>1. Replay(s, events, 0, [i \in 0 .. 0 |-> [ok |-> TRUE, snapshot |-> s]])
      BY DEF Replay
    <2>2. QED
      BY <2>1
  <1>2. ASSUME NEW m \in 0 .. n, m \in S, m < n PROVE m + 1 \in S
    <2>1. PICK f : Replay(s, events, m, f)
      BY <1>2
    <2>2. PICK g : g = [i \in 0 .. m + 1 |-> IF i = m + 1 THEN Reduce(s, f[m], events[m + 1]) ELSE f[i]]
      OBVIOUS
    <2>3. ASSUME NEW i \in 0 .. m + 1
          PROVE  g[i] = IF i = 0 THEN [ok |-> TRUE, snapshot |-> s]
                        ELSE Reduce(s, g[i - 1], events[i])
      <3>1. CASE i = 0
        BY <2>1, <2>2, <3>1 DEF Replay
      <3>2. CASE i \in 1 .. m
        <4>1. g[i] = f[i] /\ g[i - 1] = f[i - 1] /\ i # 0
          BY <2>2, <3>2
        <4>2. i \in 0 .. m /\ i # 0
          BY <3>2
        <4>3. f[i] = Reduce(s, f[i - 1], events[i])
          BY <2>1, <4>2 DEF Replay
        <4>4. QED
          BY <4>1, <4>3
      <3>3. CASE i = m + 1
        <4>1. g[i] = Reduce(s, f[m], events[m + 1]) /\ g[i - 1] = f[m] /\ i # 0
          BY <2>2, <3>3
        <4>2. QED
          BY <3>3, <4>1
      <3>4. QED
        BY <3>1, <3>2, <3>3
    <2>4. g = [i \in 0 .. m + 1 |-> g[i]]
      BY <2>2
    <2>5. Replay(s, events, m + 1, g)
      BY <2>3, <2>4 DEF Replay
    <2>6. m + 1 \in 0 .. n
      BY <1>2
    <2>7. QED
      BY <2>5, <2>6
  <1>3. n \in S
    <2>1. \A i \in 0 .. n : i \in S
      BY <1>1, <1>2, Induction
    <2>2. QED
      BY <2>1
  <1>4. QED
    BY <1>3

LEMMA ReplayUnfolds ==
    ASSUME NEW s, NEW events, Len(events) \in Nat
    PROVE  \E f : Replay(s, events, Len(events), f) /\ ReplayEvents(s, events) = f[Len(events)]
  <1> DEFINE f == CHOOSE g : Replay(s, events, Len(events), g)
  <1>1. Replay(s, events, Len(events), f)
    BY ReplayExists
  <1>2. ReplayEvents(s, events) = f[Len(events)]
    BY DEF ReplayEvents, Replay, Reduce
  <1>3. QED
    BY <1>1, <1>2

LEMMA ReplayStep ==
    ASSUME NEW s, NEW events, NEW n \in Nat, NEW f, Replay(s, events, n, f), NEW i \in Nat,
           i + 1 \in 0 .. n
    PROVE  f[i + 1] = Reduce(s, f[i], events[i + 1])
  <1>1. i + 1 # 0 /\ i + 1 - 1 = i
    OBVIOUS
  <1>2. PICK j \in 0 .. n : j = i + 1 /\ j # 0 /\ j - 1 = i
    BY <1>1
  <1>3. f[j] = Reduce(s, f[j - 1], events[j])
    BY <1>2 DEF Replay
  <1>4. QED
    BY <1>2, <1>3

Lines == [seq : Nat \ {0}, change : Change]
OpRecords == [stage : {"idle", "commit", "snapshot", "refresh", "telemetry", "close"},
              change : Change]

LEMMA ApplyEventOK ==
    ASSUME NEW s \in Snapshot, NEW e \in Lines, ChangeOK(e.change)
    PROVE  /\ ApplyEvent(s, e) \in Snapshot /\ ApplyEvent(s, e).applied = e.seq
           /\ Unseen(e.change, s) /\ Applicable(s, e) =>
                 ApplyEvent(s, e).run = s.run /\ ApplyEvent(s, e).task = s.task
  <1>1. PICK t : t = [s EXCEPT !.applied = e.seq]
    OBVIOUS
  <1>2. t \in Snapshot /\ t.applied = e.seq /\ t.run = s.run /\ t.task = s.task
    BY <1>1 DEF Snapshot, Lines
  <1>3. CASE e.change.kind = "run"
    <2>1. ApplyEvent(s, e) = [t EXCEPT !.run = e.change.to]
      BY <1>1, <1>3 DEF ApplyEvent
    <2>2. QED
      BY <1>2, <1>3, <2>1 DEF Snapshot, ChangeOK, Unseen
  <1>4. CASE e.change.kind \in {"transition", "envelope", "verdict", "runtime"}
    <2>1. ApplyEvent(s, e) = [t EXCEPT !.task[e.change.task] = e.change.to]
      BY <1>1, <1>4 DEF ApplyEvent
    <2>2. e.change.task \in Tasks /\ e.change.to \in TaskStatuses
      BY <1>4 DEF ChangeOK
    <2>3. /\ ApplyEvent(s, e) \in Snapshot /\ ApplyEvent(s, e).applied = e.seq
          /\ ApplyEvent(s, e).run = s.run
          /\ ApplyEvent(s, e).task = [s.task EXCEPT ![e.change.task] = e.change.to]
      BY <1>2, <2>1, <2>2 DEF Snapshot
    <2>4. Unseen(e.change, s) /\ Applicable(s, e) => s.task[e.change.task] = e.change.to
      <3>1. s.task[e.change.task] \in TaskStatuses
        BY <2>2 DEF Snapshot
      <3>2. QED
        BY <1>4, <3>1 DEF Unseen, Applicable, ValidateTaskTransition, TaskTransitions, Verdicts,
                          TaskStatuses
    <2>5. s.task \in [Tasks -> TaskStatuses]
      BY DEF Snapshot
    <2>6. s.task[e.change.task] = e.change.to =>
             [s.task EXCEPT ![e.change.task] = e.change.to] = s.task
      BY <2>2, <2>5
    <2>7. QED
      BY <2>3, <2>4, <2>6
  <1>5. CASE e.change.kind \notin {"run", "transition", "envelope", "verdict", "runtime"}
    <2>1. ApplyEvent(s, e) = t
      BY <1>1, <1>5 DEF ApplyEvent
    <2>2. QED
      BY <1>2, <2>1
  <1>6. QED
    BY <1>3, <1>4, <1>5

LEMMA ReplayResult ==
    \A b \in BOOLEAN, x \in Snapshot :
        [ok |-> b, snapshot |-> x] \in [ok : BOOLEAN, snapshot : Snapshot]
  OBVIOUS

\* What a replay returns is a snapshot.
LEMMA ReplayType ==
    ASSUME NEW s \in Snapshot, NEW events \in Seq(Lines),
           \A i \in 1 .. Len(events) : events[i].seq <= s.applied \/ ChangeOK(events[i].change),
           NEW f, Replay(s, events, Len(events), f)
    PROVE  \A i \in 0 .. Len(events) : f[i] \in [ok : BOOLEAN, snapshot : Snapshot]
  <1> DEFINE n == Len(events)
             S == {i \in 0 .. n : f[i] \in [ok : BOOLEAN, snapshot : Snapshot]}
  <1>1. n \in Nat
    OBVIOUS
  <1>2. 0 \in S
    BY <1>1 DEF Replay
  <1>3. ASSUME NEW i \in 0 .. n, i \in S, i < n PROVE i + 1 \in S
    <2>1. i + 1 \in 0 .. n /\ i + 1 # 0 /\ i + 1 - 1 = i /\ i + 1 \in 1 .. n
      BY <1>1, <1>3
    <2>2. f[i + 1] = Reduce(s, f[i], events[i + 1])
      BY <1>1, <2>1, ReplayStep
    <2>3. events[i + 1] \in Lines /\ f[i] \in [ok : BOOLEAN, snapshot : Snapshot]
      BY <1>3, <2>1
    <2>4. CASE f[i].ok = FALSE \/ events[i + 1].seq <= s.applied
      BY <2>1, <2>2, <2>3, <2>4 DEF Reduce
    <2>5. CASE f[i].ok = TRUE /\ ~(events[i + 1].seq <= s.applied)
      <3>1. ChangeOK(events[i + 1].change)
        BY <2>1, <2>5
      <3>2. PICK x \in Snapshot : x = ApplyEvent(f[i].snapshot, events[i + 1])
        BY <2>3, <3>1, ApplyEventOK
      <3>3. f[i + 1] = [ok |-> TRUE, snapshot |-> x] \/ f[i + 1] = [ok |-> FALSE, snapshot |-> s]
        BY <2>2, <2>5, <3>2 DEF Reduce
      <3>4. f[i + 1] \in [ok : BOOLEAN, snapshot : Snapshot]
        BY <3>3, ReplayResult
      <3>5. QED
        BY <2>1, <3>4
    <2>6. QED
      BY <2>3, <2>4, <2>5
  <1>4. \A i \in 0 .. n : i \in S
    <2> HIDE DEF S
    <2>1. QED
      BY <1>1, <1>2, <1>3, Induction
  <1>5. QED
    BY <1>4

\* A replay that succeeds has applied the last line.
LEMMA ReplayApplied ==
    ASSUME NEW s \in Snapshot, NEW events \in Seq(Lines), Monotonic(events),
           \A i \in 1 .. Len(events) : events[i].seq <= s.applied \/ ChangeOK(events[i].change),
           NEW f, Replay(s, events, Len(events), f)
    PROVE  \A i \in 0 .. Len(events) : f[i].ok =>
              f[i].snapshot.applied = IF i # 0 /\ events[i].seq > s.applied THEN events[i].seq
                                      ELSE s.applied
  <1> DEFINE n == Len(events)
             A(i) == IF i # 0 /\ events[i].seq > s.applied THEN events[i].seq ELSE s.applied
             S == {i \in 0 .. n : f[i].ok => f[i].snapshot.applied = A(i)}
  <1>1. n \in Nat
    OBVIOUS
  <1>2. 0 \in S
    BY <1>1 DEF Replay
  <1>3. ASSUME NEW i \in 0 .. n, i \in S, i < n PROVE i + 1 \in S
    <2>1. i + 1 \in 0 .. n /\ i + 1 # 0 /\ i + 1 - 1 = i /\ i + 1 \in 1 .. n
      BY <1>1, <1>3
    <2>2. f[i + 1] = Reduce(s, f[i], events[i + 1])
      BY <1>1, <2>1, ReplayStep
    <2>3. events[i + 1] \in Lines /\ f[i] \in [ok : BOOLEAN, snapshot : Snapshot]
      BY <1>3, <2>1, ReplayType
    <2>4. f[i].ok = TRUE => f[i].snapshot.applied = A(i)
      BY <1>3
    <2>5. CASE events[i + 1].seq <= s.applied
      <3>1. f[i + 1] = f[i] /\ A(i + 1) = s.applied
        BY <2>2, <2>3, <2>5 DEF Reduce, Lines, Snapshot
      <3>2. i # 0 => events[i].seq < events[i + 1].seq /\ events[i] \in Lines
        BY <1>1, <2>1 DEF Monotonic
      <3>3. A(i) = s.applied
        BY <2>3, <2>5, <3>2 DEF Lines, Snapshot
      <3>4. QED
        BY <2>1, <2>3, <2>4, <3>1, <3>3
    <2>6. CASE ~(events[i + 1].seq <= s.applied)
      <3>1. ChangeOK(events[i + 1].change)
        BY <2>1, <2>6
      <3>2. ApplyEvent(f[i].snapshot, events[i + 1]).applied = events[i + 1].seq
        BY <2>3, <3>1, ApplyEventOK
      <3>3. f[i + 1].ok = TRUE => f[i + 1].snapshot.applied = events[i + 1].seq
        BY <2>2, <2>3, <2>6, <3>2 DEF Reduce
      <3>4. A(i + 1) = events[i + 1].seq
        BY <2>1, <2>3, <2>6 DEF Lines, Snapshot
      <3>5. f[i + 1].ok \in BOOLEAN
        BY <2>1, ReplayType
      <3>6. QED
        BY <2>1, <3>3, <3>4, <3>5
    <2>7. QED
      BY <2>5, <2>6
  <1>4. \A i \in 0 .. n : i \in S
    <2> HIDE DEF S
    <2>1. QED
      BY <1>1, <1>2, <1>3, Induction
  <1>5. QED
    BY <1>4

\* A replay of lines that nobody sees, if it succeeds, leaves the statuses alone.
LEMMA ReplayUnseen ==
    ASSUME NEW s \in Snapshot, NEW events \in Seq(Lines),
           \A i \in 1 .. Len(events) : events[i].seq <= s.applied \/ ChangeOK(events[i].change),
           \A i \in 1 .. Len(events) : events[i].seq > s.applied => Unseen(events[i].change, s),
           NEW f, Replay(s, events, Len(events), f)
    PROVE  \A i \in 0 .. Len(events) : f[i].ok =>
              f[i].snapshot.run = s.run /\ f[i].snapshot.task = s.task
  <1> DEFINE n == Len(events)
             S == {i \in 0 .. n : f[i].ok => f[i].snapshot.run = s.run /\ f[i].snapshot.task = s.task}
  <1>1. n \in Nat
    OBVIOUS
  <1>2. 0 \in S
    BY <1>1 DEF Replay
  <1>3. ASSUME NEW i \in 0 .. n, i \in S, i < n PROVE i + 1 \in S
    <2>1. i + 1 \in 0 .. n /\ i + 1 # 0 /\ i + 1 - 1 = i /\ i + 1 \in 1 .. n
      BY <1>1, <1>3
    <2>2. f[i + 1] = Reduce(s, f[i], events[i + 1])
      BY <1>1, <2>1, ReplayStep
    <2>3. events[i + 1] \in Lines /\ f[i] \in [ok : BOOLEAN, snapshot : Snapshot]
      BY <1>3, <2>1, ReplayType
    <2>4. f[i].ok = TRUE => f[i].snapshot.run = s.run /\ f[i].snapshot.task = s.task
      BY <1>3
    <2>5. CASE f[i].ok = FALSE \/ events[i + 1].seq <= s.applied
      BY <2>1, <2>2, <2>4, <2>5, <1>3 DEF Reduce
    <2>6. CASE f[i].ok = TRUE /\ ~(events[i + 1].seq <= s.applied)
      <3>1. ChangeOK(events[i + 1].change) /\ Unseen(events[i + 1].change, s)
        BY <2>1, <2>3, <2>6 DEF Lines, Snapshot
      <3>2. Unseen(events[i + 1].change, f[i].snapshot)
        BY <2>4, <2>6, <3>1 DEF Unseen
      <3>3. Applicable(f[i].snapshot, events[i + 1]) =>
               /\ ApplyEvent(f[i].snapshot, events[i + 1]).run = f[i].snapshot.run
               /\ ApplyEvent(f[i].snapshot, events[i + 1]).task = f[i].snapshot.task
        BY <2>3, <3>1, <3>2, ApplyEventOK
      <3>4. QED
        BY <2>1, <2>2, <2>4, <2>6, <3>3 DEF Reduce
    <2>7. QED
      BY <2>3, <2>5, <2>6
  <1>4. \A i \in 0 .. n : i \in S
    <2> HIDE DEF S
    <2>1. QED
      BY <1>1, <1>2, <1>3, Induction
  <1>5. QED
    BY <1>4

LEMMA SortedLines ==
    ASSUME NEW events \in Seq(Lines), Monotonic(events)
    PROVE  \A i \in 1 .. Len(events) : events[i].seq <= events[Len(events)].seq
  <1> DEFINE n == Len(events)
             S == {i \in 0 .. n : \A j \in 1 .. i : events[j].seq <= events[i].seq}
  <1>1. n \in Nat
    OBVIOUS
  <1>2. 0 \in S
    BY <1>1
  <1>3. ASSUME NEW i \in 0 .. n, i \in S, i < n PROVE i + 1 \in S
    <2>1. i + 1 \in 1 .. n /\ i + 1 \in 0 .. n
      BY <1>1, <1>3
    <2>2. ASSUME NEW j \in 1 .. i + 1 PROVE events[j].seq \in Nat
      <3>1. j \in 1 .. n
        BY <1>1, <2>1
      <3>2. events[j] \in Lines
        BY <3>1
      <3>3. QED
        BY <3>2 DEF Lines
    <2>3. i # 0 => events[i].seq < events[i + 1].seq
      BY <1>1, <2>1 DEF Monotonic
    <2>4. ASSUME NEW j \in 1 .. i + 1 PROVE events[j].seq <= events[i + 1].seq
      <3>1. CASE j = i + 1
        BY <2>2, <3>1
      <3>2. CASE j \in 1 .. i
        <4>1. events[j].seq <= events[i].seq
          BY <1>3, <3>2
        <4>2. i \in 1 .. i + 1 /\ i # 0 /\ i + 1 \in 1 .. i + 1
          BY <3>2
        <4>3. QED
          BY <2>2, <2>3, <4>1, <4>2
      <3>3. QED
        BY <3>1, <3>2
    <2>5. QED
      BY <2>1, <2>4
  <1>4. \A i \in 0 .. n : i \in S
    <2> HIDE DEF S
    <2>1. QED
      BY <1>1, <1>2, <1>3, Induction
  <1>5. n \in S
    BY <1>1, <1>4
  <1>6. QED
    BY <1>5

-----------------------------------------------------------------------------
(* What the operators of a commit produce. *)

\* A Mutate yields a snapshot, and moves a task to verifying only on its driver's request.
LEMMA MutatedOK ==
    ASSUME NEW s \in Snapshot, NEW c \in Change, ChangeOK(c), NEW x \in Mutated(s, c)
    PROVE  /\ x \in Snapshot
           /\ \A t \in Tasks : x.task[t] = "verifying" =>
                 \/ s.task[t] = "verifying"
                 \/ /\ c.kind \in {"transition", "envelope", "runtime"}
                    /\ c.task = t /\ c.to = "verifying"
  <1>1. CASE c.kind = "run"
    <2>1. x = [s EXCEPT !.run = c.to]
      BY <1>1 DEF Mutated
    <2>2. QED
      BY <1>1, <2>1 DEF Snapshot, ChangeOK
  <1>2. CASE c.kind \in {"transition", "envelope", "runtime", "waiting", "pending", "cleared"}
    <2>1. \/ x = s
          \/ \E v \in {"blocked", "running"} : x = [s EXCEPT !.task[c.task] = v]
          \/ /\ c.kind \in {"transition", "envelope", "runtime"}
             /\ x = [s EXCEPT !.task[c.task] = c.to]
      <3>1. CASE c.kind = "transition"
        BY <3>1 DEF Mutated
      <3>2. CASE c.kind = "envelope"
        BY <3>2 DEF Mutated
      <3>3. CASE c.kind = "runtime"
        BY <3>3 DEF Mutated
      <3>4. CASE c.kind = "waiting"
        BY <3>4 DEF Mutated
      <3>5. CASE c.kind = "pending"
        BY <3>5 DEF Mutated
      <3>6. CASE c.kind = "cleared"
        BY <3>6 DEF Mutated
      <3>7. QED
        BY <1>2, <3>1, <3>2, <3>3, <3>4, <3>5, <3>6
    <2>2. c.task \in Tasks
      BY <1>2 DEF ChangeOK
    <2>3. ASSUME NEW v \in TaskStatuses, x = [s EXCEPT !.task[c.task] = v]
          PROVE  /\ x \in Snapshot
                 /\ \A t \in Tasks : x.task[t] = "verifying" =>
                       s.task[t] = "verifying" \/ (c.task = t /\ v = "verifying")
      BY <2>2, <2>3 DEF Snapshot
    <2>4. CASE x = s
      BY <2>4
    <2>5. CASE \E v \in {"blocked", "running"} : x = [s EXCEPT !.task[c.task] = v]
      <3>1. PICK v \in {"blocked", "running"} : x = [s EXCEPT !.task[c.task] = v]
        BY <2>5
      <3>2. v \in TaskStatuses /\ v # "verifying"
        BY <3>1 DEF TaskStatuses
      <3>3. QED
        BY <2>3, <3>1, <3>2
    <2>6. CASE /\ c.kind \in {"transition", "envelope", "runtime"}
               /\ x = [s EXCEPT !.task[c.task] = c.to]
      <3>1. c.to \in TaskStatuses
        BY <2>6 DEF ChangeOK
      <3>2. QED
        BY <2>3, <2>6, <3>1
    <2>7. QED
      BY <2>1, <2>4, <2>5, <2>6
  <1>3. CASE c.kind \notin {"run", "transition", "envelope", "runtime", "waiting", "pending",
                            "cleared"}
    <2>1. x = s
      BY <1>3 DEF Mutated
    <2>2. QED
      BY <2>1
  <1>4. QED
    BY <1>1, <1>2, <1>3

\* An append, failed or not, leaves the log alone or adds one line with the next number.
LEMMA AppendEffects ==
    ASSUME TypeOK, NEW c \in Change, Written(c) \/ NotWritten(c)
    PROVE  /\ \/ log' = log
              \/ log' = Append(log, [seq |-> nextSeq, change |-> c])
           /\ log' \in Seq(Lines)
           /\ torn' \in BOOLEAN /\ nextSeq' \in Nat \ {0} /\ nextSeq <= nextSeq'
           /\ syncFailures' \in 0 .. MaxSyncFailures
           /\ syncFailures' = 0 =>
                 /\ syncFailures = 0
                 /\ \/ log' = log /\ nextSeq' = nextSeq
                    \/ log' = Append(log, [seq |-> nextSeq, change |-> c]) /\ nextSeq' = nextSeq + 1
  <1>1. [seq |-> nextSeq, change |-> c] \in Lines
    BY DEF TypeOK, Lines
  <1>2. log \in Seq(Lines) /\ Append(log, [seq |-> nextSeq, change |-> c]) \in Seq(Lines)
    BY <1>1 DEF TypeOK, Lines
  <1>3. CASE Written(c)
    BY <1>2, <1>3 DEF Written, Line, TypeOK
  <1>4. CASE NotWritten(c)
    <2>1. nextSeq' = nextSeq
      BY <1>4 DEF NotWritten
    <2>2. CASE UNCHANGED <<log, torn, syncFailures>>
      BY <1>2, <2>1, <2>2 DEF TypeOK
    <2>3. CASE torn' = TRUE /\ UNCHANGED <<log, syncFailures>>
      BY <1>2, <2>1, <2>3 DEF TypeOK
    <2>4. CASE /\ syncFailures < MaxSyncFailures /\ log' = Append(log, Line(c))
               /\ syncFailures' = syncFailures + 1 /\ UNCHANGED torn
      BY <1>2, <2>1, <2>4, MaxSyncIsNat DEF TypeOK, Line
    <2>5. QED
      BY <1>4, <2>2, <2>3, <2>4 DEF NotWritten
  <1>5. QED
    BY <1>3, <1>4

\* Each line of the log after an append is an old line or the new one.
LEMMA LinesOf ==
    ASSUME TypeOK, NEW c \in Change,
           log' = log \/ log' = Append(log, [seq |-> nextSeq, change |-> c]),
           NEW i \in 1 .. Len(log')
    PROVE  \/ i \in 1 .. Len(log) /\ log'[i] = log[i]
           \/ /\ i = Len(log) + 1 /\ log' = Append(log, [seq |-> nextSeq, change |-> c])
              /\ log'[i] = [seq |-> nextSeq, change |-> c]
  <1>1. log \in Seq(Lines) /\ Len(log) \in Nat
    BY DEF TypeOK, Lines
  <1>2. CASE log' = log
    BY <1>2
  <1>3. CASE log' = Append(log, [seq |-> nextSeq, change |-> c])
    BY <1>1, <1>3
  <1>4. QED
    BY <1>2, <1>3

\* The log keeps its shape over an append of a change the reducer can apply.
LEMMA AppendKeepsLog ==
    ASSUME TypeOK, LogInv, NEW c \in Change, ChangeOK(c), Written(c) \/ NotWritten(c)
    PROVE  /\ \A i \in 1 .. Len(log') :
                 /\ log'[i].seq <= nextSeq' /\ log'[i].seq <= nextSeq
                 /\ log'[i].seq <= Len(History) \/ ChangeOK(log'[i].change)
           /\ syncFailures' = 0 =>
                 nextSeq' = Len(log') + 1 /\ \A i \in 1 .. Len(log') : log'[i].seq = i
  <1>1. /\ log \in Seq(Lines) /\ Len(log) \in Nat /\ nextSeq \in Nat /\ nextSeq' \in Nat
        /\ nextSeq <= nextSeq'
        /\ \A i \in 1 .. Len(log) : log[i].seq \in Nat
    <2>1. log \in Seq(Lines)
      BY DEF TypeOK, Lines
    <2>2. \A i \in 1 .. Len(log) : log[i] \in Lines
      BY <2>1
    <2>3. nextSeq \in Nat /\ nextSeq' \in Nat /\ nextSeq <= nextSeq'
      BY AppendEffects DEF TypeOK
    <2>4. \A i \in 1 .. Len(log) : log[i].seq \in Nat
      BY <2>2 DEF Lines
    <2>5. QED
      BY <2>1, <2>3, <2>4
  <1>2. ASSUME NEW i \in 1 .. Len(log')
        PROVE  /\ log'[i].seq <= nextSeq' /\ log'[i].seq <= nextSeq
               /\ log'[i].seq <= Len(History) \/ ChangeOK(log'[i].change)
    <2>1. CASE i \in 1 .. Len(log) /\ log'[i] = log[i]
      BY <1>1, <2>1 DEF LogInv
    <2>2. CASE log'[i] = [seq |-> nextSeq, change |-> c]
      BY <1>1, <2>2
    <2>3. QED
      BY <2>1, <2>2, LinesOf, AppendEffects
  <1>3. ASSUME syncFailures' = 0
        PROVE  nextSeq' = Len(log') + 1 /\ \A i \in 1 .. Len(log') : log'[i].seq = i
    <2>1. syncFailures = 0 /\ nextSeq = Len(log) + 1 /\ \A i \in 1 .. Len(log) : log[i].seq = i
      BY <1>3, AppendEffects DEF LogInv
    <2>2. CASE log' = log /\ nextSeq' = nextSeq
      BY <2>1, <2>2
    <2>3. CASE log' = Append(log, [seq |-> nextSeq, change |-> c]) /\ nextSeq' = nextSeq + 1
      <3>1. Len(log') = Len(log) + 1
        BY <1>1, <2>3
      <3>2. ASSUME NEW i \in 1 .. Len(log') PROVE log'[i].seq = i
        BY <1>1, <2>1, <2>3, <3>1
      <3>3. QED
        BY <1>1, <2>1, <2>3, <3>1, <3>2
    <2>4. QED
      BY <1>3, <2>2, <2>3, AppendEffects
  <1>4. QED
    BY <1>2, <1>3

\* A goroutine keeps its part when its request and its driver's status stay.
LEMMA OthersKept ==
    ASSUME CommitInv, NEW w \in Writers, NEW r, op' = [op EXCEPT ![w] = r],
           \A t \in Tasks : t # w => runtime'[t] = runtime[t],
           NEW v \in Writers, v # w
    PROVE  op'[v] = op[v] /\ OpInv(v)'
  <1>1. op'[v] = op[v] /\ OpInv(v)
    BY DEF CommitInv, TypeOK
  <1>2. op[v].change.kind \in {"verdict", "transition", "envelope", "runtime"} /\ ChangeOK(op[v].change)
           /\ op[v].change.task = v => runtime'[v] = runtime[v]
    BY DEF ChangeOK
  <1>3. QED
    BY <1>1, <1>2 DEF OpInv

-----------------------------------------------------------------------------
(* Every action keeps the invariant. *)

LEMMA WritersAreSomebody == Nobody \notin Writers
  BY NobodyIsNone DEF Writers

\* A goroutine that is done has nothing to answer for.
LEMMA IdleKeeps ==
    ASSUME TypeOK, NEW w \in Writers, op' = [op EXCEPT ![w] = Idle]
    PROVE  /\ op' \in [Writers -> OpRecords] /\ op'[w] = Idle
           /\ op'[w].stage = "idle" /\ op'[w].change = Nothing /\ OpInv(w)'
  <1>1. Idle \in OpRecords /\ Idle.stage = "idle" /\ Idle.change = Nothing
    BY DEF Idle, Nothing, OpRecords, Change, Kinds
  <1>2. op' \in [Writers -> OpRecords] /\ op'[w] = Idle
    BY <1>1 DEF TypeOK, OpRecords
  <1>3. Nothing.kind = "telemetry"
    BY DEF Nothing
  <1>4. OpInv(w)'
    BY <1>1, <1>2, <1>3 DEF OpInv, ChangeOK
  <1>5. QED
    BY <1>1, <1>2, <1>4

\* A request is well formed and does not break the driver's word.
LEMMA AskKeeps ==
    ASSUME CommitInv, NEW w \in Writers, NEW stage \in {"commit", "telemetry"},
           NEW c \in Change, Ask(w, stage, c), ChangeOK(c),
           stage = "telemetry" => c.kind \in {"telemetry", "verdict"},
           c.kind = "verdict" =>
              stage = "telemetry" /\ w \in Tasks /\ c.task = w /\ c.to \in Verdicts /\ runtime[w] = c.to,
           c.kind \in {"transition", "envelope", "runtime"} =>
              c.task = w /\ (runtime[w] \in Verdicts => c.to # "verifying")
    PROVE  CommitInv'
  <1>1. /\ UNCHANGED <<log, torn, disk, up, mem, candidate, accepting, nextSeq, mu, runtime, syncFailures>>
        /\ op' = [op EXCEPT ![w] = [stage |-> stage, change |-> c]] /\ up = TRUE /\ mu = Nobody
    BY DEF Ask, CommitInv, TypeOK
  <1>2. op'[w] = [stage |-> stage, change |-> c]
    BY <1>1 DEF CommitInv, TypeOK
  <1>3. \A v \in Writers : v # w => op'[v] = op[v]
    BY <1>1 DEF CommitInv, TypeOK
  <1>4. TypeOK'
    <2>1. [stage |-> stage, change |-> c] \in OpRecords
      BY DEF OpRecords
    <2>2. op' \in [Writers -> OpRecords]
      BY <1>1, <2>1 DEF CommitInv, TypeOK, OpRecords
    <2>3. QED
      BY <1>1, <2>2 DEF CommitInv, TypeOK, OpRecords
  <1>5. MutexInv'
    BY <1>1, <1>2, <1>3 DEF CommitInv, MutexInv
  <1>6. VerdictInv' /\ LogInv'
    BY <1>1 DEF CommitInv, VerdictInv, LogInv
  <1>7. CheckpointInv'
    BY <1>1 DEF CommitInv, CheckpointInv, CaughtUp
  <1>8. OpInv(w)'
    BY <1>1, <1>2 DEF OpInv
  <1>9. \A v \in Writers : OpInv(v)'
    BY <1>1, <1>8, OthersKept
  <1>10. QED
    BY <1>4, <1>5, <1>6, <1>7, <1>9 DEF CommitInv

LEMMA RequestKeeps == ASSUME CommitInv, Request PROVE CommitInv'
  <1>1. Tasks \subseteq Writers /\ Clients \subseteq Writers
    BY DEF Writers
  <1>2. mem \in Snapshot /\ runtime \in [Tasks -> TaskStatuses]
    BY DEF CommitInv, TypeOK
  <1> DEFINE C(k, t, f, to) == [kind |-> k, task |-> t, from |-> f, to |-> to]
  <1>3. ASSUME NEW k \in Kinds, NEW t \in Tasks \cup {NoTask},
               NEW f \in TaskStatuses \cup RunStatuses \cup {""},
               NEW to \in TaskStatuses \cup RunStatuses \cup {""}
        PROVE  C(k, t, f, to) \in Change
    BY DEF Change
  <1>4. Nothing = C("telemetry", NoTask, "", "")
    BY DEF Nothing
  <1>5. ASSUME NEW w \in Writers, NEW status \in RunStatuses, setRunStatus(w, status)
        PROVE  CommitInv'
    <2>1. PICK c \in Change : c = C("run", NoTask, mem.run, status)
      BY <1>2, <1>3 DEF Kinds, Snapshot
    <2>2. ChangeOK(c) /\ c.kind = "run"
      BY <2>1 DEF ChangeOK
    <2>3. Ask(w, "commit", c)
      BY <1>5, <2>1 DEF setRunStatus
    <2>4. QED
      BY <2>2, <2>3, AskKeeps
  <1>6. ASSUME NEW t \in Tasks, StartAttempt(t) PROVE CommitInv'
    BY <1>1, <1>5, <1>6 DEF StartAttempt, RunStatuses
  <1>7. ASSUME NEW w \in Writers, Degrade(w) PROVE CommitInv'
    BY <1>5, <1>7 DEF Degrade, RunStatuses
  <1>8. ASSUME NEW t \in Tasks, NEW k \in {"transition", "envelope", "runtime"},
               NEW f \in TaskStatuses \cup {""}, NEW to \in TaskStatuses,
               Ask(t, "commit", C(k, t, f, to)),
               runtime[t] \in Verdicts => to # "verifying"
        PROVE  CommitInv'
    <2>1. PICK c \in Change : c = C(k, t, f, to)
      BY <1>3 DEF Kinds
    <2>2. ChangeOK(c) /\ c.kind \in {"transition", "envelope", "runtime"} /\ c.task = t /\ c.to = to
      BY <2>1 DEF ChangeOK
    <2>3. QED
      BY <1>1, <1>8, <2>1, <2>2, AskKeeps
  <1>9. ASSUME NEW t \in Tasks, NEW next \in TaskStatuses, transitionTask(t, next) PROVE CommitInv'
    <2>1. runtime[t] \in Verdicts => next # "verifying"
      BY <1>9 DEF transitionTask, ValidateTaskTransition, TaskTransitions, Verdicts
    <2>2. runtime[t] \in TaskStatuses
      BY <1>2
    <2>3. Ask(t, "commit", C("transition", t, runtime[t], next))
      BY <1>9 DEF transitionTask
    <2>4. QED
      BY <1>8, <2>1, <2>2, <2>3
  <1>10. ASSUME NEW t \in Tasks, NEW next \in {"blocked", "failed", "cancelled"},
                applyResultEnvelope(t, next) PROVE CommitInv'
    <2>1. next \in TaskStatuses /\ next # "verifying" /\ runtime[t] \in TaskStatuses
      BY <1>2 DEF TaskStatuses
    <2>2. Ask(t, "commit", C("envelope", t, runtime[t], next))
      BY <1>10 DEF applyResultEnvelope
    <2>3. QED
      BY <1>8, <2>1, <2>2
  <1>11. ASSUME NEW t \in Tasks, saveRuntime(t) PROVE CommitInv'
    <2>1. runtime[t] \in TaskStatuses /\ (runtime[t] \in Verdicts => runtime[t] # "verifying")
      BY <1>2 DEF Verdicts
    <2>2. Ask(t, "commit", C("runtime", t, "", runtime[t]))
      BY <1>11 DEF saveRuntime
    <2>3. QED
      BY <1>8, <2>1, <2>2
  <1>12. ASSUME NEW v \in Clients, NEW t \in Tasks, setTaskWaiting(v, t) PROVE CommitInv'
    <2>1. PICK c \in Change : c = C("waiting", t, "running", "blocked")
      BY <1>3 DEF Kinds, TaskStatuses
    <2>2. ChangeOK(c) /\ c.kind = "waiting"
      BY <2>1 DEF ChangeOK
    <2>3. Ask(v, "commit", c)
      BY <1>12, <2>1 DEF setTaskWaiting
    <2>4. QED
      BY <1>1, <2>2, <2>3, AskKeeps
  <1>13. ASSUME NEW v \in Clients, NEW t \in Tasks, NEW b \in BOOLEAN, recomputeTaskWaiting(v, t, b)
         PROVE  CommitInv'
    <2>1. PICK k \in {"pending", "cleared"} : k = IF b THEN "pending" ELSE "cleared"
      OBVIOUS
    <2>2. PICK c \in Change : c = C(k, t, "", "")
      BY <1>3 DEF Kinds
    <2>3. ChangeOK(c) /\ c.kind \in {"pending", "cleared"}
      BY <2>2 DEF ChangeOK
    <2>4. Ask(v, "commit", c)
      BY <1>13, <2>1, <2>2, Zenon DEF recomputeTaskWaiting
    <2>5. QED
      BY <1>1, <2>3, <2>4, AskKeeps
  <1>14. ASSUME NEW w \in Writers, NEW stage \in {"commit", "telemetry"}, Ask(w, stage, Nothing)
         PROVE  CommitInv'
    <2>1. PICK c \in Change : c = Nothing
      BY <1>3, <1>4 DEF Kinds
    <2>2. ChangeOK(c) /\ c.kind = "telemetry"
      BY <2>1 DEF ChangeOK, Nothing
    <2>3. QED
      BY <1>14, <2>1, <2>2, AskKeeps
  <1>15. ASSUME NEW v \in Clients, CommitCounted(v) PROVE CommitInv'
    BY <1>1, <1>14, <1>15 DEF CommitCounted
  <1>16. ASSUME NEW w \in Writers, appendEvent(w) PROVE CommitInv'
    BY <1>14, <1>16 DEF appendEvent
  <1>17. ASSUME NEW t \in Tasks, AppendVerdict(t) PROVE CommitInv'
    <2>1. runtime[t] \in Verdicts /\ runtime[t] \in TaskStatuses
      BY <1>2, <1>17 DEF AppendVerdict, Verdicts
    <2>2. PICK c \in Change : c = C("verdict", t, "", runtime[t])
      BY <1>3, <2>1 DEF Kinds
    <2>3. ChangeOK(c) /\ c.kind = "verdict" /\ c.task = t /\ c.to = runtime[t]
      BY <2>1, <2>2 DEF ChangeOK
    <2>4. Ask(t, "telemetry", c)
      BY <1>17, <2>2 DEF AppendVerdict
    <2>5. QED
      BY <1>1, <2>1, <2>3, <2>4, AskKeeps
  <1>18. ASSUME NEW t \in Tasks, refreshTaskRuntime(t) PROVE CommitInv'
    <2>1. /\ UNCHANGED <<log, torn, disk, up, mem, candidate, accepting, nextSeq, mu, syncFailures>>
          /\ op' = [op EXCEPT ![t] = Idle] /\ runtime' = [runtime EXCEPT ![t] = mem.task[t]]
          /\ up = TRUE /\ mu = Nobody
      BY <1>18 DEF refreshTaskRuntime, CommitInv, TypeOK
    <2>2. op'[t] = Idle /\ Idle.stage = "idle" /\ Idle.change = Nothing /\ runtime'[t] = mem.task[t]
      BY <1>1, <2>1 DEF CommitInv, TypeOK, Idle
    <2>3. \A v \in Tasks : v # t => runtime'[v] = runtime[v]
      BY <2>1, <1>2
    <2>4. \A v \in Writers : v # t => op'[v] = op[v]
      BY <2>1 DEF CommitInv, TypeOK
    <2>5. TypeOK'
      <3>1. op' \in [Writers -> OpRecords]
        BY <1>1, <2>1, IdleKeeps DEF CommitInv
      <3>2. mem.task[t] \in TaskStatuses
        BY <1>2 DEF Snapshot
      <3>3. runtime' \in [Tasks -> TaskStatuses]
        BY <1>2, <2>1, <3>2
      <3>4. QED
        BY <2>1, <3>1, <3>3 DEF CommitInv, TypeOK, OpRecords
    <2>6. MutexInv'
      BY <1>1, <2>1, <2>2, <2>4 DEF CommitInv, MutexInv
    <2>7. VerdictInv'
      BY <2>1, <2>2, <2>3 DEF CommitInv, VerdictInv, Verdicts
    <2>8. LogInv'
      BY <2>1 DEF CommitInv, LogInv
    <2>9. CheckpointInv'
      BY <2>1 DEF CommitInv, CheckpointInv, CaughtUp
    <2>10. \A v \in Writers : OpInv(v)'
      <3>1. OpInv(t)'
        BY <1>1, <2>1, IdleKeeps DEF CommitInv
      <3>2. QED
        BY <1>1, <2>1, <2>3, <3>1, OthersKept
    <2>11. QED
      BY <2>5, <2>6, <2>7, <2>8, <2>9, <2>10 DEF CommitInv
  <1>19. QED
    BY <1>6, <1>7, <1>9, <1>10, <1>11, <1>12, <1>13, <1>15, <1>16, <1>17, <1>18 DEF Request

LEMMA CommitRefusedKeeps == ASSUME CommitInv, NEW w \in Writers, CommitRefused(w) PROVE CommitInv'
  <1>1. /\ UNCHANGED <<log, torn, disk, up, mem, candidate, accepting, nextSeq, mu, runtime, syncFailures>>
        /\ op' = [op EXCEPT ![w] = Idle] /\ up = TRUE /\ mu = Nobody
    BY DEF CommitRefused, CommitInv, TypeOK
  <1>2. op' \in [Writers -> OpRecords] /\ op'[w].stage = "idle" /\ OpInv(w)'
    BY <1>1, IdleKeeps DEF CommitInv
  <1>3. \A v \in Writers : v # w => op'[v] = op[v] /\ OpInv(v)'
    BY <1>1, OthersKept
  <1>4. TypeOK'
    BY <1>1, <1>2 DEF CommitInv, TypeOK, OpRecords
  <1>5. MutexInv'
    BY <1>1, <1>2, <1>3 DEF CommitInv, MutexInv
  <1>6. VerdictInv' /\ LogInv'
    BY <1>1 DEF CommitInv, VerdictInv, LogInv
  <1>7. CheckpointInv'
    BY <1>1 DEF CommitInv, CheckpointInv, CaughtUp
  <1>8. QED
    BY <1>2, <1>3, <1>4, <1>5, <1>6, <1>7 DEF CommitInv

LEMMA CommitEventKeeps == ASSUME CommitInv, NEW w \in Writers, CommitEvent(w) PROVE CommitInv'
  <1>1. /\ UNCHANGED <<disk, up, mem, accepting, runtime>> /\ up = TRUE /\ accepting = TRUE
        /\ mu = Nobody /\ mu' = w /\ op' = [op EXCEPT ![w].stage = "snapshot"]
        /\ Written(op[w].change)
    BY DEF CommitEvent, CommitInv, TypeOK
  <1>2. PICK s \in Mutated(mem, op[w].change) : candidate' = [s EXCEPT !.applied = nextSeq]
    BY DEF CommitEvent
  <1>3. TypeOK /\ LogInv /\ OpInv(w) /\ op[w] \in OpRecords /\ mem \in Snapshot
    BY DEF CommitInv, TypeOK, OpRecords
  <1>4. op[w].change \in Change /\ ChangeOK(op[w].change)
    BY <1>3 DEF OpRecords, OpInv
  <1>5. PICK r \in OpRecords : r = [op[w] EXCEPT !.stage = "snapshot"]
    BY <1>3 DEF OpRecords
  <1>6. r.stage = "snapshot" /\ r.change = op[w].change /\ op' = [op EXCEPT ![w] = r]
    BY <1>1, <1>3, <1>5 DEF OpRecords
  <1>7. op'[w] = r /\ op' \in [Writers -> OpRecords]
    BY <1>6 DEF CommitInv, TypeOK, OpRecords
  <1>8. \A v \in Writers : v # w => op'[v] = op[v] /\ OpInv(v)'
    BY <1>1, <1>6, OthersKept
  <1>9. /\ s \in Snapshot
        /\ \A t \in Tasks : s.task[t] = "verifying" =>
              \/ mem.task[t] = "verifying"
              \/ /\ op[w].change.kind \in {"transition", "envelope", "runtime"}
                 /\ op[w].change.task = t /\ op[w].change.to = "verifying"
    BY <1>2, <1>3, <1>4, MutatedOK
  <1>10. candidate' \in Snapshot /\ candidate'.task = s.task /\ candidate'.applied = nextSeq
    BY <1>2, <1>9 DEF CommitInv, TypeOK, Snapshot
  <1>11. nextSeq \in Nat /\ nextSeq' = nextSeq + 1 /\ syncFailures' = syncFailures /\ torn' = torn
    BY <1>1 DEF CommitInv, TypeOK, Written
  <1>12. log' \in Seq(Lines)
    BY <1>1, <1>3, <1>4, AppendEffects
  <1>13. TypeOK'
    BY <1>1, <1>7, <1>10, <1>11, <1>12 DEF CommitInv, TypeOK, OpRecords, Lines
  <1>14. MutexInv'
    BY <1>1, <1>6, <1>7, <1>8, WritersAreSomebody DEF CommitInv, MutexInv
  <1>15. VerdictInv'
    <2>1. ASSUME NEW t \in Tasks, runtime[t] \in Verdicts PROVE candidate'.task[t] # "verifying"
      <3>1. mem.task[t] # "verifying"
        BY <2>1 DEF CommitInv, VerdictInv
      <3>2. op[w].stage = "commit"
        BY DEF CommitEvent
      <3>3. op[w].change.kind \in {"transition", "envelope", "runtime"} /\ op[w].change.task = t =>
               op[w].change.to # "verifying"
        BY <1>3, <2>1, <3>2 DEF OpInv
      <3>4. QED
        BY <1>9, <1>10, <3>1, <3>3
    <2>2. QED
      BY <1>1, <2>1 DEF CommitInv, VerdictInv
  <1>16. LogInv'
    <2>1. /\ Len(History) <= disk'.applied /\ disk'.applied < nextSeq'
          /\ Len(History) <= candidate'.applied /\ candidate'.applied < nextSeq'
      <3>1. Len(History) \in Nat /\ disk.applied \in Nat
        BY HistoryIsPast DEF CommitInv, TypeOK, Snapshot
      <3>2. QED
        BY <1>1, <1>3, <1>10, <1>11, <3>1 DEF LogInv
    <2>2. QED
      BY <1>1, <1>3, <1>4, <2>1, AppendKeepsLog DEF LogInv
  <1>17. CheckpointInv'
    <2>1. CaughtUp(candidate)'
      <3>1. \A i \in 1 .. Len(log') : log'[i].seq <= nextSeq
        BY <1>1, <1>3, <1>4, AppendKeepsLog
      <3>2. \A i \in 1 .. Len(log') : log'[i].seq \in Nat
        <4>1. \A i \in 1 .. Len(log') : log'[i] \in Lines
          BY <1>12
        <4>2. QED
          BY <4>1 DEF Lines
      <3>3. QED
        BY <1>10, <1>11, <3>1, <3>2 DEF CaughtUp
    <2>2. QED
      BY <1>1, <2>1, WritersAreSomebody DEF CheckpointInv
  <1>18. OpInv(w)'
    <2>1. op[w].stage = "commit"
      BY DEF CommitEvent
    <2>2. op[w].change.kind # "verdict"
      BY <1>3, <2>1 DEF OpInv
    <2>3. QED
      BY <1>1, <1>3, <1>6, <1>7, <2>1, <2>2 DEF OpInv
  <1>19. QED
    BY <1>8, <1>13, <1>14, <1>15, <1>16, <1>17, <1>18 DEF CommitInv

LEMMA CommitEventFailsKeeps ==
    ASSUME CommitInv, NEW w \in Writers, CommitEventFails(w) PROVE CommitInv'
  <1>1. /\ UNCHANGED <<disk, up, mem, candidate, mu, runtime>> /\ up = TRUE /\ accepting' = FALSE
        /\ mu = Nobody /\ op' = [op EXCEPT ![w] = Idle] /\ NotWritten(op[w].change)
    BY DEF CommitEventFails, CommitInv, TypeOK
  <1>2. op' \in [Writers -> OpRecords] /\ op'[w].stage = "idle" /\ OpInv(w)'
    BY <1>1, IdleKeeps DEF CommitInv
  <1>3. \A v \in Writers : v # w => op'[v] = op[v] /\ OpInv(v)'
    BY <1>1, OthersKept
  <1>4. TypeOK /\ LogInv /\ OpInv(w) /\ op[w] \in OpRecords
    BY DEF CommitInv, TypeOK, OpRecords
  <1>5. op[w].change \in Change /\ ChangeOK(op[w].change)
    BY <1>4 DEF OpRecords, OpInv
  <1>6. /\ log' \in Seq(Lines) /\ torn' \in BOOLEAN /\ syncFailures' \in 0 .. MaxSyncFailures
        /\ nextSeq' = nextSeq
    BY <1>1, <1>4, <1>5, AppendEffects DEF NotWritten
  <1>7. TypeOK'
    BY <1>1, <1>2, <1>6 DEF CommitInv, TypeOK, OpRecords, Lines
  <1>8. MutexInv'
    BY <1>1, <1>2, <1>3 DEF CommitInv, MutexInv
  <1>9. VerdictInv'
    BY <1>1 DEF CommitInv, VerdictInv
  <1>10. LogInv'
    BY <1>1, <1>4, <1>5, <1>6, AppendKeepsLog DEF LogInv
  <1>11. CheckpointInv'
    BY <1>1 DEF CheckpointInv
  <1>12. QED
    BY <1>2, <1>3, <1>7, <1>8, <1>9, <1>10, <1>11 DEF CommitInv

LEMMA CommitSnapshotKeeps == ASSUME CommitInv, NEW w \in Writers, CommitSnapshot(w) PROVE CommitInv'
  <1>1. /\ UNCHANGED <<log, torn, up, candidate, accepting, nextSeq, runtime, syncFailures>>
        /\ up = TRUE /\ disk' = candidate /\ mem' = candidate /\ mu' = Nobody /\ op[w].stage = "snapshot"
    BY DEF CommitSnapshot, CommitInv, TypeOK
  <1>2. mu = w /\ mu # Nobody /\ accepting = TRUE
    BY <1>1, WritersAreSomebody DEF CommitInv, MutexInv
  <1>3. op[w] \in OpRecords /\ OpInv(w)
    BY DEF CommitInv, TypeOK, OpRecords
  <1>4. PICK r : r = IF op[w].change.kind = "transition" THEN [op[w] EXCEPT !.stage = "refresh"] ELSE Idle
    OBVIOUS
  <1>5. op' = [op EXCEPT ![w] = r]
    BY <1>4 DEF CommitSnapshot, CommitInv, TypeOK
  <1>6. \/ r = Idle
        \/ r \in OpRecords /\ r.stage = "refresh" /\ r.change = op[w].change /\ r.change.kind = "transition"
    BY <1>3, <1>4 DEF OpRecords
  <1>7. /\ op' \in [Writers -> OpRecords] /\ op'[w].stage # "snapshot" /\ OpInv(w)'
    <2>1. CASE r = Idle
      <3>1. op' = [op EXCEPT ![w] = Idle]
        BY <1>5, <2>1
      <3>2. QED
        BY <3>1, IdleKeeps DEF CommitInv
    <2>2. CASE r \in OpRecords /\ r.stage = "refresh" /\ r.change = op[w].change /\ r.change.kind = "transition"
      <3>1. op' \in [Writers -> OpRecords] /\ op'[w] = r
        BY <1>5, <2>2 DEF CommitInv, TypeOK, OpRecords
      <3>2. OpInv(w)'
        BY <1>3, <2>2, <3>1 DEF OpInv
      <3>3. QED
        BY <2>2, <3>1, <3>2
    <2>3. QED
      BY <1>6, <2>1, <2>2
  <1>8. \A v \in Writers : v # w => op'[v] = op[v] /\ OpInv(v)'
    BY <1>1, <1>5, OthersKept
  <1>9. TypeOK'
    BY <1>1, <1>7 DEF CommitInv, TypeOK, OpRecords
  <1>10. MutexInv'
    BY <1>1, <1>2, <1>7, <1>8 DEF CommitInv, MutexInv
  <1>11. VerdictInv'
    BY <1>1, <1>2 DEF CommitInv, VerdictInv
  <1>12. LogInv'
    BY <1>1 DEF CommitInv, LogInv
  <1>13. CheckpointInv'
    BY <1>1, <1>2 DEF CommitInv, CheckpointInv, CaughtUp
  <1>14. QED
    BY <1>7, <1>8, <1>9, <1>10, <1>11, <1>12, <1>13 DEF CommitInv

LEMMA CommitSnapshotFailsKeeps ==
    ASSUME CommitInv, NEW w \in Writers, CommitSnapshotFails(w) PROVE CommitInv'
  <1>1. /\ UNCHANGED <<log, torn, up, mem, candidate, nextSeq, runtime, syncFailures>>
        /\ up = TRUE /\ disk' \in {disk, candidate} /\ accepting' = FALSE /\ mu' = Nobody
        /\ op' = [op EXCEPT ![w] = Idle] /\ op[w].stage = "snapshot"
    BY DEF CommitSnapshotFails, CommitInv, TypeOK
  <1>2. op' \in [Writers -> OpRecords] /\ op'[w].stage = "idle" /\ OpInv(w)'
    BY <1>1, IdleKeeps DEF CommitInv
  <1>3. \A v \in Writers : v # w => op'[v] = op[v] /\ OpInv(v)'
    BY <1>1, OthersKept
  <1>4. mu = w
    BY <1>1 DEF CommitInv, MutexInv
  <1>5. TypeOK'
    BY <1>1, <1>2 DEF CommitInv, TypeOK, OpRecords
  <1>6. MutexInv'
    BY <1>1, <1>2, <1>3, <1>4 DEF CommitInv, MutexInv
  <1>7. VerdictInv'
    BY <1>1 DEF CommitInv, VerdictInv
  <1>8. LogInv'
    BY <1>1 DEF CommitInv, LogInv
  <1>9. CheckpointInv'
    BY <1>1 DEF CheckpointInv
  <1>10. QED
    BY <1>2, <1>3, <1>5, <1>6, <1>7, <1>8, <1>9 DEF CommitInv

\* A telemetry line does not show, whatever the commit that runs beside it builds.
LEMMA TelemetryUnseen ==
    ASSUME CommitInv, NEW w \in Writers, op[w].stage = "telemetry",
           Written(op[w].change) \/ NotWritten(op[w].change),
           UNCHANGED <<disk, up, mem, candidate, accepting, mu>>
    PROVE  CheckpointInv'
  <1>1. TypeOK /\ OpInv(w) /\ op[w] \in OpRecords /\ VerdictInv /\ CheckpointInv
    BY DEF CommitInv, TypeOK, OpRecords
  <1>2. op[w].change \in Change /\ op[w].change.kind \in {"telemetry", "verdict"}
    BY <1>1 DEF OpRecords, OpInv
  <1>3. Unseen(op[w].change, mem) /\ (mu # Nobody => Unseen(op[w].change, candidate))
    BY <1>1, <1>2 DEF OpInv, VerdictInv, Unseen
  <1>4. ASSUME NEW s, CaughtUp(s), Unseen(op[w].change, s)
        PROVE  \A i \in 1 .. Len(log') : log'[i].seq > s.applied => Unseen(log'[i].change, s)
    <2>1. ASSUME NEW i \in 1 .. Len(log'), log'[i].seq > s.applied PROVE Unseen(log'[i].change, s)
      <3>1. CASE i \in 1 .. Len(log) /\ log'[i] = log[i]
        BY <1>4, <2>1, <3>1 DEF CaughtUp
      <3>2. CASE log'[i] = [seq |-> nextSeq, change |-> op[w].change]
        BY <1>4, <3>2
      <3>3. QED
        BY <1>1, <1>2, <3>1, <3>2, LinesOf, AppendEffects
    <2>2. QED
      BY <2>1
  <1>5. CaughtUp(mem) => CaughtUp(mem)'
    <2>1. ASSUME CaughtUp(mem) PROVE CaughtUp(mem)'
      <3>1. \A i \in 1 .. Len(log') : log'[i].seq > mem.applied => Unseen(log'[i].change, mem)
        BY <1>3, <1>4, <2>1
      <3>2. QED
        BY <3>1 DEF CaughtUp, Unseen
    <2>2. QED
      BY <2>1
  <1>6. mu # Nobody /\ CaughtUp(candidate) => CaughtUp(candidate)'
    <2>1. ASSUME mu # Nobody, CaughtUp(candidate) PROVE CaughtUp(candidate)'
      <3>1. \A i \in 1 .. Len(log') : log'[i].seq > candidate.applied => Unseen(log'[i].change, candidate)
        BY <1>3, <1>4, <2>1
      <3>2. QED
        BY <3>1 DEF CaughtUp, Unseen
    <2>2. QED
      BY <2>1
  <1>7. QED
    BY <1>1, <1>5, <1>6 DEF CheckpointInv

LEMMA TelemetryKeepsLog ==
    ASSUME CommitInv, NEW w \in Writers, Written(op[w].change) \/ NotWritten(op[w].change),
           UNCHANGED <<disk, candidate>>
    PROVE  /\ LogInv' /\ log' \in Seq(Lines) /\ torn' \in BOOLEAN /\ nextSeq' \in Nat \ {0}
           /\ syncFailures' \in 0 .. MaxSyncFailures
  <1>1. TypeOK /\ LogInv /\ OpInv(w) /\ op[w] \in OpRecords
    BY DEF CommitInv, TypeOK, OpRecords
  <1>2. op[w].change \in Change /\ ChangeOK(op[w].change)
    BY <1>1 DEF OpRecords, OpInv
  <1>3. /\ log' \in Seq(Lines) /\ torn' \in BOOLEAN /\ syncFailures' \in 0 .. MaxSyncFailures
        /\ nextSeq' \in Nat \ {0} /\ nextSeq <= nextSeq'
    BY <1>1, <1>2, AppendEffects
  <1>4. disk.applied < nextSeq' /\ candidate.applied < nextSeq'
    BY <1>1, <1>3 DEF LogInv, TypeOK, Snapshot
  <1>5. LogInv'
    BY <1>1, <1>2, <1>4, AppendKeepsLog DEF LogInv
  <1>6. QED
    BY <1>3, <1>5

LEMMA AppendTelemetryKeeps ==
    ASSUME CommitInv, NEW w \in Writers, AppendTelemetry(w) PROVE CommitInv'
  <1>1. /\ UNCHANGED <<disk, up, mem, candidate, accepting, mu, runtime>> /\ up = TRUE
        /\ op' = [op EXCEPT ![w] = Idle] /\ op[w].stage = "telemetry" /\ Written(op[w].change)
    BY DEF AppendTelemetry, CommitInv, TypeOK
  <1>2. op' \in [Writers -> OpRecords] /\ op'[w].stage = "idle" /\ OpInv(w)'
    BY <1>1, IdleKeeps DEF CommitInv
  <1>3. \A v \in Writers : v # w => op'[v] = op[v] /\ OpInv(v)'
    BY <1>1, OthersKept
  <1>4. /\ LogInv' /\ log' \in Seq(Lines) /\ torn' \in BOOLEAN /\ nextSeq' \in Nat \ {0}
        /\ syncFailures' \in 0 .. MaxSyncFailures
    BY <1>1, TelemetryKeepsLog
  <1>5. CheckpointInv'
    BY <1>1, TelemetryUnseen
  <1>6. TypeOK'
    BY <1>1, <1>2, <1>4 DEF CommitInv, TypeOK, OpRecords, Lines
  <1>7. MutexInv'
    BY <1>1, <1>2, <1>3 DEF CommitInv, MutexInv, TypeOK
  <1>8. VerdictInv'
    BY <1>1 DEF CommitInv, VerdictInv
  <1>9. QED
    BY <1>2, <1>3, <1>4, <1>5, <1>6, <1>7, <1>8 DEF CommitInv

LEMMA AppendTelemetryFailsKeeps ==
    ASSUME CommitInv, NEW w \in Writers, AppendTelemetryFails(w) PROVE CommitInv'
  <1>1. /\ UNCHANGED <<disk, up, mem, candidate, accepting, mu, runtime>> /\ up = TRUE
        /\ op' = [op EXCEPT ![w].stage = "close"] /\ op[w].stage = "telemetry" /\ NotWritten(op[w].change)
    BY DEF AppendTelemetryFails, CommitInv, TypeOK
  <1>2. op[w] \in OpRecords /\ OpInv(w)
    BY DEF CommitInv, TypeOK, OpRecords
  <1>3. PICK r \in OpRecords : r = [op[w] EXCEPT !.stage = "close"]
    BY <1>2 DEF OpRecords
  <1>4. r.stage = "close" /\ r.change = op[w].change /\ op' = [op EXCEPT ![w] = r]
    BY <1>1, <1>2, <1>3 DEF OpRecords
  <1>5. op'[w] = r /\ op' \in [Writers -> OpRecords]
    BY <1>4 DEF CommitInv, TypeOK, OpRecords
  <1>6. OpInv(w)'
    BY <1>1, <1>2, <1>4, <1>5 DEF OpInv
  <1>7. \A v \in Writers : v # w => op'[v] = op[v] /\ OpInv(v)'
    BY <1>1, <1>4, OthersKept
  <1>8. /\ LogInv' /\ log' \in Seq(Lines) /\ torn' \in BOOLEAN /\ nextSeq' \in Nat \ {0}
        /\ syncFailures' \in 0 .. MaxSyncFailures
    BY <1>1, TelemetryKeepsLog
  <1>9. CheckpointInv'
    BY <1>1, TelemetryUnseen
  <1>10. TypeOK'
    BY <1>1, <1>5, <1>8 DEF CommitInv, TypeOK, OpRecords, Lines
  <1>11. MutexInv'
    BY <1>1, <1>4, <1>5, <1>7 DEF CommitInv, MutexInv, TypeOK
  <1>12. VerdictInv'
    BY <1>1 DEF CommitInv, VerdictInv
  <1>13. QED
    BY <1>6, <1>7, <1>8, <1>9, <1>10, <1>11, <1>12 DEF CommitInv

LEMMA FailCloseKeeps == ASSUME CommitInv, NEW w \in Writers, FailClose(w) PROVE CommitInv'
  <1>1. /\ UNCHANGED <<log, torn, disk, up, mem, candidate, nextSeq, mu, runtime, syncFailures>>
        /\ up = TRUE /\ mu = Nobody /\ accepting' = FALSE /\ op' = [op EXCEPT ![w] = Idle]
    BY DEF FailClose, CommitInv, TypeOK
  <1>2. op' \in [Writers -> OpRecords] /\ op'[w].stage = "idle" /\ OpInv(w)'
    BY <1>1, IdleKeeps DEF CommitInv
  <1>3. \A v \in Writers : v # w => op'[v] = op[v] /\ OpInv(v)'
    BY <1>1, OthersKept
  <1>4. TypeOK'
    BY <1>1, <1>2 DEF CommitInv, TypeOK, OpRecords
  <1>5. MutexInv'
    BY <1>1, <1>2, <1>3 DEF CommitInv, MutexInv
  <1>6. VerdictInv' /\ LogInv'
    BY <1>1 DEF CommitInv, VerdictInv, LogInv
  <1>7. CheckpointInv'
    BY <1>1 DEF CheckpointInv
  <1>8. QED
    BY <1>2, <1>3, <1>4, <1>5, <1>6, <1>7 DEF CommitInv

\* Nobody is about to persist anything.
LEMMA AllIdle ==
    ASSUME op' = [w \in Writers |-> Idle]
    PROVE  /\ op' \in [Writers -> OpRecords]
           /\ \A w \in Writers : op'[w] = Idle /\ op'[w].stage = "idle" /\ OpInv(w)'
  <1>1. Idle \in OpRecords /\ Idle.stage = "idle" /\ Idle.change = Nothing
    BY DEF Idle, Nothing, OpRecords, Change, Kinds
  <1>2. op' \in [Writers -> OpRecords] /\ \A w \in Writers : op'[w] = Idle
    BY <1>1
  <1>3. Nothing.kind = "telemetry"
    BY DEF Nothing
  <1>4. QED
    BY <1>1, <1>2, <1>3 DEF OpInv, ChangeOK

LEMMA CrashKeeps == ASSUME CommitInv, Crash PROVE CommitInv'
  <1>1. /\ UNCHANGED <<log, torn, disk, mem, candidate, accepting, nextSeq, runtime, syncFailures>>
        /\ up' = FALSE /\ mu' = Nobody /\ op' = [w \in Writers |-> Idle]
    BY DEF Crash
  <1>2. /\ op' \in [Writers -> OpRecords]
        /\ \A w \in Writers : op'[w] = Idle /\ op'[w].stage = "idle" /\ OpInv(w)'
    BY <1>1, AllIdle
  <1>3. TypeOK'
    BY <1>1, <1>2 DEF CommitInv, TypeOK, OpRecords
  <1>4. MutexInv'
    BY <1>1, <1>2 DEF MutexInv
  <1>5. VerdictInv' /\ LogInv'
    BY <1>1 DEF CommitInv, VerdictInv, LogInv
  <1>6. CheckpointInv'
    BY <1>1 DEF CheckpointInv
  <1>7. QED
    BY <1>2, <1>3, <1>4, <1>5, <1>6 DEF CommitInv

\* The snapshot a Load installs: typed, and up to the last line of the log.
LEMMA RecoveredIsCurrent ==
    ASSUME CommitInv, LoadOK
    PROVE  /\ Recovered.snapshot \in Snapshot
           /\ lastSequence \in Nat /\ Recovered.snapshot.applied = lastSequence
           /\ \A i \in 1 .. Len(log) : log[i].seq \in Nat /\ log[i].seq <= lastSequence
  <1>1. log \in Seq(Lines) /\ Len(log) \in Nat /\ disk \in Snapshot /\ disk.applied \in Nat
    BY DEF CommitInv, TypeOK, Lines, Snapshot
  <1>2. \A i \in 1 .. Len(log) : log[i] \in Lines /\ log[i].seq \in Nat
    <2>1. \A i \in 1 .. Len(log) : log[i] \in Lines
      BY <1>1
    <2>2. QED
      BY <2>1 DEF Lines
  <1>3. \A i \in 1 .. Len(log) : log[i].seq <= disk.applied \/ ChangeOK(log[i].change)
    <2>1. Len(History) \in Nat
      BY HistoryIsPast
    <2>2. QED
      BY <1>1, <1>2, <2>1 DEF CommitInv, LogInv
  <1>4. PICK f : Replay(disk, log, Len(log), f) /\ Recovered = f[Len(log)]
    BY <1>1, ReplayUnfolds DEF Recovered
  <1>5. Recovered \in [ok : BOOLEAN, snapshot : Snapshot]
    BY <1>1, <1>3, <1>4, ReplayType
  <1>6. Monotonic(log) /\ disk.applied <= lastSequence /\ Recovered.ok
    BY DEF LoadOK
  <1>7. Recovered.snapshot.applied =
           IF Len(log) # 0 /\ log[Len(log)].seq > disk.applied THEN log[Len(log)].seq ELSE disk.applied
    BY <1>1, <1>3, <1>4, <1>6, ReplayApplied
  <1>8. CASE Len(log) = 0
    <2>1. log = <<>>
      BY <1>1, <1>8
    <2>2. lastSequence = 0
      BY <2>1 DEF lastSequence
    <2>3. QED
      BY <1>1, <1>5, <1>6, <1>7, <1>8, <2>2
  <1>9. CASE Len(log) # 0
    <2>1. log # <<>> /\ Len(log) \in 1 .. Len(log)
      BY <1>1, <1>9
    <2>2. lastSequence = log[Len(log)].seq /\ lastSequence \in Nat
      BY <1>2, <2>1 DEF lastSequence
    <2>3. \A i \in 1 .. Len(log) : log[i].seq <= lastSequence
      BY <1>1, <1>6, <2>2, SortedLines
    <2>4. Recovered.snapshot.applied = lastSequence
      BY <1>1, <1>6, <1>7, <1>9, <2>2
    <2>5. QED
      BY <1>2, <1>5, <2>2, <2>3, <2>4
  <1>10. QED
    BY <1>8, <1>9

LEMMA LoadKeeps == ASSUME CommitInv, Load PROVE CommitInv'
  <1>1. /\ UNCHANGED <<log, mu, op, syncFailures>> /\ up = FALSE /\ LoadOK
        /\ up' = TRUE /\ accepting' = TRUE /\ torn' = FALSE
        /\ disk' = Recovered.snapshot /\ mem' = disk' /\ candidate' = disk'
        /\ nextSeq' = lastSequence + 1 /\ runtime' = [t \in Tasks |-> disk'.task[t]]
    BY DEF Load, CommitInv, TypeOK
  <1>2. /\ disk' \in Snapshot /\ lastSequence \in Nat /\ disk'.applied = lastSequence
        /\ \A i \in 1 .. Len(log) : log[i].seq \in Nat /\ log[i].seq <= lastSequence
    BY <1>1, RecoveredIsCurrent
  <1>3. mu = Nobody /\ mu' = Nobody /\ \A w \in Writers : op[w] = Idle
    BY <1>1 DEF CommitInv, MutexInv
  <1>4. op = [w \in Writers |-> Idle]
    BY <1>3 DEF CommitInv, TypeOK
  <1>5. /\ op' \in [Writers -> OpRecords]
        /\ \A w \in Writers : op'[w] = Idle /\ op'[w].stage = "idle" /\ OpInv(w)'
    BY <1>1, <1>4, AllIdle
  <1>6. runtime' \in [Tasks -> TaskStatuses] /\ \A t \in Tasks : runtime'[t] = mem'.task[t]
    BY <1>1, <1>2 DEF Snapshot
  <1>7. TypeOK'
    <2>1. nextSeq' \in Nat \ {0} /\ mem' \in Snapshot /\ candidate' \in Snapshot
      BY <1>1, <1>2
    <2>2. log' \in Seq(Lines) /\ mu' \in Writers \cup {Nobody} /\ syncFailures' \in 0 .. MaxSyncFailures
      BY <1>1 DEF CommitInv, TypeOK, Lines
    <2>3. torn' \in BOOLEAN /\ up' \in BOOLEAN /\ accepting' \in BOOLEAN
      BY <1>1
    <2>4. QED
      BY <1>2, <1>5, <1>6, <2>1, <2>2, <2>3 DEF TypeOK, OpRecords, Lines
  <1>8. MutexInv'
    BY <1>1, <1>3, <1>5 DEF MutexInv
  <1>9. VerdictInv'
    BY <1>3, <1>6 DEF VerdictInv, Verdicts
  <1>10. LogInv'
    <2>1. Len(History) \in Nat /\ disk.applied \in Nat /\ Len(log) \in Nat
      BY HistoryIsPast DEF CommitInv, TypeOK, Snapshot
    <2>2. Len(History) <= disk'.applied /\ disk'.applied < nextSeq'
      BY <1>1, <1>2, <2>1 DEF CommitInv, LogInv, LoadOK
    <2>3. \A i \in 1 .. Len(log) :
             log[i].seq <= nextSeq' /\ (log[i].seq <= Len(History) \/ ChangeOK(log[i].change))
      BY <1>1, <1>2 DEF CommitInv, LogInv
    <2>4. ASSUME syncFailures = 0
          PROVE  nextSeq' = Len(log) + 1 /\ \A i \in 1 .. Len(log) : log[i].seq = i
      <3>1. \A i \in 1 .. Len(log) : log[i].seq = i
        BY <2>4 DEF CommitInv, LogInv
      <3>2. lastSequence = Len(log)
        <4>1. log \in Seq(Lines)
          BY DEF CommitInv, TypeOK, Lines
        <4>2. CASE log = <<>>
          BY <4>2 DEF lastSequence
        <4>3. CASE log # <<>>
          <5>1. Len(log) \in 1 .. Len(log)
            BY <4>1, <4>3
          <5>2. QED
            BY <3>1, <4>3, <5>1 DEF lastSequence
        <4>4. QED
          BY <4>2, <4>3
      <3>3. QED
        BY <1>1, <3>1, <3>2
    <2>5. QED
      BY <1>1, <2>2, <2>3, <2>4 DEF LogInv
  <1>11. CheckpointInv'
    <2>1. CaughtUp(mem)'
      BY <1>1, <1>2 DEF CaughtUp
    <2>2. QED
      BY <1>1, <1>3, <2>1 DEF CheckpointInv
  <1>12. QED
    BY <1>5, <1>7, <1>8, <1>9, <1>10, <1>11 DEF CommitInv

-----------------------------------------------------------------------------
(* The theorems. *)

\* Before the first step the checkpoint has seen all of History.
LEMMA InitCommit == Init => CommitInv
  <1> SUFFICES ASSUME Init PROVE CommitInv
    OBVIOUS
  <1>1. /\ log = HistoryLines /\ torn = FALSE /\ up = TRUE /\ accepting = TRUE
        /\ disk = Begun.snapshot /\ mem = disk /\ candidate = disk /\ nextSeq = Len(History) + 1
        /\ mu = Nobody /\ op = [w \in Writers |-> Idle] /\ runtime = disk.task /\ syncFailures = 0
    BY DEF Init
  <1>2. /\ History \in Seq(Change) /\ Len(History) \in Nat /\ DOMAIN History = 1 .. Len(History)
        /\ disk \in Snapshot /\ disk.applied = Len(History)
    BY <1>1, HistoryIsPast
  <1>3. /\ log = [i \in 1 .. Len(History) |-> [seq |-> i, change |-> History[i]]]
    BY <1>1, <1>2 DEF HistoryLines
  <1>4. log \in Seq(Lines) /\ Len(log) = Len(History)
    <2>1. \A i \in 1 .. Len(History) : [seq |-> i, change |-> History[i]] \in Lines
      BY <1>2 DEF Lines
    <2>2. QED
      BY <1>2, <1>3, <2>1
  <1>5. \A i \in 1 .. Len(log) : log[i].seq = i
    BY <1>2, <1>3, <1>4
  <1>6. Idle \in OpRecords /\ Idle.stage = "idle" /\ Idle.change = Nothing /\ Nothing.kind = "telemetry"
    BY DEF Idle, Nothing, OpRecords, Change, Kinds
  <1>7. op \in [Writers -> OpRecords] /\ \A w \in Writers : op[w] = Idle
    BY <1>1, <1>6
  <1>8. TypeOK
    <2>1. runtime \in [Tasks -> TaskStatuses]
      BY <1>1, <1>2 DEF Snapshot
    <2>2. nextSeq \in Nat \ {0} /\ syncFailures \in 0 .. MaxSyncFailures
      BY <1>1, <1>2, MaxSyncIsNat
    <2>3. QED
      BY <1>1, <1>2, <1>4, <1>7, <2>1, <2>2 DEF TypeOK, Lines, OpRecords
  <1>9. MutexInv
    BY <1>1, <1>6, <1>7 DEF MutexInv
  <1>10. VerdictInv
    BY <1>1 DEF VerdictInv, Verdicts
  <1>11. LogInv
    BY <1>1, <1>2, <1>4, <1>5 DEF LogInv
  <1>12. CheckpointInv
    BY <1>1, <1>2, <1>4, <1>5 DEF CheckpointInv, CaughtUp
  <1>13. \A w \in Writers : OpInv(w)
    BY <1>6, <1>7 DEF OpInv, ChangeOK
  <1>14. QED
    BY <1>8, <1>9, <1>10, <1>11, <1>12, <1>13 DEF CommitInv

LEMMA StepCommit == CommitInv /\ [Next]_vars => CommitInv'
  <1> SUFFICES ASSUME CommitInv, [Next]_vars PROVE CommitInv'
    OBVIOUS
  <1>1. CASE Request
    BY <1>1, RequestKeeps
  <1>2. ASSUME NEW w \in Writers, Persist(w) PROVE CommitInv'
    BY <1>2, CommitRefusedKeeps, CommitEventKeeps, CommitEventFailsKeeps, CommitSnapshotKeeps,
       CommitSnapshotFailsKeeps, AppendTelemetryKeeps, AppendTelemetryFailsKeeps, FailCloseKeeps
       DEF Persist
  <1>3. CASE Crash
    BY <1>3, CrashKeeps
  <1>4. CASE Load
    BY <1>4, LoadKeeps
  <1>5. CASE UNCHANGED vars
    <2>1. UNCHANGED <<log, torn, disk, up, mem, candidate, accepting, nextSeq, mu, op, runtime,
                      syncFailures>>
      BY <1>5 DEF vars
    <2>2. TypeOK' /\ MutexInv' /\ VerdictInv' /\ LogInv'
      BY <2>1 DEF CommitInv, TypeOK, MutexInv, VerdictInv, LogInv
    <2>3. CheckpointInv'
      BY <2>1 DEF CommitInv, CheckpointInv, CaughtUp
    <2>4. \A w \in Writers : OpInv(w)'
      BY <2>1 DEF CommitInv, OpInv
    <2>5. QED
      BY <2>2, <2>3, <2>4 DEF CommitInv
  <1>6. QED
    BY <1>1, <1>2, <1>3, <1>4, <1>5 DEF Next

\* The inductive invariant of the commit protocol (commit.go, state_commit.go): a commit holds
\* the mutex from its append to its checkpoint, what was appended past the checkpoint does not
\* show in a replay, and no driver is overtaken by a return to verifying once it saw a verdict.
THEOREM CommitInvariant == Spec => []CommitInv
  BY InitCommit, StepCommit, PTL DEF Spec

\* The log of event.Store numbers its lines 1, 2, 3 ... and the checkpoint is never ahead of
\* it, until an append reports an error after a complete write; TypeOK is part of it.
THEOREM LogStaysIntact == Spec => []LogIntact
  <1>1. CommitInv => LogIntact
    <2> SUFFICES ASSUME CommitInv PROVE LogIntact
      OBVIOUS
    <2>1. TypeOK
      BY DEF CommitInv
    <2>2. ASSUME syncFailures = 0
          PROVE  (\A i \in 1 .. Len(log) : log[i].seq = i) /\ disk.applied <= Len(log)
      <3>1. disk.applied \in Nat /\ Len(log) \in Nat
        BY DEF CommitInv, TypeOK, Snapshot
      <3>2. QED
        BY <2>2, <3>1 DEF CommitInv, LogInv
    <2>3. QED
      BY <2>1, <2>2 DEF LogIntact
  <1>2. QED
    BY <1>1, CommitInvariant, PTL

\* Between commits the replay of Load, over a log of any length, restores the Run and task
\* statuses that were in memory.
THEOREM RestartRestoresMemory == Spec => []RecoversMemory
  <1>1. CommitInv => RecoversMemory
    <2> SUFFICES ASSUME CommitInv, up = TRUE, accepting = TRUE, mu = Nobody, LoadOK
                 PROVE  Recovered.snapshot.run = mem.run /\ Recovered.snapshot.task = mem.task
      BY DEF RecoversMemory, CommitInv, TypeOK
    <2>1. log \in Seq(Lines) /\ Len(log) \in Nat /\ disk \in Snapshot /\ disk = mem
      BY DEF CommitInv, TypeOK, Lines, CheckpointInv
    <2>2. \A i \in 1 .. Len(log) : log[i].seq > disk.applied => Unseen(log[i].change, disk)
      BY <2>1 DEF CommitInv, CheckpointInv, CaughtUp
    <2>3. \A i \in 1 .. Len(log) : log[i].seq <= disk.applied \/ ChangeOK(log[i].change)
      <3>1. Len(History) \in Nat /\ disk.applied \in Nat
        BY <2>1, HistoryIsPast DEF Snapshot
      <3>2. \A i \in 1 .. Len(log) : log[i] \in Lines
        BY <2>1
      <3>3. QED
        BY <3>1, <3>2 DEF CommitInv, LogInv, Lines
    <2>4. PICK f : Replay(disk, log, Len(log), f) /\ Recovered = f[Len(log)]
      BY <2>1, ReplayUnfolds DEF Recovered
    <2>5. Recovered.ok => Recovered.snapshot.run = disk.run /\ Recovered.snapshot.task = disk.task
      BY <2>1, <2>2, <2>3, <2>4, ReplayUnseen
    <2>6. QED
      BY <2>1, <2>5 DEF LoadOK
  <1>2. QED
    BY <1>1, CommitInvariant, PTL

\* After an event or snapshot failure (commit.go fail-close) neither the checkpoint nor memory
\* moves, and only telemetry already past its check is appended, until the process restarts.
THEOREM FailureStaysClosed == Spec => FailClosed
  <1> DEFINE Closed == up /\ up' /\ ~accepting =>
                 /\ UNCHANGED <<disk, mem>>
                 /\ log' # log => log'[Len(log')].change.kind \in {"telemetry", "verdict"}
  <1>1. CommitInv /\ [Next]_vars => [Closed]_vars
    <2> SUFFICES ASSUME CommitInv, Next, up = TRUE, up' = TRUE, accepting = FALSE
                 PROVE  /\ UNCHANGED <<disk, mem>>
                        /\ log' # log => log'[Len(log')].change.kind \in {"telemetry", "verdict"}
      BY DEF CommitInv, TypeOK
    <2>1. mu = Nobody /\ \A w \in Writers : op[w].stage # "snapshot"
      BY WritersAreSomebody DEF CommitInv, MutexInv
    <2>2. CASE Request
      BY <2>2 DEF Request, StartAttempt, saveRuntime, AppendVerdict, transitionTask,
            applyResultEnvelope, Degrade, setRunStatus, appendEvent, setTaskWaiting,
            recomputeTaskWaiting, CommitCounted, refreshTaskRuntime, Ask
    <2>3. ASSUME NEW w \in Writers, Persist(w)
          PROVE  /\ UNCHANGED <<disk, mem>>
                 /\ log' # log => log'[Len(log')].change.kind \in {"telemetry", "verdict"}
      <3>1. ASSUME op[w].stage = "telemetry", Written(op[w].change) \/ NotWritten(op[w].change)
            PROVE  log' # log => log'[Len(log')].change.kind \in {"telemetry", "verdict"}
        <4>1. TypeOK /\ OpInv(w) /\ op[w] \in OpRecords /\ log \in Seq(Lines)
          BY DEF CommitInv, TypeOK, OpRecords, Lines
        <4>2. op[w].change \in Change /\ op[w].change.kind \in {"telemetry", "verdict"}
          BY <3>1, <4>1 DEF OpRecords, OpInv
        <4>3. log' = log \/ log' = Append(log, [seq |-> nextSeq, change |-> op[w].change])
          BY <3>1, <4>1, <4>2, AppendEffects
        <4>4. QED
          BY <4>1, <4>2, <4>3
      <3>2. CASE CommitRefused(w) \/ FailClose(w)
        BY <3>2 DEF CommitRefused, FailClose
      <3>3. CASE AppendTelemetry(w) \/ AppendTelemetryFails(w)
        BY <3>1, <3>3 DEF AppendTelemetry, AppendTelemetryFails
      <3>4. CASE CommitEvent(w) \/ CommitEventFails(w)
        BY <3>4 DEF CommitEvent, CommitEventFails
      <3>5. CASE CommitSnapshot(w) \/ CommitSnapshotFails(w)
        BY <2>1, <3>5 DEF CommitSnapshot, CommitSnapshotFails
      <3>6. QED
        BY <2>3, <3>2, <3>3, <3>4, <3>5 DEF Persist
    <2>4. CASE Crash \/ Load
      BY <2>4 DEF Crash, Load
    <2>5. QED
      BY <2>2, <2>3, <2>4 DEF Next
  <1>2. QED
    BY <1>1, CommitInvariant, PTL DEF Spec, FailClosed

=============================================================================

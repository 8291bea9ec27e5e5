---------------------------- MODULE EventCommit -----------------------------
(***************************************************************************)
(* The Supervisor's commit protocol: events.jsonl is appended first, then  *)
(* state.json is replaced, then the candidate is installed in memory       *)
(* (internal/supervisor/commit.go, state_commit.go over internal/event),   *)
(* and the reducer that brings a checkpoint up to date when a process      *)
(* loads the run again (reducer.go, runtime.go Load).                      *)
(*                                                                         *)
(* Every task has a driver goroutine with a local copy of its TaskState;   *)
(* Clients are the IPC and heartbeat goroutines.  A snapshot is abstracted *)
(* to the Run status, the status of every task and applied_event_seq.      *)
(***************************************************************************)
EXTENDS Integers, Sequences, TaskStates

CONSTANTS
    Tasks,          \* tasks of the wave; each is the name of its driver too
    Clients,        \* IPC and heartbeat goroutines
    NoTask,         \* the task of an event about the Run
    Nobody,         \* holder of a free mutex
    History,        \* the changes the run has been through before Init
    MaxEvents,      \* bound on the lines of events.jsonl
    MaxSyncFailures \* bound on appends whose fsync fails after a complete write

ASSUME DriversAreNotClients == Tasks \cap Clients = {}
ASSUME NoTaskIsNone == NoTask \notin Tasks
ASSUME NobodyIsNone == Nobody \notin Tasks \cup Clients
ASSUME MaxEventsIsNat == MaxEvents \in Nat
ASSUME MaxSyncIsNat == MaxSyncFailures \in Nat

VARIABLES
    log,        \* complete lines of events.jsonl
    torn,       \* events.jsonl ends in an incomplete line
    disk,       \* state.json
    up,         \* a Supervisor process holds the run
    mem,        \* Service.snapshot; after a crash, what it was
    candidate,  \* what the Commit that appended the last state event built
    accepting,  \* Service.acceptingWork
    nextSeq,    \* event.Store.nextSeq
    mu,         \* Service.mu, as far as a Commit holds it
    op,         \* what each goroutine is about to persist
    runtime,    \* the status in each driver's local TaskState
    syncFailures

vars == <<log, torn, disk, up, mem, candidate, accepting, nextSeq, mu, op,
          runtime, syncFailures>>

Writers == Tasks \cup Clients

\* What an event is about.  "run" is run.state_changed; "transition" and
\* "envelope" are the task state events of transitionTask and
\* applyResultEnvelope; "verdict" is the same event type appended as telemetry,
\* without a from; "runtime" is task.runtime_updated; "waiting", "pending" and
\* "cleared" are the three uses of task.waiting_recomputed; "telemetry" is
\* everything the reducer only counts.
Kinds == {"run", "transition", "envelope", "verdict", "runtime",
          "waiting", "pending", "cleared", "telemetry"}

Change == [kind : Kinds, task : Tasks \cup {NoTask},
           from : TaskStatuses \cup RunStatuses \cup {""},
           to : TaskStatuses \cup RunStatuses \cup {""}]

Nothing == [kind |-> "telemetry", task |-> NoTask, from |-> "", to |-> ""]

Snapshot == [run : RunStatuses, task : [Tasks -> TaskStatuses], applied : Nat]

Idle == [stage |-> "idle", change |-> Nothing]

TypeOK ==
    /\ log \in Seq([seq : Nat \ {0}, change : Change])
    /\ torn \in BOOLEAN /\ up \in BOOLEAN /\ accepting \in BOOLEAN
    /\ disk \in Snapshot /\ mem \in Snapshot /\ candidate \in Snapshot
    /\ nextSeq \in Nat \ {0}
    /\ mu \in Writers \cup {Nobody}
    /\ op \in [Writers -> [stage : {"idle", "commit", "snapshot", "refresh",
                                    "telemetry", "close"}, change : Change]]
    /\ runtime \in [Tasks -> TaskStatuses]
    /\ syncFailures \in 0..MaxSyncFailures

-----------------------------------------------------------------------------
(* The reducer. *)

\* ApplyEvent accepts event e on snapshot s.
Applicable(s, e) ==
    /\ s.applied > 0 => e.seq = s.applied + 1
    /\ e.change.kind = "run" => e.change.from = s.run
    /\ e.change.kind \in {"transition", "envelope"} =>
          e.change.from = s.task[e.change.task]
    /\ e.change.kind \in {"transition", "envelope", "verdict"} =>
          ValidateTaskTransition(s.task[e.change.task], e.change.to)

ApplyEvent(s, e) ==
    LET c == e.change
        t == [s EXCEPT !.applied = e.seq]
    IN  CASE c.kind = "run" -> [t EXCEPT !.run = c.to]
          [] c.kind \in {"transition", "envelope", "verdict", "runtime"} ->
                [t EXCEPT !.task[c.task] = c.to]
          [] OTHER -> t

\* ReplayEvents: the events after the checkpoint, in order, until one is refused.
ReplayEvents(s, events) ==
    LET after[i \in 0..Len(events)] ==
            IF i = 0 THEN [ok |-> TRUE, snapshot |-> s]
            ELSE IF ~after[i - 1].ok \/ events[i].seq <= s.applied THEN after[i - 1]
            ELSE IF Applicable(after[i - 1].snapshot, events[i])
            THEN [ok |-> TRUE, snapshot |-> ApplyEvent(after[i - 1].snapshot, events[i])]
            ELSE [ok |-> FALSE, snapshot |-> s]
    IN  after[Len(events)]

\* initializeMutable: the plan, no event applied.
Planned == [run |-> "planned", task |-> [t \in Tasks |-> "planned"], applied |-> 0]

HistoryLines == [i \in DOMAIN History |-> [seq |-> i, change |-> History[i]]]

Begun == ReplayEvents(Planned, HistoryLines)

ASSUME HistoryIsPast ==
    /\ History \in Seq(Change)
    /\ Begun.ok
    /\ Begun.snapshot \in Snapshot
    /\ Begun.snapshot.applied = Len(History)

\* A Supervisor works on a run that has been through History.
Init ==
    /\ log = HistoryLines
    /\ torn = FALSE /\ up = TRUE /\ accepting = TRUE
    /\ disk = Begun.snapshot /\ mem = disk /\ candidate = disk
    /\ nextSeq = Len(History) + 1
    /\ mu = Nobody
    /\ op = [w \in Writers |-> Idle]
    /\ runtime = disk.task
    /\ syncFailures = 0

-----------------------------------------------------------------------------
(* What the goroutines ask for.  Reading the snapshot and acceptingWork     *)
(* takes Service.mu; the commit itself comes later.                         *)

Ask(w, stage, change) ==
    /\ up /\ op[w] = Idle /\ mu = Nobody /\ accepting
    /\ op' = [op EXCEPT ![w] = [stage |-> stage, change |-> change]]
    /\ UNCHANGED <<log, torn, disk, up, mem, candidate, accepting, nextSeq, mu,
                   runtime, syncFailures>>

\* from is read from a copy of the snapshot before the Commit.
setRunStatus(w, status) ==
    Ask(w, "commit", [kind |-> "run", task |-> NoTask, from |-> mem.run, to |-> status])

\* executeTask, before the worker session starts.
StartAttempt(t) ==
    /\ runtime[t] \in {"planned", "running", "blocked"}
    /\ mem.run # "running"
    /\ setRunStatus(t, "running")

\* runWorkerSession and RequestCancelTask, on an unconfirmed process tree.
Degrade(w) == setRunStatus(w, "degraded")

\* from is the driver's local status, checked against the table.
transitionTask(t, next) ==
    /\ ValidateTaskTransition(runtime[t], next)
    /\ Ask(t, "commit", [kind |-> "transition", task |-> t, from |-> runtime[t], to |-> next])

\* applyResultEnvelope on a blocked, failed or cancelled report.
applyResultEnvelope(t, next) ==
    /\ runtime[t] \in {"running", "blocked"}
    /\ Ask(t, "commit", [kind |-> "envelope", task |-> t, from |-> runtime[t], to |-> next])

\* The whole local TaskState is the payload.  Every caller has begun an attempt
\* or moved the task before.
saveRuntime(t) ==
    /\ runtime[t] # "planned"
    /\ Ask(t, "commit", [kind |-> "runtime", task |-> t, from |-> "", to |-> runtime[t]])

\* RequestMessage blocks the task of the worker that asks; only a started task
\* has one.
setTaskWaiting(c, t) ==
    /\ mem.task[t] # "planned"
    /\ Ask(c, "commit", [kind |-> "waiting", task |-> t, from |-> "running", to |-> "blocked"])

\* The pending decisions are counted before the Commit.
recomputeTaskWaiting(c, t, hasPending) ==
    /\ mem.task[t] # "planned"
    /\ Ask(c, "commit", [kind |-> IF hasPending THEN "pending" ELSE "cleared",
                         task |-> t, from |-> "", to |-> ""])

\* A commit whose event the reducer only counts: heartbeat, MessageQueued.
CommitCounted(c) == Ask(c, "commit", Nothing)

appendEvent(w) == Ask(w, "telemetry", Nothing)

\* applyResultEnvelope repeats the verdict as telemetry.
AppendVerdict(t) ==
    /\ runtime[t] \in {"verified_success", "verification_failed"}
    /\ Ask(t, "telemetry", [kind |-> "verdict", task |-> t, from |-> "", to |-> runtime[t]])

refreshTaskRuntime(t) ==
    /\ up /\ mu = Nobody
    /\ op[t].stage \in {"idle", "refresh"}
    /\ runtime' = [runtime EXCEPT ![t] = mem.task[t]]
    /\ op' = [op EXCEPT ![t] = Idle]
    /\ UNCHANGED <<log, torn, disk, up, mem, candidate, accepting, nextSeq, mu, syncFailures>>

-----------------------------------------------------------------------------
(* event.Store.Append and Commit. *)

Line(change) == [seq |-> nextSeq, change |-> change]

\* The line is complete and synced.
Written(change) ==
    /\ Len(log) < MaxEvents
    /\ ~torn
    /\ log' = Append(log, Line(change))
    /\ nextSeq' = nextSeq + 1
    /\ UNCHANGED <<torn, syncFailures>>

\* Mutant of NotWritten: a failed append uses up its sequence number.
NotWrittenCounts(change) ==
    /\ nextSeq' = nextSeq + 1
    /\ UNCHANGED <<log, torn, syncFailures>>

\* The append reports an error: nothing, a part or all of the line is in the
\* file.  nextSeq stays.
NotWritten(change) ==
    /\ \/ UNCHANGED <<log, torn, syncFailures>>
       \/ torn' = TRUE /\ UNCHANGED <<log, syncFailures>>
       \/ /\ Len(log) < MaxEvents
          /\ ~torn
          /\ syncFailures < MaxSyncFailures
          /\ log' = Append(log, Line(change))
          /\ syncFailures' = syncFailures + 1
          /\ UNCHANGED torn
    /\ UNCHANGED nextSeq

\* The snapshots the request's Mutate may produce from s; none if it refuses.
Mutated(s, c) ==
    CASE c.kind = "run"        -> {[s EXCEPT !.run = c.to]}
      [] c.kind = "transition" -> IF ValidateTaskTransition(s.task[c.task], c.to)
                                  THEN {[s EXCEPT !.task[c.task] = c.to]} ELSE {}
      [] c.kind = "envelope"   -> {[s EXCEPT !.task[c.task] = c.to]}
      [] c.kind = "runtime"    -> {[s EXCEPT !.task[c.task] = c.to],
                                   [s EXCEPT !.task[c.task] = "blocked"]}
      [] c.kind = "waiting"    -> {[s EXCEPT !.task[c.task] = "blocked"]}
      [] c.kind = "pending"    -> {s, [s EXCEPT !.task[c.task] = "blocked"]}
      [] c.kind = "cleared"    -> IF s.task[c.task] = "blocked"
                                  THEN {s, [s EXCEPT !.task[c.task] = "running"]} ELSE {s}
      [] OTHER                 -> {s}

\* Commit up to the append.  A refused request changes nothing.
CommitRefused(w) ==
    /\ up /\ op[w].stage = "commit" /\ mu = Nobody
    /\ ~accepting \/ Mutated(mem, op[w].change) = {}
    /\ op' = [op EXCEPT ![w] = Idle]
    /\ UNCHANGED <<log, torn, disk, up, mem, candidate, accepting, nextSeq, mu,
                   runtime, syncFailures>>

\* Mutant of CommitEvent: acceptingWork is not checked again under the mutex.
CommitEventUnchecked(w) ==
    /\ up /\ op[w].stage = "commit" /\ mu = Nobody
    /\ \E s \in Mutated(mem, op[w].change) :
          candidate' = [s EXCEPT !.applied = nextSeq]
    /\ Written(op[w].change)
    /\ mu' = w
    /\ op' = [op EXCEPT ![w].stage = "snapshot"]
    /\ UNCHANGED <<disk, up, mem, accepting, runtime>>

CommitEvent(w) ==
    /\ up /\ op[w].stage = "commit" /\ mu = Nobody /\ accepting
    /\ \E s \in Mutated(mem, op[w].change) :
          candidate' = [s EXCEPT !.applied = nextSeq]
    /\ Written(op[w].change)
    /\ mu' = w
    /\ op' = [op EXCEPT ![w].stage = "snapshot"]
    /\ UNCHANGED <<disk, up, mem, accepting, runtime>>

CommitEventFails(w) ==
    /\ up /\ op[w].stage = "commit" /\ mu = Nobody /\ accepting
    /\ Mutated(mem, op[w].change) # {}
    /\ NotWritten(op[w].change)
    /\ accepting' = FALSE
    /\ op' = [op EXCEPT ![w] = Idle]
    /\ UNCHANGED <<disk, up, mem, candidate, mu, runtime>>

\* Mutant of CommitSnapshot: memory moves on, state.json is left for later.
CommitSnapshotDeferred(w) ==
    /\ up /\ op[w].stage = "snapshot"
    /\ mem' = candidate
    /\ mu' = Nobody
    /\ op' = [op EXCEPT ![w] = Idle]
    /\ UNCHANGED <<log, torn, disk, up, candidate, accepting, nextSeq, runtime, syncFailures>>

\* The rest of Commit.  transitionTask reads its task back afterwards.
CommitSnapshot(w) ==
    /\ up /\ op[w].stage = "snapshot"
    /\ disk' = candidate /\ mem' = candidate
    /\ mu' = Nobody
    /\ op' = [op EXCEPT ![w] = IF @.change.kind = "transition"
                               THEN [@ EXCEPT !.stage = "refresh"] ELSE Idle]
    /\ UNCHANGED <<log, torn, up, candidate, accepting, nextSeq, runtime, syncFailures>>

\* persistSnapshotLocked fails on state.json or on one of the files after it.
CommitSnapshotFails(w) ==
    /\ up /\ op[w].stage = "snapshot"
    /\ disk' \in {disk, candidate}
    /\ accepting' = FALSE
    /\ mu' = Nobody
    /\ op' = [op EXCEPT ![w] = Idle]
    /\ UNCHANGED <<log, torn, up, mem, candidate, nextSeq, runtime, syncFailures>>

\* appendEvent after its check of acceptingWork: only the store's own mutex.
AppendTelemetry(w) ==
    /\ up /\ op[w].stage = "telemetry"
    /\ Written(op[w].change)
    /\ op' = [op EXCEPT ![w] = Idle]
    /\ UNCHANGED <<disk, up, mem, candidate, accepting, mu, runtime>>

AppendTelemetryFails(w) ==
    /\ up /\ op[w].stage = "telemetry"
    /\ NotWritten(op[w].change)
    /\ op' = [op EXCEPT ![w].stage = "close"]
    /\ UNCHANGED <<disk, up, mem, candidate, accepting, mu, runtime>>

FailClose(w) ==
    /\ up /\ op[w].stage = "close" /\ mu = Nobody
    /\ accepting' = FALSE
    /\ op' = [op EXCEPT ![w] = Idle]
    /\ UNCHANGED <<log, torn, disk, up, mem, candidate, nextSeq, mu, runtime, syncFailures>>

-----------------------------------------------------------------------------
(* Recovery. *)

\* event.Replay refuses a sequence number that does not grow.
Monotonic(events) == \A i \in 2..Len(events) : events[i].seq > events[i - 1].seq

lastSequence == IF log = <<>> THEN 0 ELSE log[Len(log)].seq

Recovered == ReplayEvents(disk, log)

LoadOK == Monotonic(log) /\ disk.applied <= lastSequence /\ Recovered.ok

Crash ==
    /\ up
    /\ up' = FALSE
    /\ mu' = Nobody
    /\ op' = [w \in Writers |-> Idle]
    /\ UNCHANGED <<log, torn, disk, mem, candidate, accepting, nextSeq, runtime, syncFailures>>

\* An incomplete tail is cut off, the caught-up checkpoint is written.
Load ==
    /\ ~up /\ LoadOK
    /\ up' = TRUE /\ accepting' = TRUE
    /\ torn' = FALSE
    /\ disk' = Recovered.snapshot /\ mem' = disk' /\ candidate' = disk'
    /\ nextSeq' = lastSequence + 1
    /\ runtime' = [t \in Tasks |-> disk'.task[t]]
    /\ UNCHANGED <<log, mu, op, syncFailures>>

-----------------------------------------------------------------------------

Request ==
    \/ \E t \in Tasks : StartAttempt(t) \/ saveRuntime(t) \/ AppendVerdict(t)
    \/ \E t \in Tasks, next \in TaskStatuses \ {"planned", "blocked"} : transitionTask(t, next)
    \/ \E t \in Tasks, next \in {"blocked", "failed", "cancelled"} : applyResultEnvelope(t, next)
    \/ \E w \in Writers : Degrade(w) \/ appendEvent(w)
    \/ \E c \in Clients, t \in Tasks : setTaskWaiting(c, t)
    \/ \E c \in Clients, t \in Tasks, b \in BOOLEAN : recomputeTaskWaiting(c, t, b)
    \/ \E c \in Clients : CommitCounted(c)
    \/ \E t \in Tasks : refreshTaskRuntime(t)

Persist(w) ==
    \/ CommitRefused(w)
    \/ CommitEvent(w)
    \/ CommitEventFails(w)
    \/ CommitSnapshot(w)
    \/ CommitSnapshotFails(w)
    \/ AppendTelemetry(w)
    \/ AppendTelemetryFails(w)
    \/ FailClose(w)

Next ==
    \/ Request
    \/ \E w \in Writers : Persist(w)
    \/ Crash
    \/ Load

Spec == Init /\ [][Next]_vars

-----------------------------------------------------------------------------
(* Properties. *)

\* event.go Replay and reducer.go ApplyEvent refuse a sequence that repeats,
\* falls or skips: the log numbers its lines 1, 2, 3 ... and the checkpoint is
\* never ahead of it, under every interleaving of commits, telemetry appends,
\* failed writes and restarts, as long as no append (jsonl.go AppendJSONL) reports
\* a failure after a complete write.
LogIntact ==
    /\ TypeOK
    /\ syncFailures = 0 =>
          /\ \A i \in 1..Len(log) : log[i].seq = i
          /\ disk.applied <= Len(log)

\* Between commits a restart that succeeds restores the Run and task statuses
\* that were in memory: telemetry appended meanwhile neither adds nor loses one.
RecoversMemory ==
    up /\ accepting /\ mu = Nobody /\ LoadOK =>
        /\ Recovered.snapshot.run = mem.run
        /\ Recovered.snapshot.task = mem.task

\* commit.go:56-60 "On event or snapshot persistence failure the Supervisor
\* fail-closes": from then on nothing but telemetry already past its check is
\* appended, and neither the checkpoint nor memory moves.
FailClosed ==
    [][up /\ up' /\ ~accepting =>
          /\ UNCHANGED <<disk, mem>>
          /\ log' # log => log'[Len(log')].change.kind \in {"telemetry", "verdict"}]_vars

=============================================================================

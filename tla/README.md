# A TLA+ model of subagent-broker

`subagent-broker` runs coding agents ("workers") for a main agent. A plan is a
sequence of waves of tasks; one Supervisor process per run starts a worker per
task, carries questions, permissions and instructions between the workers and
the main agent, evaluates a barrier after each wave, and keeps everything it
knows in files so that another process can take over after it dies. This
directory models the parts of it where concurrency and failure meet the files.

## 1. Inventory

| Component | State | Operations | Hard behaviour | What makes it correct |
|---|---|---|---|---|
| Message router (`internal/message/router.go`, `store.go`, `storage/jsonl.go`) | `messages.jsonl`, its append-disabled marker, the index, a lock per message | enqueue, freeze a resolution, reclassify, record a delivery attempt, transition, replay | one lock per message, append before index, torn and failing appends, death and replay | the journal can always be replayed; an answer is given once and survives |
| Commit protocol (`supervisor/commit.go`, `state_commit.go`, `reducer.go`, `event/event.go`) | `events.jsonl`, `state.json`, the snapshot in memory, `acceptingWork`, next sequence | `Commit`, `appendEvent`, fail-close, `ReplayEvents` | event before snapshot before memory; telemetry beside it; drivers with local copies | gapless sequence, checkpoint never ahead, recovery rebuilds what was committed |
| Decisions (`supervisor/messages.go`) | operation lock and waiter per message, `BlockKind`, scope, question files | `RequestMessage`, `ResolveMessage`, `expireTaskMessages`, `recomputeTaskWaiting` | an answer, an expiry, a failure and a cancellation race the request | no wake-up lost, events in order, task blocked exactly while it waits |
| Executor (`supervisor/runtime.go`) | run and wave status, advance channel, cancel flag | `Start`, `execute`, `executeWave`, `runBarrier`, acceptance of warnings, `finishRun`, cancel | wait for decisions, several passes, fail-close, terminal run | a run that ends is terminal; nothing terminal is run again |
| Worker session (`supervisor/execute_task.go`) | attempt, dimensions, timers, result | `executeTask`, `runWorkerSession`, `applyResultEnvelope` | events of the harness in any order, exits without results, hanging streams | an exit is resolved once; a result is never invented |
| Recovery (`supervisor/recovery.go`) | process evidence | `ClassifyRecovery`, `applyRecoveryDecision` | evidence that changes, a second crash | no task runs twice, no live worker is forgotten |
| Native permissions (`supervisor/permission.go`) | binding of a message to a harness request | bridge, resolve, retry | delivery succeeds, persistence fails | at least once, never another answer |
| Instruction outbox (`supervisor/messages.go`) | queued instructions | route, deliver, flush, resume | several flush triggers at once | delivered or failed, never silently lost |
| Barrier and scopes (`internal/wave`, `internal/scope`, `internal/verify`) | a write lease per task, baselines, verification files | `EvaluatePreflight`, `EvaluateBarrier`, `MayOverlap`, `approveScope`, `AuditScopes` | leases that grow during the wave, baselines captured again | no file has two owners; a wave passes only if every input passes |
| Event stream and adapters (`internal/adapter/...`) | bounded queue, prompt generation, pending requests, waiters | publish, close, abort; start, send, collect, terminate | a consumer that stops, a process that dies under its waiters | accepted events arrive in order; a result belongs to its prompt; an end is always seen |
| State dimensions (`internal/state`), stall (`internal/stall`) | none (pure) | transition tables, `Assess` | thresholds | waiting is never a stall |
| Process control, lease, IPC, auth | pids, lock file, sockets, tokens | `TerminateTree`, lease, dispatch | pid reuse, two Supervisors | one owner per run |
| Reports, interaction, CLI, doctor | files and external programs | formatting, forwarding, probing | little state of their own | - |

They interact by calls inside one process (goroutines of IPC connections, one
driver per task, the executor, a heartbeat), by three kinds of locks
(`Service.mu`, the operation lock of a message, the Router's lock of a message),
by two kinds of wake-up channel (a waiter per request, the advance channel of
the executor), and by files across processes.

## 2. Modules

| Module | Models | Source |
|---|---|---|
| `MessageRules` | statuses, delivery modes, transition table and the validation of journal lines | `message.go`, `store.go` |
| `MessageOutcome` | what the message component promises (abstract) | - |
| `MessageRouter` | the Router's mutations as used by the Supervisor, the append, crash and load | `router.go`, `store.go`, `jsonl.go` |
| `TaskStates` | task and run statuses, the task table | `state.go`, `models.go` |
| `EventCommit` | the commit protocol, the reducer and Load | `commit.go`, `state_commit.go`, `reducer.go`, `event.go` |
| `DecisionFlow` | request, answer, expiry, waiting state, the executor at the barrier | `messages.go`, `runtime.go` |
| `ProcessTree` | a worker's process group and what `TerminateTree` may report of it | `process/controller.go`, `linux.go` |
| `WorkerSession` | the event loop of a session, the resolution of the exit, a concurrent cancellation (extends `ProcessTree`) | `execute_task.go`, `runtime.go` |
| `Recovery` | attempts of the tasks across Supervisor crashes: classification, its application, `executeTask` Commit by Commit | `recovery.go`, `attempt.go`, `execute_task.go` |
| `Barrier` | what a barrier collects and its verdict | `evaluator.go`, `barrier_collect.go`, `audit.go` |
| `RunLifecycle` | `Start`, `execute`, waves, barriers, final verification, the Main Agent's calls (extends `Barrier`) | `runtime.go` |
| `InstructionOutbox` | instructions on their way to a session: steer, next turn, resume, flushes | `messages.go`, `execute_task.go` |
| `NativePermission` | a harness's permission request, its binding, the response and the record of it | `permission.go` |
| `EventStream` | the bounded stream with its one owner | `protocol/stream.go` |
| `GrokSession` | a Grok session over that stream (extends `EventStream`) | `grok.go`, `transport/process.go` |
| `WaveScopes` | patterns, overlap, preflight, expansion, audit | `scope.go`, `preflight.go`, `audit.go`, `messages.go` |
| `MessageRouterProofs`, `EventCommitProofs`, `WorkerSessionProofs`, `DecisionFlowProofs`, `RunLifecycleProofs`, `RecoveryProofs`, `NativePermissionProofs`, `WaveScopesProofs` | theorems about the module each is named after; `MessageRouterProofs` also about `InstructionOutbox`, `WorkerSessionProofs` also about `GrokSession` | - |
| `MC...` | instances for TLC: values of constants, symmetry sets, a history to begin with | - |

One module looks inside a step that another takes as atomic: `MessageRouter` inside
a Router operation, `EventCommit` inside a Commit, `WorkerSession` inside a session.
`DecisionFlow`, `Recovery`, `RunLifecycle`, `InstructionOutbox` and
`NativePermission` interleave such steps.

**MessageRouter.** A mutation is two steps: `Begin` (the message lock is free and
taken, the index is read, the candidate built) and one of `AppendOK`,
`AppendRefused`, `AppendTorn`, `AppendSyncFails`; `Install` follows a good append.
Each caller in the Supervisor is an action that says which mutation it asks for
(`RecordInstruction`, `AnswerFrozen`, `FailQueuedResume`, ...), because the
journal's rules are only kept together with what the callers ask. `Crash` forgets
the index, the locks and what was in progress; `Load` and `LoadCorrupt` rebuild.
`told` records which answers a caller has been told: it is a history variable.

**EventCommit.** A request is read (`Ask`, with what the code reads before the
lock), then `CommitEvent` appends under `Service.mu`, then `CommitSnapshot`
writes `state.json` and installs the candidate. Each can fail in its own way.
`appendEvent` shares only the event store's mutex. Every driver has a local
status (`runtime`), which `transitionTask` and `saveRuntime` use.
`candidate` remembers, after the Commit, what it built.

**DecisionFlow.** Locks of messages, waiters with their buffered channel, the
advance channel and the program counter of every goroutine are kept.
The reports of a worker are chosen by the environment. `local` is `Task.Status` in the
driver's own copy of the task: `refreshTaskRuntime` takes it from the snapshot, and
`saveRuntime` puts it back at any native event or progress while the worker is at work,
after the validation and for a failed task. It forces "blocked" while the message index
knows of an open decision (`IndexPending`: the index hears of a message with the Commit of
its event, not with the router) and never releases a "blocked" it copied. The pair is a
step each, as are `WorkerExits`, the report, and a verdict, which `validateTransition`
refuses when the task or the copy was blocked meanwhile.

**ProcessTree.** The group is its root (alive, gone, pid reused) and whether
another member lives. `TerminateTree` is a call that stays open while the group
changes and returns what its last inspection saw, or a failure. Its three signals
are not actions: a member may exit at any time, with or without one, and no
property relies on a signal being obeyed. (On Linux `Signal` inspects the root
first, so descendants left behind by a dead root are never signalled; the model's
`remaining` is then what every call reports.)

**WorkerSession.** One action per case of the select, so every order in which Go
may pick ready cases is a behaviour. Events are reduced to output, result, failed
turn and *trailing* result (one sent after the loop saw the exit). `known` is the
process dimension in the driver's own copy of the task, which `handleNative` and
`updateProgress` save over the snapshot's (`process`); `recordCancelOrphanRisk`
writes the snapshot meanwhile. `first`, a history variable, is the first end of the
turn started last that the loop has handled.

**Recovery.** `os` is the truth about the process of each attempt; `task` is what
was committed. `executeTask` is one action per Commit, so a crash falls between any
two; the worker of a dead Supervisor lives on, dies or leaves its pid to another
process. `Classify` is one `ClassifyRecovery` with an `Inspect` that may fail;
`Apply` is one `applyRecoveryDecision`.

**RunLifecycle.** `exec` is the place of the executor's goroutine and `client` that of
an acceptance or rejection, which reads, writes the verification file, commits and
signals in separate steps. The advance channel is one Boolean (it buffers one
token). A worker is active (`ActiveWave`) until its `executeTask` returns, that is through
`SessionEnds`, which is the last look at the cancellations, and the collection, publication
and validation of the result (`result`) as well: a cancellation in that time is taken, but
the task ends as it reported (`TaskEnds`). `cancelTask` and the `failed` branch of
`TaskEnds` close the task's decision; another end leaves it. The return of `executeTask` is
one step with the end of the task, as a cancellation between the two acts as one before
both. A task cancelled again while it is active is terminated again, without a signal
(`CancelRepeats`). `Cancels` says what may be cancelled. The tasks of a wave are taken together, and the changes in the workspace
are kept with their author because the barrier's audit is about authorship.

**InstructionOutbox.** The threads are two `SendInstruction` handlers and the wave's
goroutine. A flush without a session asks for a resume, a resume runs `executeTask`
in the caller's goroutine, and `executeTask` flushes at each turn's end, hence the
stack in `th`. A flush reads its list once (`todo`) and goes through it by `created`
(`Oldest`), re-reading each instruction.
`behind`, `late` and `aside` are history variables: what was queued when an instruction
was made, what was enqueued after the run's end, and what a flush passed over because it
found no session. Names that `MessageRouter` has as well carry the outbox's
(`OutboxSpec`, `QueueInstruction`, `RecordAttempt`), so that one module can prove about both.

**NativePermission.** `got` is what each harness heard. A response that the call
reports as failed may have arrived. Request ids return in the next attempt.

**GrokSession.** Every section under `state.mu` is one step, with these merged: the
handling of a line with its publication, a waiter's select with the clearing of the
in-flight mark, its settling with the finalisation, and `TerminateSession`'s
shutdown with `CloseInput`. The harness answers in any order, dies at any time, and
says nothing more after it was stopped. The specification is `GrokSpec`. The wait goroutine may drop the lines still in the
pipe, as `cmd.Wait` does.

**WaveScopes.** A pattern is a sequence of segments and `Match` looks for a way to
lay it along a path, which is what the regular expression does; `MayOverlap` is the
code's conservative test and `Covers` the truth it is judged by. Contract texts are
reduced to the flaw (`flaw`) that `ValidateContract` would find.

## 3. Runs

| Run | Instance | States | Shows |
|---|---|---|---|
| `router` | 2 messages, 2 goroutines, 2 resolutions, 1 recorded attempt, 1 failing fsync | 359,804 | `TypeOK`, `ReplayableUnlessRefusedResume`, `IndexNeverAhead`, `ToldIsDurable`, refinement of `MessageOutcome` |
| `commit` | 1 task, 1 client, 8 events, 1 failing fsync, from a task with a failed validation | 100,846 | `LogIntact`, `RecoversMemory`, `FailClosed` |
| `decision` | 2 requests, 1 resolver, no failure; the requests are interchangeable | 2,520,774 | `EventsInOrder`, `NoPhantomBlock` |
| `decision_faults` | 1 scope request, 1 resolver, 1 failure of the store, of a file and of the approval | 792,614 | `WidenedScopeIsDecided`; `RequestsReturn`, `BarrierResumes` under fairness |
| `session` | 1 event in the channel, 1 next turn, every state of identity, tree, streams, context and cancellation | 669,664 | `TypeOK`, `ExitIsHonest`, `AppliedResultIsCurrent`, `BufferedResultCounts`; `SessionEnds` under fairness |
| `recovery` | 2 tasks, one of them resumable, one running at a time, 3 attempts, 1 crash | 913,303 | `WorkersAccountedFor`, `ExitIsProven`, `FrozenReportIsCurrent`; `Settles` under fairness |
| `run` | 2 waves, a change that is a warning, a decision in the second, a lingering worker in the first, cancellations of the run and of the first wave's task, 2 acceptances or rejections | 635,614 | `StartEndsTheRun`, `CompletedIsVerified`, `NothingUnaudited`; `WakeUpsAreHeard` under fairness |
| `outbox` | 2 senders, or 1 and the wave, a leftover instruction, three kinds of harness | 577,013 | `OneResume`, `InOrder`, `NeverSilentlyLost`; `CallsReturn` under fairness |
| `permission` | 2 request ids (one that cannot be declined), 2 resolvers, 2 attempts, 2 messages, 1 crash | 281,273 | `OutcomeIsTrue`, `OnlyToTheAsker`; `RequestsAreSeen` under fairness |
| `grok` | 2 start requests, 2 prompts, 1 chunk and 1 notice each, room for 1 progress event, 1 stop | 548,831 | `AcceptedInOrder`, `BoundaryIsReady`, `ResultIsOwn`; `EndIsSeen` under fairness |
| `scopes` | every plan of 2 tasks over 10 patterns and 8 files, 2 expansions, 1 change | 1,843,166 | `Isolation`, `ForbiddenKept`, `AuditNamesTheAuthor` |
| `router_refused_resume` | 1 message, 1 goroutine | (violation) | `JournalReplayable` is violated: resume becomes unsupported, a change of mode the journal forbids |

In the modules whose `TypeOK` is not listed, it is the first conjunct of a listed
invariant.

**Exceptions the properties state.** When `AppendJSONL` writes a whole line and
then fails to sync it, the line is in the file while the caller believes it is
not: the Router's next mutation can contradict it and the event log's next append
reuses its sequence number. `ReplayableUnlessRefusedResume`, `LogIntact` and the
refinement therefore speak of behaviours up to the first such failure;
`IndexNeverAhead`, `ToldIsDurable`, `RecoversMemory` and `FailClosed` do not need the
exception. `BarrierResumes` excepts a question file that could not be
written: `ResolveMessage` then returns before `signalAdvance`, and a retry
returns at once because the message is answered. `NoPhantomBlock` has the same exception,
and excepts a driver whose copy of the task says "blocked", which it saves over the answer
(section 5). `NothingUnaudited` excepts a worker
known to have outlived its session: what it writes after the final audit nobody
sees. `StartEndsTheRun` excepts two calls that end the run and expire no message, so
that a decision may be open when `Start` returns (section 5): a late
`RejectBarrierWarnings`, which fails the run, and a cancellation that met its task after
the last look at the cancellations and left a process behind, which degrades it. Both
happen in the run's instance. `NeverSilentlyLost` excepts an instruction enqueued after the sweep at the end
of the run. `InOrder` excepts an instruction that a flush passed over (`aside`, section 5);
with the two threads of the run no flush does, with five it happens, and the theorem
covers both. `ResultIsOwn` excepts the text, not the success, of a turn whose context
ended: its chunks may be cut short.

**Bounds.** Two goroutines on one message already give every race of a lock; two
resolutions give a conflict. Starting the commit run in the middle of a task lets
commits, telemetry, a repeated verdict and a failure overlap within eight events.
One slot in the channel of a session is enough to have a result behind the exit or
before it, and what longer queues add is proved. One crash of the Supervisor can
fall into the execution and into the reconciliation, because the model also starts
from a snapshot that an earlier Supervisor left; three attempts are a first one, one
that recovery resumes, and one more that must be refused or accounted for. One
resolver is enough: it may call again and again, and two on one message are serialised by
its lock and keep nothing from one call to the next; the proofs are for any number. Two waves
make an earlier wave whose changes are in the baseline of a later one, and the decision in
the second is what a late rejection or a late cancellation of the first can meet open. That
the cancelled task's own decision stays open, because it reported after the last look, takes
a wave that asks, lingers and is cancelled: the instances with one have up to three million
states, and the theorem covers them. Two attempts
are enough for a request id to return. Two prompts let a second generation start
under the waiter of the first, and one progress slot fills the queue at once. Two
expansions let the second meet what the first was granted; ten patterns have every
kind of segment in every place. Failures are bounded by constants (`Max...`); a run
that sets one to 0 says that its properties are about behaviours without that
failure. `CHECK_DEADLOCK FALSE` is set where the system may stop: a log that cannot
be loaded or is at its bound, a run, a wave, a session or a call that is over.
The only symmetry sets are of messages, goroutines, resolutions and tasks that no definition
tells apart, and no run with one checks liveness.

**Fairness.** Nobody is obliged to ask, answer, accept, cancel, write or obey, so no
liveness property is earned by a helpful main agent or worker. What is assumed is
weak fairness of goroutines that have begun (the Go scheduler, and `sync.Mutex`,
which does not starve a waiter); a driver at work need not refresh, save or end:

- `DecisionFlow`: each goroutine, and the cancellation of the context;
- `WorkerSession`: a case of the select that stays ready is chosen (Go picks among
  ready cases at random), a started drain timer fires, `TerminateTree` returns (each
  of its stages has a grace period);
- `Recovery`: classification, application and each task's driver, which includes that
  a running session ends (`WorkerSession`'s `SessionEnds`); the crash is not fair, and
  `Settles` speaks of a Supervisor that stays up;
- `RunLifecycle`: the executor, a call that has begun, a cancellation that has begun;
- `InstructionOutbox`: each thread, and the end of the run;
- `NativePermission`: the driver and each resolver;
- `GrokSession`: the broker's goroutines, the consumer while the session runs and was
  not terminated (`runWorkerSession` reads until then), and the reaping of a dead
  process. The harness's own speech and death are not fair.

## 4. Proofs

`MessageRouterProofs` proves, for any sets of goroutines, messages and
resolutions and any `MaxAttempts`:

- `InvariantHolds`: `Sound` is invariant: `IInv` holds until an fsync fails after a
  complete write (`syncFailures = 0 => IInv`);
- `JournalStaysReplayable`: `ReplayableUnlessRefusedResume`, as the run checks it;
- `RouterImplementsOutcome`: the refinement of `MessageOutcome`, whose promise
  ends (`broken`) with the first such failure;
- `DurableHolds`: `DurableInv` is invariant on any storage, failing fsyncs included, and
  with it `TypeCorrect` (`TypeOK`), `IndexStaysBehind` (`IndexNeverAhead`) and
  `AnswersAreDurable` (`ToldIsDurable`).

Replayability is not inductive: a candidate is built from the index and appended
later. `IInv` adds that no two goroutines work on one message (`Exclusion`: the
lock, or an id nobody has seen), that a candidate still continues the journal as
it is when it will be appended (`CandidateOK`), that outside a mutation the index
is the journal's last line (`IndexCurrent`), and that a process that is down holds
nothing. The proof has one lemma per group of actions: those that build a
candidate, those that end an append, the install, the restart. After a misreported
append the index lags behind the journal and `IInv` is lost; `DurableInv` relates a
candidate to the index it was built from instead (`InProgress`) and says of the index
what survives: it shows a line of the journal, its answer is the last one, and a
message whose answer was told never shows another outcome (`IndexWritten`).

The module also proves, about `InstructionOutbox`, for any callers, crews and
capabilities:

- `OutboxInvariant`: `OutboxInv`;
- `OutboxOneResume` (`OneResume`), `OutboxInOrder` (`InOrder`) and
  `OutboxNeverSilentlyLost` (`NeverSilentlyLost`);
- `OutboxMovesOn`, of every step: an instruction leaves the queue for good, becomes a
  resume only when no older one waits for its turn, and is called delivered only after a
  harness took it.

A thread may hold the resume slot in a call far down its stack, so `SlotInv` counts the
releases on all stacks, and `CalledFacts` and `ReturnedFacts` say what a call and a return
do to them. The order is about lists that were read long ago: `OrderInv` says of every
list on every stack that what is older than its items and waits for a resume is on the
list too, is just being sent, or was laid aside. It survives because the Router only
moves on (`RouterMoves`): an instruction leaves the queue for good, and a next turn becomes
a resume only when no older one waits for its turn. An instruction whose place in the
order is fixed but which is not yet in the index (`QueueInstruction` comes after the
route was chosen) needs a clause of its own. Steps that send nothing and leave the slot
alone share one lemma (`QuietStep`).

`EventCommitProofs` proves for any tasks, clients and history, and for logs of any
length:

- `CommitInvariant`: `CommitInv`;
- `LogStaysIntact` (`LogIntact`, which contains `TypeOK`), `RestartRestoresMemory`
  (`RecoversMemory`) and `FailureStaysClosed` (`FailClosed`).

Telemetry is appended without the Supervisor's mutex, so lines follow the checkpoint
while a Commit builds the next one. `CommitInv` says that such lines do not show in a
replay (`CaughtUp`, `Unseen`): they are only counted, or repeat a verdict. A repeated
verdict shows only on a task that is verifying, and `VerdictInv` with `OpInv` says that no
driver is overtaken by a return to verifying once it has seen its verdict.
`ReplayEvents` is a recursive function over the log. Its recursion is solved line by
line (`ReplayExists`, `ReplayUnfolds`), and what it computes follows by
induction over a set of line numbers (`Induction`, from the least counterexample that
`WFMin` gives): a replay returns a snapshot (`ReplayType`), is up to the last line when it
succeeds (`ReplayApplied`), and changes nothing over lines that do not show
(`ReplayUnseen`).

`WorkerSessionProofs` proves for any `MaxQueue` and `MaxTurns`:

- `ExitStaysHonest`: `ExitIsHonest`, from `HonestInv`. The property speaks of the
  snapshot, but the driver's copy can overwrite it and the tree moves after it was
  inspected; `HonestInv` says who can hold "exited" before and after the exit is
  resolved and that the last report is still true (`Truthful`: an empty group stays
  empty, a reused pid stays reused);
- `AppliedResultStaysCurrent` and `BufferedResultAlwaysCounts`, from `TurnInv`: a
  turn ends once, so while the loop has handled no end the channel holds at most one
  and behind everything else; hence `ResultSeen` says exactly that the first end
  handled is a result sent before the exit was observed;
- `TypeCorrect`.

and, about `GrokSession`, for any number of prompts, chunks, notices and start requests
and any bound of the event queue:

- `AdapterInvariant`: `SessionInv`;
- `GrokAcceptedInOrder` (`AcceptedInOrder`), `GrokBoundaryIsReady` (`BoundaryIsReady`) and
  `GrokResultIsOwn` (`ResultIsOwn`).

What was accepted is what was sent followed by what is queued until the owner exits, and
nothing is refused, because the reader closes the stream only when no waiter is left that
could publish (`StreamInv`, `EndInv`). That a result has all chunks of its prompt rests on
where they are in the meantime: only the latest prompt is in flight (`PromptInv`), a reply
in the pipe comes behind its chunks (`ReplyInv`), and what the harness has spoken is
what `output` holds and what the pipe still carries together (`TextInv`, by counting),
as long as nobody ends the session.

`DecisionFlowProofs` proves for any sets of requests and resolvers and any number of
failures of the store, the question files and the approvals:

- `FlowInvariant`: `FlowInv`, with a part per message, per resolver, for the sweep
  and for the blocked task;
- `EventsStayInOrder` (`EventsInOrder`), `ScopeStaysDecided`
  (`WidenedScopeIsDecided`) and `NobodyStaysBlocked` (`NoPhantomBlock` until a
  question file fails to be written).

An event is appended after the journal was changed and possibly after the lock was
given back, so the order in the log is not a property of the log alone: `MessageInv`
relates the place of every goroutine that works on a message to what the journal and
the log already say of it. A blocked task needs a witness that somebody will
recompute it (`BlockInv`): an open request, or a goroutine on its way there. The driver
blocks it too, whenever it saves its copy while the index knows of an open decision; that
the decision is then open in the router as well is `IndexInv`, which rests on the order of
journal and event. What it cannot exclude is a copy that already says "blocked", and
`ResolveMessage` returns before the recomputation when the question file fails: these are
the two conditions of `NobodyStaysBlocked`. The run `decision` has no failures.

`RunLifecycleProofs` proves for any number of waves, any changes, reports, lingering
and asking waves and any `MaxCalls`:

- `RunInvariant`: `RunInv`;
- `StartReturnsAtTheEnd` (`StartEndsTheRun`), `CompletionStaysVerified`
  (`CompletedIsVerified`) and `NothingStaysUnaudited` (`NothingUnaudited`).

Completion is written by the executor or by a call long after the facts it rests on
were read, while baselines, statuses and results of earlier waves are rewritten. What
survives is that a wave that was once let pass has verified tasks, a verdict and no open
decision (`Passed`), and that a final verification, once written, holds every
change (`Audited`); `Stable` states this of every step, and each action is shown to be
stable before the rest of the invariant. `CancelInv` follows a cancellation until
it has degraded the run or not: either the executor has seen it, or will, before it can wait
again (`Seen`), or the session was over when it came (`Over`) and the process it could not end
is on record for good. With `EndInv` this says which runs can be degraded under an executor
that waits or goes on (`LeftBehind`), and that only these and rejected ones end with a
decision open. The attempt to prove the earlier form of
`StartEndsTheRun` failed on the rejection described in section 5, and it holds with a worker that is active
only during its session; both calls are reached by TLC, too.

`RecoveryProofs` proves for any tasks, attempts and crashes:

- `RecoveryInvariant`: `RecoveryInv`, whose part per task speaks of the record, the
  processes and what the driver or the reconciliation is about to do;
- `NoSecondWorker` (`WorkersAccountedFor`), `ExitStaysProven` (`ExitIsProven`),
  `ReportStaysCurrent` (`FrozenReportIsCurrent`).

A classification is applied later than the inspection it rests on; `DecisionInv` says
which of its claims cannot become false in between (a dead process stays dead, only the
last attempt may live), and `Accounted` which records a live worker may hide behind.

`NativePermissionProofs` proves for any resolvers, requests, attempts and crashes:

- `PermissionInvariant`: `PermissionInv`, that is who holds the operation lock
  (`LockInv`), that what a resolver carries is what its message has frozen (`FlowInv`),
  and that what a harness heard is what its message has frozen (`HeardInv`);
- `OutcomeStaysTrue` (`OutcomeIsTrue`) and `AnsweredByItsOwn` (`OnlyToTheAsker`).

`WaveScopesProofs` proves for any finite set of tasks and any patterns and files:

- `OverlapIsSafe`: what `MayOverlap` calls disjoint has no file in common, for patterns
  of any length, by comparing the literal prefixes and suffixes a match must lay down;
- `ScopesInvariant`: the leases of a started wave are apart in the sense of the code's
  tests, each granted expansion was asked against them, and every change has a lease;
- `LeasesStayApart` (`Isolation`), `ForbiddenStaysKept` (`ForbiddenKept`) and
  `AuditStaysTrue` (`AuditNamesTheAuthor`), from these two.

Every invariant was checked by TLC on the module's run before it was proved, and every
proof has one step per action. The assumptions on constants are that bounds are
naturals, that sets of tasks and callers are finite, that the wave, the leftover
instruction and the callers have different names (`OutboxAssumption`), that patterns and paths are sequences of
segments (`ScopeShapes`), that no goroutine is called "none"
(`PermissionAssumption`), that the names for no task and nobody are nobody's, and that
the history of a run is one the reducer accepts (`HistoryIsPast`); TLC evaluates each
of them.

Checked by TLC only: every liveness property and the fairness behind it (out of the
prover's reach). Every safety invariant of a passing run is the subject of a theorem.

## 5. Disagreements

What the model showed the code to do against what it, or its documents, say. The
first has a run of its own; the others were found while modelling, the modules
contain them, and the properties are stated so as to be true with them.

Messages and log:

- *Refused resume* (run `router_refused_resume`). `failQueuedResumeInstructions`
  (messages.go:1391) changes a delivery mode that the journal's rules forbid to
  change; the next Load refuses the journal.
- *Stale `from`.* `setRunStatus` (state_commit.go:76) reads the old status before
  the Commit. Two drivers that start attempts together write the same `from` and
  `ReplayEvents` refuses the second (commit.go:114-115, reducer.go:45).
- *Event that only counts.* When `state.json` is not written after
  `task.waiting_recomputed`, the reducer's default case (reducer.go:406) rebuilds a
  snapshot without its effect.
- *Stale blocked copy.* messages.go:185-186 recomputes the task "so a concurrent answer
  does not leave the Task blocked with no pending decisions". The driver refreshes its copy
  at execute_task.go:288, after the worker was started: a decision asked before leaves
  "blocked" in the copy. Once the answer has set the task running, the next `saveRuntime`
  (state_commit.go:193-230, called at runtime.go:1331, 1403 and identity.go:64) writes
  "blocked" back with nothing pending, and nobody recomputes it before the next decision or
  the worker's report. TLC shows it in 15 steps when `NoPhantomBlock` is stated without its
  condition on `local`. A verdict on such a task is refused.
- *False running.* `recomputeTaskWaiting` counts pending decisions (messages.go:907)
  before the Commit that unblocks the task (936): a request in between is pending
  while the task shows running.
- *Frozen and refused.* A scope request whose approval fails after its resolution was
  frozen (messages.go:258) can neither be answered otherwise nor expired, and `Start`
  can return with the run waiting, which the safety net at runtime.go:766 is there to prevent.
- *Ended task runs again.* A straggling request blocks a task that has ended
  (messages.go:889); the next pass of `execute` runs it (runtime.go:1195).

Sessions and instructions:

- *Trailing result.* A result handled while the streams close is not counted
  (execute_task.go:583), although a final result is to be observed after the exit (566)
  and trailing events are to be drained (575).
- *Sent twice.* Two flushes both pass the check at messages.go:678, whose comment says
  that delivered messages must not be sent again; the later record may turn
  delivered into failed.
- *Overtaken.* A flush that finds no session for an instruction asks for a resume, which
  gives up waiting after 30 s (messages.go:1302-1325), and goes on with the next one (655-660): when a
  session is registered by then, the younger instruction is sent and the older one
  stays queued. It takes five threads; the proof of `InOrder` without `aside` failed on it.
- *Stale copy.* `EnsureResumeAndFlushOutbox` reads the task before it claims the slot
  and saves it afterwards (messages.go:1288, 1378): an ended task may run again, and
  when it races `executeWave` two attempts get one number.
- *Completion with a worker left.* execute_task.go:681 says "do not pretend clean
  completion", but a run whose worker was never confirmed gone completes.
- *Unregistered session.* A session unregistered after the binding check leaves
  `resolveNativePermission` with a nil adapter (permission.go:342).

Run and scopes:

- *Rejected warnings.* A later wave may start after its predecessor's warnings were
  rejected (ADR-0006:16 says otherwise), because the executor acts on what it read.
- *Late rejection.* A `RejectBarrierWarnings` that began before the wave was judged anew
  sets the run failed (runtime.go:1706) while a later wave waits for a decision; its
  signal wakes the executor, which finds a terminal run and returns without expiring
  the decision, as `finishRun` would have done.
- *Late cancellation.* `finishRun` holds that "all terminal Run statuses (including
  RunDegraded) must expire pending messages" (runtime.go:2276), but `RequestCancelTask`
  (946) and `RequestCancel` (896) set the run degraded themselves and expire nothing. When
  the cancellation came after the last look (execute_task.go:324), the task ends as it
  reported, the executor may wait for its decision or a later wave's, and the signal makes
  it return with the decision open.
- *Recaptured baseline.* A repeated pass captures the baseline again
  (runtime.go:1078): the barrier's file warnings vanish, and only the final
  verification sees the changes.
- *Failed, then barrier.* `RejectFinalWarnings` signals before `finishRun`; a failed
  run may show barrier again before it ends.
- *Forbidden scope* is checked on expansion only; a request already covered that needs
  a public-interface change is approved without one; the final audit uses the leases
  of all waves, so what a barrier calls unauthorized it calls uncertain;
  `approveScope` writes the contract inside the Commit's callback, so a failed Commit
  leaves the wider contract on disk; the barrier's high-risk list differs from the
  preflight's.

Adapters:

- `transport/process.go:20-21` says "lossless", but `cmd.Wait` (165) closes the pipe
  under the reader: the last lines may be lost, a prompt's response among them.
- *Grok.* A `SendMessage` between the clearing of the in-flight mark and the
  finalisation supersedes the old turn silently, and a `CollectFinalResult` of it
  waits until its context ends; a `SendMessage` that fails after the end was signalled
  leaves its turn open; late chunks of a stopped generation reach the next output;
  `session/new` without an id returns without closing the input; `session/cancelled`
  publishes a failed turn without ending the turn.
- *Codex* (read, not modelled). The stream is closed before `ensureResultReadyOnEOF`
  publishes the failed turn, which is then rejected; `request` has no shutdown case.

## 6. Not modelled, and the plan

What is left to do: runs for the disagreements of section 5 that have none, above all the
stale `from` and the ended task that runs again; `WorkerSession` over `GrokSession`, whose
events it takes in any order today; a second adapter over `EventStream`.

Abstractions inside a modelled part: `RunLifecycle` takes the tasks of a wave together, and
its `orphan` keeps what a cancellation recorded, although a driver's `saveRuntime` may
overwrite it with an older copy (`WorkerSession` has that race). `DecisionFlow` has one
task, whose worker may ask at any time, also after it ended.

Left out:

- *Stall assessment*: a pure function of ages whose verdict is recorded and starts
  nothing; unit tests reach its branches.
- *Lease and IPC*: exclusion is one `flock`; dispatch calls the operations modelled.
- *Reports, evidence, planning, storage layout*: building and validating files.
- *Interaction bridge, CLI, doctor, read commands*: stateless clients of the above.
- *The protocols of Claude, Codex and OpenCode*: translations of external programs'
  messages. Their common concurrency is `EventStream`'s, and `GrokSession` shows one
  adapter whole.
- *Platform files*: system calls, seen through `ProcessTree`.

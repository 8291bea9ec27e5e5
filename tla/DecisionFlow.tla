---------------------------- MODULE DecisionFlow ----------------------------
(***************************************************************************)
(* A worker's blocking question and the answer to it: RequestMessage,      *)
(* ResolveMessage and expireTaskMessages (internal/supervisor/messages.go) *)
(* with the wake-up channels, the waiting state of the task and the        *)
(* executor that waits for decisions at the wave barrier (runtime.go).     *)
(*                                                                         *)
(* One task.  Each member of Requests is a decision message and also the   *)
(* goroutine that serves the worker's request for it; Resolvers are the    *)
(* goroutines of the main agent's connections; Driver is the task's        *)
(* executeTask, Executor the Supervisor's main loop.  An operation of the  *)
(* message router and a Commit are one step each (MessageRouter and        *)
(* EventCommit look inside them).                                          *)
(***************************************************************************)
EXTENDS Integers, Sequences

CONSTANTS
    Requests,           \* decision messages of the task
    ScopeRequests,      \* those that ask for a larger write scope
    Resolvers,
    Driver, Executor,
    Nobody,             \* holder of a free lock, target of an idle resolver
    MaxStoreFailures,   \* bound on failing commits and event appends
    MaxFileFailures,    \* bound on failing writes of question files
    MaxRefusals         \* bound on scope expansions refused and failing appends
                        \* to the message journal

Processes == Requests \cup Resolvers \cup {Driver, Executor}

ASSUME ProcessesAreDistinct ==
    /\ ScopeRequests \subseteq Requests
    /\ Requests \cap Resolvers = {}
    /\ Driver # Executor
    /\ {Driver, Executor} \cap (Requests \cup Resolvers) = {}
    /\ Nobody \notin Processes
ASSUME BoundsAreNat ==
    MaxStoreFailures \in Nat /\ MaxFileFailures \in Nat /\ MaxRefusals \in Nat

VARIABLES
    status,     \* the message's status in the router
    frozen,     \* its frozen resolution
    scoped,     \* approveScope has widened the task's scope for it
    opLock,     \* Service.decisionOperationLocks
    waiter,     \* Service.pending has the request's waiter
    wake,       \* the waiter's channel holds a token
    announced,  \* message events of each message, in the order of the log
    task,       \* Task.Status, with BlockKind final as a status of its own
    exited,     \* the worker's ExitCode is set
    local,      \* Task.Status in the Driver's own copy of the task
    accepting,  \* Service.acceptingWork
    ctxDone,    \* the run's context is cancelled
    advance,    \* the advance channel holds a token
    pc,         \* where each goroutine is
    target,     \* the message each resolver works on
    seen,       \* hasPending as recomputeTaskWaiting read it
    sweep,      \* progress of expireTaskMessages in Driver and Executor
    run,        \* active, terminal, or unfinished when execute has failed
    failures    \* failures so far, by kind

messageVars == <<status, frozen, scoped, announced>>
waitVars == <<waiter, wake, advance>>
runVars == <<accepting, ctxDone, run, failures>>
taskVars == <<task, exited, local>>
localVars == <<pc, target, seen, sweep>>
vars == <<messageVars, opLock, waitVars, taskVars, runVars, localVars>>

Resolutions == {"allow", "deny"}
Closed == {"answered", "expired", "failed"}
Endings == {"verified", "final_blocked", "failed"}
TaskStatuses == {"running", "blocked", "verifying"} \cup Endings

RequestPC == {"idle", "enqueued", "locked", "published", "asked", "announce",
              "waiting", "recompute", "settle", "done"}
ResolverPC == {"idle", "scope", "answer", "refresh", "recompute", "settle", "announce"}
DriverPC == {"starting", "running", "result", "reported", "verifying", "validated", "rejected",
             "failing", "enumerate", "expire", "recompute", "settle", "record", "done", "failed"}
ExecutorPC == {"wave", "barrier", "blocked", "awaiting", "pass", "enumerate", "expire", "recompute",
               "settle", "done"}

Sweep == [left : SUBSET Requests, expired : BOOLEAN, refused : BOOLEAN]
NoSweep == [left |-> {}, expired |-> FALSE, refused |-> FALSE]

TypeOK ==
    /\ status \in [Requests -> {"none", "queued"} \cup Closed]
    /\ frozen \in [Requests -> Resolutions \cup {"none"}]
    /\ scoped \in [Requests -> BOOLEAN]
    /\ opLock \in [Requests -> Processes \cup {Nobody}]
    /\ waiter \in [Requests -> BOOLEAN] /\ wake \in [Requests -> BOOLEAN]
    /\ announced \in [Requests -> Seq({"queued"} \cup Closed)]
    /\ task \in TaskStatuses /\ local \in TaskStatuses
    /\ exited \in BOOLEAN /\ accepting \in BOOLEAN /\ ctxDone \in BOOLEAN
    /\ advance \in BOOLEAN
    /\ \A m \in Requests : pc[m] \in RequestPC
    /\ \A s \in Resolvers : pc[s] \in ResolverPC
    /\ pc[Driver] \in DriverPC /\ pc[Executor] \in ExecutorPC
    /\ target \in [Resolvers -> Requests \cup {Nobody}]
    /\ seen \in [Processes -> BOOLEAN]
    /\ sweep \in [{Driver, Executor} -> Sweep]
    /\ run \in {"active", "terminal", "unfinished"}
    /\ failures \in [store : 0..MaxStoreFailures, file : 0..MaxFileFailures,
                     refusal : 0..MaxRefusals]

Init ==
    /\ status = [m \in Requests |-> "none"]
    /\ frozen = [m \in Requests |-> "none"]
    /\ scoped = [m \in Requests |-> FALSE]
    /\ opLock = [m \in Requests |-> Nobody]
    /\ waiter = [m \in Requests |-> FALSE] /\ wake = [m \in Requests |-> FALSE]
    /\ announced = [m \in Requests |-> <<>>]
    /\ task = "running" /\ exited = FALSE /\ local = "running"
    /\ accepting = TRUE /\ ctxDone = FALSE /\ advance = FALSE
    /\ pc = [p \in Processes |-> IF p = Driver THEN "starting"
                                 ELSE IF p = Executor THEN "wave" ELSE "idle"]
    /\ target = [s \in Resolvers |-> Nobody]
    /\ seen = [p \in Processes |-> FALSE]
    /\ sweep = [p \in {Driver, Executor} |-> NoSweep]
    /\ run = "active"
    /\ failures = [store |-> 0, file |-> 0, refusal |-> 0]

-----------------------------------------------------------------------------
(* Building blocks. *)

Goto(p, label) == pc' = [pc EXCEPT ![p] = label]

\* The message p works on: its own, or a resolver's target.
Subject(p) == IF p \in Resolvers THEN target[p] ELSE p

\* Give up the lock of message m if p holds it.
Release(p, m) == opLock' = [opLock EXCEPT ![m] = IF @ = p THEN Nobody ELSE @]

HasPendingDecisions == \E m \in Requests : status[m] = "queued"

\* A Commit or event append that works, and one that does not: refused after an
\* earlier failure, or failing now and closing the Supervisor.
StoreOK == accepting /\ UNCHANGED <<accepting, failures>>
StoreFails ==
    \/ ~accepting /\ UNCHANGED <<accepting, failures>>
    \/ /\ accepting /\ failures.store < MaxStoreFailures
       /\ accepting' = FALSE
       /\ failures' = [failures EXCEPT !.store = @ + 1]

FileFails ==
    /\ failures.file < MaxFileFailures
    /\ failures' = [failures EXCEPT !.file = @ + 1]

Refused ==
    /\ failures.refusal < MaxRefusals
    /\ failures' = [failures EXCEPT !.refusal = @ + 1]

\* CommitMessageProjection of m's new status.
Announce(m, kind) == announced' = [announced EXCEPT ![m] = Append(@, kind)]

\* notifyDecisionWaiter.
Notify(m) ==
    /\ wake' = [wake EXCEPT ![m] = @ \/ waiter[m]]
    /\ waiter' = [waiter EXCEPT ![m] = FALSE]

Unregister(m) == waiter' = [waiter EXCEPT ![m] = FALSE]

-----------------------------------------------------------------------------
(* recomputeTaskWaiting: the pending decisions are counted before the Commit *)
(* and, if there were any, looked up again inside it.                        *)

Recompute(p) ==
    /\ pc[p] = "recompute"
    /\ seen' = [seen EXCEPT ![p] = HasPendingDecisions]
    /\ Goto(p, "settle")
    /\ UNCHANGED <<messageVars, opLock, waitVars, taskVars, runVars, target, sweep>>

WaitingTask(hadPending) ==
    IF hadPending THEN IF HasPendingDecisions THEN "blocked" ELSE task
    ELSE IF task = "blocked" /\ ~exited THEN "running" ELSE task

\* Where the caller goes on.
Settled(p) ==
    IF p \in Resolvers THEN "announce" ELSE IF p = Driver THEN "record" ELSE "done"

\* The request ignores the outcome, gives up its lock if it still has it and
\* returns; a resolver goes on under its lock; a sweep is over.
Settle(p) ==
    /\ pc[p] = "settle" /\ p # Executor
    /\ StoreOK
    /\ task' = WaitingTask(seen[p])
    /\ IF p \in Requests THEN Release(p, p) ELSE UNCHANGED opLock
    /\ Goto(p, Settled(p))
    /\ UNCHANGED <<messageVars, waitVars, exited, local, ctxDone, run, target, seen, sweep>>

\* The Commit fails: a resolver returns the error.
SettleFails(p) ==
    /\ pc[p] = "settle" /\ p # Executor
    /\ StoreFails
    /\ IF p = Driver THEN UNCHANGED opLock ELSE Release(p, Subject(p))
    /\ Goto(p, IF p \in Resolvers THEN "idle" ELSE Settled(p))
    /\ target' = [s \in Resolvers |-> IF s = p THEN Nobody ELSE target[s]]
    /\ UNCHANGED <<messageVars, waitVars, taskVars, ctxDone, run, seen, sweep>>

-----------------------------------------------------------------------------
(* RequestMessage. *)

\* EnqueueDecision.
Enqueue(m) ==
    /\ pc[m] = "idle" /\ ~ctxDone
    /\ status' = [status EXCEPT ![m] = "queued"]
    /\ Goto(m, "enqueued")
    /\ UNCHANGED <<frozen, scoped, announced, opLock, waitVars, taskVars, runVars,
                   target, seen, sweep>>

Lock(m) ==
    /\ pc[m] = "enqueued" /\ opLock[m] = Nobody
    /\ opLock' = [opLock EXCEPT ![m] = m]
    /\ Goto(m, "locked")
    /\ UNCHANGED <<messageVars, waitVars, taskVars, runVars, target, seen, sweep>>

\* A re-read of the router under the lock finds the message closed.
FoundClosed(m) ==
    /\ pc[m] \in {"locked", "published", "announce"} /\ status[m] \in Closed
    /\ Unregister(m)
    /\ Goto(m, "recompute")
    /\ UNCHANGED <<messageVars, opLock, wake, advance, taskVars, runVars, target, seen, sweep>>

\* Mutant of PublishQueued: the router is not read again under the lock.
PublishQueuedUnread(m) ==
    /\ pc[m] = "locked"
    /\ StoreOK
    /\ Announce(m, "queued")
    /\ waiter' = [waiter EXCEPT ![m] = TRUE]
    /\ Goto(m, "published")
    /\ UNCHANGED <<status, frozen, scoped, opLock, wake, advance, taskVars, ctxDone,
                   run, target, seen, sweep>>

\* MessageQueued is committed, then the waiter registered.
PublishQueued(m) ==
    /\ pc[m] = "locked" /\ status[m] = "queued"
    /\ StoreOK
    /\ Announce(m, "queued")
    /\ waiter' = [waiter EXCEPT ![m] = TRUE]
    /\ Goto(m, "published")
    /\ UNCHANGED <<status, frozen, scoped, opLock, wake, advance, taskVars, ctxDone,
                   run, target, seen, sweep>>

\* PublishQuestionProjection and refreshQuestionProjection.
PublishQuestion(m) ==
    /\ pc[m] = "published" /\ status[m] = "queued"
    /\ Goto(m, "asked")
    /\ UNCHANGED <<messageVars, opLock, waitVars, taskVars, runVars, target, seen, sweep>>

\* The question's own file cannot be written: the request fails its message.
PublishQuestionFails(m) ==
    /\ pc[m] = "published" /\ status[m] = "queued"
    /\ FileFails
    /\ status' = [status EXCEPT ![m] = "failed"]
    /\ IF accepting THEN Announce(m, "failed") ELSE UNCHANGED announced
    /\ Unregister(m)
    /\ Goto(m, "recompute")
    /\ UNCHANGED <<frozen, scoped, opLock, wake, advance, taskVars, accepting,
                   ctxDone, run, target, seen, sweep>>

\* The task's top-level question cannot be written: the message stays queued.
RefreshQuestionFails(m) ==
    /\ pc[m] = "published" /\ status[m] = "queued"
    /\ FileFails
    /\ Unregister(m)
    /\ Goto(m, "recompute")
    /\ UNCHANGED <<messageVars, opLock, wake, advance, taskVars, accepting, ctxDone,
                   run, target, seen, sweep>>

setTaskWaiting(m) ==
    /\ pc[m] = "asked"
    /\ StoreOK
    /\ task' = "blocked"
    /\ Goto(m, "announce")
    /\ UNCHANGED <<messageVars, opLock, waitVars, exited, local, ctxDone, run, target, seen, sweep>>

\* MessageQueued or setTaskWaiting is not committed: the request returns.
RequestFails(m) ==
    /\ \/ pc[m] = "locked" /\ status[m] = "queued"
       \/ pc[m] = "asked"
    /\ StoreFails
    /\ Unregister(m)
    /\ Release(m, m)
    /\ Goto(m, "done")
    /\ UNCHANGED <<messageVars, wake, advance, taskVars, ctxDone, run, target, seen, sweep>>

\* Mutant of Block: the waiter is dropped before the lock is given up.
BlockUnregistered(m) ==
    /\ pc[m] = "announce" /\ status[m] = "queued"
    /\ StoreOK
    /\ Unregister(m)
    /\ Release(m, m)
    /\ Goto(m, "waiting")
    /\ UNCHANGED <<messageVars, wake, advance, taskVars, ctxDone, run, target, seen, sweep>>

\* QuestionPublished is appended, the lock given up, the request waits.
Block(m) ==
    /\ pc[m] = "announce" /\ status[m] = "queued"
    /\ StoreOK
    /\ Release(m, m)
    /\ Goto(m, "waiting")
    /\ UNCHANGED <<messageVars, waitVars, taskVars, ctxDone, run, target, seen, sweep>>

BlockFails(m) ==
    /\ pc[m] = "announce" /\ status[m] = "queued"
    /\ StoreFails
    /\ Unregister(m)
    /\ Goto(m, "recompute")
    /\ UNCHANGED <<messageVars, opLock, wake, advance, taskVars, ctxDone, run, target, seen, sweep>>

Woken(m) ==
    /\ pc[m] = "waiting" /\ wake[m]
    /\ wake' = [wake EXCEPT ![m] = FALSE]
    /\ Unregister(m)
    /\ Goto(m, "recompute")
    /\ UNCHANGED <<messageVars, opLock, advance, taskVars, runVars, target, seen, sweep>>

Cancelled(m) ==
    /\ pc[m] = "waiting" /\ ctxDone
    /\ Unregister(m)
    /\ Goto(m, "recompute")
    /\ UNCHANGED <<messageVars, opLock, wake, advance, taskVars, runVars, target, seen, sweep>>

-----------------------------------------------------------------------------
(* ResolveMessage. *)

\* The lock is taken and the resolution frozen; an identical frozen resolution
\* is resumed, a conflicting one and a closed message return at once.
Freeze(s, m, r) ==
    /\ pc[s] = "idle" /\ ~ctxDone /\ opLock[m] = Nobody
    /\ status[m] = "queued" /\ frozen[m] \in {"none", r}
    /\ frozen' = [frozen EXCEPT ![m] = r]
    /\ opLock' = [opLock EXCEPT ![m] = s]
    /\ target' = [target EXCEPT ![s] = m]
    /\ Goto(s, IF m \in ScopeRequests /\ r = "allow" THEN "scope" ELSE "answer")
    /\ UNCHANGED <<status, scoped, announced, waitVars, taskVars, runVars, seen, sweep>>

\* The resolver returns; its lock is released by defer.
Leave(s) ==
    /\ Release(s, target[s])
    /\ target' = [target EXCEPT ![s] = Nobody]
    /\ Goto(s, "idle")

approveScope(s) ==
    /\ pc[s] = "scope"
    /\ StoreOK
    /\ scoped' = [scoped EXCEPT ![target[s]] = TRUE]
    /\ Goto(s, "answer")
    /\ UNCHANGED <<status, frozen, announced, opLock, waitVars, taskVars, ctxDone,
                   run, target, seen, sweep>>

\* The widened scope is forbidden or fails the wave's preflight, or the answer
\* cannot be appended to the journal: the resolution stays frozen.
ResolveRefused(s) ==
    /\ pc[s] \in {"scope", "answer"} /\ (pc[s] = "scope" => accepting)
    /\ Refused
    /\ Leave(s)
    /\ UNCHANGED <<messageVars, waitVars, taskVars, accepting, ctxDone, run, seen, sweep>>

\* Transition to answered, CommitMessageProjection, notifyDecisionWaiter.
Answer(s) ==
    /\ pc[s] = "answer"
    /\ StoreOK
    /\ status' = [status EXCEPT ![target[s]] = "answered"]
    /\ Announce(target[s], "answered")
    /\ Notify(target[s])
    /\ Goto(s, "refresh")
    /\ UNCHANGED <<frozen, scoped, opLock, advance, taskVars, ctxDone, run, target, seen, sweep>>

\* The message is answered but the Commit fails: nobody is notified.
AnswerFails(s) ==
    /\ pc[s] = "answer"
    /\ StoreFails
    /\ status' = [status EXCEPT ![target[s]] = "answered"]
    /\ Leave(s)
    /\ UNCHANGED <<frozen, scoped, announced, waitVars, taskVars, ctxDone, run, seen, sweep>>

\* refreshQuestionProjection.
Refresh(s) ==
    /\ pc[s] = "refresh"
    /\ Goto(s, "recompute")
    /\ UNCHANGED <<messageVars, opLock, waitVars, taskVars, runVars, target, seen, sweep>>

RefreshFails(s) ==
    /\ pc[s] = "refresh"
    /\ FileFails
    /\ Leave(s)
    /\ UNCHANGED <<messageVars, waitVars, taskVars, accepting, ctxDone, run, seen, sweep>>

\* approveScope or the last event is not committed: the resolver returns.
ResolveFails(s) ==
    /\ pc[s] \in {"scope", "announce"}
    /\ StoreFails
    /\ Leave(s)
    /\ UNCHANGED <<messageVars, waitVars, taskVars, ctxDone, run, seen, sweep>>

\* Mutant of FinishResolve: the advance channel has no buffer.
FinishResolveUnbuffered(s) ==
    /\ pc[s] = "announce"
    /\ StoreOK
    /\ advance' = (advance \/ (~HasPendingDecisions /\ pc[Executor] = "awaiting"))
    /\ Leave(s)
    /\ UNCHANGED <<messageVars, waiter, wake, taskVars, ctxDone, run, seen, sweep>>

\* MessageAnswered is appended; signalAdvance if no decision is left.
FinishResolve(s) ==
    /\ pc[s] = "announce"
    /\ StoreOK
    /\ advance' = (advance \/ ~HasPendingDecisions)
    /\ Leave(s)
    /\ UNCHANGED <<messageVars, waiter, wake, taskVars, ctxDone, run, seen, sweep>>

-----------------------------------------------------------------------------
(* The end of the task and of the run: executeTask, expireTaskMessages,     *)
(* execute and finishRun.                                                   *)

\* refreshTaskRuntime: the Driver takes a new copy of the task, once its worker has been
\* started, while it collects the result, and after a transition of its own.
AfterRefresh == [starting |-> "running", result |-> "result", reported |-> "verifying",
                 rejected |-> "record", failing |-> "enumerate"]

refreshTaskRuntime ==
    /\ pc[Driver] \in DOMAIN AfterRefresh
    /\ local' = task
    /\ Goto(Driver, AfterRefresh[pc[Driver]])
    /\ UNCHANGED <<task, exited, messageVars, opLock, waitVars, runVars, target, seen, sweep>>

\* Mutant of IndexPending: a message is not asked whether it is terminal.
IndexKnown == \E m \in Requests : announced[m] # <<>>

\* messageIndex shows an open decision: it knows what CommitMessageProjection has told it.
IndexPending ==
    \E m \in Requests : announced[m] # <<>> /\ announced[m][Len(announced[m])] = "queued"

\* saveRuntime puts the Driver's copy over the snapshot: at a native event, at a change of
\* progress, with the identity of the runtime, after the validation and for a failed task.
AfterSave == [running |-> "running", result |-> "result", verifying |-> "validated",
              record |-> "failed"]

SavedStatus == IF IndexPending THEN "blocked" ELSE local

\* A Commit that fails is ignored here.
saveRuntime ==
    /\ pc[Driver] \in DOMAIN AfterSave
    /\ \/ StoreOK /\ task' = SavedStatus
       \/ StoreFails /\ UNCHANGED task
    /\ Goto(Driver, AfterSave[pc[Driver]])
    /\ UNCHANGED <<exited, local, messageVars, opLock, waitVars, ctxDone, run, target, seen,
                   sweep>>

\* The end of runWorkerSession and the refresh after it: the exit may not have been observed.
WorkerExits ==
    /\ pc[Driver] = "running"
    /\ StoreOK
    /\ exited' \in BOOLEAN /\ local' = task
    /\ Goto(Driver, "result")
    /\ UNCHANGED <<task, messageVars, opLock, waitVars, ctxDone, run, target, seen, sweep>>

\* applyResultEnvelope takes over a blocked or failed report ...
EndTask(end) ==
    /\ pc[Driver] = "result" /\ end # "verified"
    /\ StoreOK
    /\ task' = end
    /\ Goto(Driver, "done")
    /\ UNCHANGED <<exited, local, messageVars, opLock, waitVars, ctxDone, run, target, seen, sweep>>

\* ... or takes the task of a complete one through reported_complete and verifying ...
ReportComplete ==
    /\ pc[Driver] = "result"
    /\ StoreOK
    /\ task' = "verifying"
    /\ Goto(Driver, "reported")
    /\ UNCHANGED <<exited, local, messageVars, opLock, waitVars, ctxDone, run, target, seen, sweep>>

\* ... to a verdict, when neither the task nor the copy has been blocked meanwhile.
Judged == local = "verifying" /\ task = "verifying"

VerifyTask ==
    /\ pc[Driver] = "validated" /\ Judged
    /\ StoreOK
    /\ task' = "verified"
    /\ Goto(Driver, "done")
    /\ UNCHANGED <<exited, local, messageVars, opLock, waitVars, ctxDone, run, target, seen, sweep>>

RejectTask ==
    /\ pc[Driver] = "validated" /\ Judged
    /\ StoreOK
    /\ task' = "failed"
    /\ Goto(Driver, "rejected")
    /\ UNCHANGED <<exited, local, messageVars, opLock, waitVars, ctxDone, run, target, seen, sweep>>

\* The table has no way from blocked to a verdict, or the Commit fails:
\* executeTask returns the error.
VerifyRefused ==
    /\ pc[Driver] = "validated"
    /\ \/ ~Judged /\ UNCHANGED <<accepting, failures>>
       \/ StoreFails
    /\ Goto(Driver, "failed")
    /\ UNCHANGED <<messageVars, opLock, waitVars, taskVars, ctxDone, run, target, seen, sweep>>

\* failTask and cancelTask expire the messages of the task they end.
FailTask ==
    /\ pc[Driver] \in {"starting", "result"}
    /\ StoreOK
    /\ task' = "failed"
    /\ Goto(Driver, "failing")
    /\ UNCHANGED <<exited, local, messageVars, opLock, waitVars, ctxDone, run, target, seen, sweep>>

\* The worker's start, its exit or the end of the task is not committed.
EndFails ==
    /\ pc[Driver] \in {"starting", "running", "result"}
    /\ StoreFails
    /\ Goto(Driver, "failed")
    /\ UNCHANGED <<taskVars, messageVars, opLock, waitVars, ctxDone, run, target, seen, sweep>>

\* Start calls finishRun once more after execute has failed.
FinishFailed == IF run = "active" THEN "enumerate" ELSE "done"

\* expireTaskMessages lists the pending messages without any lock.
Enumerate(p) ==
    /\ pc[p] = "enumerate"
    /\ sweep' = [sweep EXCEPT ![p] = [left |-> {m \in Requests : status[m] = "queued"},
                                      expired |-> FALSE, refused |-> FALSE]]
    /\ Goto(p, "expire")
    /\ UNCHANGED <<messageVars, opLock, waitVars, taskVars, runVars, target, seen>>

\* Mutant of Expirable: the resolution is not looked at.
ExpirableFrozen(m) == status[m] = "queued"

Expirable(m) == status[m] = "queued" /\ frozen[m] = "none"

\* expireOneMessage with its lock, Commit and notification.
ExpireOne(p, m) ==
    /\ pc[p] = "expire" /\ m \in sweep[p].left /\ opLock[m] = Nobody
    /\ Expirable(m)
    /\ StoreOK
    /\ status' = [status EXCEPT ![m] = "expired"]
    /\ Announce(m, "expired")
    /\ Notify(m)
    /\ sweep' = [sweep EXCEPT ![p].left = @ \ {m}, ![p].expired = TRUE]
    /\ UNCHANGED <<frozen, scoped, opLock, advance, taskVars, ctxDone, run, pc, target, seen>>

\* A message closed meanwhile is passed over, a frozen one is refused.
ExpireNothing(p, m) ==
    /\ pc[p] = "expire" /\ m \in sweep[p].left /\ opLock[m] = Nobody
    /\ ~Expirable(m)
    /\ sweep' = [sweep EXCEPT ![p].left = @ \ {m},
                              ![p].refused = @ \/ status[m] = "queued"]
    /\ UNCHANGED <<messageVars, opLock, waitVars, taskVars, runVars, pc, target, seen>>

\* The sweep ends with an error: cancelTask returns it, failTask still saves the task, and
\* finishRun has failed.
Abort(p) ==
    /\ \E label \in IF p = Driver THEN {"record", "failed"} ELSE {FinishFailed} : Goto(p, label)
    /\ run' = IF p = Executor THEN "unfinished" ELSE run

\* The message is expired but the Commit fails.
ExpireFails(p, m) ==
    /\ pc[p] = "expire" /\ m \in sweep[p].left /\ opLock[m] = Nobody
    /\ Expirable(m)
    /\ StoreFails
    /\ status' = [status EXCEPT ![m] = "expired"]
    /\ Abort(p)
    /\ UNCHANGED <<frozen, scoped, announced, opLock, waitVars, taskVars, ctxDone,
                   target, seen, sweep>>

\* The message cannot be expired in the journal.
ExpireRefused(p, m) ==
    /\ pc[p] = "expire" /\ m \in sweep[p].left /\ opLock[m] = Nobody
    /\ Expirable(m)
    /\ Refused
    /\ Abort(p)
    /\ UNCHANGED <<messageVars, opLock, waitVars, taskVars, accepting, ctxDone,
                   target, seen, sweep>>

ExpireDone(p) ==
    /\ pc[p] = "expire" /\ sweep[p].left = {}
    /\ Goto(p, "recompute")
    /\ UNCHANGED <<messageVars, opLock, waitVars, taskVars, runVars, target, seen, sweep>>

\* ClearTopLevelQuestion fails.
ClearFails(p) ==
    /\ pc[p] = "expire" /\ sweep[p].left = {}
    /\ FileFails
    /\ Abort(p)
    /\ UNCHANGED <<messageVars, opLock, waitVars, taskVars, accepting, ctxDone,
                   target, seen, sweep>>

\* executeWave waits for the task: an error, a lost store or a cancelled context
\* ends the run, otherwise the barrier decides.
WaveDone ==
    /\ pc[Executor] = "wave" /\ pc[Driver] \in {"done", "failed"}
    /\ Goto(Executor, IF pc[Driver] = "failed" \/ ~accepting \/ ctxDone
                      THEN "enumerate" ELSE "barrier")
    /\ UNCHANGED <<messageVars, opLock, waitVars, taskVars, runVars, target, seen, sweep>>

\* EvaluateBarrier: a failed task ends the run; a pending decision or a blocked
\* task makes execute return errAwaitingDecision.
Barrier ==
    /\ pc[Executor] = "barrier"
    /\ Goto(Executor,
            IF task # "failed" /\ (HasPendingDecisions \/ task \in {"blocked", "final_blocked"})
            THEN "blocked" ELSE "enumerate")
    /\ UNCHANGED <<messageVars, opLock, waitVars, taskVars, runVars, target, seen, sweep>>

\* The checks have run, the blocked result and the run's status are committed
\* and Start waits.
AwaitDecision ==
    /\ pc[Executor] = "blocked"
    /\ StoreOK
    /\ Goto(Executor, "awaiting")
    /\ UNCHANGED <<messageVars, opLock, waitVars, taskVars, ctxDone, run, target, seen, sweep>>

\* execute returns the error of a Commit, here or early in its next pass.
AwaitFails ==
    /\ pc[Executor] \in {"blocked", "pass"}
    /\ StoreFails
    /\ run' = "unfinished"
    /\ Goto(Executor, "enumerate")
    /\ UNCHANGED <<messageVars, opLock, waitVars, taskVars, ctxDone, target, seen, sweep>>

\* Start's select on the advance channel and on the context.
Advance ==
    /\ pc[Executor] = "awaiting" /\ advance
    /\ advance' = FALSE
    /\ Goto(Executor, "pass")
    /\ UNCHANGED <<messageVars, opLock, waiter, wake, taskVars, runVars, target, seen, sweep>>

\* The next pass of execute leaves a task alone that is at an end.
SkipTask ==
    /\ pc[Executor] = "pass" /\ task \in Endings /\ accepting
    /\ Goto(Executor, "barrier")
    /\ UNCHANGED <<messageVars, opLock, waitVars, taskVars, runVars, target, seen, sweep>>

\* Any other is started again, resuming its session ...
RerunTask ==
    /\ pc[Executor] = "pass" /\ task \notin Endings
    /\ StoreOK
    /\ task' = "running" /\ exited' = FALSE /\ local' = "running"
    /\ pc' = [pc EXCEPT ![Executor] = "wave", ![Driver] = "starting"]
    /\ UNCHANGED <<messageVars, opLock, waitVars, ctxDone, run, target, seen, sweep>>

\* ... or refused for want of a session: the run fails.
RerunRefused ==
    /\ pc[Executor] = "pass" /\ task \notin Endings /\ accepting
    /\ Goto(Executor, "enumerate")
    /\ UNCHANGED <<messageVars, opLock, waitVars, taskVars, runVars, target, seen, sweep>>

Interrupt ==
    /\ pc[Executor] = "awaiting" /\ ctxDone
    /\ run' = "unfinished"
    /\ Goto(Executor, "enumerate")
    /\ UNCHANGED <<messageVars, opLock, waitVars, taskVars, accepting, ctxDone, failures,
                   target, seen, sweep>>

\* The rest of finishRun commits the terminal status, unless the sweep refused
\* a frozen message and expired none.
FinishRun ==
    /\ pc[Executor] = "settle"
    /\ sweep[Executor].refused => sweep[Executor].expired
    /\ StoreOK
    /\ task' = WaitingTask(seen[Executor])
    /\ run' = "terminal"
    /\ Goto(Executor, "done")
    /\ UNCHANGED <<messageVars, opLock, waitVars, exited, local, ctxDone, target, seen, sweep>>

FinishRunRefused ==
    /\ pc[Executor] = "settle"
    /\ sweep[Executor].refused /\ ~sweep[Executor].expired
    /\ StoreOK
    /\ task' = WaitingTask(seen[Executor])
    /\ Abort(Executor)
    /\ UNCHANGED <<messageVars, opLock, waitVars, exited, local, ctxDone, target, seen, sweep>>

FinishRunFails ==
    /\ pc[Executor] = "settle"
    /\ StoreFails
    /\ Abort(Executor)
    /\ UNCHANGED <<messageVars, opLock, waitVars, taskVars, ctxDone, target, seen, sweep>>

\* watchPersistenceFailures after a failure, Start's deferred cancel at the end.
CancelContext ==
    /\ ~ctxDone
    /\ ~accepting \/ pc[Executor] = "done"
    /\ ctxDone' = TRUE
    /\ UNCHANGED <<messageVars, opLock, waitVars, taskVars, accepting, run, failures, localVars>>

-----------------------------------------------------------------------------

Request(m) ==
    \/ FoundClosed(m)
    \/ PublishQueued(m)
    \/ PublishQuestion(m)
    \/ setTaskWaiting(m)
    \/ Block(m)
    \/ Woken(m)
    \/ Cancelled(m)
    \/ Recompute(m)
    \/ Settle(m)

RequestError(m) ==
    \/ PublishQuestionFails(m)
    \/ RefreshQuestionFails(m)
    \/ RequestFails(m)
    \/ BlockFails(m)
    \/ SettleFails(m)

Resolve(s) ==
    \/ approveScope(s)
    \/ Answer(s)
    \/ Refresh(s)
    \/ Recompute(s)
    \/ Settle(s)
    \/ FinishResolve(s)

ResolveError(s) ==
    \/ ResolveRefused(s)
    \/ AnswerFails(s)
    \/ RefreshFails(s)
    \/ ResolveFails(s)
    \/ SettleFails(s)

Expire(p) ==
    \/ Enumerate(p)
    \/ \E m \in Requests : ExpireOne(p, m) \/ ExpireNothing(p, m)
                           \/ ExpireFails(p, m) \/ ExpireRefused(p, m)
    \/ ExpireDone(p)
    \/ ClearFails(p)
    \/ Recompute(p)

\* What the Driver has begun to end.
Drive ==
    \/ refreshTaskRuntime /\ pc[Driver] # "result"
    \/ saveRuntime /\ pc[Driver] \notin {"running", "result"}
    \/ VerifyTask
    \/ RejectTask
    \/ VerifyRefused
    \/ Expire(Driver)
    \/ Settle(Driver)
    \/ SettleFails(Driver)

Execute ==
    \/ Expire(Executor)
    \/ WaveDone
    \/ Barrier
    \/ AwaitDecision
    \/ AwaitFails
    \/ Advance
    \/ SkipTask
    \/ RerunTask
    \/ RerunRefused
    \/ Interrupt
    \/ FinishRun
    \/ FinishRunRefused
    \/ FinishRunFails

Next ==
    \/ \E m \in Requests : Enqueue(m) \/ Lock(m) \/ Request(m) \/ RequestError(m)
    \/ \E s \in Resolvers, m \in Requests, r \in Resolutions : Freeze(s, m, r)
    \/ \E s \in Resolvers : Resolve(s) \/ ResolveError(s)
    \/ refreshTaskRuntime \/ saveRuntime \/ WorkerExits
    \/ \E end \in Endings : EndTask(end)
    \/ ReportComplete
    \/ FailTask
    \/ EndFails
    \/ Drive
    \/ Execute
    \/ CancelContext

\* Every goroutine that has begun goes on.  Nobody has to ask, to answer or to
\* end the task.
Fairness ==
    /\ \A m \in Requests : WF_vars(Lock(m) \/ Request(m) \/ RequestError(m))
    /\ \A s \in Resolvers : WF_vars(Resolve(s) \/ ResolveError(s))
    /\ WF_vars(Drive)
    /\ WF_vars(Execute)
    /\ WF_vars(CancelContext)

Spec == Init /\ [][Next]_vars /\ Fairness

-----------------------------------------------------------------------------
(* Properties. *)

\* messages.go:65-66 "so MessageQueued cannot be appended after a concurrent
\* MessageAnswered": the event log never shows a message queued after it was
\* closed, and shows it closed at most once.
EventsInOrder ==
    /\ TypeOK
    /\ \A m \in Requests : \A i, j \in DOMAIN announced[m] :
        i < j => announced[m][i] = "queued" /\ announced[m][j] \in Closed

\* messages.go:185-186 "so a concurrent answer does not leave the Task blocked
\* with no pending decisions": once every goroutine is out of its critical part,
\* a task whose worker lives is blocked only if a decision is open, whatever the
\* Driver saves over it meanwhile.  It excepts a question file that could not be
\* written, as BarrierResumes does, and a Driver that took its copy of the task
\* while a decision was open (execute_task.go:288): it saves the old "blocked"
\* over the answer.
NoPhantomBlock ==
    /\ accepting /\ failures.file = 0 /\ pc[Driver] \in {"starting", "running"}
    /\ \A m \in Requests : pc[m] \in {"idle", "waiting", "done"}
    /\ \A s \in Resolvers : pc[s] = "idle"
    /\ task = "blocked" /\ local # "blocked"
    => HasPendingDecisions

\* messages.go:256 "Held under the Service op lock so expiration cannot
\* interleave": a scope is only ever widened by a decision frozen as allowed
\* that no sweep has expired, before or after.
WidenedScopeIsDecided ==
    \A m \in Requests : scoped[m] => frozen[m] = "allow" /\ status[m] # "expired"

\* A request whose message is closed, or whose run is over, returns to its
\* worker: no wake-up is lost between registration, answer, expiry and failure.
RequestsReturn ==
    \A m \in Requests :
        (status[m] \in Closed \/ ctxDone) /\ pc[m] # "idle" ~> pc[m] = "done"

\* messages.go:303-304 "Wake the long-lived Supervisor so it re-evaluates the
\* Barrier automatically": once no decision is left the executor does not go on
\* waiting, unless another is asked, it waits for a task the worker itself
\* reported as blocked, or a question file could not be written (ResolveMessage
\* then returns before it signals).
BarrierResumes ==
    pc[Executor] = "awaiting" /\ ~HasPendingDecisions /\ task # "final_blocked"
        ~> pc[Executor] # "awaiting" \/ HasPendingDecisions \/ failures.file > 0
=============================================================================

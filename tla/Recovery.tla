------------------------------ MODULE Recovery ------------------------------
(***************************************************************************)
(* Worker attempts across Supervisor crashes                               *)
(* (internal/supervisor/recovery.go, internal/worker/attempt.go and        *)
(* executeTask of internal/supervisor/execute_task.go).                    *)
(*                                                                         *)
(* A Supervisor starts one worker process per task and records it by two   *)
(* Commits, one before and one after the process exists; it may die        *)
(* between any two Commits while its workers live on.  The next one        *)
(* classifies every task by what it recorded and by what the operating     *)
(* system says of the recorded process, applies the decisions one Commit   *)
(* at a time and only then executes the tasks that may run.                *)
(*                                                                         *)
(* A Commit is atomic here (EventCommit is about its parts), the inside of *)
(* a session is WorkerSession's, what follows a wave is RunLifecycle's.    *)
(***************************************************************************)
EXTENDS Integers, Sequences, FiniteSets, TaskStates

CONSTANTS
    NTasks,         \* the tasks of the wave, in the order of the snapshot
    MaxConcurrency, \* tasks of a wave that run at a time
    MaxAttempts,    \* bound on worker attempts of one task
    MaxCrashes,     \* bound on Supervisor crashes
    Resumes         \* tasks whose harness supports ResumeSession

Tasks == 1 .. NTasks

ASSUME RecoveryAssumption ==
    /\ NTasks \in Nat \ {0}
    /\ MaxConcurrency \in Nat \ {0}
    /\ MaxAttempts \in Nat \ {0}
    /\ MaxCrashes \in Nat
    /\ Resumes \subseteq 1 .. NTasks

VARIABLES
    run,        \* Run.Status
    task,       \* the snapshot's TaskState of each task
    os,         \* what became of the process of each attempt
    phase,      \* where the Supervisor is
    decision,   \* the class of each task ClassifyRecovery has seen
    applied,    \* decisions applied, in order
    drv,        \* where executeTask of each task is
    crashes

vars == <<run, task, os, phase, decision, applied, drv, crashes>>
supervisorVars == <<phase, decision, applied, crashes>>

Outcomes == {"running", "exited", "orphaned", "pid_reused", "failed_start"}
Processes == {"queued", "starting", "alive", "exited", "orphaned", "unknown"}
Classes == {"already_terminal", "never_started", "missing_identity", "identity_incomplete",
            "exited_resumable", "exited_unresumable", "inspect_unknown", "pid_reused",
            "alive_orphaned"}

\* What is recorded of a WorkerSession: nothing at all, or its id and perhaps its process
\* identity (pid and start token) and its native session.
NoWorker == {}
Workers == {{"id"} \cup w : w \in SUBSET {"pid", "native"}}
Attempts == [mode : {"fresh", "recovery_resume"}, outcome : Outcomes, worker : Workers]
NoReport == [attempt |-> 0, stale |-> FALSE]

TaskState ==
    [status : TaskStatuses, final : BOOLEAN, process : Processes,
     worker : Workers \cup {NoWorker}, attempts : Seq(Attempts), active : Nat,
     report : [attempt : Nat, stale : BOOLEAN]]

\* The root process of an attempt; the rest of its group is ProcessTree's.
Fates == {"none", "alive", "gone", "reused"}

\* What executeTask returned: nil, an error of a task that has ended, any other error.
Returned == {"ok", "failed", "fatal"}
Running == {"begun", "counted", "starting", "unstarted", "spawned", "session", "unconfirmed",
            "ended", "finished", "reported", "complete", "verifying"}

TypeOK ==
    /\ run \in RunStatuses
    /\ task \in [Tasks -> TaskState]
    /\ os \in [Tasks -> [1 .. MaxAttempts -> Fates]]
    /\ phase \in {"down", "classify", "apply", "aggregate", "execute", "done"}
    /\ decision \in [Tasks -> Classes \cup {"none"}]
    /\ applied \in 0 .. NTasks
    /\ drv \in [Tasks -> {"idle"} \cup Running \cup Returned]
    /\ crashes \in 0 .. MaxCrashes

-----------------------------------------------------------------------------
Planned ==
    [status |-> "planned", final |-> FALSE, process |-> "queued", worker |-> NoWorker,
     attempts |-> <<>>, active |-> 0, report |-> NoReport]

\* A task of a snapshot written before attempts were kept: its worker, or not even that.
Legacy(w) == [Planned EXCEPT !.status = "running", !.process = "alive", !.worker = w]

\* A dispatched run, or one an earlier version left behind when its Supervisor died.  (A
\* worker of which less is recorded is what a crash leaves.)
Init ==
    /\ \/ phase = "execute" /\ run = "starting" /\ task = [t \in Tasks |-> Planned]
       \/ /\ phase = "down" /\ run = "running"
          /\ \E w \in {NoWorker, {"id", "pid", "native"}} :
                task = [t \in Tasks |-> IF t = 1 THEN Legacy(w) ELSE Planned]
    /\ os = [t \in Tasks |-> [n \in 1 .. MaxAttempts |->
                IF n = 1 /\ task[t].status = "running" THEN "alive" ELSE "none"]]
    /\ decision = [t \in Tasks |-> "none"]
    /\ applied = 0
    /\ drv = [t \in Tasks |-> "idle"]
    /\ crashes = 0

-----------------------------------------------------------------------------
(* Attempts. *)

recoveryTaskTerminal(ts) ==
    \/ ts.status \in {"verified_success", "verified_partial", "verification_failed", "failed",
                      "cancelled"}
    \/ ts.status = "blocked" /\ ts.final

unsuccessfulTaskTerminal(ts) ==
    recoveryTaskTerminal(ts) /\ ts.status \notin {"verified_success", "verified_partial"}

runTerminal(s) == s \in {"completed", "failed", "cancelled", "degraded"}

migrateAttempts(ts) ==
    IF ts.attempts # <<>> \/ ts.worker = NoWorker THEN ts
    ELSE LET outcome == CASE ts.process = "exited"   -> "exited"
                          [] ts.process = "orphaned" -> "orphaned"
                          [] OTHER                   -> "running"
         IN  [ts EXCEPT
                !.attempts = << [mode |-> "fresh", outcome |-> outcome, worker |-> ts.worker] >>,
                !.active = IF outcome = "running" THEN 1 ELSE ts.active]

\* The attempt's worker becomes the task's.
finishActiveAttempt(ts, outcome) ==
    LET m == migrateAttempts(ts)
    IN  IF m.active = 0 THEN m
        ELSE [m EXCEPT !.attempts[m.active].outcome = outcome,
                       !.worker = m.attempts[m.active].worker,
                       !.active = 0]

updateWorker(ts, w) ==
    [ts EXCEPT !.worker = w,
               !.attempts = [n \in DOMAIN @ |->
                                IF n = ts.active THEN [@[n] EXCEPT !.worker = w] ELSE @[n]]]

Active(ts) == \E n \in DOMAIN ts.attempts : ts.attempts[n].outcome = "running"

\* The mode executeTask chooses, "refused" for an error.
chooseMode(ts) ==
    CASE ts.attempts = <<>> -> "fresh"
      [] "native" \in ts.worker /\ ts.process = "exited" -> "recovery_resume"
      [] ts.active = 0 -> "refused"
      [] OTHER -> "fresh"

\* Begin refuses while an attempt runs, and a fresh one after any other.
CanBegin(ts, mode) ==
    /\ mode # "refused"
    /\ ~Active(ts)
    /\ mode = "fresh" <=> ts.attempts = <<>>

\* Mutant: the frozen report survives a new attempt.
BeginKeepsReport(ts, mode) ==
    LET w == IF mode = "recovery_resume" THEN {"id", "native"} ELSE {"id"}
    IN  [ts EXCEPT !.attempts = Append(@, [mode |-> mode, outcome |-> "running", worker |-> w]),
                   !.active = Len(ts.attempts) + 1,
                   !.worker = w,
                   !.process = "starting"]

Begin(ts, mode) ==
    LET w == IF mode = "recovery_resume" THEN {"id", "native"} ELSE {"id"}
    IN  [ts EXCEPT !.attempts = Append(@, [mode |-> mode, outcome |-> "running", worker |-> w]),
                   !.active = Len(ts.attempts) + 1,
                   !.worker = w,
                   !.process = "starting",
                   !.report.stale = ts.report.attempt # 0]

-----------------------------------------------------------------------------
(* Recovery. *)

recoveryTaskNeverStarted(ts) ==
    /\ ts.worker = NoWorker /\ ts.active = 0 /\ ts.attempts = <<>>
    /\ ts.status = "planned" /\ ts.process = "queued"

\* Only the inspection speaks of a recorded process identity.  Mutant first: an Inspect
\* that failed is taken for an exit.
classifyErrorAsExit(ts, inspect, supportsResume) ==
    CASE inspect = "other" -> "pid_reused"
      [] inspect = "same"  -> "alive_orphaned"
      [] OTHER -> IF "native" \in ts.worker /\ supportsResume
                  THEN "exited_resumable" ELSE "exited_unresumable"

classifyInspected(ts, inspect, supportsResume) ==
    CASE inspect = "not_found" -> IF "native" \in ts.worker /\ supportsResume
                                  THEN "exited_resumable" ELSE "exited_unresumable"
      [] inspect = "error"     -> "inspect_unknown"
      [] inspect = "other"     -> "pid_reused"
      [] inspect = "same"      -> "alive_orphaned"

ClassifyRecovery(ts, inspect, supportsResume) ==
    IF recoveryTaskTerminal(ts) THEN "already_terminal"
    ELSE IF recoveryTaskNeverStarted(ts) THEN "never_started"
    ELSE IF ts.worker = NoWorker THEN "missing_identity"
    ELSE IF "pid" \notin ts.worker THEN "identity_incomplete"
    ELSE classifyInspected(ts, inspect, supportsResume)

\* process.Inspect of the recorded root: a failure proves nothing.
Inspect(t) ==
    LET n == IF task[t].attempts = <<>> THEN 1 ELSE Len(task[t].attempts)
    IN  {"error", CASE os[t][n] = "alive"  -> "same"
                    [] os[t][n] = "reused" -> "other"
                    [] OTHER               -> "not_found"}

failIfLegal(ts) ==
    IF ValidateTaskTransition(ts.status, "failed") THEN [ts EXCEPT !.status = "failed"] ELSE ts

applyRecoveryDecision(ts, class) ==
    CASE class \in {"already_terminal", "never_started"} -> ts
      [] class = "alive_orphaned" ->
            finishActiveAttempt([ts EXCEPT !.process = "orphaned"], "orphaned")
      [] class = "pid_reused" ->
            failIfLegal(finishActiveAttempt([ts EXCEPT !.process = "unknown"], "pid_reused"))
      [] class \in {"inspect_unknown", "identity_incomplete"} ->
            IF ts.active > 0
            THEN finishActiveAttempt([ts EXCEPT !.process = "unknown"], "orphaned")
            ELSE [ts EXCEPT !.process = "unknown"]
      [] class = "exited_unresumable" ->
            failIfLegal(finishActiveAttempt([ts EXCEPT !.process = "exited"], "exited"))
      [] class = "missing_identity" ->
            failIfLegal(finishActiveAttempt([ts EXCEPT !.process = "unknown"], "orphaned"))
      [] class = "exited_resumable" ->
            finishActiveAttempt([ts EXCEPT !.process = "exited"], "exited")

\* Start with --recover: a run that has ended is left alone.
Restart ==
    /\ phase = "down"
    /\ run' = IF runTerminal(run) THEN run ELSE "recovering"
    /\ phase' = IF runTerminal(run) THEN "done" ELSE "classify"
    /\ UNCHANGED <<task, os, decision, applied, drv, crashes>>

\* Every task is classified, each at its own moment, before any decision is applied.
Classify(t) ==
    /\ phase = "classify"
    /\ decision[t] = "none"
    /\ \A u \in 1 .. t - 1 : decision[u] # "none"
    /\ \E i \in Inspect(t) :
          decision' = [decision EXCEPT ![t] = ClassifyRecovery(task[t], i, t \in Resumes)]
    /\ phase' = IF t = NTasks THEN "apply" ELSE phase
    /\ UNCHANGED <<run, task, os, applied, drv, crashes>>

Apply ==
    /\ phase = "apply"
    /\ LET t == applied + 1
       IN  task' = [task EXCEPT ![t] = applyRecoveryDecision(@, decision[t])]
    /\ applied' = applied + 1
    /\ phase' = IF applied' = NTasks THEN "aggregate" ELSE phase
    /\ UNCHANGED <<run, os, decision, drv, crashes>>

Decided(classes) == \E t \in Tasks : decision[t] \in classes

Aggregate ==
    /\ phase = "aggregate"
    /\ run' = CASE Decided({"alive_orphaned", "inspect_unknown", "identity_incomplete",
                            "pid_reused"}) -> "degraded"
                [] OTHER ->
                     IF \/ Decided({"exited_unresumable", "missing_identity"})
                        \/ \E t \in Tasks : decision[t] = "already_terminal"
                                            /\ unsuccessfulTaskTerminal(task[t])
                     THEN "failed" ELSE "running"
    /\ phase' = IF runTerminal(run') THEN "done" ELSE "execute"
    /\ decision' = [t \in Tasks |-> "none"] /\ applied' = 0
    /\ UNCHANGED <<task, os, drv, crashes>>

-----------------------------------------------------------------------------
(* executeTask. *)

At(t, p) == phase = "execute" /\ drv[t] = p

Goto(t, p) == drv' = [drv EXCEPT ![t] = p] /\ UNCHANGED supervisorVars

\* A goroutine of executeWave, once the semaphore lets it, up to the Commit of
\* WorkerAttemptStarted.
StartAttempt(t) ==
    /\ At(t, "idle")
    /\ Cardinality({u \in Tasks : drv[u] \in Running}) < MaxConcurrency
    /\ LET ts == migrateAttempts(task[t])
           mode == chooseMode(ts)
       IN  \/ /\ recoveryTaskTerminal(task[t]) \/ task[t].process \in {"orphaned", "unknown"}
              /\ Goto(t, "ok") /\ UNCHANGED task
           \/ /\ ~recoveryTaskTerminal(task[t]) /\ task[t].process \notin {"orphaned", "unknown"}
              /\ IF CanBegin(ts, mode)
                 THEN /\ Len(ts.attempts) < MaxAttempts
                      /\ task' = [task EXCEPT ![t] = Begin(ts, mode)]
                      /\ Goto(t, "begun")
                 ELSE Goto(t, "fatal") /\ UNCHANGED task
    /\ UNCHANGED <<run, os>>

CountRunning(t) ==
    /\ At(t, "begun")
    /\ run' = "running"
    /\ Goto(t, "counted")
    /\ UNCHANGED <<task, os>>

\* Mutant: an illegal transition is waited out.
EnterRunningWhenLegal(t) ==
    /\ At(t, "counted")
    /\ ValidateTaskTransition(task[t].status, "running")
    /\ task' = [task EXCEPT ![t].status = "running"]
    /\ Goto(t, "starting")
    /\ UNCHANGED <<run, os>>

\* transitionTask: a task that died while it was verified cannot go back.
EnterRunning(t) ==
    /\ At(t, "counted")
    /\ IF ValidateTaskTransition(task[t].status, "running")
       THEN task' = [task EXCEPT ![t].status = "running"] /\ Goto(t, "starting")
       ELSE UNCHANGED task /\ Goto(t, "fatal")
    /\ UNCHANGED <<run, os>>

\* StartSession or ResumeSession: the process exists before anything records it.
Spawn(t) ==
    /\ At(t, "starting")
    /\ os' = [os EXCEPT ![t][task[t].active] = "alive"]
    /\ Goto(t, "spawned")
    /\ UNCHANGED <<run, task>>

SpawnFails(t) ==
    /\ At(t, "starting")
    /\ task' = [task EXCEPT ![t] = finishActiveAttempt(@, "failed_start")]
    /\ Goto(t, "unstarted")
    /\ UNCHANGED <<run, os>>

\* The Commit of ProcessSpawned: the start token or the native session may be unknown.
RecordSpawn(t) ==
    /\ At(t, "spawned")
    /\ \E w \in Workers :
          /\ task[t].worker \subseteq w
          /\ task' = [task EXCEPT ![t] = updateWorker([@ EXCEPT !.process = "alive"], w)]
    /\ Goto(t, "session")
    /\ UNCHANGED <<run, os>>

failTask(t) ==
    /\ task' = [task EXCEPT ![t].status = "failed"]
    /\ Goto(t, "failed")
    /\ UNCHANGED <<run, os>>

\* start_session, or a native session that is not the expected one: TerminateSession's
\* result is ignored.
StartFailed(t) ==
    /\ At(t, "unstarted") \/ At(t, "spawned")
    /\ failTask(t)

\* Mutant: the end of the session is taken for the exit of the process.
ResolveExitUnseen(t) ==
    /\ At(t, "session")
    /\ task' = [task EXCEPT ![t].process = "exited"]
    /\ Goto(t, "ended")
    /\ UNCHANGED <<run, os>>

\* commitWorkerExitResolution: ProcessExited only for a group seen empty, which its root
\* has then left; members of the group may survive the root, or not be found out about.
ResolveExit(t) ==
    /\ At(t, "session")
    /\ \E p \in {"unknown", "orphaned", "exited"} :
          /\ p = "exited" => os[t][task[t].active] # "alive"
          /\ task' = [task EXCEPT ![t].process = p]
          /\ Goto(t, IF p = "exited" THEN "ended" ELSE "unconfirmed")
    /\ UNCHANGED <<run, os>>

Degrade(t) ==
    /\ At(t, "unconfirmed")
    /\ run' = "degraded"
    /\ Goto(t, "ended")
    /\ UNCHANGED <<task, os>>

\* Hard timeout, no result, a result that cannot be collected or published.
SessionFails(t) == At(t, "ended") /\ failTask(t)

FinishAttempt(t) ==
    /\ At(t, "ended")
    /\ task' = [task EXCEPT ![t] =
                   finishActiveAttempt(@, IF task[t].process = "orphaned" THEN "orphaned"
                                          ELSE "exited")]
    /\ Goto(t, "finished")
    /\ UNCHANGED <<run, os>>

\* saveRuntime with the identity frozen when the report was published.
FreezeReport(t) ==
    /\ At(t, "finished")
    /\ task' = [task EXCEPT ![t].report = [attempt |-> Len(task[t].attempts), stale |-> FALSE]]
    /\ Goto(t, "reported")
    /\ UNCHANGED <<run, os>>

\* applyResultEnvelope.  A cancelled result takes the way of a failed one, a partial one
\* that of a success.
ApplyEnvelope(t) ==
    /\ At(t, "reported")
    /\ \/ \E s \in {"blocked", "failed"} :
             /\ task' = [task EXCEPT ![t].status = s, ![t].final = (s = "blocked")]
             /\ Goto(t, "ok")
       \/ /\ task' = [task EXCEPT ![t].status = "reported_complete"]
          /\ Goto(t, "complete")
    /\ UNCHANGED <<run, os>>

EnterVerifying(t) ==
    /\ At(t, "complete")
    /\ task' = [task EXCEPT ![t].status = "verifying"]
    /\ Goto(t, "verifying")
    /\ UNCHANGED <<run, os>>

Verify(t) ==
    /\ At(t, "verifying")
    /\ \/ task' = [task EXCEPT ![t].status = "verified_success"] /\ Goto(t, "ok")
       \/ task' = [task EXCEPT ![t].status = "verification_failed"] /\ Goto(t, "failed")
    /\ UNCHANGED <<run, os>>

executeTask(t) ==
    \/ StartAttempt(t) \/ CountRunning(t) \/ EnterRunning(t) \/ Spawn(t) \/ SpawnFails(t)
    \/ RecordSpawn(t) \/ StartFailed(t) \/ ResolveExit(t) \/ Degrade(t) \/ SessionFails(t)
    \/ FinishAttempt(t) \/ FreezeReport(t) \/ ApplyEnvelope(t) \/ EnterVerifying(t) \/ Verify(t)

\* Every goroutine has returned: an error fails the run, else the barrier follows.
EndWave ==
    /\ phase = "execute"
    /\ \A t \in Tasks : drv[t] \in Returned
    /\ run' = IF \E t \in Tasks : drv[t] # "ok" THEN "failed" ELSE run
    /\ phase' = "done"
    /\ drv' = [t \in Tasks |-> "idle"]
    /\ UNCHANGED <<task, os, decision, applied, crashes>>

-----------------------------------------------------------------------------
(* The environment. *)

Crash ==
    /\ phase # "down"
    /\ crashes < MaxCrashes
    /\ phase' = "down"
    /\ crashes' = crashes + 1
    /\ drv' = [t \in Tasks |-> "idle"]
    /\ decision' = [t \in Tasks |-> "none"] /\ applied' = 0
    /\ UNCHANGED <<run, task, os>>

WorkerExits(t, n) ==
    /\ os[t][n] = "alive"
    /\ os' = [os EXCEPT ![t][n] = "gone"]
    /\ UNCHANGED <<run, task, drv, supervisorVars>>

\* While no Supervisor runs, the pid of the worker last recorded is given away.
PidReused(t, n) ==
    /\ phase = "down" /\ n >= Len(task[t].attempts)
    /\ os[t][n] = "gone"
    /\ os' = [os EXCEPT ![t][n] = "reused"]
    /\ UNCHANGED <<run, task, drv, supervisorVars>>

Supervisor == Apply \/ Aggregate \/ EndWave \/ \E t \in Tasks : Classify(t) \/ executeTask(t)

Next ==
    \/ Supervisor \/ Restart \/ Crash
    \/ \E t \in Tasks, n \in 1 .. MaxAttempts : WorkerExits(t, n) \/ PidReused(t, n)

\* The Supervisor's goroutines are scheduled; a session ends (WorkerSession!SessionEnds).
\* Nobody promises a restart.
Fairness ==
    /\ WF_vars(Apply) /\ WF_vars(Aggregate) /\ WF_vars(EndWave)
    /\ \A t \in Tasks : WF_vars(Classify(t)) /\ WF_vars(executeTask(t))

Spec == Init /\ [][Next]_vars /\ Fairness

-----------------------------------------------------------------------------
(* Properties. *)

LiveRoots(t) == {n \in 1 .. MaxAttempts : os[t][n] = "alive"}

\* ProcessExited is a proof: no root of the task is alive, neither after a session that
\* observed the exit nor after a recovery (recovery.go:74 "Only typed process-not-found
\* proves exit").
ExitIsProven == \A t \in Tasks : task[t].process = "exited" => LiveRoots(t) = {}

\* A task never has two live workers: recovery and executeTask start another attempt only
\* after the earlier root is proven gone, whatever was recorded before a crash.  And while
\* tasks execute, a live worker has a driver, or the snapshot says its process state is
\* orphaned or unknown, or its task has failed: none is running unseen.
WorkersAccountedFor ==
    /\ TypeOK
    /\ \A t \in Tasks :
          /\ Cardinality(LiveRoots(t)) <= 1
          /\ phase = "execute" /\ LiveRoots(t) # {} =>
                \/ drv[t] \in Running
                \/ task[t].process \in {"orphaned", "unknown"}
                \/ task[t].status = "failed"

\* A frozen report that is not stale is the last attempt's: a resumed attempt invalidates
\* the report of the one before (execute_task.go:104-105), also when the crash fell between
\* the report and the end of the task.
FrozenReportIsCurrent ==
    \A t \in Tasks : LET r == task[t].report
                     IN  r.attempt # 0 /\ ~r.stale => r.attempt = Len(task[t].attempts)

\* A Supervisor that stays up ends its wave or the run: no class of task, no illegal
\* transition and no refused attempt leaves recovery or executeWave waiting.
Settles == <>[](phase # "down") => <>(phase = "done")

=============================================================================

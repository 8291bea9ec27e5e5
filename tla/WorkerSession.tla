--------------------------- MODULE WorkerSession ----------------------------
(***************************************************************************)
(* runWorkerSession and the outcome executeTask draws from it              *)
(* (internal/supervisor/execute_task.go): one select loop over the         *)
(* worker's events, its standard error, its exit, its context and a drain  *)
(* timer, while the operating system, the harness adapter and a            *)
(* cancellation (RequestCancelTask, runtime.go) move on.  The process tree *)
(* and TerminateTree are those of ProcessTree.                             *)
(*                                                                         *)
(* An event is reduced to what the loop tells apart.  Chunks of standard   *)
(* error and the evidence of who asked for a termination are left out.     *)
(***************************************************************************)
EXTENDS Integers, Sequences, ProcessTree

CONSTANTS
    MaxQueue,           \* bound on events in the channel
    MaxTurns            \* bound on next-turn instructions

ASSUME SessionAssumption ==
    MaxQueue \in Nat /\ MaxTurns \in Nat

VARIABLES
    complete,       \* identity.Complete(): the tree can be inspected
    \* the harness and its adapter
    inbox,          \* the events channel
    closed,         \* channels the adapter has closed
    reported,       \* the exited channel has had the exit status
    working,        \* the worker is in a turn
    \* the context and the cancellation
    ctx,            \* workerCtx
    cancelled,      \* Service.cancelledTasks
    canceller,      \* where RequestCancelTask is
    \* the loop
    pc,
    open,           \* channels the select still names
    closing,
    exitObserved,
    resultSeen,     \* out.ResultSeen
    contextDone,    \* the select still waits for the context
    drain,          \* the drain timer runs
    lastTerm,
    timedOut,       \* out.TimedOut
    turns,          \* next turns started
    \* the task
    known,          \* process dimension in the driver's copy of the task
    process,        \* process dimension in the snapshot
    outcome,        \* how executeTask ends
    \* history
    first           \* the first end of the current turn the loop has handled

harnessVars == <<inbox, closed, reported, working>>
cancelVars == <<cancelled, canceller>>
loopVars == <<open, closing, exitObserved, resultSeen, contextDone, drain>>
taskVars == <<known, process, outcome>>
vars == <<treeVars, complete, harnessVars, ctx, cancelVars, pc, loopVars,
          lastTerm, timedOut, turns, taskVars, first>>

Channels == {"events", "stderr", "exited"}

\* A trailing result is a ResultSubmitted sent after the loop saw the exit.
TurnEnds == {"result", "failed", "trailing"}
Kinds == {"output"} \cup TurnEnds
ResultSubmitted == {"result", "trailing"}

ProcessStates == {"alive", "exited", "orphaned", "unknown"}

\* The select loop is not over.
InLoop == pc \in {"loop", "terminating"}

Init ==
    /\ TreeInit
    /\ complete \in BOOLEAN
    /\ inbox = <<>> /\ closed = {} /\ reported = FALSE /\ working = TRUE
    /\ ctx = "live"
    /\ cancelled = FALSE /\ canceller = "idle"
    /\ pc = "loop"
    /\ open = Channels /\ closing = FALSE /\ exitObserved = FALSE
    /\ resultSeen = FALSE /\ contextDone = TRUE /\ drain = FALSE
    /\ lastTerm = "none"
    /\ timedOut = FALSE
    /\ turns = 0
    /\ known = "alive" /\ process = "alive" /\ outcome = "none"
    /\ first = "none"

-----------------------------------------------------------------------------
(* The harness and its adapter: readers of its output may lag behind its   *)
(* exit, its streams may stay open after it, and what nobody receives any  *)
(* more is left out.                                                       *)

Emit(kind) ==
    /\ working
    /\ "events" \in open \ closed
    /\ Len(inbox) < MaxQueue
    /\ kind = "trailing" <=> kind \in ResultSubmitted /\ exitObserved
    /\ inbox' = Append(inbox, kind)
    /\ working' = (kind = "output")
    /\ UNCHANGED <<treeVars, complete, closed, reported, ctx, cancelVars, pc,
                   loopVars, lastTerm, timedOut, turns, taskVars, first>>

CloseStream(ch) ==
    /\ ch \in (open \cap {"events", "stderr"}) \ closed
    /\ closed' = closed \cup {ch}
    /\ UNCHANGED <<treeVars, complete, inbox, reported, working, ctx, cancelVars,
                   pc, loopVars, lastTerm, timedOut, turns, taskVars, first>>

ReportExit ==
    /\ root # "alive"
    /\ "exited" \in open
    /\ ~reported
    /\ reported' = TRUE
    /\ UNCHANGED <<treeVars, complete, inbox, closed, working, ctx, cancelVars,
                   pc, loopVars, lastTerm, timedOut, turns, taskVars, first>>

HardTimeout ==
    /\ ctx = "live" /\ InLoop
    /\ ctx' = "deadline"
    /\ UNCHANGED <<treeVars, complete, harnessVars, cancelVars, pc, loopVars,
                   lastTerm, timedOut, turns, taskVars, first>>

\* The run's context ends, for instance after a persistence failure.
ParentDone ==
    /\ ctx = "live" /\ InLoop
    /\ ctx' = "cancelled"
    /\ UNCHANGED <<treeVars, complete, harnessVars, cancelVars, pc, loopVars,
                   lastTerm, timedOut, turns, taskVars, first>>

-----------------------------------------------------------------------------
(* RequestCancelTask. *)

RequestCancelTask ==
    /\ canceller = "idle"
    /\ pc # "done"
    /\ cancelled' = TRUE
    /\ canceller' = "terminating"
    /\ UNCHANGED <<treeVars, complete, harnessVars, ctx, pc, loopVars, lastTerm,
                   timedOut, turns, taskVars, first>>

\* terminateActiveWorker: TerminateTree returns r, then the worker's context is
\* cancelled; without a complete identity nothing is confirmed.  An unconfirmed
\* exit is recorded in a step of its own.
terminateActiveWorker(r) ==
    /\ canceller = "terminating"
    /\ IF complete THEN TerminateTree(r) ELSE r = "none"
    /\ ctx' = IF ctx = "live" THEN "cancelled" ELSE ctx
    /\ canceller' = CASE TreeExited(r) -> "idle"
                      [] r = "remaining" -> "orphaned"
                      [] OTHER -> "unknown"
    /\ UNCHANGED <<treeVars, complete, harnessVars, cancelled, pc, loopVars,
                   lastTerm, timedOut, turns, taskVars, first>>

\* Its Commit may fail.
recordCancelOrphanRisk ==
    /\ canceller \in {"orphaned", "unknown"}
    /\ canceller' = "idle"
    /\ process' \in {process, canceller}
    /\ UNCHANGED <<treeVars, complete, harnessVars, ctx, cancelled, pc,
                   loopVars, lastTerm, timedOut, turns, known, outcome, first>>

-----------------------------------------------------------------------------
(* The select loop. *)

Selecting == pc = "loop" /\ open # {}

\* The adapter is told to terminate (which RootExits and ChildExits may follow)
\* and, when the identity is complete, TerminateTree is called; otherwise nothing
\* can be confirmed.
terminateReliable(waiting, after) == pc' = IF complete THEN waiting ELSE after

ContextDone ==
    /\ Selecting
    /\ contextDone
    /\ ctx # "live"
    /\ contextDone' = FALSE
    /\ drain' = TRUE
    /\ IF resultSeen THEN UNCHANGED pc
                     ELSE terminateReliable("terminating", "loop")
    /\ UNCHANGED <<treeVars, complete, harnessVars, ctx, cancelVars, open,
                   closing, exitObserved, resultSeen, lastTerm, timedOut, turns,
                   taskVars, first>>

\* updateProgress saves the driver's copy of the task when its stall assessment
\* has changed.
ProgressTick ==
    /\ Selecting
    /\ ~closing
    /\ process' = known
    /\ UNCHANGED <<treeVars, complete, harnessVars, ctx, cancelVars, pc,
                   loopVars, lastTerm, timedOut, turns, known, outcome, first>>

DrainElapsed ==
    /\ Selecting
    /\ drain
    /\ drain' = FALSE
    /\ open' = {}
    /\ IF exitObserved /\ TreeExited(lastTerm)
       THEN UNCHANGED pc
       ELSE terminateReliable("terminating", "loop")
    /\ UNCHANGED <<treeVars, complete, harnessVars, ctx, cancelVars, closing,
                   exitObserved, resultSeen, contextDone, lastTerm, timedOut, turns,
                   taskVars, first>>

TerminateReturns(r) ==
    /\ pc = "terminating"
    /\ TerminateTree(r)
    /\ lastTerm' = r
    /\ pc' = "loop"
    /\ UNCHANGED <<treeVars, complete, harnessVars, ctx, cancelVars, loopVars,
                   timedOut, turns, taskVars, first>>

FirstEnd(events) ==
    LET ends == {i \in 1..Len(events) : events[i] \in TurnEnds}
    IN  IF first = "none" /\ ends # {}
        THEN events[CHOOSE i \in ends : \A j \in ends : i <= j]
        ELSE first

\* Mutant: the events already in the channel are left to the drain.
ObserveExitUnread ==
    /\ Selecting
    /\ "exited" \in open
    /\ reported
    /\ exitObserved' = TRUE
    /\ closing' = TRUE
    /\ drain' = TRUE
    /\ open' = open \ {"exited"}
    /\ UNCHANGED <<treeVars, complete, harnessVars, ctx, cancelVars, pc,
                   resultSeen, contextDone, lastTerm, timedOut, turns, taskVars,
                   first>>

\* Mutant: the exit does not start the drain timer.
ObserveExitUndrained ==
    /\ Selecting
    /\ "exited" \in open
    /\ reported
    /\ exitObserved' = TRUE
    /\ closing' = TRUE
    /\ open' = open \ {"exited"}
    /\ UNCHANGED <<treeVars, complete, harnessVars, ctx, cancelVars, pc, drain,
                   resultSeen, contextDone, lastTerm, timedOut, turns, taskVars,
                   first>>

\* Whatever the events channel holds is handled at once, before the drain timer
\* starts.
ObserveExit ==
    /\ Selecting
    /\ "exited" \in open
    /\ reported
    /\ exitObserved' = TRUE
    /\ closing' = TRUE
    /\ drain' = TRUE
    /\ \/ /\ "events" \in open
          /\ open' = open \ ({"exited"} \cup (closed \cap {"events"}))
          /\ inbox' = <<>>
          /\ resultSeen' = (resultSeen \/ \E i \in 1..Len(inbox) :
                                              inbox[i] \in ResultSubmitted)
          /\ first' = FirstEnd(inbox)
          /\ process' = IF inbox = <<>> THEN process ELSE known
       \/ /\ "events" \notin open
          /\ open' = open \ {"exited"}
          /\ UNCHANGED <<inbox, resultSeen, first, process>>
    /\ UNCHANGED <<treeVars, complete, closed, reported, working, ctx, cancelVars,
                   pc, contextDone, lastTerm, timedOut, turns, known, outcome>>

\* handleNative: the driver's copy of the task is saved with every event.
handleNative ==
    /\ Selecting
    /\ "events" \in open
    /\ inbox # <<>>
    /\ inbox' = Tail(inbox)
    /\ process' = known
    /\ UNCHANGED <<treeVars, complete, closed, reported, ctx, cancelVars, pc, open,
                   exitObserved, contextDone, lastTerm, timedOut, known, outcome>>

HandleEvent ==
    /\ handleNative
    /\ closing \/ Head(inbox) = "output"
    /\ first' = FirstEnd(<<Head(inbox)>>)
    /\ UNCHANGED <<working, closing, resultSeen, drain, turns>>

\* Mutant: an instruction is sent although none is pending any more.
StartNextTurnAgain ==
    /\ handleNative
    /\ ~closing /\ Head(inbox) \in ResultSubmitted
    /\ root = "alive"
    /\ working' = TRUE
    /\ turns' = turns + 1
    /\ first' = "none"
    /\ UNCHANGED <<closing, resultSeen, drain>>

\* Mutant: the result is marked as seen before the boundary is known.
StartNextTurnSeen ==
    /\ handleNative
    /\ ~closing /\ Head(inbox) \in ResultSubmitted
    /\ turns < MaxTurns
    /\ root = "alive"
    /\ resultSeen' = TRUE
    /\ working' = TRUE
    /\ turns' = turns + 1
    /\ first' = "none"
    /\ UNCHANGED <<closing, drain>>

\* startNextTurnAtBoundary sends a queued instruction and records it.
StartNextTurn ==
    /\ handleNative
    /\ ~closing /\ Head(inbox) \in ResultSubmitted
    /\ turns < MaxTurns
    /\ root = "alive"
    /\ working' = TRUE
    /\ turns' = turns + 1
    /\ first' = "none"
    /\ UNCHANGED <<closing, resultSeen, drain>>

\* No instruction is queued, or it could not be sent, or it was sent and could
\* not be recorded: this result is final.
FinalResult ==
    /\ handleNative
    /\ ~closing /\ Head(inbox) \in ResultSubmitted
    /\ working' \in {working, root = "alive"}
    /\ resultSeen' = TRUE
    /\ closing' = TRUE
    /\ drain' = TRUE
    /\ first' = FirstEnd(<<Head(inbox)>>)
    /\ UNCHANGED turns

TurnFailed ==
    /\ handleNative
    /\ ~closing /\ Head(inbox) = "failed"
    /\ resultSeen' = FALSE
    /\ closing' = TRUE
    /\ drain' = TRUE
    /\ first' = FirstEnd(<<Head(inbox)>>)
    /\ UNCHANGED <<working, turns>>

StreamClosed(ch) ==
    /\ Selecting
    /\ ch \in open \cap closed
    /\ ch = "events" => inbox = <<>>
    /\ open' = open \ {ch}
    /\ UNCHANGED <<treeVars, complete, harnessVars, ctx, cancelVars, pc, closing,
                   exitObserved, resultSeen, contextDone, drain, lastTerm, timedOut,
                   turns, taskVars, first>>

-----------------------------------------------------------------------------
(* After the loop. *)

\* One more attempt to confirm the tree, unless it is known to be gone or to
\* have members left.  What only the loop reads is dropped with it.
LoopEnds ==
    /\ pc = "loop"
    /\ open = {}
    /\ timedOut' = (ctx = "deadline")
    /\ \/ ~exitObserved /\ terminateReliable("confirming", "resolve")
       \/ /\ exitObserved
          /\ lastTerm \in {"none", "failed"}
          /\ terminateReliable("reconfirming", "resolve")
       \/ /\ exitObserved
          /\ lastTerm \in {"gone", "reused", "remaining"}
          /\ pc' = "resolve"
    /\ inbox' = <<>> /\ closed' = {} /\ working' = FALSE
    /\ closing' = TRUE /\ contextDone' = FALSE /\ drain' = FALSE
    /\ UNCHANGED <<treeVars, complete, reported, ctx, cancelVars, open, exitObserved,
                   resultSeen, lastTerm, turns, taskVars, first>>

\* After an observed exit a failed inspection leaves the earlier result.
ConfirmReturns(r) ==
    /\ pc \in {"confirming", "reconfirming"}
    /\ TerminateTree(r)
    /\ lastTerm' = IF pc = "reconfirming" /\ r = "failed" THEN lastTerm ELSE r
    /\ pc' = "resolve"
    /\ UNCHANGED <<treeVars, complete, harnessVars, ctx, cancelVars, loopVars,
                   timedOut, turns, taskVars, first>>

\* Mutant: the exit of the root is taken for the exit of the tree.
RootExitTaken ==
    CASE lastTerm = "remaining" -> "orphaned"
      [] TreeExited(lastTerm) \/ exitObserved -> "exited"
      [] OTHER -> "unknown"

mapWorkerExitProcessState ==
    CASE lastTerm = "remaining" -> "orphaned"
      [] TreeExited(lastTerm) -> "exited"
      [] OTHER -> "unknown"

commitWorkerExitResolution ==
    /\ pc = "resolve"
    /\ known' = mapWorkerExitProcessState
    /\ \/ /\ process' = mapWorkerExitProcessState
          /\ pc' = "decide"
          /\ UNCHANGED outcome
       \/ /\ outcome' = "stopped"      \* the Commit failed: fail-closed
          /\ pc' = "done"
          /\ UNCHANGED process
    /\ UNCHANGED <<treeVars, complete, harnessVars, ctx, cancelVars, loopVars,
                   lastTerm, timedOut, turns, first>>

\* executeTask after the session: the order of its checks.  With an observed
\* exit the exit code decides how a missing result is called.
Outcomes ==
    CASE cancelled -> {"cancelled"}
      [] ~cancelled /\ ~resultSeen /\ mapWorkerExitProcessState # "exited" ->
            {"process_unconfirmed"}
      [] OTHER ->
            IF timedOut THEN {"hard_timeout"}
            ELSE IF resultSeen THEN {"apply"}
            ELSE IF exitObserved THEN {"process", "result_missing"}
            ELSE {"result_missing"}

\* The task is read again before its end is decided ...
Decide ==
    /\ pc = "decide"
    /\ known' = process
    /\ outcome' \in Outcomes
    /\ pc' = "save"
    /\ UNCHANGED <<treeVars, complete, harnessVars, ctx, cancelVars, loopVars,
                   lastTerm, timedOut, turns, process, first>>

\* ... and saved after it, unless the store fails.
Save ==
    /\ pc = "save"
    /\ process' \in {process, known}
    /\ pc' = "done"
    /\ UNCHANGED <<treeVars, complete, harnessVars, ctx, cancelVars, loopVars,
                   lastTerm, timedOut, turns, known, outcome, first>>

-----------------------------------------------------------------------------
Tree ==
    /\ OperatingSystem
    /\ UNCHANGED <<complete, harnessVars, ctx, cancelVars, pc, loopVars, lastTerm,
                   timedOut, turns, taskVars, first>>

Harness ==
    \/ \E kind \in Kinds : Emit(kind)
    \/ \E ch \in Channels : CloseStream(ch)
    \/ ReportExit
    \/ HardTimeout
    \/ ParentDone

Cancellation ==
    \/ RequestCancelTask
    \/ \E r \in Results : terminateActiveWorker(r)
    \/ recordCancelOrphanRisk

Loop ==
    \/ ContextDone
    \/ ProgressTick
    \/ DrainElapsed
    \/ \E r \in Results : TerminateReturns(r)
    \/ ObserveExit
    \/ HandleEvent
    \/ StartNextTurn
    \/ FinalResult
    \/ TurnFailed
    \/ \E ch \in Channels : StreamClosed(ch)

AfterLoop ==
    \/ LoopEnds
    \/ \E r \in Results : ConfirmReturns(r)
    \/ commitWorkerExitResolution
    \/ Decide
    \/ Save

Next == Tree \/ Harness \/ Cancellation \/ Loop \/ AfterLoop

\* A select chooses among its ready cases at random, a started timer fires, and
\* every stage of TerminateTree is bounded by a grace period.
Fairness ==
    /\ WF_vars(ContextDone)
    /\ WF_vars(DrainElapsed)
    /\ WF_vars(ObserveExit)
    /\ WF_vars(\E r \in Results : TerminateReturns(r))
    /\ WF_vars(AfterLoop)

Spec == Init /\ [][Next]_vars /\ Fairness

-----------------------------------------------------------------------------
(* Properties. *)

TypeOK ==
    /\ TreeTypeOK
    /\ complete \in BOOLEAN
    /\ inbox \in Seq(Kinds) /\ Len(inbox) <= MaxQueue
    /\ closed \subseteq {"events", "stderr"}
    /\ reported \in BOOLEAN
    /\ working \in BOOLEAN
    /\ ctx \in {"live", "cancelled", "deadline"}
    /\ cancelled \in BOOLEAN
    /\ canceller \in {"idle", "terminating", "orphaned", "unknown"}
    /\ pc \in {"loop", "terminating", "confirming", "reconfirming", "resolve",
               "decide", "save", "done"}
    /\ open \subseteq Channels
    /\ closing \in BOOLEAN
    /\ exitObserved \in BOOLEAN
    /\ resultSeen \in BOOLEAN /\ contextDone \in BOOLEAN /\ drain \in BOOLEAN
    /\ lastTerm \in Results
    /\ timedOut \in BOOLEAN
    /\ turns \in 0..MaxTurns
    /\ known \in ProcessStates /\ process \in ProcessStates
    /\ outcome \in {"none", "stopped", "cancelled", "process_unconfirmed",
                    "hard_timeout", "process", "result_missing", "apply"}
    /\ first \in {"none"} \cup TurnEnds

\* execute_task.go:430 "It never forges ProcessExited when exit and tree
\* confirmation are both missing": while the snapshot says the process has
\* exited, no process of the group is alive, or its root's pid is another's;
\* and a session that has ended and could save it no longer says alive.  Neither
\* the driver's saves of its own copy of the task nor a concurrent cancellation
\* changes that.
ExitIsHonest ==
    /\ process = "exited" =>
           \/ TreeEmpty
           \/ root = "reused" /\ lastTerm = "reused"
    /\ pc = "done" /\ outcome # "stopped" => process # "alive"

\* A result is applied only if the turn that was started last has ended with it:
\* neither the result that began another turn, nor a failed turn
\* (execute_task.go:586-613), nor one that never came is taken for it.
AppliedResultIsCurrent == outcome = "apply" => first = "result"

\* execute_task.go:556-557: a result that was in the channel when the exit was
\* seen is not dropped: executeTask does not call it missing.
BufferedResultCounts ==
    outcome \in {"process", "result_missing", "process_unconfirmed"} =>
        first # "result"

\* execute_task.go:428-429 "a bounded post-exit drain so hang-open streams cannot
\* stall the driver forever": once the exit is reported or the context is done
\* the driver ends, whatever the streams do.
SessionEnds == reported \/ ctx # "live" ~> pc = "done"
=============================================================================

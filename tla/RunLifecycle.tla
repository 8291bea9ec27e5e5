---------------------------- MODULE RunLifecycle ----------------------------
(***************************************************************************)
(* The life of a run (internal/supervisor/runtime.go): Start's loop around *)
(* execute, the waves with their baselines and barriers, the final         *)
(* verification, and the main agent's calls, which run in goroutines of    *)
(* their own: AcceptBarrierWarnings, RejectBarrierWarnings,                *)
(* AcceptFinalWarnings, RejectFinalWarnings, RequestCancel,                *)
(* RequestCancelTask and the answer to a decision.                         *)
(*                                                                         *)
(* Nothing orders the two sides but the Commits (one step each here), the  *)
(* verification files and the advance channel, which buffers one token.    *)
(* The tasks of a wave are taken together: what a session does is          *)
(* WorkerSession's and Recovery's, what a decision does DecisionFlow's.    *)
(* The store does not fail (EventCommit).                                  *)
(***************************************************************************)
EXTENDS Integers, Barrier, TaskStates

CONSTANTS
    NWaves,     \* waves of the plan
    Writes,     \* changes the workers may make
    Reports,    \* for each wave, how its tasks may end unless they are cancelled
    Asking,     \* waves whose worker may ask for a decision
    Lingering,  \* waves whose worker may outlive its session
    Cancels,    \* waves whose tasks the main agent may cancel, Final for the run
    MaxCalls    \* bound on calls that accept or reject warnings

ASSUME RunAssumption ==
    /\ NWaves \in Nat \ {0}
    /\ Writes \subseteq (1 .. NWaves) \X Kinds
    /\ Reports \in [1 .. NWaves -> SUBSET (EndedTasks \ {"cancelled"})]
    /\ Asking \subseteq 1 .. NWaves /\ Lingering \subseteq 1 .. NWaves
    /\ Cancels \subseteq 0 .. NWaves
    /\ MaxCalls \in Nat

Waves == 1 .. NWaves

VARIABLES
    run,        \* Run.Status
    wave,       \* Status, BarrierResult and BarrierAccepted of each wave
    current,    \* the wave in Snapshot.Wave
    task,       \* status of the tasks of each wave
    decision,   \* the blocking decision of each wave's tasks, if one was asked
    orphan,     \* the process dimension of the wave's tasks is orphaned or unknown
    ws,         \* changes in the workspace since the run began
    base,       \* baseline file of each wave
    file,       \* verification file of each wave and of the final verification
    advance,    \* the advance channel holds a token
    cancelled,  \* Service.cancelled
    cancelledTasks,
    exec,       \* the Supervisor's main goroutine
    client,     \* an accepting or rejecting call, and how many there have been
    cancel      \* a cancelling call

snapshotVars == <<run, wave, current, task, orphan>>
diskVars == <<ws, base, file>>
flagVars == <<advance, cancelled, cancelledTasks>>
vars == <<snapshotVars, decision, diskVars, flagVars, exec, client, cancel>>

WaveStatuses == {"planned", "running", "waiting", "barrier", "verified", "blocked", "failed",
                 "cancelled"}
Changes == Waves \X Kinds
InputSet == [wave : Waves \cup {Final}, task : EndedTasks \cup {"none"}, pending : BOOLEAN,
             changes : SUBSET Changes, evidence : BOOLEAN]
NoInput == Inputs(Final, "none", FALSE, {}, TRUE)
Verifications == [result : BarrierResults \cup {"none"}, accepted : BOOLEAN,
                  rejected : BOOLEAN, input : InputSet]
NoVerification == [result |-> "none", accepted |-> FALSE, rejected |-> FALSE, input |-> NoInput]

ExecPC == {"execute", "wave", "preflight", "start", "tasks", "session", "cancelling",
           "result", "ended", "barrier", "collect", "record", "switch", "final", "verdict",
           "expire", "finish", "await", "stopped"}
ClientPC == {"idle", "read", "write", "commit", "status", "signal", "expire", "finish"}
Calls == {"none", "accept_wave", "reject_wave", "accept_final", "reject_final"}
CancelPC == {"idle", "terminate", "degrade", "signal", "again", "redegrade"}

TypeOK ==
    /\ run \in RunStatuses
    /\ wave \in [Waves -> [status : WaveStatuses, result : BarrierResults \cup {"none"},
                           accepted : BOOLEAN]]
    /\ current \in Waves
    /\ task \in [Waves -> EndedTasks \cup {"planned", "running"}]
    /\ decision \in [Waves -> {"none", "pending", "closed"}]
    /\ orphan \in [Waves -> BOOLEAN]
    /\ ws \subseteq Changes /\ base \in [Waves -> SUBSET Changes]
    /\ file \in [Waves \cup {Final} -> Verifications]
    /\ advance \in BOOLEAN /\ cancelled \in BOOLEAN /\ cancelledTasks \subseteq Waves
    /\ exec \in [at : ExecPC, wave : 1 .. NWaves + 1, ver : Verifications,
                 to : RunStatuses \cup {"none"}]
    /\ client \in [n : 0 .. MaxCalls, at : ClientPC, call : Calls, wave : Waves \cup {Final}, ver : Verifications]
    /\ cancel \in [at : CancelPC, wave : Waves \cup {0}]

Init ==
    /\ run = "starting" /\ current = 1
    /\ wave = [w \in Waves |-> [status |-> "planned", result |-> "none", accepted |-> FALSE]]
    /\ task = [w \in Waves |-> "planned"]
    /\ decision = [w \in Waves |-> "none"]
    /\ orphan = [w \in Waves |-> FALSE]
    /\ ws = {} /\ base = [w \in Waves |-> {}]
    /\ file = [w \in Waves \cup {Final} |-> NoVerification]
    /\ advance = FALSE /\ cancelled = FALSE /\ cancelledTasks = {}
    /\ exec = [at |-> "execute", wave |-> 1, ver |-> NoVerification, to |-> "none"]
    /\ client = [n |-> 0, at |-> "idle", call |-> "none", wave |-> Final, ver |-> NoVerification]
    /\ cancel = [at |-> "idle", wave |-> 0]

-----------------------------------------------------------------------------
runTerminal(s) == s \in {"completed", "failed", "cancelled", "degraded"}

ExecGoto(label) == exec' = [exec EXCEPT !.at = label]
ClientGoto(label) == client' = [client EXCEPT !.at = label]
ClientReturns == client' = [n |-> client.n, at |-> "idle", call |-> "none", wave |-> Final,
                            ver |-> NoVerification]

\* finishRun begins in the main goroutine.
Finish(status) ==
    exec' = [exec EXCEPT !.at = "expire", !.to = status, !.ver = NoVerification]

setRunStatus(status) == run' = status

\* setWaveStatus speaks of Snapshot.Wave, whichever wave that is.
setWaveStatus(status) == wave' = [wave EXCEPT ![current].status = status]

signalAdvance == advance' = TRUE

waveAlreadyVerified(w) ==
    \/ wave[w].status = "verified"
    \/ wave[w].result = "passed_with_warnings" /\ wave[w].accepted

AwaitsAcceptance(w) ==
    /\ wave[w].status = "waiting" /\ wave[w].result = "passed_with_warnings"
    /\ ~wave[w].accepted

\* The tasks of a wave that executeWave leaves alone.
Settled(w) == task[w] \in EndedTasks \/ orphan[w]

collectBarrierInputs(w, evidence) ==
    Inputs(w, task[w], decision[w] = "pending", ws \ base[w], evidence)

FinalSinceLastWave(evidence) ==
    Inputs(Final, "verified_success", FALSE, ws \ base[NWaves], evidence)
collectFinalVerificationInputs(evidence) ==
    Inputs(Final, "verified_success", FALSE, ws, evidence)

Collect(w, evidence) ==
    IF w = Final THEN collectFinalVerificationInputs(evidence)
    ELSE collectBarrierInputs(w, evidence)

Verification(input) ==
    [result |-> EvaluateBarrier(input), accepted |-> FALSE, rejected |-> FALSE, input |-> input]

expireAll == decision' = [w \in Waves |-> IF decision[w] = "pending" THEN "closed"
                                          ELSE decision[w]]

-----------------------------------------------------------------------------
(* The main goroutine: Start and execute. *)

StopsWhenCancelled ==
    /\ exec.at = "execute"
    /\ exec' = [exec EXCEPT !.at = IF runTerminal(run) \/ cancelled THEN "stopped" ELSE "wave",
                            !.wave = 1]
    /\ UNCHANGED <<snapshotVars, decision, diskVars, flagVars, client, cancel>>
execute ==
    /\ exec.at = "execute"
    /\ exec' = [exec EXCEPT !.at = IF runTerminal(run) THEN "stopped" ELSE "wave", !.wave = 1]
    /\ UNCHANGED <<snapshotVars, decision, diskVars, flagVars, client, cancel>>

selectWave ==
    /\ exec.at = "wave" /\ exec.wave \in Waves
    /\ IF cancelled THEN Finish("cancelled") /\ UNCHANGED current
       ELSE IF waveAlreadyVerified(exec.wave)
       THEN exec' = [exec EXCEPT !.wave = @ + 1] /\ UNCHANGED current
       ELSE ExecGoto("preflight") /\ current' = exec.wave
    /\ UNCHANGED <<run, wave, task, orphan, decision, diskVars, flagVars, client, cancel>>

\* preflightWave may refuse the wave; otherwise the baseline is captured anew, on every pass.
preflightWave ==
    /\ exec.at = "preflight"
    /\ \/ Finish("failed") /\ UNCHANGED base
       \/ ExecGoto("start") /\ base' = [base EXCEPT ![exec.wave] = ws]
    /\ UNCHANGED <<snapshotVars, decision, ws, file, flagVars, client, cancel>>

startWave ==
    /\ exec.at = "start"
    /\ setWaveStatus("running") /\ ExecGoto("tasks")
    /\ UNCHANGED <<run, current, task, orphan, decision, diskVars, flagVars, client, cancel>>

executeWave ==
    /\ exec.at = "tasks"
    /\ IF Settled(exec.wave) THEN ExecGoto("ended") /\ UNCHANGED <<run, task>>
       ELSE /\ ExecGoto("session") /\ setRunStatus("running")
            /\ task' = [task EXCEPT ![exec.wave] = "running"]
    /\ UNCHANGED <<wave, current, orphan, decision, diskVars, flagVars, client, cancel>>

\* The worker writes and asks while its session lasts (external).
WorkerWrites ==
    /\ exec.at = "session"
    /\ \E c \in Writes \ ws : c[1] = exec.wave /\ ws' = ws \cup {c}
    /\ UNCHANGED <<snapshotVars, decision, base, file, flagVars, exec, client, cancel>>
WorkerAsks ==
    /\ exec.at = "session" /\ exec.wave \in Asking /\ decision[exec.wave] = "none"
    /\ decision' = [decision EXCEPT ![exec.wave] = "pending"]
    /\ UNCHANGED <<snapshotVars, diskVars, flagVars, exec, client, cancel>>

\* The end of runWorkerSession: a tree that cannot be confirmed gone degrades the run.  Then
\* executeTask looks at the cancellations, for the last time.
SessionEnds ==
    /\ exec.at = "session"
    /\ \E lingers \in {FALSE, exec.wave \in Lingering} :
          /\ orphan' = [orphan EXCEPT ![exec.wave] = lingers]
          /\ IF lingers THEN setRunStatus("degraded") ELSE UNCHANGED run
    /\ ExecGoto(IF cancelled \/ exec.wave \in cancelledTasks THEN "cancelling" ELSE "result")
    /\ UNCHANGED <<wave, current, task, decision, diskVars, flagVars, client, cancel>>

expireTask(w) == decision' = [decision EXCEPT ![w] = IF @ = "pending" THEN "closed" ELSE @]

\* The task of a cancelled worker ends, and with it its messages.
cancelTask ==
    /\ exec.at = "cancelling"
    /\ task' = [task EXCEPT ![exec.wave] = "cancelled"]
    /\ expireTask(exec.wave) /\ ExecGoto("ended")
    /\ UNCHANGED <<run, wave, current, orphan, diskVars, flagVars, client, cancel>>

\* Any other is collected, published and validated.  It ends as it reported, with its messages
\* left, or failTask ends it and them: an error of executeWave, for which the run fails.
TaskEnds ==
    /\ exec.at = "result"
    /\ \E status \in Reports[exec.wave], failed \in BOOLEAN :
          /\ failed => status \in {"failed", "verification_failed"}
          /\ status = "verification_failed" => failed
          /\ task' = [task EXCEPT ![exec.wave] = status]
          /\ IF status = "failed" /\ failed THEN expireTask(exec.wave) ELSE UNCHANGED decision
          /\ IF failed THEN Finish("failed") ELSE ExecGoto("ended")
    /\ UNCHANGED <<run, wave, current, orphan, diskVars, flagVars, client, cancel>>

\* A worker that outlived its session goes on writing (external).
OrphanWrites ==
    /\ exec.at # "stopped"
    /\ \E c \in Writes \ ws : /\ orphan[c[1]] /\ task[c[1]] # "running"
                              /\ ws' = ws \cup {c}
    /\ UNCHANGED <<snapshotVars, decision, base, file, flagVars, exec, client, cancel>>

EndWave ==
    /\ exec.at = "ended"
    /\ IF cancelled THEN Finish("cancelled") ELSE ExecGoto("barrier")
    /\ UNCHANGED <<snapshotVars, decision, diskVars, flagVars, client, cancel>>

\* runBarrier: the statuses, the inputs and the verification file, the wave's result.
BarrierBegins ==
    /\ exec.at = "barrier"
    /\ setRunStatus("barrier") /\ setWaveStatus("barrier") /\ ExecGoto("collect")
    /\ UNCHANGED <<current, task, orphan, decision, diskVars, flagVars, client, cancel>>
BarrierCollect ==
    /\ exec.at = "collect"
    /\ \E evidence \in BOOLEAN :
          LET v == Verification(collectBarrierInputs(exec.wave, evidence))
          IN /\ file' = [file EXCEPT ![exec.wave] = v]
             /\ exec' = [exec EXCEPT !.at = "record", !.ver = v]
    /\ UNCHANGED <<snapshotVars, decision, ws, base, flagVars, client, cancel>>

WaveStatusAfter(result) ==
    CASE result = "passed" -> "verified"
      [] result = "passed_with_warnings" -> "waiting"
      [] OTHER -> result

BarrierRecord ==
    /\ exec.at = "record"
    /\ wave' = [wave EXCEPT ![exec.wave].result = exec.ver.result,
                            ![exec.wave].status = WaveStatusAfter(exec.ver.result)]
    /\ current' = exec.wave /\ ExecGoto("switch")
    /\ UNCHANGED <<run, task, orphan, decision, diskVars, flagVars, client, cancel>>

NextWave == [exec EXCEPT !.at = "wave", !.wave = @ + 1, !.ver = NoVerification]
Await == [exec EXCEPT !.at = "await", !.ver = NoVerification]

\* The switch on the barrier's result.
SwitchResult ==
    /\ exec.at = "switch"
    /\ CASE exec.ver.result = "cancelled" -> Finish("cancelled") /\ UNCHANGED run
         [] exec.ver.result = "failed" -> Finish("failed") /\ UNCHANGED run
         [] exec.ver.result \in {"blocked", "passed_with_warnings"} ->
                setRunStatus("barrier") /\ exec' = Await
         [] OTHER -> exec' = NextWave /\ UNCHANGED run
    /\ UNCHANGED <<wave, current, task, orphan, decision, diskVars, flagVars, client, cancel>>

\* runFinalVerification: an acceptance of the same inputs is kept.
FinalCollect ==
    /\ exec.at = "wave" /\ exec.wave = NWaves + 1
    /\ \E evidence \in BOOLEAN :
          LET v == Verification(collectFinalVerificationInputs(evidence))
          IN exec' = [exec EXCEPT !.at = "final", !.ver =
                [v EXCEPT !.accepted = file[Final].accepted /\ file[Final].input = v.input]]
    /\ UNCHANGED <<snapshotVars, decision, diskVars, flagVars, client, cancel>>
FinalWrite ==
    /\ exec.at = "final"
    /\ file' = [file EXCEPT ![Final] = exec.ver] /\ ExecGoto("verdict")
    /\ UNCHANGED <<snapshotVars, decision, ws, base, flagVars, client, cancel>>

FinalVerdict ==
    /\ exec.at = "verdict"
    /\ LET r == exec.ver.result
           complete == \A w \in Waves : /\ wave[w].status = "verified"
                                        /\ ~(/\ wave[w].result = "passed_with_warnings"
                                             /\ ~wave[w].accepted)
       IN CASE r \notin {"passed", "passed_with_warnings"} -> Finish("failed") /\ UNCHANGED run
            [] r = "passed_with_warnings" /\ ~exec.ver.accepted ->
                   setRunStatus("barrier") /\ exec' = Await
            [] OTHER -> Finish(IF complete THEN "completed" ELSE "degraded") /\ UNCHANGED run
    /\ UNCHANGED <<wave, current, task, orphan, decision, diskVars, flagVars, client, cancel>>

\* finishRun: the pending messages, the status of the current wave, that of the run.
FinishExpires ==
    /\ exec.at = "expire"
    /\ expireAll /\ ExecGoto("finish")
    /\ IF exec.to \in {"failed", "cancelled"} THEN setWaveStatus(exec.to) ELSE UNCHANGED wave
    /\ UNCHANGED <<run, current, task, orphan, diskVars, flagVars, client, cancel>>
FinishRun ==
    /\ exec.at = "finish"
    /\ setRunStatus(exec.to) /\ ExecGoto("stopped")
    /\ UNCHANGED <<wave, current, task, orphan, decision, diskVars, flagVars, client, cancel>>

\* Start waits for a token after errAwaitingDecision.
Awake ==
    /\ exec.at = "await" /\ advance
    /\ advance' = FALSE /\ ExecGoto("execute")
    /\ UNCHANGED <<snapshotVars, decision, diskVars, cancelled, cancelledTasks, client, cancel>>

-----------------------------------------------------------------------------
(* The main agent's acceptance or rejection of warnings. *)

Serving == exec.at # "stopped"

FinalAwaitsAcceptance == run = "barrier" /\ ~\E w \in Waves : AwaitsAcceptance(w)

\* The checks on the snapshot, before the verification file is read.
CallBegins ==
    /\ client.at = "idle" /\ client.n < MaxCalls /\ Serving
    /\ \E call \in Calls \ {"none"}, w \in Waves \cup {Final} :
          /\ (w = Final) <=> (call \in {"accept_final", "reject_final"})
          /\ IF w = Final THEN FinalAwaitsAcceptance ELSE AwaitsAcceptance(w)
          /\ client' = [n |-> client.n + 1, at |-> "read", call |-> call, wave |-> w,
                        ver |-> NoVerification]
    /\ UNCHANGED <<snapshotVars, decision, diskVars, flagVars, exec, cancel>>

\* The verification must be of warnings, an acceptance of ones not rejected; then the inputs
\* are collected again and must be those of the file.
CallReads ==
    /\ client.at = "read"
    /\ LET v == file[client.wave]
           accepts == client.call \in {"accept_wave", "accept_final"}
       IN IF v.result # "passed_with_warnings" \/ (accepts /\ v.rejected) THEN ClientReturns
          ELSE IF client.call = "accept_final" /\ v.accepted
          THEN client' = [client EXCEPT !.at = "expire", !.ver = v]
          ELSE \E evidence \in BOOLEAN :
                  IF Collect(client.wave, evidence) # v.input THEN ClientReturns
                  ELSE client' = [client EXCEPT !.at = "write", !.ver = v]
    /\ UNCHANGED <<snapshotVars, decision, diskVars, flagVars, exec, cancel>>

CallWrites ==
    /\ client.at = "write"
    /\ file' = [file EXCEPT ![client.wave] =
                   IF client.call \in {"accept_wave", "accept_final"}
                   THEN [client.ver EXCEPT !.accepted = TRUE]
                   ELSE [client.ver EXCEPT !.rejected = TRUE]]
    /\ ClientGoto(IF client.wave = Final THEN "signal" ELSE "commit")
    /\ UNCHANGED <<snapshotVars, decision, ws, base, flagVars, exec, cancel>>

\* The mutator of the Commit does not look at the wave again.
CallCommits ==
    /\ client.at = "commit"
    /\ wave' = [wave EXCEPT ![client.wave].status =
                              IF client.call = "accept_wave" THEN "verified" ELSE "failed",
                            ![client.wave].accepted = client.call = "accept_wave"]
    /\ ClientGoto(IF client.call = "accept_wave" THEN "signal" ELSE "status")
    /\ UNCHANGED <<run, current, task, orphan, decision, diskVars, flagVars, exec, cancel>>
CallFailsRun ==
    /\ client.at = "status"
    /\ setRunStatus("failed") /\ ClientGoto("signal")
    /\ UNCHANGED <<wave, current, task, orphan, decision, diskVars, flagVars, exec, cancel>>

\* The final calls signal before they finish the run.
CallSignalsNobody ==
    /\ client.at = "signal"
    /\ IF client.wave = Final THEN ClientGoto("expire") ELSE ClientReturns
    /\ UNCHANGED <<snapshotVars, decision, diskVars, flagVars, exec, cancel>>
CallSignals ==
    /\ client.at = "signal" /\ signalAdvance
    /\ IF client.wave = Final THEN ClientGoto("expire") ELSE ClientReturns
    /\ UNCHANGED <<snapshotVars, decision, diskVars, cancelled, cancelledTasks, exec, cancel>>

CallExpires ==
    /\ client.at = "expire"
    /\ expireAll /\ ClientGoto("finish")
    /\ IF client.call = "reject_final" THEN setWaveStatus("failed") ELSE UNCHANGED wave
    /\ UNCHANGED <<run, current, task, orphan, diskVars, flagVars, exec, cancel>>
CallFinishes ==
    /\ client.at = "finish"
    /\ setRunStatus(IF client.call = "accept_final" THEN "completed" ELSE "failed")
    /\ ClientReturns
    /\ UNCHANGED <<wave, current, task, orphan, decision, diskVars, flagVars, exec, cancel>>

-----------------------------------------------------------------------------
(* Cancellation, and the answer to a decision. *)

\* Service.active holds the worker until executeTask returns.
ActiveWave ==
    IF exec.at \in {"session", "cancelling", "result"} THEN exec.wave ELSE 0

RequestCancel ==
    /\ Final \in Cancels /\ Serving /\ cancel.at = "idle" /\ ~cancelled
    /\ cancelled' = TRUE
    /\ cancel' = [at |-> "terminate", wave |-> ActiveWave]
    /\ UNCHANGED <<snapshotVars, decision, diskVars, advance, cancelledTasks, exec, client>>
RequestCancelTask ==
    /\ Serving /\ cancel.at = "idle" /\ ActiveWave \in Waves \cap Cancels
    /\ cancelledTasks' = cancelledTasks \cup {ActiveWave}
    /\ cancel' = [at |-> IF ActiveWave \in cancelledTasks THEN "again" ELSE "terminate",
                  wave |-> ActiveWave]
    /\ UNCHANGED <<snapshotVars, decision, diskVars, advance, cancelled, exec, client>>

\* terminateActiveWorker, which records a tree it could not confirm gone.
CancelTerminates ==
    /\ cancel.at = "terminate"
    /\ \E residual \in {FALSE, cancel.wave \in Lingering} :
          /\ cancel' = [cancel EXCEPT !.at = IF residual THEN "degrade" ELSE "signal"]
          /\ orphan' = IF residual THEN [orphan EXCEPT ![cancel.wave] = TRUE] ELSE orphan
    /\ UNCHANGED <<run, wave, current, task, decision, diskVars, flagVars, exec, client>>
CancelSignals ==
    /\ cancel.at \in {"degrade", "signal"} /\ signalAdvance
    /\ IF cancel.at = "degrade" THEN setRunStatus("degraded") ELSE UNCHANGED run
    /\ cancel' = [at |-> "idle", wave |-> 0]
    /\ UNCHANGED <<wave, current, task, orphan, decision, diskVars, cancelled, cancelledTasks,
                   exec, client>>

\* A task that is cancelled already is terminated once more, and nobody is signalled.
CancelRepeats ==
    /\ \/ /\ cancel.at = "again" /\ cancel' = [at |-> "idle", wave |-> 0]
          /\ UNCHANGED <<run, orphan>>
       \/ /\ cancel.at = "again" /\ cancel.wave \in Lingering
          /\ cancel' = [cancel EXCEPT !.at = "redegrade"]
          /\ orphan' = [orphan EXCEPT ![cancel.wave] = TRUE] /\ UNCHANGED run
       \/ /\ cancel.at = "redegrade" /\ cancel' = [at |-> "idle", wave |-> 0]
          /\ setRunStatus("degraded") /\ UNCHANGED orphan
    /\ UNCHANGED <<wave, current, task, decision, diskVars, flagVars, exec, client>>

\* The end of resolveMessage: it signals whether or not anybody waits.
AnswerDecision ==
    /\ Serving
    /\ \E w \in Waves : /\ decision[w] = "pending"
                        /\ decision' = [decision EXCEPT ![w] = "closed"]
    /\ signalAdvance
    /\ UNCHANGED <<snapshotVars, diskVars, cancelled, cancelledTasks, exec, client, cancel>>

-----------------------------------------------------------------------------
Executor ==
    \/ execute \/ selectWave \/ preflightWave \/ startWave \/ executeWave
    \/ SessionEnds \/ cancelTask \/ TaskEnds \/ EndWave
    \/ BarrierBegins \/ BarrierCollect \/ BarrierRecord \/ SwitchResult
    \/ FinalCollect \/ FinalWrite \/ FinalVerdict \/ FinishExpires \/ FinishRun \/ Awake
Calling ==
    \/ CallReads \/ CallWrites \/ CallCommits \/ CallFailsRun \/ CallSignals \/ CallExpires
    \/ CallFinishes
Cancelling == CancelTerminates \/ CancelSignals \/ CancelRepeats

Next ==
    \/ Executor \/ Calling \/ Cancelling
    \/ CallBegins \/ RequestCancel \/ RequestCancelTask \/ AnswerDecision
    \/ WorkerWrites \/ WorkerAsks \/ OrphanWrites

\* Each goroutine that has begun goes on; a session ends (WorkerSession).
Spec ==
    /\ Init /\ [][Next]_vars
    /\ WF_vars(Executor) /\ WF_vars(Calling) /\ WF_vars(Cancelling)

-----------------------------------------------------------------------------
\* A cancellation that could not confirm the end of the process tree.
CancelLeaves(w) == orphan[w] /\ (cancelled \/ w \in cancelledTasks)

\* When Start returns, the run has ended: no interleaving of the executor with acceptances,
\* rejections, cancellations and answers lets the Supervisor exit with a run that a later
\* status call shows as still going on, or with a decision that nobody can answer any more.
\* Excepted are two calls that end the run and expire no message, so that execute finds it
\* over and a decision open: a late RejectBarrierWarnings, while a later wave waits
\* (runtime.go:1706), and a cancellation which met its task after the last look at the
\* cancellations (execute_task.go:324) and left a process behind (runtime.go:946).
StartEndsTheRun ==
    /\ TypeOK
    /\ exec.at = "stopped" =>
          /\ runTerminal(run)
          /\ (\E w \in Waves : decision[w] = "pending") =>
                /\ exec.to = "none"
                /\ run = "failed" \/ (run = "degraded" /\ \E w \in Waves : CancelLeaves(w))

\* A completed run has only verified tasks and no wave still unjudged, although completion
\* can be written by the executor and by AcceptFinalWarnings at once and a wave can be judged
\* several times.
CompletedIsVerified ==
    run = "completed" => \A w \in Waves : /\ task[w] \in {"verified_success", "verified_partial"}
                                          /\ wave[w].result # "none"

\* Every change a worker made in its session is among the inputs of the final verification of
\* a completed run, also when the wave's baseline was captured anew after the change and the
\* barrier that let the wave pass did not see it (runtime.go:1078, collectFinalVerificationInputs).
NothingUnaudited ==
    run = "completed" =>
        \A c \in ws : ~orphan[c[1]] => c \in file[Final].input.changes

\* No wake-up of the executor is lost, whatever it was doing: a cancellation ends the run,
\* and a wave accepted with its warnings lets the next one begin.  Neither
\* is put off for ever: a cancellation is never withdrawn and an acceptance only by a rejection,
\* a stopped executor does not go on and a wave that has begun is not planned again.
WakeUpsAreHeard ==
    []<>(/\ cancelled => exec.at = "stopped"
         /\ \A w \in Waves \ {NWaves} :
               wave[w].accepted => wave[w + 1].status # "planned" \/ exec.at = "stopped")
=============================================================================

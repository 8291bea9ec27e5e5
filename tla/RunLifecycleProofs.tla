------------------------- MODULE RunLifecycleProofs -------------------------
(***************************************************************************)
(* Proofs about RunLifecycle, for any number of waves, any changes and     *)
(* reports, and any number of calls of the main agent: Start returns only  *)
(* when the run has ended, a run completes only with every task verified,  *)
(* and its final verification has seen every change of every session.      *)
(***************************************************************************)
EXTENDS RunLifecycle, TLAPS

(* The inductive invariant. *)

Verified == {"verified_success", "verified_partial"}

\* The wave was let pass once; its session is over for good.
Passed(w) == task[w] \in Verified /\ wave[w].result # "none" /\ decision[w] # "pending"

\* A verification, or the record of one, that lets a wave pass.
Passes(v) == v.result \in {"passed", "passed_with_warnings"}

\* The inputs hold every change but those of workers that outlived their session.
Audited(in) == \A c \in ws : orphan[c[1]] = FALSE => c \in in.changes

FinalWritten == file[Final].result # "none"
NothingPending == \A w \in Waves : decision[w] # "pending"

WaveInv(w) ==
    /\ Passes(wave[w]) \/ wave[w].status = "verified" \/ wave[w].accepted = TRUE => Passed(w)
    /\ exec.wave > w \/ FinalWritten => Passed(w)
    /\ task[w] = "planned" => orphan[w] = FALSE
    /\ task[w] = "running" => exec.at \in {"session", "cancelling", "result"} /\ exec.wave = w

ExecInv ==
    /\ exec.at \in {"preflight", "start", "tasks", "session", "cancelling", "result", "ended", "barrier",
                    "collect", "record", "switch"} => exec.wave \in Waves
    /\ exec.at \in {"session", "cancelling", "result"} => task[exec.wave] = "running"
    /\ exec.at \in {"ended", "barrier", "collect", "record", "switch"} =>
          task[exec.wave] \in EndedTasks
    /\ exec.at = "record" /\ Passes(exec.ver) =>
          task[exec.wave] \in Verified /\ decision[exec.wave] # "pending"
    /\ exec.at \in {"record", "switch"} => exec.ver.result # "none"
    /\ exec.at = "switch" /\ Passes(exec.ver) => Passed(exec.wave)
    /\ exec.at \in {"final", "verdict"} =>
          exec.wave = NWaves + 1 /\ exec.ver.result # "none" /\ Audited(exec.ver.input)
    /\ exec.at = "verdict" => FinalWritten
    /\ FinalWritten => Audited(file[Final].input)

\* A cancellation that came too late degraded the run.
LeftBehind == run = "degraded" /\ \E w \in Waves : CancelLeaves(w)

\* How the run ends.
EndInv ==
    /\ exec.at \in {"expire", "finish"} => runTerminal(exec.to)
    /\ exec.at \notin {"expire", "finish", "stopped"} => exec.to = "none"
    /\ exec.to = "completed" \/ run = "completed" => FinalWritten
    /\ exec.at = "finish" => NothingPending
    /\ exec.at = "stopped" => runTerminal(run)
    /\ exec.at = "stopped" => NothingPending \/ (exec.to = "none" /\ (run = "failed" \/ LeftBehind))
    /\ run = "cancelled" => exec.at = "stopped"
    /\ run = "degraded" /\ exec.at \in {"await", "execute"} => LeftBehind

ClientInv ==
    /\ client.at # "idle" => client.call # "none"
    /\ client.call \in {"accept_wave", "reject_wave"} =>
          client.wave \in Waves /\ Passed(client.wave)
          /\ client.at \in {"read", "write", "commit", "status", "signal"}
    /\ client.call \in {"accept_final", "reject_final"} =>
          client.wave = Final /\ client.at \in {"read", "write", "signal", "expire", "finish"}
    /\ client.call \in {"accept_final", "reject_final"} /\ client.at # "read" =>
          client.ver.result # "none" /\ FinalWritten /\ Audited(client.ver.input)

\* The task of the wave has ended, or its session has.
Over(w) == task[w] \in EndedTasks \/ (exec.at \in {"cancelling", "result"} /\ exec.wave = w)

\* The executor, which has seen the cancellation of the wave or will, cannot wait again.
Seen(w) ==
    /\ exec.wave = w
    /\ \/ exec.at \in {"session", "cancelling"}
       \/ exec.at \in {"ended", "barrier", "collect"} /\ task[w] = "cancelled"
       \/ exec.at \in {"record", "switch"} /\ task[w] = "cancelled" /\ exec.ver.result = "cancelled"
       \/ exec.at \in {"expire", "finish", "stopped"} /\ exec.to # "none"

Residual == cancel.at \in {"degrade", "redegrade"}

\* A cancellation of a worker is seen by the executor, or came after its session: the process
\* it could not end is then on record for good.
CancelInv ==
    /\ Residual => cancel.wave # 0
    /\ cancel.at = "again" => cancel.wave # 0
    /\ cancel.wave # 0 =>
          /\ cancelled = TRUE \/ cancel.wave \in cancelledTasks
          /\ task[cancel.wave] # "planned"
          /\ \/ Seen(cancel.wave)
             \/ Over(cancel.wave) /\ (Residual => orphan[cancel.wave] = TRUE)

RunInv ==
    /\ TypeOK /\ ExecInv /\ EndInv /\ ClientInv /\ CancelInv
    /\ \A w \in Waves : WaveInv(w)

-----------------------------------------------------------------------------
(* Facts about verdicts and records. *)

LEMMA WavesAreNumbers ==
    /\ Waves \subseteq Nat \ {0} /\ Final \notin Waves /\ NWaves \in Nat \ {0}
    /\ \A w \in 1 .. NWaves + 1 : w \in Nat /\ (w \in Waves \/ w = NWaves + 1)
    /\ \A w \in Waves : w + 1 \in 1 .. NWaves + 1 /\ w < NWaves + 1
    /\ 1 \in Waves /\ 1 \in 1 .. NWaves + 1 /\ 0 \notin Lingering
  BY RunAssumption DEF Waves, Final

LEMMA VerdictType ==
    ASSUME NEW in PROVE EvaluateBarrier(in) \in BarrierResults
  BY DEF EvaluateBarrier, BarrierResults

\* What passes is verified and has no decision open.
LEMMA VerdictPasses ==
    ASSUME NEW in, in.task \in EndedTasks,
           EvaluateBarrier(in) \in {"passed", "passed_with_warnings"}
    PROVE  in.task \in Verified /\ ~in.pending
  BY DEF EvaluateBarrier, BarrierErrors, EndedTasks, Verified

LEMMA VerdictCancelled ==
    ASSUME NEW in, in.task = "cancelled"
    PROVE  EvaluateBarrier(in) = "cancelled"
  BY DEF EvaluateBarrier

LEMMA VerificationType ==
    ASSUME NEW in \in InputSet
    PROVE  Verification(in) \in Verifications
  BY VerdictType DEF Verification, Verifications

LEMMA NoVerificationType == NoVerification \in Verifications
  BY DEF NoVerification, Verifications, NoInput, InputSet, Inputs

LEMMA CollectType ==
    ASSUME TypeOK, NEW w \in Waves, task[w] \in EndedTasks, NEW evidence \in BOOLEAN
    PROVE  /\ collectBarrierInputs(w, evidence) \in InputSet
           /\ collectBarrierInputs(w, evidence).task = task[w]
           /\ collectBarrierInputs(w, evidence).pending = (decision[w] = "pending")
  <1>1. ws \ base[w] \in SUBSET Changes
    BY DEF TypeOK
  <1>2. QED
    BY <1>1 DEF collectBarrierInputs, Inputs, InputSet

LEMMA FinalInputType ==
    ASSUME TypeOK, NEW evidence \in BOOLEAN
    PROVE  /\ collectFinalVerificationInputs(evidence) \in InputSet
           /\ collectFinalVerificationInputs(evidence).changes = ws
  BY DEF collectFinalVerificationInputs, Inputs, InputSet, TypeOK, EndedTasks, Final

WaveRecords == [status : WaveStatuses, result : BarrierResults \cup {"none"}, accepted : BOOLEAN]
ExecRecords == [at : ExecPC, wave : 1 .. NWaves + 1, ver : Verifications,
                to : RunStatuses \cup {"none"}]
ClientRecords == [n : 0 .. MaxCalls, at : ClientPC, call : Calls, wave : Waves \cup {Final},
                  ver : Verifications]
CancelRecords == [at : CancelPC, wave : Waves \cup {0}]

LEMMA Types ==
    ASSUME TypeOK
    PROVE  /\ wave \in [Waves -> WaveRecords] /\ exec \in ExecRecords /\ client \in ClientRecords
           /\ cancel \in CancelRecords
  BY DEF TypeOK, WaveRecords, ExecRecords, ClientRecords, CancelRecords

\* The moves of the main goroutine, field by field.
LEMMA ExecMoves ==
    ASSUME exec \in ExecRecords, NEW l \in ExecPC, NEW s \in RunStatuses, NEW v \in Verifications
    PROVE  /\ ExecGoto(l) => /\ exec' \in ExecRecords /\ exec'.at = l /\ exec'.wave = exec.wave
                             /\ exec'.ver = exec.ver /\ exec'.to = exec.to
           /\ Finish(s) => /\ exec' \in ExecRecords /\ exec'.at = "expire"
                           /\ exec'.wave = exec.wave /\ exec'.to = s
           /\ exec' = Await => /\ exec' \in ExecRecords /\ exec'.at = "await"
                               /\ exec'.wave = exec.wave /\ exec'.to = exec.to
           /\ exec' = NextWave /\ exec.wave \in Waves =>
                 /\ exec' \in ExecRecords /\ exec'.at = "wave"
                 /\ exec'.wave = exec.wave + 1 /\ exec'.to = exec.to
           /\ exec' = [exec EXCEPT !.at = l, !.ver = v] =>
                 /\ exec' \in ExecRecords /\ exec'.at = l /\ exec'.wave = exec.wave
                 /\ exec'.ver = v /\ exec'.to = exec.to
           /\ exec' = [exec EXCEPT !.at = l, !.wave = 1] =>
                 exec' \in ExecRecords /\ exec'.at = l /\ exec'.wave = 1 /\ exec'.to = exec.to
           /\ exec' = [exec EXCEPT !.wave = @ + 1] /\ exec.wave \in Waves =>
                 /\ exec' \in ExecRecords /\ exec'.at = exec.at /\ exec'.wave = exec.wave + 1
                 /\ exec'.ver = exec.ver /\ exec'.to = exec.to
  <1> USE NoVerificationType, WavesAreNumbers DEF ExecRecords
  <1>1. ExecGoto(l) => /\ exec' \in ExecRecords /\ exec'.at = l /\ exec'.wave = exec.wave
                       /\ exec'.ver = exec.ver /\ exec'.to = exec.to
    BY DEF ExecGoto
  <1>2. Finish(s) => /\ exec' \in ExecRecords /\ exec'.at = "expire"
                     /\ exec'.wave = exec.wave /\ exec'.to = s
    BY DEF Finish, ExecPC
  <1>3. exec' = Await => /\ exec' \in ExecRecords /\ exec'.at = "await"
                         /\ exec'.wave = exec.wave /\ exec'.to = exec.to
    BY DEF Await, ExecPC
  <1>4. exec' = NextWave /\ exec.wave \in Waves =>
           /\ exec' \in ExecRecords /\ exec'.at = "wave"
           /\ exec'.wave = exec.wave + 1 /\ exec'.to = exec.to
    BY DEF NextWave, ExecPC
  <1>5. exec' = [exec EXCEPT !.at = l, !.ver = v] =>
           /\ exec' \in ExecRecords /\ exec'.at = l /\ exec'.wave = exec.wave
           /\ exec'.ver = v /\ exec'.to = exec.to
    OBVIOUS
  <1>6. exec' = [exec EXCEPT !.at = l, !.wave = 1] =>
           exec' \in ExecRecords /\ exec'.at = l /\ exec'.wave = 1 /\ exec'.to = exec.to
    OBVIOUS
  <1>7. exec' = [exec EXCEPT !.wave = @ + 1] /\ exec.wave \in Waves =>
           /\ exec' \in ExecRecords /\ exec'.at = exec.at /\ exec'.wave = exec.wave + 1
           /\ exec'.ver = exec.ver /\ exec'.to = exec.to
    OBVIOUS
  <1>8. QED
    BY <1>1, <1>2, <1>3, <1>4, <1>5, <1>6, <1>7

LEMMA ClientMoves ==
    ASSUME client \in ClientRecords, NEW l \in ClientPC, NEW v \in Verifications
    PROVE  /\ ClientGoto(l) =>
                 /\ client' \in ClientRecords /\ client'.at = l /\ client'.wave = client.wave
                 /\ client'.ver = client.ver /\ client'.call = client.call
           /\ ClientReturns =>
                 /\ client' \in ClientRecords /\ client'.at = "idle" /\ client'.wave = Final
                 /\ client'.call = "none"
           /\ client' = [client EXCEPT !.at = l, !.ver = v] =>
                 /\ client' \in ClientRecords /\ client'.at = l /\ client'.wave = client.wave
                 /\ client'.ver = v /\ client'.call = client.call
  <1>1. ClientGoto(l) =>
           /\ client' \in ClientRecords /\ client'.at = l /\ client'.wave = client.wave
           /\ client'.ver = client.ver /\ client'.call = client.call
    BY DEF ClientGoto, ClientRecords
  <1>2. ClientReturns =>
           /\ client' \in ClientRecords /\ client'.at = "idle" /\ client'.wave = Final
           /\ client'.call = "none"
    BY NoVerificationType DEF ClientReturns, ClientRecords, ClientPC, Calls
  <1>3. client' = [client EXCEPT !.at = l, !.ver = v] =>
           /\ client' \in ClientRecords /\ client'.at = l /\ client'.wave = client.wave
           /\ client'.ver = v /\ client'.call = client.call
    BY DEF ClientRecords
  <1>4. QED
    BY <1>1, <1>2, <1>3

\* A change to the record of one wave.
LEMMA WaveStatusMoves ==
    ASSUME wave \in [Waves -> WaveRecords], current \in Waves, NEW s \in WaveStatuses,
           setWaveStatus(s)
    PROVE  /\ wave' \in [Waves -> WaveRecords]
           /\ \A w \in Waves : /\ wave'[w].result = wave[w].result
                               /\ wave'[w].accepted = wave[w].accepted
                               /\ wave'[w].status \in {wave[w].status, s}
  BY DEF WaveRecords, setWaveStatus

LEMMA WaveMoves ==
    ASSUME wave \in [Waves -> WaveRecords], NEW u \in Waves, NEW s \in WaveStatuses,
           NEW r \in BarrierResults, NEW a \in BOOLEAN
    PROVE  /\ wave' = [wave EXCEPT ![u].result = r, ![u].status = s] =>
                 /\ wave' \in [Waves -> WaveRecords]
                 /\ wave'[u].result = r /\ wave'[u].status = s
                 /\ wave'[u].accepted = wave[u].accepted
                 /\ \A w \in Waves \ {u} : wave'[w] = wave[w]
           /\ wave' = [wave EXCEPT ![u].status = s, ![u].accepted = a] =>
                 /\ wave' \in [Waves -> WaveRecords]
                 /\ wave'[u].result = wave[u].result /\ wave'[u].status = s
                 /\ wave'[u].accepted = a
                 /\ \A w \in Waves \ {u} : wave'[w] = wave[w]
  <1> USE DEF WaveRecords
  <1>1. wave' = [wave EXCEPT ![u].result = r, ![u].status = s] =>
           /\ wave' \in [Waves -> WaveRecords]
           /\ wave'[u].result = r /\ wave'[u].status = s
           /\ wave'[u].accepted = wave[u].accepted
           /\ \A w \in Waves \ {u} : wave'[w] = wave[w]
    OBVIOUS
  <1>2. wave' = [wave EXCEPT ![u].status = s, ![u].accepted = a] =>
           /\ wave' \in [Waves -> WaveRecords]
           /\ wave'[u].result = wave[u].result /\ wave'[u].status = s
           /\ wave'[u].accepted = a
           /\ \A w \in Waves \ {u} : wave'[w] = wave[w]
    OBVIOUS
  <1>3. QED
    BY <1>1, <1>2

-----------------------------------------------------------------------------
(* What no step undoes. *)

\* No change is new but those of workers that outlived their session.
AuditKept == \A c \in ws' : orphan'[c[1]] = FALSE => c \in ws /\ orphan[c[1]] = FALSE

Stable ==
    /\ \A w \in Waves : Passed(w) => Passed(w)'
    /\ FinalWritten => FinalWritten'
    /\ (\A w \in Waves : Passed(w)) => AuditKept

LEMMA StableKept ==
    ASSUME \A w \in Waves :
               /\ task'[w] = task[w] \/ task[w] \notin Verified
               /\ wave'[w].result = wave[w].result \/ wave'[w].result # "none"
               /\ decision'[w] = "pending" => decision[w] = "pending" \/ task[w] \notin Verified,
           FinalWritten => FinalWritten',
           \/ ws' = ws /\ orphan' = orphan
           \/ (\A w \in Waves : task[w] \in Verified) => AuditKept
    PROVE  Stable
  BY DEF Stable, Passed, AuditKept

LEMMA AuditedStable ==
    ASSUME Stable, \A w \in Waves : Passed(w), NEW in, Audited(in)
    PROVE  Audited(in)'
  BY DEF Stable, AuditKept, Audited

LEMMA ClientKept ==
    ASSUME RunInv, Stable, client' = client
    PROVE  ClientInv'
  <1>1. ClientInv /\ \A w \in Waves : WaveInv(w)
    BY DEF RunInv
  <1>2. FinalWritten => (\A w \in Waves : Passed(w)) /\ FinalWritten'
    BY <1>1 DEF WaveInv, Stable
  <1>3. FinalWritten /\ Audited(client.ver.input) => Audited(client.ver.input)'
    BY <1>2, AuditedStable
  <1>4. client.wave \in Waves /\ Passed(client.wave) => Passed(client.wave)'
    BY DEF Stable
  <1>5. QED
    BY <1>1, <1>2, <1>3, <1>4 DEF ClientInv

\* A step of a goroutine other than the main one, or of a worker.
LEMMA OutsideMove ==
    ASSUME RunInv, TypeOK', Stable, exec' = exec, task' = task,
           \A w \in Waves : Passes(wave'[w]) \/ wave'[w].status = "verified"
                            \/ wave'[w].accepted = TRUE => Passed(w),
           FinalWritten' => FinalWritten /\ Audited(file[Final].input)',
           \A w \in Waves : task[w] = "planned" => orphan'[w] = FALSE,
           exec.at # "session" =>
               \A w \in Waves : decision'[w] = "pending" => decision[w] = "pending",
           run' \in {run, "failed", "completed", "degraded"},
           run' = "completed" => FinalWritten,
           \/ UNCHANGED <<orphan, cancelled, cancelledTasks>>
           \/ \A w \in Waves : CancelLeaves(w) => CancelLeaves(w)',
           run' = run \/ run' # "degraded" \/ LeftBehind'
               \/ (exec.at \notin {"await", "execute"} /\ (exec.at = "stopped" => exec.to # "none")),
           ClientInv', CancelInv'
    PROVE  RunInv'
  <1>1. TypeOK /\ ExecInv /\ EndInv /\ \A w \in Waves : WaveInv(w)
    BY DEF RunInv
  <1>2. FinalWritten => \A w \in Waves : Passed(w)
    BY <1>1 DEF WaveInv
  <1>3. ASSUME NEW w \in Waves PROVE WaveInv(w)'
    <2>1. WaveInv(w) /\ (Passed(w) => Passed(w)')
      BY <1>1 DEF Stable
    <2>2. QED
      BY <1>1, <2>1 DEF WaveInv
  <1>4. ExecInv'
    <2>1. exec.at \in {"final", "verdict"} => \A w \in Waves : Passed(w)
      BY <1>1, WavesAreNumbers DEF ExecInv, WaveInv
    <2>2. exec.at \in {"final", "verdict"} => Audited(exec.ver.input)'
      BY <1>1, <2>1, AuditedStable DEF ExecInv
    <2>3. exec.wave \in Waves /\ Passed(exec.wave) => Passed(exec.wave)'
      BY DEF Stable
    <2>4. FinalWritten => FinalWritten'
      BY DEF Stable
    <2>5. exec.at = "switch" /\ Passes(exec.ver) => Passed(exec.wave)'
      BY <1>1, <2>3 DEF ExecInv
    <2>6. Passes(exec.ver)' <=> Passes(exec.ver)
      BY DEF Passes
    <2>7. QED
      BY <1>1, <2>2, <2>4, <2>5, <2>6 DEF ExecInv
  <1>5. EndInv'
    <2>1. exec.at # "session" /\ NothingPending => NothingPending'
      BY DEF NothingPending
    <2>2. FinalWritten => NothingPending'
      BY <1>2 DEF Stable, Passed, NothingPending
    <2>3. FinalWritten => FinalWritten'
      BY DEF Stable
    <2>4. LeftBehind /\ run' = "degraded" => LeftBehind'
      <3>1. \A w \in Waves : CancelLeaves(w) => CancelLeaves(w)'
        BY DEF CancelLeaves
      <3>2. QED
        BY <3>1 DEF LeftBehind
    <2>5. exec.at = "stopped" =>
             NothingPending' \/ (exec'.to = "none" /\ (run' = "failed" \/ LeftBehind'))
      <3>1. SUFFICES ASSUME exec.at = "stopped", ~NothingPending'
                     PROVE  exec'.to = "none" /\ (run' = "failed" \/ LeftBehind')
        OBVIOUS
      <3>2. exec.to = "none" /\ (run = "failed" \/ LeftBehind)
        BY <1>1, <2>1, <3>1 DEF EndInv
      <3>3. run' # "completed" /\ (LeftBehind => run = "degraded")
        BY <2>2, <3>1 DEF LeftBehind
      <3>4. QED
        BY <2>4, <3>1, <3>2, <3>3
    <2>6. exec.at = "stopped" => runTerminal(run')
      BY <1>1 DEF EndInv, runTerminal
    <2>7. run' = "degraded" /\ exec.at \in {"await", "execute"} => LeftBehind'
      BY <1>1, <2>4 DEF EndInv
    <2>8. QED
      BY <1>1, <2>1, <2>3, <2>5, <2>6, <2>7 DEF EndInv
  <1>6. QED
    BY <1>3, <1>4, <1>5 DEF RunInv

LEMMA CancelKept ==
    ASSUME RunInv, exec' = exec, task' = task, orphan' = orphan, cancel' = cancel,
           cancelled' = cancelled, cancelledTasks' = cancelledTasks
    PROVE  CancelInv'
  <1>1. CancelInv
    BY DEF RunInv
  <1>2. QED
    BY <1>1 DEF CancelInv, Seen, Over, Residual

\* What a step that leaves the workspace, the tasks and the run's end alone must show.
LEMMA QuietStable ==
    ASSUME UNCHANGED <<task, decision, ws, orphan, file>>,
           \A w \in Waves : wave'[w].result = wave[w].result
    PROVE  Stable
  <1>1. FinalWritten => FinalWritten'
    BY DEF FinalWritten
  <1>2. QED
    BY <1>1, StableKept

-----------------------------------------------------------------------------
(* The calls that accept or reject warnings. *)

LEMMA ExpireAll ==
    ASSUME decision \in [Waves -> {"none", "pending", "closed"}], expireAll
    PROVE  /\ decision' \in [Waves -> {"none", "pending", "closed"}]
           /\ \A w \in Waves : decision'[w] # "pending"
  BY DEF expireAll

\* The facts about the state that a call and the others use.
LEMMA Before ==
    ASSUME RunInv
    PROVE  /\ TypeOK /\ ExecInv /\ EndInv /\ ClientInv /\ CancelInv /\ client \in ClientRecords
           /\ wave \in [Waves -> WaveRecords] /\ exec \in ExecRecords /\ cancel \in CancelRecords
           /\ \A w \in Waves : Passes(wave[w]) \/ wave[w].status = "verified"
                               \/ wave[w].accepted = TRUE => Passed(w)
           /\ \A w \in Waves : task[w] = "planned" => orphan[w] = FALSE
           /\ FinalWritten => Audited(file[Final].input) /\ \A w \in Waves : Passed(w)
           /\ run = "completed" => FinalWritten
  <1>1. TypeOK /\ ExecInv /\ EndInv /\ ClientInv /\ CancelInv /\ \A w \in Waves : WaveInv(w)
    BY DEF RunInv
  <1>2. QED
    BY <1>1, Types DEF WaveInv, ExecInv, EndInv

LEMMA CallBeginsStep ==
    ASSUME RunInv, CallBegins
    PROVE  RunInv'
  <1>1. PICK call \in Calls \ {"none"}, w \in Waves \cup {Final} :
           /\ (w = Final) <=> (call \in {"accept_final", "reject_final"})
           /\ w # Final => AwaitsAcceptance(w)
           /\ client' = [n |-> client.n + 1, at |-> "read", call |-> call, wave |-> w,
                         ver |-> NoVerification]
    BY DEF CallBegins
  <1>2. /\ client.n < MaxCalls
        /\ UNCHANGED <<run, wave, current, task, orphan, decision, ws, base, file, advance, cancelled,
                       cancelledTasks, exec, cancel>>
    BY DEF CallBegins, snapshotVars, diskVars, flagVars
  <1>3. client' \in ClientRecords /\ client'.at = "read" /\ client'.call = call /\ client'.wave = w
    <2>1. client.n \in 0 .. MaxCalls
      BY Before DEF ClientRecords
    <2>2. QED
      BY <1>1, <1>2, <2>1, NoVerificationType, RunAssumption DEF ClientRecords, ClientPC
  <1>4. TypeOK'
    BY <1>2, <1>3, Before DEF TypeOK, ClientRecords
  <1>5. Stable
    BY <1>2, QuietStable
  <1>6. ClientInv'
    <2>1. w \in Waves => Passed(w)
      BY <1>1, Before, WavesAreNumbers DEF AwaitsAcceptance, Passes
    <2>2. w \in Waves => Passed(w)'
      BY <1>5, <2>1 DEF Stable
    <2>3. client'.call \in {"accept_wave", "reject_wave"} => client'.wave \in Waves
      BY <1>1, <1>3
    <2>4. client'.wave \in Waves => Passed(client.wave)'
      BY <1>3, <2>2 DEF Passed
    <2>5. QED
      BY <1>1, <1>3, <2>3, <2>4 DEF ClientInv
  <1>7. CancelInv'
    BY <1>2, CancelKept
  <1>8. FinalWritten' => FinalWritten /\ Audited(file[Final].input)'
    BY <1>2, Before DEF FinalWritten, Audited
  <1>9. QED
    BY <1>2, <1>4, <1>5, <1>6, <1>7, <1>8, Before, OutsideMove

LEMMA CallReadsStep ==
    ASSUME RunInv, CallReads
    PROVE  RunInv'
  <1>1. /\ client.at = "read"
        /\ UNCHANGED <<run, wave, current, task, orphan, decision, ws, base, file, advance, cancelled,
                       cancelledTasks, exec, cancel>>
    BY DEF CallReads, snapshotVars, diskVars, flagVars
  <1>2. PICK v \in Verifications : v = file[client.wave]
    BY Before DEF TypeOK, ClientRecords
  <1>3. \/ ClientReturns
        \/ /\ v.result = "passed_with_warnings"
           /\ \/ client' = [client EXCEPT !.at = "expire", !.ver = v] /\ client.call = "accept_final"
              \/ client' = [client EXCEPT !.at = "write", !.ver = v]
    BY <1>2 DEF CallReads
  <1>4. client' \in ClientRecords
    BY <1>2, <1>3, Before, ClientMoves DEF ClientPC
  <1>5. TypeOK'
    BY <1>1, <1>4, Before DEF TypeOK, ClientRecords
  <1>6. Stable
    BY <1>1, QuietStable
  <1>7. ClientInv'
    <2>1. CASE ClientReturns
      BY <2>1, Before, ClientMoves DEF ClientInv, ClientPC, Calls
    <2>2. CASE /\ v.result = "passed_with_warnings"
               /\ \/ client' = [client EXCEPT !.at = "expire", !.ver = v]
                     /\ client.call = "accept_final"
                  \/ client' = [client EXCEPT !.at = "write", !.ver = v]
      <3>1. /\ client'.wave = client.wave /\ client'.ver = v /\ client'.call = client.call
            /\ client'.at = "write" \/ (client'.at = "expire" /\ client.call = "accept_final")
        BY <1>2, <2>2, Before, ClientMoves DEF ClientPC
      <3>2. ClientInv /\ client.at = "read"
        BY <1>1, Before
      <3>3. client.wave \in Waves /\ Passed(client.wave) => Passed(client.wave)'
        BY <1>6, <3>1 DEF Stable, Passed
      <3>4. client.wave = Final => FinalWritten' /\ v.result # "none" /\ Audited(v.input)
        BY <1>1, <1>2, <2>2, Before DEF FinalWritten
      <3>5. client.wave = Final => Audited(client.ver.input)'
        BY <1>1, <3>1, <3>4 DEF Audited
      <3>6. QED
        BY <3>1, <3>2, <3>3, <3>4, <3>5 DEF ClientInv
    <2>3. QED
      BY <1>3, <2>1, <2>2
  <1>8. CancelInv'
    BY <1>1, CancelKept
  <1>9. FinalWritten' => FinalWritten /\ Audited(file[Final].input)'
    BY <1>1, Before DEF FinalWritten, Audited
  <1>10. QED
    BY <1>1, <1>5, <1>6, <1>7, <1>8, <1>9, Before, OutsideMove

LEMMA CallWritesStep ==
    ASSUME RunInv, CallWrites
    PROVE  RunInv'
  <1>1. /\ client.at = "write"
        /\ UNCHANGED <<run, wave, current, task, orphan, decision, ws, base, advance, cancelled,
                       cancelledTasks, exec, cancel>>
    BY DEF CallWrites, snapshotVars, flagVars
  <1>2. /\ client.ver \in Verifications /\ client.wave \in Waves \cup {Final}
        /\ file \in [Waves \cup {Final} -> Verifications]
    BY Before DEF TypeOK, ClientRecords
  <1>3. PICK v \in Verifications :
           /\ file' = [file EXCEPT ![client.wave] = v]
           /\ v.result = client.ver.result /\ v.input = client.ver.input
    <2>1. [client.ver EXCEPT !.accepted = TRUE] \in Verifications
          /\ [client.ver EXCEPT !.accepted = TRUE].result = client.ver.result
          /\ [client.ver EXCEPT !.accepted = TRUE].input = client.ver.input
      BY <1>2 DEF Verifications
    <2>2. [client.ver EXCEPT !.rejected = TRUE] \in Verifications
          /\ [client.ver EXCEPT !.rejected = TRUE].result = client.ver.result
          /\ [client.ver EXCEPT !.rejected = TRUE].input = client.ver.input
      BY <1>2 DEF Verifications
    <2>3. QED
      BY <2>1, <2>2 DEF CallWrites
  <1>4. PICK l \in {"signal", "commit"} :
           ClientGoto(l) /\ (l = "signal" <=> client.wave = Final)
    BY DEF CallWrites
  <1>5. /\ client' \in ClientRecords /\ client'.at = l /\ client'.wave = client.wave
        /\ client'.ver = client.ver /\ client'.call = client.call
    BY <1>4, Before, ClientMoves DEF ClientPC
  <1>6. TypeOK'
    BY <1>1, <1>2, <1>3, <1>5, Before DEF TypeOK, ClientRecords
  <1>7. /\ client.call \in {"accept_wave", "reject_wave"} \/ client.call \in {"accept_final", "reject_final"}
        /\ client.wave = Final =>
              client.ver.result # "none" /\ FinalWritten /\ Audited(client.ver.input)
    BY <1>1, <1>2, Before, WavesAreNumbers DEF ClientInv, ClientRecords, Calls
  <1>8. FinalWritten <=> FinalWritten'
    BY <1>2, <1>3, <1>7 DEF FinalWritten
  <1>9. Stable
    BY <1>1, <1>8, StableKept
  <1>10. FinalWritten' => FinalWritten /\ Audited(file[Final].input)'
    <2>1. file'[Final] = v \/ file'[Final] = file[Final]
      BY <1>2, <1>3
    <2>2. FinalWritten => Audited(file[Final].input)
      BY Before
    <2>3. file'[Final] # file[Final] => client.wave = Final /\ file'[Final] = v
      BY <1>2, <1>3
    <2>4. FinalWritten => Audited(file[Final].input)'
      BY <1>1, <1>3, <1>7, <2>2, <2>3 DEF Audited
    <2>5. QED
      BY <1>8, <2>4
  <1>11. ClientInv'
    <2>1. ClientInv
      BY Before
    <2>2. client.wave \in Waves /\ Passed(client.wave) => Passed(client.wave)'
      BY <1>5, <1>9 DEF Stable, Passed
    <2>3. Audited(client.ver.input) => Audited(client.ver.input)'
      BY <1>1, <1>5 DEF Audited
    <2>4. QED
      BY <1>1, <1>4, <1>5, <1>8, <2>1, <2>2, <2>3, WavesAreNumbers DEF ClientInv
  <1>12. CancelInv'
    BY <1>1, CancelKept
  <1>13. QED
    BY <1>1, <1>6, <1>9, <1>10, <1>11, <1>12, Before, OutsideMove

LEMMA CallCommitsStep ==
    ASSUME RunInv, CallCommits
    PROVE  RunInv'
  <1>1. /\ client.at = "commit"
        /\ UNCHANGED <<run, current, task, orphan, decision, ws, base, file, advance, cancelled,
                       cancelledTasks, exec, cancel>>
    BY DEF CallCommits, diskVars, flagVars
  <1>2. client.call \in {"accept_wave", "reject_wave"} /\ client.wave \in Waves /\ Passed(client.wave)
    BY <1>1, Before DEF ClientInv, ClientRecords, Calls
  <1>3. PICK s \in {"verified", "failed"}, a \in BOOLEAN :
           wave' = [wave EXCEPT ![client.wave].status = s, ![client.wave].accepted = a]
    BY DEF CallCommits
  <1>4. PICK l \in {"signal", "status"} : ClientGoto(l)
    BY DEF CallCommits
  <1>5. /\ client' \in ClientRecords /\ client'.at = l /\ client'.wave = client.wave
        /\ client'.ver = client.ver /\ client'.call = client.call
    BY <1>4, Before, ClientMoves, NoVerificationType DEF ClientPC
  <1>6. /\ wave' \in [Waves -> WaveRecords] /\ \A w \in Waves : wave'[w].result = wave[w].result
        /\ \A w \in Waves \ {client.wave} : wave'[w] = wave[w]
    BY <1>2, <1>3, Before, WaveMoves DEF WaveStatuses, BarrierResults
  <1>7. TypeOK'
    BY <1>1, <1>5, <1>6, Before DEF TypeOK, ClientRecords, WaveRecords
  <1>8. Stable
    BY <1>1, <1>6, QuietStable
  <1>9. \A w \in Waves : Passes(wave'[w]) \/ wave'[w].status = "verified"
                         \/ wave'[w].accepted = TRUE => Passed(w)
    BY <1>2, <1>6, Before
  <1>10. ClientInv'
    <2>1. Passed(client.wave)'
      BY <1>2, <1>5, <1>8 DEF Stable, Passed
    <2>2. QED
      BY <1>2, <1>4, <1>5, <2>1 DEF ClientInv
  <1>11. CancelInv'
    BY <1>1, CancelKept
  <1>12. FinalWritten' => FinalWritten /\ Audited(file[Final].input)'
    BY <1>1, Before DEF FinalWritten, Audited
  <1>13. QED
    BY <1>1, <1>7, <1>8, <1>9, <1>10, <1>11, <1>12, Before, OutsideMove

\* The steps of a call that only move it on, end the run or expire the decisions.
LEMMA CallGoesOn ==
    ASSUME RunInv, CallFailsRun \/ CallSignals \/ CallExpires \/ CallFinishes
    PROVE  RunInv'
  <1>1. /\ client.at \in {"status", "signal", "expire", "finish"}
        /\ UNCHANGED <<current, task, orphan, ws, base, file, cancelled, cancelledTasks, exec, cancel>>
        /\ advance' \in {advance, TRUE} /\ run' \in {run, "failed", "completed"}
        /\ run' = run \/ run' = "failed" \/ (client.at = "finish" /\ client.call = "accept_final")
    BY DEF CallFailsRun, CallSignals, CallExpires, CallFinishes, snapshotVars, diskVars, flagVars,
           setRunStatus, signalAdvance
  <1>2. /\ decision' \in [Waves -> {"none", "pending", "closed"}]
        /\ \A w \in Waves : decision'[w] = "pending" => decision[w] = "pending"
    <2>1. decision \in [Waves -> {"none", "pending", "closed"}]
      BY Before DEF TypeOK
    <2>2. decision' = decision \/ expireAll
      BY DEF CallFailsRun, CallSignals, CallExpires, CallFinishes
    <2>3. QED
      BY <2>1, <2>2, ExpireAll
  <1>3. /\ wave' \in [Waves -> WaveRecords]
        /\ \A w \in Waves : /\ wave'[w].result = wave[w].result
                            /\ wave'[w].accepted = wave[w].accepted
                            /\ wave'[w].status \in {wave[w].status, "failed"}
    <2>1. wave' = wave \/ setWaveStatus("failed")
      BY DEF CallFailsRun, CallSignals, CallExpires, CallFinishes, snapshotVars
    <2>2. current \in Waves /\ "failed" \in WaveStatuses
      BY Before DEF TypeOK, WaveStatuses
    <2>3. QED
      BY <2>1, <2>2, Before, WaveStatusMoves
  <1>4. \/ ClientReturns
        \/ \E l \in {"signal", "expire", "finish"} :
              ClientGoto(l) /\ (l \in {"expire", "finish"} <=> client.wave = Final)
    BY Before, WavesAreNumbers
    DEF CallFailsRun, CallSignals, CallExpires, CallFinishes, ClientInv, ClientRecords, Calls
  <1>5. client' \in ClientRecords
    BY <1>4, Before, ClientMoves, NoVerificationType DEF ClientPC
  <1>6. TypeOK'
    BY <1>1, <1>2, <1>3, <1>5, Before DEF TypeOK, ClientRecords, WaveRecords, RunStatuses
  <1>7. FinalWritten <=> FinalWritten'
    BY <1>1 DEF FinalWritten
  <1>8. Stable
    BY <1>1, <1>2, <1>3, <1>7, StableKept
  <1>9. \A w \in Waves : Passes(wave'[w]) \/ wave'[w].status = "verified"
                         \/ wave'[w].accepted = TRUE => Passed(w)
    BY <1>3, Before DEF Passes
  <1>10. ClientInv'
    <2>1. CASE ClientReturns
      BY <2>1, Before, ClientMoves, NoVerificationType DEF ClientInv, ClientPC, Calls
    <2>2. CASE \E l \in {"signal", "expire", "finish"} :
                  ClientGoto(l) /\ (l \in {"expire", "finish"} <=> client.wave = Final)
      <3>1. PICK l \in {"signal", "expire", "finish"} :
               ClientGoto(l) /\ (l \in {"expire", "finish"} <=> client.wave = Final)
        BY <2>2
      <3>2. /\ client'.at = l /\ client'.wave = client.wave
            /\ client'.ver = client.ver /\ client'.call = client.call
        BY <3>1, Before, ClientMoves, NoVerificationType DEF ClientPC
      <3>3. ClientInv
        BY Before
      <3>4. client.wave \in Waves /\ Passed(client.wave) => Passed(client.wave)'
        BY <1>8, <3>2 DEF Stable, Passed
      <3>5. Audited(client.ver.input) => Audited(client.ver.input)'
        BY <1>1, <3>2 DEF Audited
      <3>6. QED
        BY <1>1, <1>7, <3>1, <3>2, <3>3, <3>4, <3>5, WavesAreNumbers DEF ClientInv
    <2>3. QED
      BY <1>4, <2>1, <2>2
  <1>11. CancelInv'
    BY <1>1, CancelKept
  <1>12. FinalWritten' => FinalWritten /\ Audited(file[Final].input)'
    BY <1>1, Before DEF FinalWritten, Audited
  <1>13. run' = "completed" => FinalWritten
    BY <1>1, Before DEF ClientInv
  <1>14. QED
    BY <1>1, <1>2, <1>6, <1>8, <1>9, <1>10, <1>11, <1>12, <1>13, Before, OutsideMove

-----------------------------------------------------------------------------
(* Cancellations, answers and the workers. *)

LEMMA RequestCancelStep ==
    ASSUME RunInv, RequestCancel \/ RequestCancelTask
    PROVE  RunInv'
  <1>1. /\ UNCHANGED <<run, wave, current, task, orphan, decision, ws, base, file, advance, exec,
                       client>>
        /\ cancel.at = "idle"
    BY DEF RequestCancel, RequestCancelTask, snapshotVars, diskVars
  <1>2. /\ cancelled' \in BOOLEAN /\ cancelledTasks' \subseteq Waves
        /\ cancelled' = TRUE \/ ActiveWave \in cancelledTasks'
    BY Before DEF RequestCancel, RequestCancelTask, TypeOK
  <1>3. ExecInv
    BY Before
  <1>4. /\ ActiveWave \in Waves \cup {0}
        /\ ActiveWave # 0 => /\ exec.at \in {"session", "cancelling", "result"}
                             /\ exec.wave = ActiveWave /\ task[ActiveWave] = "running"
    BY <1>3 DEF ActiveWave, ExecInv
  <1>5. /\ cancel' \in CancelRecords /\ cancel'.wave = ActiveWave
        /\ cancel'.at = "terminate" \/ (cancel'.at = "again" /\ ActiveWave \in Waves)
    <2>1. \/ cancel' = [at |-> "terminate", wave |-> ActiveWave]
          \/ cancel' = [at |-> "again", wave |-> ActiveWave] /\ ActiveWave \in Waves
      BY DEF RequestCancel, RequestCancelTask
    <2>2. QED
      BY <1>4, <2>1 DEF CancelRecords, CancelPC
  <1>6. TypeOK'
    BY <1>1, <1>2, <1>5, Before DEF TypeOK, CancelRecords
  <1>7. Stable
    BY <1>1, QuietStable
  <1>8. CancelInv'
    <2>1. ~Residual'
      BY <1>5 DEF Residual
    <2>2. ActiveWave # 0 => Seen(ActiveWave) \/ Over(ActiveWave)
      BY <1>4 DEF Seen, Over
    <2>3. ActiveWave # 0 => Seen(cancel.wave)' \/ Over(cancel.wave)'
      BY <1>1, <1>5, <2>2 DEF Seen, Over
    <2>4. cancel'.at = "again" => cancel'.wave # 0
      BY <1>5, WavesAreNumbers
    <2>5. ActiveWave # 0 => task'[cancel'.wave] # "planned"
      BY <1>1, <1>4, <1>5
    <2>6. QED
      BY <1>2, <1>5, <2>1, <2>3, <2>4, <2>5 DEF CancelInv
  <1>9. ClientInv'
    BY <1>1, <1>7, ClientKept
  <1>10. FinalWritten' => FinalWritten /\ Audited(file[Final].input)'
    BY <1>1, Before DEF FinalWritten, Audited
  <1>11. \A w \in Waves : CancelLeaves(w) => CancelLeaves(w)'
    <2>1. (cancelled => cancelled') /\ cancelledTasks \subseteq cancelledTasks'
      BY DEF RequestCancel, RequestCancelTask
    <2>2. QED
      BY <1>1, <2>1 DEF CancelLeaves
  <1>12. QED
    BY <1>1, <1>6, <1>7, <1>8, <1>9, <1>10, <1>11, Before, OutsideMove

\* An orphan is recorded only for a wave whose session was cancelled: it has been started.
LEMMA CancelTerminatesStep ==
    ASSUME RunInv, CancelTerminates \/ (CancelRepeats /\ cancel.at = "again")
    PROVE  RunInv'
  <1>1. /\ UNCHANGED <<run, wave, current, task, decision, ws, base, file, advance, cancelled,
                       cancelledTasks, exec, client>>
        /\ cancel.at \in {"terminate", "again"}
    BY DEF CancelTerminates, CancelRepeats, diskVars, flagVars
  <1>2. \/ /\ orphan' = orphan
           /\ \/ cancel' = [cancel EXCEPT !.at = "signal"]
              \/ cancel' = [at |-> "idle", wave |-> 0]
        \/ /\ orphan' = [orphan EXCEPT ![cancel.wave] = TRUE] /\ cancel.wave \in Lingering
           /\ \E l \in {"degrade", "redegrade"} : cancel' = [cancel EXCEPT !.at = l]
    BY DEF CancelTerminates, CancelRepeats
  <1>3. /\ cancel' \in CancelRecords /\ cancel'.wave \in {cancel.wave, 0} /\ cancel'.at # "again"
        /\ Residual' => cancel'.wave = cancel.wave /\ cancel.wave \in Lingering
                        /\ orphan' = [orphan EXCEPT ![cancel.wave] = TRUE]
    BY <1>2, Before DEF CancelRecords, CancelPC, Residual
  <1>4. orphan \in [Waves -> BOOLEAN]
    BY Before DEF TypeOK
  <1>5. /\ orphan' \in [Waves -> BOOLEAN]
        /\ \A w \in Waves : orphan'[w] = orphan[w] \/ (w = cancel.wave /\ orphan'[w] = TRUE)
    BY <1>2, <1>4
  <1>6. /\ cancel.wave \in Waves \cup {0}
        /\ Residual' => cancel.wave # 0 /\ orphan'[cancel.wave] = TRUE
    BY <1>3, <1>4, Before, WavesAreNumbers DEF CancelRecords
  <1>7. TypeOK'
    BY <1>1, <1>3, <1>5, Before DEF TypeOK, CancelRecords
  <1>8. AuditKept
    <2>1. ws \subseteq Waves \X Kinds
      BY Before DEF TypeOK, Changes
    <2>2. \A c \in ws : c[1] \in Waves
      BY <2>1
    <2>3. QED
      BY <1>1, <1>5, <2>2 DEF AuditKept
  <1>9. FinalWritten <=> FinalWritten'
    BY <1>1 DEF FinalWritten
  <1>10. Stable
    BY <1>1, <1>8, <1>9, StableKept
  <1>11. \A w \in Waves : task[w] = "planned" => orphan'[w] = FALSE
    <2>1. CancelInv
      BY Before
    <2>2. cancel.wave # 0 => task[cancel.wave] # "planned"
      BY <2>1 DEF CancelInv
    <2>3. \A w \in Waves : w # 0
      BY WavesAreNumbers
    <2>4. QED
      BY <1>5, <2>2, <2>3, Before
  <1>12. CancelInv'
    <2>1. CancelInv
      BY Before
    <2>2. cancel.wave # 0 => Seen(cancel.wave) \/ Over(cancel.wave)
      BY <2>1 DEF CancelInv
    <2>3. cancel'.wave # 0 => Seen(cancel.wave)' \/ Over(cancel.wave)'
      BY <1>1, <1>3, <2>2 DEF Seen, Over
    <2>4. cancel'.wave # 0 =>
             (cancelled' = TRUE \/ cancel'.wave \in cancelledTasks') /\ task'[cancel'.wave] # "planned"
      BY <1>1, <1>3, <2>1 DEF CancelInv
    <2>5. Residual' => cancel'.wave # 0 /\ orphan'[cancel'.wave] = TRUE
      BY <1>3, <1>6
    <2>6. QED
      BY <1>3, <2>3, <2>4, <2>5 DEF CancelInv
  <1>13. ClientInv'
    BY <1>1, <1>10, ClientKept
  <1>14. FinalWritten' => FinalWritten /\ Audited(file[Final].input)'
    <2>1. FinalWritten => Audited(file[Final].input)'
      BY <1>10, Before, AuditedStable, <1>1 DEF Audited
    <2>2. QED
      BY <1>9, <2>1
  <1>15. \A w \in Waves : CancelLeaves(w) => CancelLeaves(w)'
    BY <1>1, <1>5 DEF CancelLeaves
  <1>16. QED
    BY <1>1, <1>7, <1>10, <1>11, <1>12, <1>13, <1>14, <1>15, Before, OutsideMove

\* A run that a cancellation degrades has a process left behind, or the executor has seen it.
LEMMA CancelSignalsStep ==
    ASSUME RunInv, CancelSignals \/ (CancelRepeats /\ cancel.at = "redegrade")
    PROVE  RunInv'
  <1>1. /\ UNCHANGED <<wave, current, task, orphan, decision, ws, base, file, cancelled,
                       cancelledTasks, exec, client>>
        /\ advance' \in {advance, TRUE} /\ cancel' = [at |-> "idle", wave |-> 0]
        /\ run' = run \/ (run' = "degraded" /\ Residual)
    BY DEF CancelSignals, CancelRepeats, diskVars, flagVars, signalAdvance, setRunStatus, Residual
  <1>2. cancel' \in CancelRecords /\ cancel'.at = "idle" /\ cancel'.wave = 0
    BY <1>1 DEF CancelRecords, CancelPC
  <1>3. TypeOK'
    BY <1>1, <1>2, Before DEF TypeOK, CancelRecords, RunStatuses
  <1>4. Stable
    BY <1>1, QuietStable
  <1>5. CancelInv'
    BY <1>2 DEF CancelInv, Residual
  <1>6. ClientInv'
    BY <1>1, <1>4, ClientKept
  <1>7. FinalWritten' => FinalWritten /\ Audited(file[Final].input)'
    BY <1>1, Before DEF FinalWritten, Audited
  <1>8. run' = run \/ run' # "degraded" \/ LeftBehind'
            \/ (exec.at \notin {"await", "execute"} /\ (exec.at = "stopped" => exec.to # "none"))
    <2>1. SUFFICES ASSUME run' = "degraded", Residual
                   PROVE  \/ LeftBehind'
                          \/ /\ exec.at \notin {"await", "execute"}
                             /\ exec.at = "stopped" => exec.to # "none"
      BY <1>1
    <2>2. /\ cancel.wave \in Waves /\ (cancelled = TRUE \/ cancel.wave \in cancelledTasks)
          /\ Seen(cancel.wave) \/ orphan[cancel.wave] = TRUE
      BY <2>1, Before DEF CancelInv, CancelRecords
    <2>3. CASE Seen(cancel.wave)
      BY <2>3 DEF Seen
    <2>4. CASE orphan[cancel.wave] = TRUE
      <3>1. CancelLeaves(cancel.wave)
        BY <2>2, <2>4 DEF CancelLeaves
      <3>2. \E w \in Waves : CancelLeaves(w)'
        BY <1>1, <2>2, <3>1 DEF CancelLeaves
      <3>3. QED
        BY <2>1, <3>2 DEF LeftBehind
    <2>5. QED
      BY <2>2, <2>3, <2>4
  <1>9. QED
    BY <1>1, <1>3, <1>4, <1>5, <1>6, <1>7, <1>8, Before, OutsideMove

LEMMA AnswerDecisionStep ==
    ASSUME RunInv, AnswerDecision
    PROVE  RunInv'
  <1>1. /\ UNCHANGED <<run, wave, current, task, orphan, ws, base, file, cancelled, cancelledTasks,
                       exec, client, cancel>>
        /\ advance' = TRUE
    BY DEF AnswerDecision, snapshotVars, diskVars, signalAdvance
  <1>2. PICK u \in Waves : decision' = [decision EXCEPT ![u] = "closed"]
    BY DEF AnswerDecision
  <1>3. decision \in [Waves -> {"none", "pending", "closed"}]
    BY Before DEF TypeOK
  <1>4. /\ decision' \in [Waves -> {"none", "pending", "closed"}]
        /\ \A w \in Waves : decision'[w] = "pending" => decision[w] = "pending"
    BY <1>2, <1>3
  <1>5. TypeOK'
    BY <1>1, <1>4, Before DEF TypeOK
  <1>6. FinalWritten <=> FinalWritten'
    BY <1>1 DEF FinalWritten
  <1>7. Stable
    BY <1>1, <1>4, <1>6, StableKept
  <1>8. CancelInv'
    BY <1>1, CancelKept
  <1>9. ClientInv'
    BY <1>1, <1>7, ClientKept
  <1>10. FinalWritten' => FinalWritten /\ Audited(file[Final].input)'
    BY <1>1, Before DEF FinalWritten, Audited
  <1>11. QED
    BY <1>1, <1>4, <1>5, <1>7, <1>8, <1>9, <1>10, Before, OutsideMove

\* What a worker does in its session: its wave has not passed, so nothing is final yet.
LEMMA WorkerStep ==
    ASSUME RunInv, WorkerWrites \/ WorkerAsks
    PROVE  RunInv'
  <1>1. /\ UNCHANGED <<run, wave, current, task, orphan, base, file, advance, cancelled,
                       cancelledTasks, exec, client, cancel>>
        /\ exec.at = "session"
    BY DEF WorkerWrites, WorkerAsks, snapshotVars, diskVars, flagVars
  <1>2. exec.wave \in Waves /\ task[exec.wave] = "running"
    BY <1>1, Before DEF ExecInv
  <1>3. ~Passed(exec.wave) /\ ~FinalWritten /\ task[exec.wave] \notin Verified
    BY <1>2, Before DEF Passed, Verified
  <1>4. /\ decision' \in [Waves -> {"none", "pending", "closed"}]
        /\ \A w \in Waves \ {exec.wave} : decision'[w] = decision[w]
    <2>1. decision \in [Waves -> {"none", "pending", "closed"}]
      BY Before DEF TypeOK
    <2>2. decision' = decision \/ decision' = [decision EXCEPT ![exec.wave] = "pending"]
      BY DEF WorkerWrites, WorkerAsks
    <2>3. QED
      BY <2>1, <2>2
  <1>5. ws' \subseteq Changes
    <2>1. ws \subseteq Changes /\ Writes \subseteq Changes
      BY Before, RunAssumption DEF TypeOK, Changes, Waves
    <2>2. QED
      BY <2>1 DEF WorkerWrites, WorkerAsks, diskVars
  <1>6. TypeOK'
    BY <1>1, <1>4, <1>5, Before DEF TypeOK
  <1>7. FinalWritten <=> FinalWritten'
    BY <1>1 DEF FinalWritten
  <1>8. Stable
    BY <1>1, <1>2, <1>3, <1>4, <1>7, StableKept
  <1>9. CancelInv'
    BY <1>1, CancelKept
  <1>10. ClientInv'
    BY <1>1, <1>8, ClientKept
  <1>11. QED
    BY <1>1, <1>3, <1>6, <1>7, <1>8, <1>9, <1>10, Before, OutsideMove

LEMMA OrphanWritesStep ==
    ASSUME RunInv, OrphanWrites
    PROVE  RunInv'
  <1>1. UNCHANGED <<run, wave, current, task, orphan, decision, base, file, advance, cancelled,
                    cancelledTasks, exec, client, cancel>>
    BY DEF OrphanWrites, snapshotVars, flagVars
  <1>2. PICK c \in Writes : orphan[c[1]] /\ ws' = ws \cup {c}
    BY DEF OrphanWrites
  <1>3. ws \subseteq Changes /\ Writes \subseteq Changes
    BY Before, RunAssumption DEF TypeOK, Changes, Waves
  <1>4. TypeOK'
    BY <1>1, <1>2, <1>3, Before DEF TypeOK
  <1>5. AuditKept
    BY <1>1, <1>2 DEF AuditKept
  <1>6. FinalWritten <=> FinalWritten'
    BY <1>1 DEF FinalWritten
  <1>7. Stable
    BY <1>1, <1>5, <1>6, StableKept
  <1>8. CancelInv'
    BY <1>1, CancelKept
  <1>9. ClientInv'
    BY <1>1, <1>7, ClientKept
  <1>10. FinalWritten' => FinalWritten /\ Audited(file[Final].input)'
    <2>1. FinalWritten => Audited(file[Final].input)'
      BY <1>1, <1>7, Before, AuditedStable DEF Audited
    <2>2. QED
      BY <1>6, <2>1
  <1>11. QED
    BY <1>1, <1>4, <1>7, <1>8, <1>9, <1>10, Before, OutsideMove

-----------------------------------------------------------------------------
(* The main goroutine. *)

\* Away from a session and its barrier a cancellation that goes on came after the session.
LEMMA CancelIdle ==
    ASSUME RunInv, UNCHANGED <<cancel, cancelled, cancelledTasks, orphan>>,
           exec.at \in {"execute", "wave", "preflight", "start", "tasks", "final", "verdict", "await"},
           \A w \in Waves : task'[w] = task[w] \/ (task'[w] # "planned" /\ task[w] \notin EndedTasks)
    PROVE  CancelInv'
  <1>1. CancelInv /\ cancel.wave \in Waves \cup {0}
    BY Before DEF CancelRecords
  <1>2. cancel.wave # 0 => task[cancel.wave] \in EndedTasks /\ (Residual => orphan[cancel.wave] = TRUE)
    BY <1>1 DEF CancelInv, Seen, Over
  <1>3. cancel.wave # 0 => task'[cancel.wave] = task[cancel.wave]
    BY <1>1, <1>2
  <1>4. QED
    BY <1>1, <1>2, <1>3 DEF CancelInv, Over, Residual

\* A step of the main goroutine that ends no session keeps what is known of a cancellation.
LEMMA CancelGoesOn ==
    ASSUME RunInv, UNCHANGED <<cancel, cancelled, cancelledTasks>>,
           \A w \in Waves : task[w] # "planned" => task'[w] # "planned",
           \A w \in Waves : Over(w) => Over(w)' /\ orphan'[w] = orphan[w],
           \A w \in Waves : /\ cancelled = TRUE \/ w \in cancelledTasks
                            /\ Seen(w)
                            => Seen(w)' \/ (Over(w)' /\ ~Residual)
    PROVE  CancelInv'
  <1>1. CancelInv /\ cancel.wave \in Waves \cup {0}
    BY Before DEF CancelRecords
  <1>2. (Residual' <=> Residual) /\ cancel'.wave = cancel.wave
    BY DEF Residual
  <1>3. ASSUME NEW w \in Waves, w = cancel.wave, w # 0
        PROVE  Seen(w)' \/ (Over(w)' /\ (Residual => orphan'[w] = TRUE))
    <2>1. /\ cancelled = TRUE \/ w \in cancelledTasks
          /\ Seen(w) \/ (Over(w) /\ (Residual => orphan[w] = TRUE))
      BY <1>1, <1>3 DEF CancelInv
    <2>2. QED
      BY <2>1
  <1>4. cancel.wave # 0 =>
           Seen(cancel.wave)' \/ (Over(cancel.wave)' /\ (Residual => orphan'[cancel.wave] = TRUE))
    BY <1>1, <1>2, <1>3 DEF Seen, Over
  <1>5. QED
    BY <1>1, <1>2, <1>4 DEF CancelInv

\* A run that was degraded by a cancellation stays so while the main goroutine wakes.
LEMMA LeftBehindKept ==
    ASSUME LeftBehind, UNCHANGED <<run, orphan, cancelled, cancelledTasks>>
    PROVE  LeftBehind'
  BY DEF LeftBehind, CancelLeaves

\* A step that changes neither tasks, decisions, changes nor files, and lets no wave pass.
LEMMA QuietMove ==
    ASSUME RunInv, TypeOK', CancelInv', EndInv',
           UNCHANGED <<task, decision, ws, orphan, file, client>>,
           \A w \in Waves : /\ wave'[w].result = wave[w].result
                            /\ wave'[w].accepted = wave[w].accepted
                            /\ wave'[w].status = "verified" => wave[w].status = "verified",
           exec.at \notin {"session", "cancelling", "result"},
           \A w \in Waves : exec'.wave > w => Passed(w),
           exec'.at \notin {"session", "cancelling", "result", "ended", "record", "switch", "verdict"},
           exec'.at \in {"preflight", "start", "tasks", "barrier", "collect"} => exec'.wave \in Waves,
           exec'.at \in {"barrier", "collect"} => task[exec'.wave] \in EndedTasks,
           exec'.at = "final" =>
               exec'.wave = NWaves + 1 /\ exec'.ver.result # "none" /\ Audited(exec.ver.input)'
    PROVE  RunInv'
  <1>1. Stable
    BY QuietStable
  <1>2. ClientInv'
    BY <1>1, ClientKept
  <1>3. FinalWritten <=> FinalWritten'
    BY DEF FinalWritten
  <1>4. ASSUME NEW w \in Waves PROVE WaveInv(w)'
    <2>1. WaveInv(w)
      BY DEF RunInv
    <2>2. Passed(w) => Passed(w)'
      BY <1>1 DEF Stable
    <2>3. QED
      BY <1>3, <2>1, <2>2 DEF WaveInv, Passes
  <1>5. ExecInv'
    <2>1. FinalWritten' => Audited(file[Final].input)'
      BY <1>3, Before DEF Audited
    <2>2. QED
      BY <2>1 DEF ExecInv
  <1>6. QED
    BY <1>2, <1>4, <1>5 DEF RunInv

LEMMA executeStep ==
    ASSUME RunInv, execute
    PROVE  RunInv'
  <1>1. /\ UNCHANGED <<run, wave, current, task, orphan, decision, ws, base, file, advance, cancelled,
                       cancelledTasks, client, cancel>>
        /\ exec.at = "execute"
    BY DEF execute, snapshotVars, diskVars, flagVars
  <1>2. PICK l \in {"stopped", "wave"} :
           exec' = [exec EXCEPT !.at = l, !.wave = 1] /\ (l = "stopped" <=> runTerminal(run))
    BY DEF execute
  <1>3. exec' \in ExecRecords /\ exec'.at = l /\ exec'.wave = 1 /\ exec'.to = exec.to
    BY <1>2, Before, WavesAreNumbers DEF ExecRecords, ExecPC
  <1>4. TypeOK'
    BY <1>1, <1>3, Before DEF TypeOK, ExecRecords
  <1>5. CancelInv'
    BY <1>1, CancelIdle
  <1>6. EndInv'
    <2>1. /\ EndInv /\ exec.to = "none" /\ run # "cancelled"
          /\ run = "degraded" => LeftBehind'
      BY <1>1, Before, LeftBehindKept DEF EndInv
    <2>2. run = "completed" => FinalWritten' /\ NothingPending'
      BY <1>1, Before DEF FinalWritten, NothingPending, Passed
    <2>3. l = "stopped" => run \in {"completed", "failed", "degraded"}
      BY <1>2, <2>1 DEF runTerminal
    <2>4. QED
      BY <1>1, <1>2, <1>3, <2>1, <2>2, <2>3 DEF EndInv, runTerminal
  <1>7. \A w \in Waves : ~(1 > w)
    BY DEF Waves
  <1>8. QED
    BY <1>1, <1>3, <1>4, <1>5, <1>6, <1>7, QuietMove

LEMMA selectWaveStep ==
    ASSUME RunInv, selectWave
    PROVE  RunInv'
  <1>1. /\ UNCHANGED <<run, wave, task, orphan, decision, ws, base, file, advance, cancelled,
                       cancelledTasks, client, cancel>>
        /\ exec.at = "wave" /\ exec.wave \in Waves
    BY DEF selectWave, diskVars, flagVars
  <1>2. current' \in {current, exec.wave}
    BY DEF selectWave
  <1>3. \/ Finish("cancelled")
        \/ waveAlreadyVerified(exec.wave) /\ exec' = [exec EXCEPT !.wave = @ + 1]
        \/ ExecGoto("preflight")
    BY DEF selectWave
  <1>4. /\ exec' \in ExecRecords
        /\ \/ exec'.at = "expire" /\ exec'.wave = exec.wave /\ exec'.to = "cancelled"
           \/ /\ exec'.at = "wave" /\ exec'.wave = exec.wave + 1 /\ exec'.to = exec.to
              /\ waveAlreadyVerified(exec.wave)
           \/ exec'.at = "preflight" /\ exec'.wave = exec.wave /\ exec'.to = exec.to
    BY <1>1, <1>3, Before, ExecMoves, NoVerificationType DEF ExecPC, RunStatuses
  <1>5. TypeOK'
    BY <1>1, <1>2, <1>4, Before DEF TypeOK, ExecRecords
  <1>6. CancelInv'
    BY <1>1, CancelIdle
  <1>7. EndInv'
    <2>1. EndInv /\ (FinalWritten => FinalWritten')
      BY <1>1, Before DEF FinalWritten
    <2>2. QED
      BY <1>1, <1>4, <2>1 DEF EndInv, runTerminal
  <1>8. \A w \in Waves : exec'.wave > w => Passed(w)
    <2>1. waveAlreadyVerified(exec.wave) => Passed(exec.wave)
      BY <1>1, Before DEF waveAlreadyVerified, Passes
    <2>2. \A w \in Waves : exec.wave > w => Passed(w)
      BY DEF RunInv, WaveInv
    <2>3. exec.wave \in Nat /\ \A w \in Waves : w \in Nat
      BY <1>1, WavesAreNumbers
    <2>4. QED
      BY <1>4, <2>1, <2>2, <2>3
  <1>9. QED
    BY <1>1, <1>4, <1>5, <1>6, <1>7, <1>8, QuietMove

\* The steps from the preflight to the tasks.
LEMMA WaveStartsStep ==
    ASSUME RunInv, preflightWave \/ startWave
    PROVE  RunInv'
  <1>1. /\ UNCHANGED <<run, current, task, orphan, decision, ws, file, advance, cancelled,
                       cancelledTasks, client, cancel>>
        /\ exec.at \in {"preflight", "start"} /\ exec.wave \in Waves
    BY Before DEF preflightWave, startWave, snapshotVars, diskVars, flagVars, ExecInv
  <1>2. Finish("failed") \/ ExecGoto("start") \/ ExecGoto("tasks")
    BY DEF preflightWave, startWave
  <1>3. /\ exec' \in ExecRecords /\ exec'.wave = exec.wave
        /\ \/ exec'.at = "expire" /\ exec'.to = "failed"
           \/ exec'.at \in {"start", "tasks"} /\ exec'.to = exec.to
    BY <1>2, Before, ExecMoves, NoVerificationType DEF ExecPC, RunStatuses
  <1>4. base' \in [Waves -> SUBSET Changes]
    BY Before DEF preflightWave, startWave, diskVars, TypeOK
  <1>5. /\ wave' \in [Waves -> WaveRecords]
        /\ \A w \in Waves : /\ wave'[w].result = wave[w].result
                            /\ wave'[w].accepted = wave[w].accepted
                            /\ wave'[w].status \in {wave[w].status, "running"}
    <2>1. wave' = wave \/ setWaveStatus("running")
      BY DEF preflightWave, startWave, snapshotVars
    <2>2. current \in Waves /\ "running" \in WaveStatuses
      BY Before DEF TypeOK, WaveStatuses
    <2>3. QED
      BY <2>1, <2>2, Before, WaveStatusMoves
  <1>6. TypeOK'
    BY <1>1, <1>3, <1>4, <1>5, Before DEF TypeOK, ExecRecords, WaveRecords
  <1>7. CancelInv'
    BY <1>1, CancelIdle
  <1>8. EndInv'
    <2>1. EndInv /\ (FinalWritten => FinalWritten')
      BY <1>1, Before DEF FinalWritten
    <2>2. QED
      BY <1>1, <1>3, <2>1 DEF EndInv, runTerminal
  <1>9. \A w \in Waves : exec'.wave > w => Passed(w)
    BY <1>3 DEF RunInv, WaveInv
  <1>10. QED
    BY <1>1, <1>3, <1>5, <1>6, <1>7, <1>8, <1>9, QuietMove

\* From the end of the tasks into the barrier.
LEMMA BarrierStartsStep ==
    ASSUME RunInv, EndWave \/ BarrierBegins
    PROVE  RunInv'
  <1>1. /\ UNCHANGED <<current, task, orphan, decision, ws, base, file, advance, cancelled,
                       cancelledTasks, client, cancel>>
        /\ exec.at \in {"ended", "barrier"} /\ exec.wave \in Waves /\ task[exec.wave] \in EndedTasks
        /\ run' \in {run, "barrier"}
    BY Before DEF EndWave, BarrierBegins, snapshotVars, diskVars, flagVars, ExecInv, setRunStatus
  <1>2. Finish("cancelled") \/ ExecGoto("barrier") \/ ExecGoto("collect")
    BY DEF EndWave, BarrierBegins
  <1>3. /\ exec' \in ExecRecords /\ exec'.wave = exec.wave
        /\ \/ exec'.at = "expire" /\ exec'.to = "cancelled"
           \/ exec'.at \in {"barrier", "collect"} /\ exec'.to = exec.to
    BY <1>2, Before, ExecMoves, NoVerificationType DEF ExecPC, RunStatuses
  <1>4. /\ wave' \in [Waves -> WaveRecords]
        /\ \A w \in Waves : /\ wave'[w].result = wave[w].result
                            /\ wave'[w].accepted = wave[w].accepted
                            /\ wave'[w].status \in {wave[w].status, "barrier"}
    <2>1. wave' = wave \/ setWaveStatus("barrier")
      BY DEF EndWave, BarrierBegins, snapshotVars
    <2>2. current \in Waves /\ "barrier" \in WaveStatuses
      BY Before DEF TypeOK, WaveStatuses
    <2>3. QED
      BY <2>1, <2>2, Before, WaveStatusMoves
  <1>5. TypeOK'
    BY <1>1, <1>3, <1>4, Before DEF TypeOK, ExecRecords, WaveRecords, RunStatuses
  <1>6. CancelInv'
    <2>1. \A w \in Waves : Over(w) => Over(w)' /\ orphan'[w] = orphan[w]
      BY <1>1 DEF Over
    <2>2. \A w \in Waves : Seen(w) => Seen(w)'
      BY <1>1, <1>3 DEF Seen
    <2>3. QED
      BY <1>1, <2>1, <2>2, CancelGoesOn
  <1>7. EndInv'
    <2>1. EndInv /\ (FinalWritten => FinalWritten')
      BY <1>1, Before DEF FinalWritten
    <2>2. QED
      BY <1>1, <1>3, <2>1 DEF EndInv, runTerminal
  <1>8. \A w \in Waves : exec'.wave > w => Passed(w)
    BY <1>3 DEF RunInv, WaveInv
  <1>9. QED
    BY <1>1, <1>3, <1>4, <1>5, <1>6, <1>7, <1>8, QuietMove

\* The next wave begins only after one that passed, and a cancelled session never waits.
LEMMA SwitchResultStep ==
    ASSUME RunInv, SwitchResult
    PROVE  RunInv'
  <1>1. /\ UNCHANGED <<wave, current, task, orphan, decision, ws, base, file, advance, cancelled,
                       cancelledTasks, client, cancel>>
        /\ exec.at = "switch" /\ exec.wave \in Waves /\ exec.ver.result \in BarrierResults
    BY Before DEF SwitchResult, snapshotVars, diskVars, flagVars, ExecInv, ExecRecords, Verifications
  <1>2. \/ (Finish("cancelled") \/ Finish("failed")) /\ run' = run
        \/ exec.ver.result # "cancelled" /\ run' = "barrier" /\ exec' = Await
        \/ exec.ver.result = "passed" /\ run' = run /\ exec' = NextWave
    BY <1>1 DEF SwitchResult, setRunStatus, BarrierResults
  <1>3. /\ exec' \in ExecRecords
        /\ \/ /\ exec'.at = "expire" /\ exec'.wave = exec.wave /\ exec'.to \in {"cancelled", "failed"}
              /\ run' = run
           \/ /\ exec'.at = "await" /\ exec'.wave = exec.wave /\ exec'.to = exec.to
              /\ run' = "barrier" /\ exec.ver.result # "cancelled"
           \/ /\ exec'.at = "wave" /\ exec'.wave = exec.wave + 1 /\ exec'.to = exec.to
              /\ run' = run /\ exec.ver.result = "passed"
    BY <1>1, <1>2, Before, ExecMoves, NoVerificationType DEF ExecPC, RunStatuses
  <1>4. TypeOK'
    BY <1>1, <1>3, Before DEF TypeOK, ExecRecords, RunStatuses
  <1>5. CancelInv'
    <2>1. \A w \in Waves : Over(w) => Over(w)' /\ orphan'[w] = orphan[w]
      BY <1>1 DEF Over
    <2>2. Finish("cancelled") \/ exec.ver.result # "cancelled"
      BY <1>1 DEF SwitchResult
    <2>3. \A w \in Waves : Seen(w) => Seen(w)'
      BY <1>1, <1>3, <2>2 DEF Seen
    <2>4. QED
      BY <1>1, <2>1, <2>3, CancelGoesOn
  <1>6. EndInv'
    <2>1. EndInv /\ (FinalWritten => FinalWritten')
      BY <1>1, Before DEF FinalWritten
    <2>2. QED
      BY <1>1, <1>3, <2>1 DEF EndInv, runTerminal
  <1>7. \A w \in Waves : exec'.wave > w => Passed(w)
    <2>1. exec.ver.result = "passed" => Passed(exec.wave)
      BY <1>1, Before DEF ExecInv, Passes
    <2>2. \A w \in Waves : exec.wave > w => Passed(w)
      BY DEF RunInv, WaveInv
    <2>3. exec.wave \in Nat /\ \A w \in Waves : w \in Nat
      BY <1>1, WavesAreNumbers
    <2>4. QED
      BY <1>3, <2>1, <2>2, <2>3
  <1>8. QED
    BY <1>1, <1>3, <1>4, <1>5, <1>6, <1>7, QuietMove

\* The inputs of the final verification are the whole workspace.
LEMMA FinalCollectStep ==
    ASSUME RunInv, FinalCollect
    PROVE  RunInv'
  <1>1. /\ UNCHANGED <<run, wave, current, task, orphan, decision, ws, base, file, advance, cancelled,
                       cancelledTasks, client, cancel>>
        /\ exec.at = "wave" /\ exec.wave = NWaves + 1
    BY DEF FinalCollect, snapshotVars, diskVars, flagVars
  <1>2. PICK evidence \in BOOLEAN, a \in BOOLEAN :
           exec' = [exec EXCEPT !.at = "final", !.ver =
                      [Verification(collectFinalVerificationInputs(evidence)) EXCEPT !.accepted = a]]
    <2>1. file[Final].accepted \in BOOLEAN
      BY Before DEF TypeOK, Verifications
    <2>2. QED
      BY <2>1 DEF FinalCollect
  <1>3. PICK in \in InputSet : in = collectFinalVerificationInputs(evidence) /\ in.changes = ws
    BY Before, FinalInputType
  <1>4. PICK u \in Verifications : u = Verification(in) /\ u.result # "none" /\ u.input = in
    BY VerificationType, VerdictType DEF Verification, BarrierResults
  <1>5. PICK v \in Verifications :
           v = [u EXCEPT !.accepted = a] /\ v.result # "none" /\ v.input = in
    <2>1. PICK v : v = [u EXCEPT !.accepted = a]
      OBVIOUS
    <2>2. v \in Verifications /\ v.result = u.result /\ v.input = u.input
      BY <2>1 DEF Verifications
    <2>3. QED
      BY <1>4, <2>1, <2>2
  <1>6. exec' = [exec EXCEPT !.at = "final", !.ver = v]
    BY <1>2, <1>3, <1>4, <1>5
  <1>7. /\ exec' \in ExecRecords /\ exec'.at = "final" /\ exec'.wave = exec.wave
        /\ exec'.ver = v /\ exec'.to = exec.to
    BY <1>6, Before, ExecMoves DEF ExecPC, RunStatuses
  <1>8. TypeOK'
    BY <1>1, <1>7, Before DEF TypeOK, ExecRecords
  <1>9. CancelInv'
    BY <1>1, CancelIdle
  <1>10. EndInv'
    <2>1. EndInv /\ (FinalWritten => FinalWritten')
      BY <1>1, Before DEF FinalWritten
    <2>2. QED
      BY <1>1, <1>7, <2>1 DEF EndInv
  <1>11. Audited(exec.ver.input)'
    BY <1>1, <1>3, <1>5, <1>7 DEF Audited
  <1>12. \A w \in Waves : exec'.wave > w => Passed(w)
    BY <1>7 DEF RunInv, WaveInv
  <1>13. QED
    BY <1>1, <1>5, <1>7, <1>8, <1>9, <1>10, <1>11, <1>12, QuietMove

LEMMA FinalVerdictStep ==
    ASSUME RunInv, FinalVerdict
    PROVE  RunInv'
  <1>1. /\ UNCHANGED <<wave, current, task, orphan, decision, ws, base, file, advance, cancelled,
                       cancelledTasks, client, cancel>>
        /\ exec.at = "verdict" /\ FinalWritten
    BY Before DEF FinalVerdict, snapshotVars, diskVars, flagVars, ExecInv
  <1>2. \/ (\E s \in {"failed", "completed", "degraded"} : Finish(s)) /\ run' = run
        \/ run' = "barrier" /\ exec' = Await
    BY DEF FinalVerdict, setRunStatus
  <1>3. /\ exec' \in ExecRecords /\ exec'.wave = exec.wave
        /\ \/ exec'.at = "expire" /\ runTerminal(exec'.to) /\ run' = run
           \/ exec'.at = "await" /\ exec'.to = exec.to /\ run' = "barrier"
    BY <1>2, Before, ExecMoves, NoVerificationType DEF ExecPC, RunStatuses, runTerminal
  <1>4. TypeOK'
    BY <1>1, <1>3, Before DEF TypeOK, ExecRecords, RunStatuses
  <1>5. CancelInv'
    BY <1>1, CancelIdle
  <1>6. EndInv'
    <2>1. EndInv /\ FinalWritten'
      BY <1>1, Before DEF FinalWritten
    <2>2. QED
      BY <1>1, <1>3, <2>1 DEF EndInv, runTerminal
  <1>7. \A w \in Waves : exec'.wave > w => Passed(w)
    BY <1>3 DEF RunInv, WaveInv
  <1>8. QED
    BY <1>1, <1>3, <1>4, <1>5, <1>6, <1>7, QuietMove

\* The end of finishRun, and the wake-up of Start.
LEMMA FinishOrWakeStep ==
    ASSUME RunInv, FinishRun \/ Awake
    PROVE  RunInv'
  <1>1. /\ UNCHANGED <<wave, current, task, orphan, decision, ws, base, file, cancelled,
                       cancelledTasks, client, cancel>>
        /\ advance' \in BOOLEAN
        /\ \/ exec.at = "finish" /\ run' = exec.to /\ ExecGoto("stopped")
           \/ exec.at = "await" /\ run' = run /\ ExecGoto("execute")
    BY Before DEF FinishRun, Awake, snapshotVars, diskVars, flagVars, setRunStatus, TypeOK
  <1>2. /\ exec' \in ExecRecords /\ exec'.wave = exec.wave /\ exec'.to = exec.to
        /\ \/ exec.at = "finish" /\ run' = exec.to /\ exec'.at = "stopped"
           \/ exec.at = "await" /\ run' = run /\ exec'.at = "execute"
    BY <1>1, Before, ExecMoves, NoVerificationType DEF ExecPC, RunStatuses
  <1>3. exec.at = "finish" => runTerminal(exec.to) /\ NothingPending
    BY Before DEF EndInv
  <1>4. run' \in RunStatuses
    BY <1>1, <1>3, Before DEF TypeOK, runTerminal, RunStatuses
  <1>5. TypeOK'
    BY <1>1, <1>2, <1>4, Before DEF TypeOK, ExecRecords
  <1>6. CancelInv'
    <2>1. \A w \in Waves : Over(w) => Over(w)' /\ orphan'[w] = orphan[w]
      BY <1>1 DEF Over
    <2>2. \A w \in Waves : Seen(w) => Seen(w)'
      BY <1>1, <1>2 DEF Seen
    <2>3. QED
      BY <1>1, <2>1, <2>2, CancelGoesOn
  <1>7. EndInv'
    <2>1. EndInv /\ (FinalWritten => FinalWritten') /\ (NothingPending => NothingPending')
      BY <1>1, Before DEF FinalWritten, NothingPending
    <2>2. exec.at = "await" /\ run = "degraded" => LeftBehind'
      BY <1>1, <1>2, <2>1, LeftBehindKept DEF EndInv
    <2>3. QED
      BY <1>1, <1>2, <1>3, <2>1, <2>2 DEF EndInv, runTerminal
  <1>8. \A w \in Waves : exec'.wave > w => Passed(w)
    BY <1>2 DEF RunInv, WaveInv
  <1>9. QED
    BY <1>1, <1>2, <1>5, <1>6, <1>7, <1>8, QuietMove

\* A step of the wave at hand: it may end a task, judge the wave or write a verification.
LEMMA ActiveMove ==
    ASSUME RunInv, TypeOK', ExecInv', EndInv', CancelInv', Stable, client' = client,
           exec'.wave = exec.wave,
           FinalWritten' => \A w \in Waves : Passed(w),
           \A w \in Waves : Passes(wave'[w]) \/ wave'[w].status = "verified"
                            \/ wave'[w].accepted = TRUE => Passed(w) \/ Passed(w)',
           \A w \in Waves : task'[w] = "planned" => orphan'[w] = FALSE,
           \A w \in Waves : task'[w] = "running" =>
                               exec'.at \in {"session", "cancelling", "result"} /\ exec'.wave = w
    PROVE  RunInv'
  <1>1. ClientInv'
    BY ClientKept
  <1>2. ASSUME NEW w \in Waves PROVE WaveInv(w)'
    <2>1. exec.wave > w => Passed(w)
      BY DEF RunInv, WaveInv
    <2>2. Passed(w) => Passed(w)'
      BY DEF Stable
    <2>3. QED
      BY <2>1, <2>2 DEF WaveInv
  <1>3. QED
    BY <1>1, <1>2 DEF RunInv

\* The tasks that run, as WaveInv tells them.
LEMMA RunningTask ==
    ASSUME RunInv, NEW w \in Waves, task[w] = "running"
    PROVE  exec.at \in {"session", "cancelling", "result"} /\ exec.wave = w
  BY DEF RunInv, WaveInv

LEMMA executeWaveStep ==
    ASSUME RunInv, executeWave
    PROVE  RunInv'
  <1>1. /\ UNCHANGED <<wave, current, orphan, decision, ws, base, file, advance, cancelled,
                       cancelledTasks, client, cancel>>
        /\ exec.at = "tasks" /\ exec.wave \in Waves
    BY Before DEF executeWave, diskVars, flagVars, ExecInv
  <1>2. /\ task \in [Waves -> EndedTasks \cup {"planned", "running"}] /\ orphan \in [Waves -> BOOLEAN]
        /\ \A w \in Waves : task[w] # "running"
    BY <1>1, Before, RunningTask DEF TypeOK
  <1>3. \/ /\ Settled(exec.wave) /\ ExecGoto("ended") /\ run' = run /\ task' = task
        \/ /\ ~Settled(exec.wave) /\ ExecGoto("session") /\ run' = "running"
           /\ task' = [task EXCEPT ![exec.wave] = "running"]
    BY DEF executeWave, setRunStatus
  <1>4. /\ exec' \in ExecRecords /\ exec'.wave = exec.wave /\ exec'.to = exec.to
        /\ \/ /\ Settled(exec.wave) /\ exec'.at = "ended" /\ run' = run /\ task' = task
           \/ /\ ~Settled(exec.wave) /\ exec'.at = "session" /\ run' = "running"
              /\ task' = [task EXCEPT ![exec.wave] = "running"]
    BY <1>3, Before, ExecMoves, NoVerificationType DEF ExecPC, RunStatuses
  <1>5. /\ Settled(exec.wave) => task[exec.wave] \in EndedTasks
        /\ ~Settled(exec.wave) => task[exec.wave] = "planned"
    <2>1. task[exec.wave] \in EndedTasks \/ (task[exec.wave] = "planned" /\ orphan[exec.wave] = FALSE)
      BY <1>1, <1>2, Before
    <2>2. QED
      BY <1>1, <1>2, <2>1 DEF Settled, EndedTasks
  <1>6. TypeOK'
    BY <1>1, <1>2, <1>4, Before DEF TypeOK, ExecRecords, RunStatuses
  <1>7. FinalWritten <=> FinalWritten'
    BY <1>1 DEF FinalWritten
  <1>8. Stable
    <2>1. \A w \in Waves : task'[w] = task[w] \/ task[w] \notin Verified
      BY <1>1, <1>2, <1>4, <1>5 DEF Verified
    <2>2. QED
      BY <1>1, <1>7, <2>1, StableKept
  <1>9. CancelInv'
    <2>1. \A w \in Waves : task'[w] = task[w] \/ (task'[w] # "planned" /\ task[w] \notin EndedTasks)
      BY <1>1, <1>2, <1>4, <1>5 DEF EndedTasks
    <2>2. QED
      BY <1>1, <2>1, CancelIdle
  <1>10. EndInv'
    <2>1. EndInv
      BY Before
    <2>2. QED
      BY <1>1, <1>4, <1>7, <2>1 DEF EndInv
  <1>11. ExecInv'
    <2>1. FinalWritten' => Audited(file[Final].input)'
      BY <1>1, <1>7, Before DEF Audited
    <2>2. exec'.at = "session" => task'[exec'.wave] = "running"
      BY <1>1, <1>2, <1>4
    <2>3. exec'.at = "ended" => task'[exec'.wave] \in EndedTasks
      BY <1>4, <1>5
    <2>4. QED
      BY <1>1, <1>4, <2>1, <2>2, <2>3 DEF ExecInv
  <1>12. \A w \in Waves : task'[w] = "planned" => orphan'[w] = FALSE
    BY <1>1, <1>2, <1>4, Before
  <1>13. \A w \in Waves : task'[w] = "running" =>
                             exec'.at \in {"session", "cancelling", "result"} /\ exec'.wave = w
    BY <1>1, <1>2, <1>4
  <1>14. QED
    BY <1>1, <1>4, <1>6, <1>7, <1>8, <1>9, <1>10, <1>11, <1>12, <1>13, Before, ActiveMove

LEMMA SessionEndsStep ==
    ASSUME RunInv, SessionEnds
    PROVE  RunInv'
  <1>1. /\ UNCHANGED <<wave, current, task, decision, ws, base, file, advance, cancelled,
                       cancelledTasks, client, cancel>>
        /\ exec.at = "session" /\ (run' = run \/ run' = "degraded")
    BY DEF SessionEnds, diskVars, flagVars, setRunStatus
  <1>2. exec.wave \in Waves /\ task[exec.wave] = "running"
    BY <1>1, Before DEF ExecInv
  <1>3. PICK lingers \in BOOLEAN : orphan' = [orphan EXCEPT ![exec.wave] = lingers]
    <2>1. {FALSE, exec.wave \in Lingering} \subseteq BOOLEAN
      OBVIOUS
    <2>2. \E lingers \in {FALSE, exec.wave \in Lingering} : orphan' = [orphan EXCEPT ![exec.wave] = lingers]
      BY Zenon DEF SessionEnds
    <2>3. QED
      BY <2>1, <2>2, Zenon
  <1>4. /\ orphan' \in [Waves -> BOOLEAN] /\ \A w \in Waves \ {exec.wave} : orphan'[w] = orphan[w]
    BY <1>3, Before DEF TypeOK
  <1>5. /\ exec' \in ExecRecords /\ exec'.wave = exec.wave /\ exec'.to = exec.to
        /\ exec'.at \in {"cancelling", "result"}
        /\ cancelled = TRUE \/ exec.wave \in cancelledTasks => exec'.at = "cancelling"
    <2>1. PICK l \in {"cancelling", "result"} :
             /\ ExecGoto(l)
             /\ cancelled = TRUE \/ exec.wave \in cancelledTasks => l = "cancelling"
      BY DEF SessionEnds
    <2>2. /\ exec' \in ExecRecords /\ exec'.wave = exec.wave /\ exec'.to = exec.to
          /\ exec'.at = l
      <3>1. l \in ExecPC /\ "failed" \in RunStatuses
        BY DEF ExecPC, RunStatuses
      <3>2. ExecGoto(l) /\ exec \in ExecRecords
        BY <2>1, Before
      <3>3. QED
        BY <3>1, <3>2, ExecMoves, NoVerificationType
    <2>3. QED
      BY <2>1, <2>2
  <1>6. TypeOK'
    BY <1>1, <1>4, <1>5, Before DEF TypeOK, ExecRecords, RunStatuses
  <1>7. FinalWritten <=> FinalWritten'
    BY <1>1 DEF FinalWritten
  <1>8. task[exec.wave] \notin Verified /\ ~Passed(exec.wave) /\ ~FinalWritten
    BY <1>2, Before DEF Verified, Passed
  <1>9. Stable
    BY <1>1, <1>2, <1>7, <1>8, StableKept
  <1>10. CancelInv'
    <2>1. \A w \in Waves : Over(w) => Over(w)' /\ orphan'[w] = orphan[w]
      BY <1>1, <1>2, <1>4 DEF Over, EndedTasks
    <2>2. \A w \in Waves : (cancelled = TRUE \/ w \in cancelledTasks) /\ Seen(w) => Seen(w)'
      BY <1>1, <1>5 DEF Seen
    <2>3. QED
      BY <1>1, <2>1, <2>2, CancelGoesOn
  <1>11. EndInv'
    <2>1. EndInv
      BY Before
    <2>2. QED
      BY <1>1, <1>5, <1>7, <2>1 DEF EndInv
  <1>12. ExecInv'
    BY <1>1, <1>2, <1>5, <1>7, <1>8 DEF ExecInv
  <1>13. \A w \in Waves : task'[w] = "planned" => orphan'[w] = FALSE
    BY <1>1, <1>2, <1>4, Before
  <1>14. \A w \in Waves : task'[w] = "running" =>
                             exec'.at \in {"session", "cancelling", "result"} /\ exec'.wave = w
    BY <1>1, <1>5, RunningTask
  <1>15. QED
    BY <1>1, <1>5, <1>6, <1>7, <1>8, <1>9, <1>10, <1>11, <1>12, <1>13, <1>14, Before, ActiveMove

\* A cancelled session leaves a cancelled task behind, which no barrier lets pass.
LEMMA TaskEndsStep ==
    ASSUME RunInv, cancelTask \/ TaskEnds
    PROVE  RunInv'
  <1>1. /\ UNCHANGED <<run, wave, current, orphan, ws, base, file, advance, cancelled,
                       cancelledTasks, client, cancel>>
        /\ exec.at \in {"cancelling", "result"}
    BY DEF cancelTask, TaskEnds, diskVars, flagVars
  <1>2. exec.wave \in Waves /\ task[exec.wave] = "running"
    BY <1>1, Before DEF ExecInv
  <1>3. PICK status \in Reports[exec.wave] \cup {"cancelled"}, failed \in BOOLEAN :
           /\ exec.at = "cancelling" => status = "cancelled"
           /\ failed => status \in {"failed", "verification_failed"}
           /\ task' = [task EXCEPT ![exec.wave] = status]
           /\ IF failed THEN Finish("failed") ELSE ExecGoto("ended")
    <2>1. CASE cancelTask
      BY <2>1 DEF cancelTask
    <2>2. CASE TaskEnds
      BY <2>2 DEF TaskEnds
    <2>3. QED
      BY <2>1, <2>2
  <1>4. status \in EndedTasks
    BY <1>2, <1>3, RunAssumption DEF EndedTasks, Waves
  <1>5. /\ exec' \in ExecRecords /\ exec'.wave = exec.wave
        /\ \/ exec'.at = "expire" /\ exec'.to = "failed" /\ status \in {"failed", "verification_failed"}
           \/ exec'.at = "ended" /\ exec'.to = exec.to
    BY <1>3, Before, ExecMoves, NoVerificationType DEF ExecPC, RunStatuses
  <1>6. /\ task' \in [Waves -> EndedTasks \cup {"planned", "running"}] /\ task'[exec.wave] = status
        /\ \A w \in Waves \ {exec.wave} : task'[w] = task[w]
    BY <1>2, <1>3, <1>4, Before DEF TypeOK
  <1>7. /\ decision' \in [Waves -> {"none", "pending", "closed"}]
        /\ \A w \in Waves : decision'[w] = "pending" => decision[w] = "pending"
    <2>1. decision \in [Waves -> {"none", "pending", "closed"}]
      BY Before DEF TypeOK
    <2>2. \/ decision' = decision
          \/ decision' = [decision EXCEPT ![exec.wave] = IF @ = "pending" THEN "closed" ELSE @]
      BY DEF cancelTask, TaskEnds, expireTask
    <2>3. QED
      BY <1>2, <2>1, <2>2
  <1>8. TypeOK'
    BY <1>1, <1>5, <1>6, <1>7, Before DEF TypeOK, ExecRecords
  <1>9. FinalWritten <=> FinalWritten'
    BY <1>1 DEF FinalWritten
  <1>10. task[exec.wave] \notin Verified /\ ~Passed(exec.wave) /\ ~FinalWritten
    BY <1>2, Before DEF Verified, Passed
  <1>11. Stable
    BY <1>1, <1>2, <1>6, <1>7, <1>9, <1>10, StableKept
  <1>12. CancelInv'
    <2>1. \A w \in Waves : Over(w) => Over(w)' /\ orphan'[w] = orphan[w]
      BY <1>1, <1>4, <1>6 DEF Over
    <2>2. \A w \in Waves : Seen(w) => Seen(w)'
      BY <1>1, <1>3, <1>5, <1>6 DEF Seen
    <2>3. \A w \in Waves : task[w] # "planned" => task'[w] # "planned"
      BY <1>4, <1>6 DEF EndedTasks
    <2>4. QED
      BY <1>1, <2>1, <2>2, <2>3, CancelGoesOn
  <1>13. EndInv'
    <2>1. EndInv
      BY Before
    <2>2. QED
      BY <1>1, <1>5, <1>9, <2>1 DEF EndInv, runTerminal
  <1>14. ExecInv'
    BY <1>1, <1>2, <1>4, <1>5, <1>6, <1>9, <1>10 DEF ExecInv
  <1>15. \A w \in Waves : task'[w] = "planned" => orphan'[w] = FALSE
    BY <1>1, <1>2, <1>4, <1>6, Before DEF EndedTasks
  <1>16. \A w \in Waves : task'[w] # "running"
    BY <1>2, <1>4, <1>6, RunningTask DEF EndedTasks
  <1>17. QED
    BY <1>1, <1>5, <1>8, <1>9, <1>10, <1>11, <1>12, <1>13, <1>14, <1>15, <1>16, Before, ActiveMove

\* A barrier passes only tasks that are verified and wait for no decision.
LEMMA BarrierCollectStep ==
    ASSUME RunInv, BarrierCollect
    PROVE  RunInv'
  <1>1. /\ UNCHANGED <<run, wave, current, task, orphan, decision, ws, base, advance, cancelled,
                       cancelledTasks, client, cancel>>
        /\ exec.at = "collect" /\ exec.wave \in Waves /\ task[exec.wave] \in EndedTasks
    BY Before DEF BarrierCollect, snapshotVars, flagVars, ExecInv
  <1>2. PICK evidence \in BOOLEAN : \E v :
           /\ v = Verification(collectBarrierInputs(exec.wave, evidence))
           /\ file' = [file EXCEPT ![exec.wave] = v]
           /\ exec' = [exec EXCEPT !.at = "record", !.ver = v]
    BY DEF BarrierCollect
  <1> PICK v :
           /\ v = Verification(collectBarrierInputs(exec.wave, evidence))
           /\ file' = [file EXCEPT ![exec.wave] = v]
           /\ exec' = [exec EXCEPT !.at = "record", !.ver = v]
    BY <1>2
  <1>3. PICK in \in InputSet :
           /\ in = collectBarrierInputs(exec.wave, evidence) /\ in.task = task[exec.wave]
           /\ in.pending = (decision[exec.wave] = "pending")
    BY <1>1, Before, CollectType
  <1>4. /\ v \in Verifications /\ v.result = EvaluateBarrier(in) /\ v.result # "none"
    <2>1. v = Verification(in) /\ v.result = EvaluateBarrier(in)
      BY <1>2, <1>3 DEF Verification
    <2>2. QED
      BY <2>1, VerificationType, VerdictType DEF BarrierResults
  <1>5. /\ exec' \in ExecRecords /\ exec'.at = "record" /\ exec'.wave = exec.wave
        /\ exec'.ver = v /\ exec'.to = exec.to
    BY <1>2, <1>4, Before, ExecMoves DEF ExecPC, RunStatuses
  <1>6. /\ file' \in [Waves \cup {Final} -> Verifications] /\ file'[Final] = file[Final]
    BY <1>1, <1>2, <1>4, Before, WavesAreNumbers DEF TypeOK
  <1>7. TypeOK'
    BY <1>1, <1>5, <1>6, Before DEF TypeOK, ExecRecords
  <1>8. FinalWritten <=> FinalWritten'
    BY <1>6 DEF FinalWritten
  <1>9. Stable
    BY <1>1, <1>8, StableKept
  <1>10. CancelInv'
    <2>1. \A w \in Waves : Over(w) => Over(w)' /\ orphan'[w] = orphan[w]
      BY <1>1 DEF Over
    <2>2. task[exec.wave] = "cancelled" => v.result = "cancelled"
      BY <1>3, <1>4, VerdictCancelled
    <2>3. \A w \in Waves : Seen(w) => Seen(w)'
      BY <1>1, <1>5, <2>2 DEF Seen
    <2>4. QED
      BY <1>1, <2>1, <2>3, CancelGoesOn
  <1>11. EndInv'
    <2>1. EndInv
      BY Before
    <2>2. QED
      BY <1>1, <1>5, <1>8, <2>1 DEF EndInv
  <1>12. ExecInv'
    <2>1. FinalWritten' => Audited(file[Final].input)'
      BY <1>1, <1>6, <1>8, Before DEF Audited
    <2>2. Passes(v) => task[exec.wave] \in Verified /\ decision[exec.wave] # "pending"
      BY <1>1, <1>3, <1>4, VerdictPasses DEF Passes
    <2>3. Passes(exec.ver)' => Passes(v)
      BY <1>5 DEF Passes
    <2>4. QED
      BY <1>1, <1>4, <1>5, <2>1, <2>2, <2>3 DEF ExecInv
  <1>13. \A w \in Waves : task'[w] # "running"
    BY <1>1, RunningTask
  <1>14. QED
    BY <1>1, <1>5, <1>7, <1>8, <1>9, <1>10, <1>11, <1>12, <1>13, Before, ActiveMove

LEMMA BarrierRecordStep ==
    ASSUME RunInv, BarrierRecord
    PROVE  RunInv'
  <1>1. /\ UNCHANGED <<run, task, orphan, decision, ws, base, file, advance, cancelled,
                       cancelledTasks, client, cancel>>
        /\ exec.at = "record" /\ exec.wave \in Waves /\ task[exec.wave] \in EndedTasks
        /\ exec.ver.result \in BarrierResults /\ exec.ver.result # "none"
        /\ Passes(exec.ver) => task[exec.wave] \in Verified /\ decision[exec.wave] # "pending"
        /\ current' = exec.wave /\ ExecGoto("switch")
    BY Before DEF BarrierRecord, diskVars, flagVars, ExecInv, ExecRecords, Verifications
  <1>2. PICK s \in WaveStatuses :
           /\ s = WaveStatusAfter(exec.ver.result)
           /\ s = "verified" => exec.ver.result = "passed"
    BY <1>1 DEF WaveStatusAfter, BarrierResults, WaveStatuses
  <1>3. wave' = [wave EXCEPT ![exec.wave].result = exec.ver.result, ![exec.wave].status = s]
    BY <1>2 DEF BarrierRecord
  <1>4. /\ wave' \in [Waves -> WaveRecords]
        /\ wave'[exec.wave].result = exec.ver.result /\ wave'[exec.wave].status = s
        /\ wave'[exec.wave].accepted = wave[exec.wave].accepted
        /\ \A w \in Waves \ {exec.wave} : wave'[w] = wave[w]
    <2>1. TRUE \in BOOLEAN /\ wave \in [Waves -> WaveRecords]
      BY Before
    <2>2. QED
      BY <1>1, <1>3, <2>1, WaveMoves
  <1>5. /\ exec' \in ExecRecords /\ exec'.at = "switch" /\ exec'.wave = exec.wave
        /\ exec'.ver = exec.ver /\ exec'.to = exec.to
    BY <1>1, Before, ExecMoves, NoVerificationType DEF ExecPC, RunStatuses
  <1>6. TypeOK'
    BY <1>1, <1>4, <1>5, Before DEF TypeOK, ExecRecords, WaveRecords
  <1>7. FinalWritten <=> FinalWritten'
    BY <1>1 DEF FinalWritten
  <1>8. Stable
    BY <1>1, <1>4, <1>7, StableKept
  <1>9. Passes(exec.ver) => Passed(exec.wave)'
    BY <1>1, <1>4, <1>5 DEF Passed
  <1>10. CancelInv'
    <2>1. \A w \in Waves : Over(w) => Over(w)' /\ orphan'[w] = orphan[w]
      BY <1>1 DEF Over
    <2>2. \A w \in Waves : Seen(w) => Seen(w)'
      BY <1>1, <1>5 DEF Seen
    <2>3. QED
      BY <1>1, <2>1, <2>2, CancelGoesOn
  <1>11. EndInv'
    <2>1. EndInv
      BY Before
    <2>2. QED
      BY <1>1, <1>5, <1>7, <2>1 DEF EndInv
  <1>12. ExecInv'
    <2>1. FinalWritten' => Audited(file[Final].input)'
      BY <1>1, <1>7, Before DEF Audited
    <2>2. Passes(exec.ver)' => Passed(exec.wave)'
      BY <1>5, <1>9 DEF Passes
    <2>3. QED
      BY <1>1, <1>5, <2>1, <2>2 DEF ExecInv
  <1>13. \A w \in Waves : Passes(wave'[w]) \/ wave'[w].status = "verified"
                          \/ wave'[w].accepted = TRUE => Passed(w) \/ Passed(w)'
    <2>1. Passed(exec.wave)' => task'[exec.wave] \in Verified /\ wave'[exec.wave].result # "none"
                                /\ decision'[exec.wave] # "pending"
      BY <1>5 DEF Passed
    <2>2. ASSUME NEW w \in Waves, w = exec.wave
          PROVE  Passes(wave'[w]) \/ wave'[w].status = "verified"
                 \/ wave'[w].accepted = TRUE => Passed(w) \/ Passed(w)'
      <3>1. Passes(wave'[w]) \/ wave'[w].status = "verified" => Passes(exec.ver)
        BY <1>2, <1>4, <2>2 DEF Passes
      <3>2. Passes(exec.ver) => Passed(w)'
        BY <1>9, <2>1, <2>2 DEF Passed
      <3>3. wave'[w].accepted = TRUE => Passed(w)
        BY <1>4, <2>2, Before
      <3>4. QED
        BY <3>1, <3>2, <3>3
    <2>3. QED
      BY <1>4, <2>2, Before
  <1>14. \A w \in Waves : task'[w] # "running"
    BY <1>1, RunningTask
  <1>15. QED
    BY <1>1, <1>5, <1>6, <1>7, <1>8, <1>10, <1>11, <1>12, <1>13, <1>14, Before, ActiveMove

LEMMA FinalWriteStep ==
    ASSUME RunInv, FinalWrite
    PROVE  RunInv'
  <1>1. /\ UNCHANGED <<run, wave, current, task, orphan, decision, ws, base, advance, cancelled,
                       cancelledTasks, client, cancel>>
        /\ exec.at = "final" /\ exec.wave = NWaves + 1 /\ exec.ver.result # "none"
        /\ Audited(exec.ver.input) /\ exec.ver \in Verifications
        /\ file' = [file EXCEPT ![Final] = exec.ver] /\ ExecGoto("verdict")
    BY Before DEF FinalWrite, snapshotVars, flagVars, ExecInv, ExecRecords
  <1>2. /\ exec' \in ExecRecords /\ exec'.at = "verdict" /\ exec'.wave = exec.wave
        /\ exec'.ver = exec.ver /\ exec'.to = exec.to
    BY <1>1, Before, ExecMoves DEF ExecPC, RunStatuses
  <1>3. file' \in [Waves \cup {Final} -> Verifications] /\ file'[Final] = exec.ver
    BY <1>1, Before DEF TypeOK
  <1>4. TypeOK'
    BY <1>1, <1>2, <1>3, Before DEF TypeOK, ExecRecords
  <1>5. FinalWritten'
    BY <1>1, <1>3 DEF FinalWritten
  <1>6. Stable
    BY <1>1, <1>5, StableKept
  <1>7. CancelInv'
    BY <1>1, CancelIdle
  <1>8. EndInv'
    <2>1. EndInv
      BY Before
    <2>2. QED
      BY <1>1, <1>2, <1>5, <2>1 DEF EndInv
  <1>9. ExecInv'
    <2>1. Audited(exec.ver.input)' /\ Audited(file[Final].input)'
      BY <1>1, <1>2, <1>3 DEF Audited
    <2>2. QED
      BY <1>1, <1>2, <1>5, <2>1 DEF ExecInv
  <1>10. \A w \in Waves : Passed(w) /\ task'[w] # "running"
    <2>1. \A w \in Waves : exec.wave > w
      BY <1>1, WavesAreNumbers
    <2>2. QED
      BY <1>1, <2>1, RunningTask DEF RunInv, WaveInv
  <1>11. QED
    BY <1>1, <1>2, <1>4, <1>5, <1>6, <1>7, <1>8, <1>9, <1>10, Before, ActiveMove

LEMMA FinishExpiresStep ==
    ASSUME RunInv, FinishExpires
    PROVE  RunInv'
  <1>1. /\ UNCHANGED <<run, current, task, orphan, ws, base, file, advance, cancelled,
                       cancelledTasks, client, cancel>>
        /\ exec.at = "expire" /\ expireAll /\ ExecGoto("finish")
    BY DEF FinishExpires, diskVars, flagVars
  <1>2. /\ decision' \in [Waves -> {"none", "pending", "closed"}]
        /\ \A w \in Waves : decision'[w] # "pending"
    BY <1>1, Before, ExpireAll DEF TypeOK
  <1>3. /\ wave' \in [Waves -> WaveRecords]
        /\ \A w \in Waves : /\ wave'[w].result = wave[w].result
                            /\ wave'[w].accepted = wave[w].accepted
                            /\ wave'[w].status = "verified" => wave[w].status = "verified"
    <2>1. wave' = wave \/ \E s \in {"failed", "cancelled"} : setWaveStatus(s)
      BY DEF FinishExpires
    <2>2. current \in Waves /\ {"failed", "cancelled"} \subseteq WaveStatuses
      BY Before DEF TypeOK, WaveStatuses
    <2>3. QED
      BY <2>1, <2>2, Before, WaveStatusMoves
  <1>4. /\ exec' \in ExecRecords /\ exec'.at = "finish" /\ exec'.wave = exec.wave
        /\ exec'.to = exec.to
    BY <1>1, Before, ExecMoves, NoVerificationType DEF ExecPC, RunStatuses
  <1>5. TypeOK'
    BY <1>1, <1>2, <1>3, <1>4, Before DEF TypeOK, ExecRecords, WaveRecords
  <1>6. FinalWritten <=> FinalWritten'
    BY <1>1 DEF FinalWritten
  <1>7. Stable
    BY <1>1, <1>2, <1>3, <1>6, StableKept
  <1>8. CancelInv'
    <2>1. \A w \in Waves : Over(w) => Over(w)' /\ orphan'[w] = orphan[w]
      BY <1>1 DEF Over
    <2>2. \A w \in Waves : Seen(w) => Seen(w)'
      BY <1>1, <1>4 DEF Seen
    <2>3. QED
      BY <1>1, <2>1, <2>2, CancelGoesOn
  <1>9. EndInv'
    <2>1. EndInv /\ NothingPending'
      BY <1>2, Before DEF NothingPending
    <2>2. QED
      BY <1>1, <1>4, <1>6, <2>1 DEF EndInv
  <1>10. ExecInv'
    <2>1. FinalWritten' => Audited(file[Final].input)'
      BY <1>1, <1>6, Before DEF Audited
    <2>2. QED
      BY <1>4, <2>1 DEF ExecInv
  <1>11. \A w \in Waves : task'[w] # "running"
    BY <1>1, RunningTask
  <1>12. \A w \in Waves : Passes(wave'[w]) \/ wave'[w].status = "verified"
                          \/ wave'[w].accepted = TRUE => Passed(w)
    BY <1>3, Before DEF Passes
  <1>13. QED
    BY <1>1, <1>4, <1>5, <1>6, <1>7, <1>8, <1>9, <1>10, <1>11, <1>12, Before, ActiveMove

-----------------------------------------------------------------------------
(* The theorems. *)

LEMMA InitInv ==
    ASSUME Init
    PROVE  RunInv
  <1>1. TypeOK
    <2>1. /\ exec \in ExecRecords /\ client \in ClientRecords /\ cancel \in CancelRecords
      BY NoVerificationType, WavesAreNumbers, RunAssumption
      DEF Init, ExecRecords, ClientRecords, CancelRecords, ExecPC, ClientPC, Calls, CancelPC
    <2>2. wave \in [Waves -> WaveRecords]
      BY DEF Init, WaveRecords, WaveStatuses
    <2>3. run \in RunStatuses /\ current \in Waves
      BY WavesAreNumbers DEF Init, RunStatuses
    <2>4. file \in [Waves \cup {Final} -> Verifications]
      BY NoVerificationType DEF Init
    <2>5. /\ task \in [Waves -> EndedTasks \cup {"planned", "running"}]
          /\ decision \in [Waves -> {"none", "pending", "closed"}]
          /\ orphan \in [Waves -> BOOLEAN] /\ base \in [Waves -> SUBSET Changes]
          /\ ws \subseteq Changes
      BY DEF Init
    <2>6. advance \in BOOLEAN /\ cancelled \in BOOLEAN /\ cancelledTasks \subseteq Waves
      BY DEF Init
    <2>7. QED
      BY <2>1, <2>2, <2>3, <2>4, <2>5, <2>6
      DEF TypeOK, ExecRecords, ClientRecords, CancelRecords, WaveRecords
  <1>2. ~FinalWritten
    BY DEF Init, FinalWritten, NoVerification
  <1>3. ExecInv /\ EndInv
    BY <1>2 DEF Init, ExecInv, EndInv
  <1>4. ClientInv /\ CancelInv
    BY DEF Init, ClientInv, CancelInv, Residual
  <1>5. \A w \in Waves : ~(1 > w)
    BY DEF Waves
  <1>6. ASSUME NEW w \in Waves PROVE WaveInv(w)
    BY <1>2, <1>5 DEF Init, WaveInv, Passes
  <1>7. QED
    BY <1>1, <1>3, <1>4, <1>6 DEF RunInv

LEMMA NextInv ==
    ASSUME RunInv, [Next]_vars
    PROVE  RunInv'
  <1>1. CASE Executor
    BY <1>1, executeStep, selectWaveStep, WaveStartsStep, executeWaveStep, SessionEndsStep,
       TaskEndsStep, BarrierStartsStep, BarrierCollectStep, BarrierRecordStep, SwitchResultStep,
       FinalCollectStep, FinalWriteStep, FinalVerdictStep, FinishExpiresStep, FinishOrWakeStep
    DEF Executor
  <1>2. CASE Calling
    BY <1>2, CallReadsStep, CallWritesStep, CallCommitsStep, CallGoesOn DEF Calling
  <1>3. CASE Cancelling
    <2>1. CancelRepeats => cancel.at \in {"again", "redegrade"}
      BY DEF CancelRepeats
    <2>2. QED
      BY <1>3, <2>1, CancelTerminatesStep, CancelSignalsStep DEF Cancelling
  <1>4. CASE CallBegins
    BY <1>4, CallBeginsStep
  <1>5. CASE RequestCancel \/ RequestCancelTask
    BY <1>5, RequestCancelStep
  <1>6. CASE AnswerDecision
    BY <1>6, AnswerDecisionStep
  <1>7. CASE WorkerWrites \/ WorkerAsks
    BY <1>7, WorkerStep
  <1>8. CASE OrphanWrites
    BY <1>8, OrphanWritesStep
  <1>9. CASE UNCHANGED vars
    <2>1. UNCHANGED <<run, wave, current, task, orphan, decision, ws, base, file, advance, cancelled,
                      cancelledTasks, exec, client, cancel>>
      BY <1>9 DEF vars, snapshotVars, diskVars, flagVars
    <2>2. QED
      BY <2>1 DEF RunInv, TypeOK, ExecInv, EndInv, ClientInv, CancelInv, WaveInv, Passed, Passes,
                  Audited, FinalWritten, NothingPending, LeftBehind, CancelLeaves, Residual, Seen,
                  Over
  <1>10. QED
    BY <1>1, <1>2, <1>3, <1>4, <1>5, <1>6, <1>7, <1>8, <1>9 DEF Next

\* The invariant of the run: what a wave that passed, a final verification that was written
\* and a cancelled session still mean when another goroutine acts (runtime.go, Start, execute,
\* runBarrier and the main agent's calls).
THEOREM RunInvariant == Spec => []RunInv
  <1>1. Init => RunInv
    BY InitInv
  <1>2. RunInv /\ [Next]_vars => RunInv'
    BY NextInv
  <1>3. QED
    BY <1>1, <1>2, PTL DEF Spec

\* Start returns only when the run has ended, and with no decision left open unless a late
\* RejectBarrierWarnings failed the run under it or a cancellation that met its task after the
\* last look at the cancellations degraded it (runtime.go, Start, finishRun, RequestCancelTask).
THEOREM StartReturnsAtTheEnd == Spec => []StartEndsTheRun
  <1>1. RunInv => StartEndsTheRun
    <2>1. SUFFICES ASSUME RunInv PROVE StartEndsTheRun
      OBVIOUS
    <2>2. TypeOK /\ EndInv
      BY <2>1 DEF RunInv
    <2>3. QED
      BY <2>2 DEF StartEndsTheRun, EndInv, NothingPending, LeftBehind
  <1>2. QED
    BY <1>1, RunInvariant, PTL

\* A run completes, in either of the two places that write it, only with every task of every
\* wave verified and every wave judged (runtime.go, runFinalVerification, AcceptFinalWarnings).
THEOREM CompletionStaysVerified == Spec => []CompletedIsVerified
  <1>1. RunInv => CompletedIsVerified
    <2>1. SUFFICES ASSUME RunInv, run = "completed", NEW w \in Waves
                   PROVE  task[w] \in {"verified_success", "verified_partial"}
                          /\ wave[w].result # "none"
      BY DEF CompletedIsVerified
    <2>2. Passed(w)
      BY <2>1, Before
    <2>3. QED
      BY <2>2 DEF Passed, Verified
  <1>2. QED
    BY <1>1, RunInvariant, PTL

\* The final verification of a completed run has seen every change made in a session, however
\* often baselines were captured anew (runtime.go, collectFinalVerificationInputs).
THEOREM NothingStaysUnaudited == Spec => []NothingUnaudited
  <1>1. RunInv => NothingUnaudited
    <2>1. SUFFICES ASSUME RunInv, run = "completed"
                   PROVE  \A c \in ws : ~orphan[c[1]] => c \in file[Final].input.changes
      BY DEF NothingUnaudited
    <2>2. Audited(file[Final].input) /\ orphan \in [Waves -> BOOLEAN] /\ ws \subseteq Waves \X Kinds
      BY <2>1, Before DEF TypeOK, Changes
    <2>3. \A c \in ws : c[1] \in Waves
      BY <2>2
    <2>4. \A c \in ws : ~orphan[c[1]] => orphan[c[1]] = FALSE
      BY <2>2, <2>3
    <2>5. QED
      BY <2>2, <2>4 DEF Audited
  <1>2. QED
    BY <1>1, RunInvariant, PTL
=============================================================================

-------------------------- MODULE InstructionOutbox --------------------------
(***************************************************************************)
(* Instructions of the Main Agent on their way to a worker session         *)
(* (SendInstruction, startNextTurnAtBoundary, FlushInstructionOutbox and   *)
(* EnsureResumeAndFlushOutbox of internal/supervisor/messages.go, and the  *)
(* part of executeTask they meet).                                         *)
(*                                                                         *)
(* One task.  The threads are the IPC handlers that each send one          *)
(* instruction and the goroutine of executeWave; any of them may end up in *)
(* executeTask, and one that is there owns the session it started until it *)
(* returns.  Calls nest (a flush that finds no session asks for a resume), *)
(* so a thread has a stack.  Router operations and Commits are atomic:     *)
(* MessageRouter and EventCommit are about their parts.                    *)
(***************************************************************************)
EXTENDS Integers, Sequences, FiniteSets

CONSTANTS
    Callers,        \* the SendInstruction calls; a caller also names its instruction
    Leftover,       \* an instruction an earlier Supervisor may have left queued
    Wave,           \* the goroutine of executeWave
    Crews,          \* the sets of threads that run at a time
    CapabilitySets  \* the effective capabilities a session may have

Threads == Callers \cup {Wave}
Instructions == Callers \cup {Leftover}

ASSUME OutboxAssumption ==
    /\ IsFiniteSet(Callers)
    /\ Cardinality(Callers \cup {Leftover, Wave}) = Cardinality(Callers) + 2
    /\ Crews \subseteq SUBSET (Callers \cup {Wave})
    /\ CapabilitySets \subseteq SUBSET {"steer_active_turn", "bidirectional_stream", "resume_session"}

VARIABLES
    caps,       \* Worker.Capabilities of the task's sessions
    task,       \* the snapshot's record of the task
    active,     \* Service.active of the task: a session, 0 for none
    sessions,   \* sessions started so far
    alive,      \* the sessions that executeTask has not seen the end of
    inFlight,   \* Service.resumeInFlight of the task
    msg,        \* the Router's index: status and delivery mode of each instruction
    clock,      \* the time, which only orders the instructions
    created,    \* CreatedAt of each instruction, 0 for none
    sent,       \* how often a harness accepted each instruction
    th,         \* the threads
    over,       \* the run has ended
    late,       \* history: the instructions enqueued behind its end
    behind,     \* history: what was queued in the same mode when an instruction was made
    aside       \* history: the instructions a flush passed over for want of a session

madeVars == <<clock, created, behind>>
routerVars == <<msg, madeVars, aside>>
outboxVars == <<caps, task, active, sessions, alive, inFlight, routerVars, sent, th, over, late>>

Rules == INSTANCE MessageRules WITH Resolutions <- {}, NoResolution <- "none"

None == [status |-> "absent", mode |-> "none"]
Modes == {"immediate", "next_turn", "resume", "unsupported"}
Tasks == [term : BOOLEAN, proc : {"queued", "starting", "alive", "exited", "unknown"},
          native : BOOLEAN, attempts : Nat, running : Nat,
          current : BOOLEAN]
Frames == [pc : {"flush", "session", "closing", "release"}, todo : SUBSET Instructions, ses : Nat]
Labels == {"start", "enqueue", "deliver", "ensure", "claim", "wait", "exec", "begun", "spawn",
           "spawned", "flush", "send", "record", "session", "closing", "finish", "expire",
           "unregister", "release", "done", "away"}
Kinds == {"steer", "flush", "boundary"}

OutboxTypeOK ==
    /\ caps \in CapabilitySets
    /\ task \in Tasks
    /\ sessions \in Nat
    /\ active \in 0 .. sessions
    /\ alive \subseteq 1 .. sessions
    /\ inFlight \in BOOLEAN
    /\ msg \in [Instructions -> [status : {"absent", "queued", "delivered", "failed", "expired"},
                                 mode : Modes \cup {"none"}]]
    /\ \A i \in Instructions : msg[i].status = "absent" <=> msg[i] = None
    /\ clock \in Nat /\ created \in [Instructions -> 0 .. clock]
    /\ sent \in [Instructions -> Nat]
    /\ \A p \in Threads :
          /\ th[p].pc \in Labels /\ th[p].kind \in Kinds
          /\ th[p].ret \in Seq(Frames) /\ th[p].todo \subseteq Instructions
          /\ th[p].seen \in Tasks
    /\ over \in BOOLEAN
    /\ late \subseteq Callers
    /\ behind \in [Instructions -> SUBSET Instructions]
    /\ aside \subseteq Instructions

NewTask == [term |-> FALSE, proc |-> "queued", native |-> FALSE, attempts |-> 0, running |-> 0,
            current |-> FALSE]
ExitedResumable == [NewTask EXCEPT !.proc = "exited", !.native = TRUE, !.attempts = 1]

\* The modes SendInstruction gave to instructions for sessions of these capabilities.
LeftoverModes ==
    {m \in {"immediate", "next_turn", "resume"} :
        \/ m = "immediate" /\ "steer_active_turn" \in caps
        \/ m = "next_turn" /\ "steer_active_turn" \notin caps /\ "bidirectional_stream" \in caps
        \/ m = "resume" /\ "resume_session" \in caps}

Resting == [pc |-> "start", todo |-> {}, ses |-> 0, ret |-> <<>>, seen |-> NewTask, mode |-> "none",
            item |-> Leftover, tgt |-> 0, kind |-> "flush", ok |-> FALSE, number |-> 0]

\* A task that has not started, or one the recovery found exited and resumable, perhaps with
\* an instruction that was queued for its last session.
OutboxInit ==
    /\ caps \in CapabilitySets
    /\ task \in {NewTask, ExitedResumable}
    /\ active = 0 /\ sessions = 0 /\ alive = {}
    /\ inFlight = FALSE
    /\ \E left \in {None} \cup [status : {"queued"}, mode : LeftoverModes] :
          msg = [i \in Instructions |-> IF i = Leftover THEN left ELSE None]
    /\ task = NewTask => msg[Leftover] = None
    /\ created = [i \in Instructions |-> IF msg[i] = None THEN 0 ELSE 1]
    /\ clock = 1
    /\ sent = [i \in Instructions |-> 0]
    /\ \E crew \in Crews :
          th = [p \in Threads |-> IF p \in crew THEN Resting ELSE [Resting EXCEPT !.pc = "away"]]
    /\ over = FALSE /\ late = {}
    /\ behind = [i \in Instructions |-> {}]
    /\ aside = {}

-----------------------------------------------------------------------------
(* Threads and calls. *)

At(p, label) == th[p].pc = label
Goto(p, label) == th' = [th EXCEPT ![p].pc = label]

Called(t, entry, back) ==
    [t EXCEPT !.pc = entry,
              !.ret = <<[pc |-> back, todo |-> t.todo, ses |-> t.ses]>> \o @]
Returned(t) ==
    IF t.ret = <<>> THEN [t EXCEPT !.pc = "done"]
    ELSE [t EXCEPT !.pc = Head(t.ret).pc, !.todo = Head(t.ret).todo, !.ses = Head(t.ret).ses,
                   !.ret = Tail(@)]

Call(p, entry, back) == th' = [th EXCEPT ![p] = Called(@, entry, back)]
Returns(p) == th' = [th EXCEPT ![p] = Returned(@)]

-----------------------------------------------------------------------------
(* The Router. *)

IsDeliveryPending(i) == msg[i].status = "queued"

PendingInstructions(mode) == {i \in Instructions : IsDeliveryPending(i) /\ msg[i].mode = mode}

\* Mutant of Oldest.
Youngest(is) == CHOOSE i \in is : \A j \in is : created[j] <= created[i]

\* The list of pending instructions is sorted by CreatedAt, and whoever has it goes through it.
Oldest(is) == CHOOSE i \in is : \A j \in is : created[i] <= created[j]

\* The status an instruction has after a Transition or a RecordDeliveryAttempt, refused or not.
After(i, next) ==
    IF Rules!ValidateTransition(msg[i].status, next) THEN next ELSE msg[i].status

Settle(is, next) ==
    msg' = [i \in Instructions |->
               IF i \in is THEN [msg[i] EXCEPT !.status = After(i, next)] ELSE msg[i]]

\* Mutant of expireTaskMessages: only what was delivered.
expireDelivered == Settle({i \in Instructions : msg[i].status = "delivered"}, "expired")

expireTaskMessages == Settle({i \in Instructions : msg[i] # None}, "expired")

-----------------------------------------------------------------------------
(* SendInstruction. *)

selectInstructionRoute ==
    CASE active # 0 /\ "steer_active_turn" \in caps -> "immediate"
      [] active # 0 /\ "steer_active_turn" \notin caps /\ "bidirectional_stream" \in caps
            -> "next_turn"
      [] active # 0 /\ caps \cap {"steer_active_turn", "bidirectional_stream"} = {}
         /\ "resume_session" \in caps -> "resume"
      [] active = 0 /\ "resume_session" \in caps /\ task.native /\ ~task.term -> "resume"
      [] OTHER -> "unsupported"

\* The checks, the route and the CreatedAt of a new instruction.
SendInstruction(p) ==
    /\ p \in Callers
    /\ At(p, "start")
    /\ IF task.term
       THEN /\ Returns(p)
            /\ UNCHANGED madeVars
       ELSE /\ clock' = clock + 1
            /\ created' = [created EXCEPT ![p] = clock']
            /\ behind' = [behind EXCEPT ![p] = PendingInstructions(selectInstructionRoute)]
            /\ th' = [th EXCEPT ![p].pc = "enqueue", ![p].mode = selectInstructionRoute]
    /\ UNCHANGED <<caps, task, active, sessions, alive, inFlight, msg, sent, over, late, aside>>

QueueInstruction(p) ==
    /\ At(p, "enqueue")
    /\ msg' = [msg EXCEPT ![p] = [status |-> "queued", mode |-> th[p].mode]]
    /\ late' = IF over THEN late \cup {p} ELSE late
    /\ Goto(p, "deliver")
    /\ UNCHANGED <<caps, task, active, sessions, alive, inFlight, madeVars, sent, over, aside>>

\* Only an immediate instruction is sent here; a queued one waits for its boundary or resume.
deliverInstruction(p) ==
    /\ At(p, "deliver")
    /\ LET mode == th[p].mode
           t == [th[p] EXCEPT !.mode = "none"]
       IN CASE mode = "immediate" /\ active # 0 ->
                  /\ th' = [th EXCEPT ![p] = [t EXCEPT !.pc = "send", !.item = p, !.tgt = active,
                                                       !.kind = "steer"]]
                  /\ UNCHANGED msg
            [] mode = "unsupported" \/ (mode = "immediate" /\ active = 0) ->
                  Settle({p}, "failed") /\ th' = [th EXCEPT ![p] = Returned(t)]
            [] mode = "next_turn" \/ (mode = "resume" /\ active # 0) ->
                  th' = [th EXCEPT ![p] = Returned(t)] /\ UNCHANGED msg
            [] mode = "resume" /\ active = 0 ->
                  th' = [th EXCEPT ![p] = [t EXCEPT !.pc = "ensure"]] /\ UNCHANGED msg
    /\ UNCHANGED <<caps, task, active, sessions, alive, inFlight, madeVars, sent, over, late, aside>>

-----------------------------------------------------------------------------
(* Delivery to a session: the harness accepts or refuses, then the attempt is recorded. *)

Send(p) ==
    /\ At(p, "send")
    /\ \E ok \in BOOLEAN :
          /\ ok => th[p].tgt \in alive
          /\ sent' = IF ok THEN [sent EXCEPT ![th[p].item] = @ + 1] ELSE sent
          /\ th' = [th EXCEPT ![p].pc = "record", ![p].ok = ok]
    /\ UNCHANGED <<caps, task, active, sessions, alive, inFlight, routerVars, over, late>>

\* Where the sender goes on: a boundary keeps the session only for a turn that was recorded.
Sent(p, recorded) ==
    LET t == [th[p] EXCEPT !.item = Leftover, !.tgt = 0, !.kind = "flush", !.ok = FALSE]
    IN th' = [th EXCEPT ![p] =
                 CASE @.kind = "steer" -> Returned(t)
                   [] @.kind = "flush" -> [t EXCEPT !.pc = "flush"]
                   [] @.kind = "boundary" ->
                         [t EXCEPT !.pc = IF th[p].ok /\ recorded THEN "session" ELSE "closing"]]

RecordAttempt(p) ==
    LET i == th[p].item
        next == IF th[p].ok THEN "delivered" ELSE "failed"
    IN  /\ At(p, "record")
        /\ Settle({i}, next)
        /\ Sent(p, Rules!ValidateTransition(msg[i].status, next))
        /\ UNCHANGED <<caps, task, active, sessions, alive, inFlight, madeVars, sent, over, late,
                       aside>>

\* One item of a flush: re-read, and sent to whatever session is registered now.
deliverQueuedToActiveSession(p) ==
    /\ At(p, "flush")
    /\ th[p].todo # {}
    /\ LET i == Oldest(th[p].todo)
           next == [th[p] EXCEPT !.todo = @ \ {i}]
       IN CASE ~IsDeliveryPending(i) ->
                  th' = [th EXCEPT ![p] = next] /\ UNCHANGED aside
            [] IsDeliveryPending(i) /\ active # 0 ->
                  /\ th' = [th EXCEPT ![p] = [next EXCEPT !.pc = "send", !.item = i, !.tgt = active,
                                                          !.kind = "flush"]]
                  /\ UNCHANGED aside
            [] IsDeliveryPending(i) /\ active = 0 ->
                  /\ th' = [th EXCEPT ![p] = Called(next, "ensure", "flush")]
                  /\ aside' = aside \cup {i}
    /\ UNCHANGED <<caps, task, active, sessions, alive, inFlight, msg, madeVars, sent, over, late>>

FlushEnds(p) ==
    /\ At(p, "flush")
    /\ th[p].todo = {}
    /\ Returns(p)
    /\ UNCHANGED <<caps, task, active, sessions, alive, inFlight, routerVars, sent, over, late>>

-----------------------------------------------------------------------------
(* EnsureResumeAndFlushOutbox. *)

\* flushResumeOnActive: the pending resume instructions, on the session registered now.
flushResumeOnActive(p) ==
    th' = [th EXCEPT ![p].pc = "flush", ![p].todo = PendingInstructions("resume")]

EnsureResumeAndFlushOutbox(p) ==
    /\ At(p, "ensure")
    /\ CASE PendingInstructions("resume") = {} -> Returns(p) /\ UNCHANGED msg
         [] PendingInstructions("resume") # {} /\ active # 0 ->
                flushResumeOnActive(p) /\ UNCHANGED msg
         [] PendingInstructions("resume") # {} /\ active = 0 /\ task.term ->
                expireTaskMessages /\ Returns(p)
         [] OTHER ->
                th' = [th EXCEPT ![p].pc = "claim", ![p].seen = task] /\ UNCHANGED msg
    /\ UNCHANGED <<caps, task, active, sessions, alive, inFlight, madeVars, sent, over, late, aside>>

\* Mutant of ClaimResume: whoever comes takes the slot.
ClaimUnseen(p) ==
    /\ At(p, "claim")
    /\ inFlight' = TRUE
    /\ LET seen == th[p].seen IN
       IF seen.native /\ "resume_session" \in caps /\ seen.proc = "exited"
       THEN /\ task' = seen
            /\ Call(p, "exec", "release")
            /\ UNCHANGED msg
       ELSE /\ Settle(PendingInstructions("resume"), "failed")
            /\ th' = [th EXCEPT ![p].pc = "release", ![p].seen = NewTask]
            /\ UNCHANGED task
    /\ UNCHANGED <<caps, active, sessions, alive, madeVars, sent, over, late, aside>>

\* The slot of resumeInFlight, then the checks of the task as it was read before the slot
\* was taken, and that reading is written back.
ClaimResume(p) ==
    /\ At(p, "claim")
    /\ inFlight' = TRUE
    /\ LET seen == th[p].seen
           allowed == seen.native /\ "resume_session" \in caps /\ seen.proc = "exited"
       IN CASE inFlight ->
                  /\ th' = [th EXCEPT ![p].pc = "wait", ![p].seen = NewTask]
                  /\ UNCHANGED <<task, msg>>
            [] ~inFlight /\ allowed ->
                  /\ task' = seen
                  /\ Call(p, "exec", "release")
                  /\ UNCHANGED msg
            [] ~inFlight /\ ~allowed ->
                  /\ Settle(PendingInstructions("resume"), "failed")
                  /\ th' = [th EXCEPT ![p].pc = "release", ![p].seen = NewTask]
                  /\ UNCHANGED task
    /\ UNCHANGED <<caps, active, sessions, alive, madeVars, sent, over, late, aside>>

\* Mutant of WaitForResume: only for a session, however long it takes.
WaitForSession(p) ==
    /\ At(p, "wait")
    /\ active # 0
    /\ flushResumeOnActive(p)
    /\ UNCHANGED <<caps, task, active, sessions, alive, inFlight, routerVars, sent, over, late>>

\* Every 20 ms, and for 30 s at most.
WaitForResume(p) ==
    /\ At(p, "wait")
    /\ \/ active # 0 /\ flushResumeOnActive(p)
       \/ active = 0 /\ ~inFlight /\ Goto(p, "ensure")
       \/ active = 0 /\ inFlight /\ Returns(p)
    /\ UNCHANGED <<caps, task, active, sessions, alive, inFlight, routerVars, sent, over, late>>

ReleaseResume(p) ==
    /\ At(p, "release")
    /\ inFlight' = FALSE
    /\ Returns(p)
    /\ UNCHANGED <<caps, task, active, sessions, alive, routerVars, sent, over, late>>

\* A next turn without a session becomes a resume, or fails.
handleInactiveQueuedInstruction(p, i) ==
    IF "resume_session" \in caps /\ task.native /\ ~task.term
    THEN /\ msg' = [msg EXCEPT ![i].mode = "resume"]
         /\ Call(p, "ensure", "closing")
    ELSE /\ Settle({i}, "failed")
         /\ Goto(p, "closing")

-----------------------------------------------------------------------------
(* executeTask, as far as instructions meet it. *)

\* executeWave reads the task and starts a goroutine that waits for its turn.
StartWave(p) ==
    /\ p = Wave
    /\ At(p, "start")
    /\ th' = [th EXCEPT ![p].pc = IF task.term \/ task.proc = "unknown" THEN "done" ELSE "exec",
                        ![p].seen = task]
    /\ UNCHANGED <<caps, task, active, sessions, alive, inFlight, routerVars, sent, over, late>>

\* The mode of the next attempt, "refused" for an error.
chooseMode(ts) ==
    CASE ts.running > 0 -> "refused"
      [] ts.running = 0 /\ ts.attempts = 0 -> "fresh"
      [] ts.running = 0 /\ ts.attempts > 0 /\ ts.native /\ ts.proc = "exited" -> "recovery_resume"
      [] OTHER -> "refused"

\* The end of a task is checked in the caller's copy, everything else in the latest state.
executeTask(p) ==
    /\ At(p, "exec")
    /\ th' = [th EXCEPT ![p] =
                IF @.seen.term \/ @.seen.proc = "unknown" \/ chooseMode(task) = "refused"
                THEN Returned([@ EXCEPT !.seen = NewTask])
                ELSE [@ EXCEPT !.pc = "begun", !.seen = NewTask, !.mode = chooseMode(task),
                               !.number = task.attempts + 1]]
    /\ UNCHANGED <<caps, task, active, sessions, alive, inFlight, routerVars, sent, over, late>>

\* WorkerAttemptStarted; then neither the run nor the task may have ended.
StartAttempt(p) ==
    /\ At(p, "begun")
    /\ task' = [task EXCEPT !.attempts = th[p].number, !.running = @ + 1, !.current = TRUE,
                            !.proc = "starting", !.native = (th[p].mode = "recovery_resume")]
    /\ \/ ~task.term /\ th' = [th EXCEPT ![p].pc = "spawn", ![p].number = 0]
       \/ th' = [th EXCEPT ![p] = Returned([@ EXCEPT !.number = 0, !.mode = "none"])]
    /\ UNCHANGED <<caps, active, sessions, alive, inFlight, routerVars, sent, over, late>>

\* The session is registered before its process is recorded.
SpawnSession(p) ==
    /\ At(p, "spawn")
    /\ sessions' = sessions + 1
    /\ alive' = alive \cup {sessions'}
    /\ active' = sessions'
    /\ th' = [th EXCEPT ![p].pc = "spawned", ![p].ses = sessions']
    /\ UNCHANGED <<caps, task, inFlight, routerVars, sent, over, late>>

finishActiveAttempt(ts) ==
    IF ts.current THEN [ts EXCEPT !.running = @ - 1, !.current = FALSE] ELSE ts

SpawnFails(p) ==
    /\ At(p, "spawn")
    /\ task' = finishActiveAttempt(task)
    /\ th' = [th EXCEPT ![p].pc = "finish", ![p].ses = 0]
    /\ UNCHANGED <<caps, active, sessions, alive, inFlight, routerVars, sent, over, late>>

\* ProcessSpawned, then FlushInstructionOutbox("session_resume") of a resumed session.
RecordSpawn(p) ==
    /\ At(p, "spawned")
    /\ task' = [task EXCEPT !.proc = "alive", !.native = TRUE]
    /\ LET t == [th[p] EXCEPT !.mode = "none"]
           pending == PendingInstructions("resume")
           resumed == th[p].mode = "recovery_resume"
       IN CASE ~resumed \/ (~task.term /\ pending = {}) ->
                  th' = [th EXCEPT ![p] = [t EXCEPT !.pc = "session"]] /\ UNCHANGED msg
            [] resumed /\ task.term ->
                  /\ th' = [th EXCEPT ![p] = [t EXCEPT !.pc = "session"]]
                  /\ expireTaskMessages
            [] resumed /\ ~task.term /\ pending # {} /\ active = 0 ->
                  th' = [th EXCEPT ![p] = Called(t, "ensure", "session")] /\ UNCHANGED msg
            [] resumed /\ ~task.term /\ pending # {} /\ active # 0 ->
                  /\ th' = [th EXCEPT ![p] = [Called(t, "flush", "session") EXCEPT !.todo = pending]]
                  /\ UNCHANGED msg
    /\ UNCHANGED <<caps, active, sessions, alive, inFlight, madeVars, sent, over, late, aside>>

\* The session ends without a result that counts: it exits, fails or times out.
SessionEnds(p) ==
    /\ At(p, "session")
    /\ Goto(p, "closing")
    /\ UNCHANGED <<caps, task, active, sessions, alive, inFlight, routerVars, sent, over, late>>

\* At most one queued next_turn instruction, the oldest; the result is final without one.
startNextTurnAtBoundary(p) ==
    /\ At(p, "session")
    /\ \E exited \in BOOLEAN :
       LET pending == PendingInstructions("next_turn")
           i == Oldest(pending)
       IN CASE task.term \/ pending = {} ->
                  Goto(p, "closing") /\ UNCHANGED msg
            [] ~task.term /\ pending # {} /\ exited ->
                  Settle({i}, "failed") /\ Goto(p, "closing")
            [] ~task.term /\ pending # {} /\ ~exited /\ active # 0 ->
                  /\ th' = [th EXCEPT ![p].pc = "send", ![p].item = i, ![p].tgt = active,
                                      ![p].kind = "boundary"]
                  /\ UNCHANGED msg
            [] ~task.term /\ pending # {} /\ ~exited /\ active = 0 ->
                  handleInactiveQueuedInstruction(p, i)
    /\ UNCHANGED <<caps, task, active, sessions, alive, inFlight, madeVars, sent, over, late, aside>>

\* The drain: the session ends and what is known of its processes is recorded.
ResolveExit(p) ==
    /\ At(p, "closing")
    /\ alive' = alive \ {th[p].ses}
    /\ \E proc \in {"exited", "unknown"} : task' = [task EXCEPT !.proc = proc]
    /\ Goto(p, "finish")
    /\ UNCHANGED <<caps, active, sessions, inFlight, routerVars, sent, over, late>>

\* The result is applied or the task fails, with its attempt finished or not; only a task
\* that fails expires its messages, and an end after the end is refused.
FinishTask(p) ==
    /\ At(p, "finish")
    /\ \/ /\ ~task.term
          /\ \E ts \in {task, finishActiveAttempt(task)} : task' = [ts EXCEPT !.term = TRUE]
          /\ \/ Goto(p, "expire")
             \/ th[p].ses # 0 /\ Goto(p, "unregister")
       \/ /\ task.term
          /\ Goto(p, "unregister")
          /\ UNCHANGED task
    /\ UNCHANGED <<caps, active, sessions, alive, inFlight, routerVars, sent, over, late>>

ExpireTask(p) ==
    /\ At(p, "expire")
    /\ expireTaskMessages
    /\ Goto(p, "unregister")
    /\ UNCHANGED <<caps, task, active, sessions, alive, inFlight, madeVars, sent, over, late, aside>>

\* The deferred delete, of whatever session is registered; one that never started has none.
Unregister(p) ==
    /\ At(p, "unregister")
    /\ active' = IF th[p].ses = 0 THEN active ELSE 0
    /\ Returns(p)
    /\ UNCHANGED <<caps, task, sessions, alive, inFlight, routerVars, sent, over, late>>

\* finishRun, when the wave has come back and whatever the barrier said: the messages of the
\* task expire.
FinishRun ==
    /\ ~over
    /\ At(Wave, "done")
    /\ over' = TRUE
    /\ expireTaskMessages
    /\ UNCHANGED <<caps, task, active, sessions, alive, inFlight, madeVars, sent, th, late, aside>>

-----------------------------------------------------------------------------

Thread(p) ==
    \/ SendInstruction(p) \/ QueueInstruction(p) \/ deliverInstruction(p)
    \/ Send(p) \/ RecordAttempt(p) \/ deliverQueuedToActiveSession(p) \/ FlushEnds(p)
    \/ EnsureResumeAndFlushOutbox(p) \/ ClaimResume(p) \/ WaitForResume(p) \/ ReleaseResume(p)
    \/ StartWave(p) \/ executeTask(p) \/ StartAttempt(p)
    \/ SpawnSession(p) \/ SpawnFails(p) \/ RecordSpawn(p)
    \/ SessionEnds(p) \/ startNextTurnAtBoundary(p) \/ ResolveExit(p) \/ FinishTask(p)
    \/ ExpireTask(p) \/ Unregister(p)

OutboxNext == (\E p \in Threads : Thread(p)) \/ FinishRun

\* A goroutine that can go on does: waits have deadlines, sessions a hard timeout.
OutboxSpec ==
    /\ OutboxInit /\ [][OutboxNext]_outboxVars
    /\ WF_outboxVars(FinishRun)
    /\ \A p \in Threads : WF_outboxVars(Thread(p))

-----------------------------------------------------------------------------
(* Properties. *)

Quiet == \A p \in Threads : th[p].pc \in {"done", "away"}

WasSent(i) == sent[i] > 0

Resuming(p) ==
    \/ th[p].pc = "release"
    \/ \E k \in DOMAIN th[p].ret : th[p].ret[k].pc = "release"

\* The slot of resumeInFlight has one holder, and is held exactly while someone resumes: of
\* the callers that ask at once only one starts an attempt, and none leaves the slot taken.
OneResume ==
    /\ OutboxTypeOK
    /\ \A p, q \in Threads : Resuming(p) /\ Resuming(q) => p = q
    /\ inFlight <=> \E p \in Threads : Resuming(p)

\* No instruction overtakes one that was queued for the same way before it was made, whatever
\* threads flush at once, unless a flush found no session for that one and went on without it.
InOrder ==
    \A p \in Threads : At(p, "send") /\ th[p].kind # "steer" =>
        \A k \in behind[th[p].item] :
            /\ IsDeliveryPending(k)
            /\ msg[k].mode = (IF th[p].kind = "boundary" THEN "next_turn" ELSE "resume")
            => k \in aside

\* What is told of an instruction is true: delivered is claimed only after a harness accepted
\* it, and when the run is over and all have returned, the only instructions still queued are those
\* that were enqueued behind its end: none that the task could have taken is lost silently.
NeverSilentlyLost ==
    /\ \A i \in Instructions : msg[i].status = "delivered" => WasSent(i)
    /\ Quiet /\ over => \A i \in Instructions : IsDeliveryPending(i) => i \in late

\* Every SendInstruction returns, and so does the goroutine of the wave: who waits for the
\* resume of another is not left behind when that one fails or is over too soon.
CallsReturn == <>Quiet
=============================================================================

--------------------------- MODULE MessageRouter ----------------------------
(***************************************************************************)
(* The durable message router of a Run: internal/message/router.go over    *)
(* internal/message/store.go and internal/storage/jsonl.go, with the calls *)
(* that internal/supervisor makes of it.                                   *)
(*                                                                         *)
(* Clients are the goroutines of the Supervisor (one per IPC connection,   *)
(* worker session and the executor).  A mutation of one message holds that *)
(* message's lock from the read of the index to the update of the index;   *)
(* between the two lies the append to messages.jsonl, which may fail.  The *)
(* process may die at any point and be restarted by Load, which rebuilds   *)
(* the index from the journal.                                             *)
(***************************************************************************)
EXTENDS MessageRules

CONSTANTS
    MessageIDs,     \* ids the run may use
    Clients,        \* goroutines of the Supervisor
    NoID, NoClient, \* no message, no lock holder
    MaxAttempts,    \* bound on delivery attempts per message
    MaxSyncFailures \* bound on the fsyncs that fail after the line is in the file

ASSUME NoIDIsNone == NoID \notin MessageIDs
ASSUME NoClientIsNone == NoClient \notin Clients
ASSUME MaxAttemptsIsNat == MaxAttempts \in Nat
ASSUME MaxSyncFailuresIsNat == MaxSyncFailures \in Nat

VARIABLES
    journal,    \* journal[m]: complete lines of messages.jsonl for id m
    torn,       \* the file ends in a line without its newline
    marker,     \* messages.jsonl.append-disabled exists
    up,         \* a Supervisor process is running
    index,      \* Router.index
    lock,       \* Router.msgLocks
    op,         \* the mutation each client has in progress
    told,       \* told[m]: resolutions some caller was told are the answer
    syncFailures \* failed fsyncs so far

vars == <<journal, torn, marker, up, index, lock, op, told, syncFailures>>

\* No entry of the index.
Absent == [type |-> "none"]

Idle == [stage |-> "idle", msg |-> NoID, cand |-> Absent]

Op == {Idle} \cup [stage : {"append", "install"}, msg : MessageIDs, cand : Message]

TypeOK ==
    /\ journal \in [MessageIDs -> Seq(Message)]
    /\ torn \in BOOLEAN /\ marker \in BOOLEAN /\ up \in BOOLEAN
    /\ index \in [MessageIDs -> Message \cup {Absent}]
    /\ lock \in [MessageIDs -> Clients \cup {NoClient}]
    /\ op \in [Clients -> Op]
    /\ told \in [MessageIDs -> SUBSET Resolutions]
    /\ syncFailures \in 0..MaxSyncFailures

Init ==
    /\ journal = [m \in MessageIDs |-> <<>>]
    /\ torn = FALSE /\ marker = FALSE /\ up = TRUE
    /\ index = [m \in MessageIDs |-> Absent]
    /\ lock = [m \in MessageIDs |-> NoClient]
    /\ op = [c \in Clients |-> Idle]
    /\ told = [m \in MessageIDs |-> {}]
    /\ syncFailures = 0

-----------------------------------------------------------------------------
(* First half of a mutation: read the index under the message lock, build  *)
(* the candidate record.                                                    *)

\* Mutant of LockFree: lockMessage is not called.
LockNotTaken(m) == TRUE

LockFree(m) == lock[m] = NoClient

\* Client c holds m's lock and is about to append v.
Begin(c, m, v) ==
    /\ up /\ op[c] = Idle
    /\ LockFree(m)
    /\ lock' = [lock EXCEPT ![m] = c]
    /\ op' = [op EXCEPT ![c] = [stage |-> "append", msg |-> m, cand |-> v]]
    /\ UNCHANGED <<journal, torn, marker, up, index, told, syncFailures>>

\* Enqueue* draws a fresh random id and takes no lock.
Enqueue(c, m, v) ==
    /\ up /\ op[c] = Idle
    /\ journal[m] = <<>> /\ index[m] = Absent
    /\ \A d \in Clients : op[d].msg # m
    /\ op' = [op EXCEPT ![c] = [stage |-> "append", msg |-> m, cand |-> v]]
    /\ UNCHANGED <<journal, torn, marker, up, index, lock, told, syncFailures>>

EnqueueInstruction(c, m, mode) ==
    Enqueue(c, m, [type |-> "instruction", status |-> "queued", mode |-> mode,
                   attempts |-> 0, res |-> NoResolution])

EnqueueDecision(c, m, t) ==
    Enqueue(c, m, [type |-> t, status |-> "queued", mode |-> NoMode,
                   attempts |-> 0, res |-> NoResolution])

\* Mutant of FreezeResolution: a frozen resolution is not compared.
FreezeAgain(c, m, r) ==
    /\ index[m] # Absent
    /\ IsDecisionType(index[m].type)
    /\ index[m].status = "queued"
    /\ Begin(c, m, [index[m] EXCEPT !.res = r])

\* Only the first resolution of a queued decision is written: a terminal
\* message, another status, an identical and a conflicting resolution return
\* before the append.
FreezeResolution(c, m, r) ==
    /\ index[m] # Absent
    /\ IsDecisionType(index[m].type)
    /\ index[m].status = "queued"
    /\ index[m].res = NoResolution
    /\ Begin(c, m, [index[m] EXCEPT !.res = r])

ReclassifyDelivery(c, m) ==
    /\ index[m] # Absent
    /\ index[m].type = "instruction"
    /\ index[m].status = "queued"
    /\ index[m].mode = "next_turn"
    /\ Begin(c, m, [index[m] EXCEPT !.mode = "resume"])

\* Mutant of RecordDeliveryAttempt: the attempt is counted down.
RecordCountsDown(c, m, next) ==
    /\ index[m].attempts < MaxAttempts
    /\ ValidateTransition(index[m].status, next)
    /\ Begin(c, m, [index[m] EXCEPT !.attempts = @ - 1, !.status = next])

\* next is "" in the code when the status is to stay: here the current one.
RecordDeliveryAttempt(c, m, next) ==
    /\ index[m].attempts < MaxAttempts
    /\ ValidateTransition(index[m].status, next)
    /\ Begin(c, m, [index[m] EXCEPT !.attempts = @ + 1, !.status = next])

\* A same-status Transition returns the current record and writes nothing.
Transition(c, m, next, mode, r) ==
    /\ index[m].status # next
    /\ ValidateTransition(index[m].status, next)
    /\ Begin(c, m, [index[m] EXCEPT !.status = next,
                                    !.mode = IF mode = NoMode THEN @ ELSE mode,
                                    !.res = IF r = NoResolution THEN @ ELSE r])

-----------------------------------------------------------------------------
(* The calls the Supervisor makes of the operations above. *)

\* deliverInstruction, startNextTurnAtBoundary, deliverQueuedToActiveSession
\* and handleInactiveQueuedInstruction record the outcome of one send.  The
\* mode was read before the send, the status is checked under the lock.
RecordInstruction(c, m, next) ==
    /\ index[m] # Absent
    /\ index[m].type = "instruction"
    /\ index[m].mode \in {"immediate", "next_turn", "resume"}
    /\ next \in {"delivered", "failed"}
    /\ RecordDeliveryAttempt(c, m, next)

\* resolveNativePermission records an attempt on a frozen permission: it stays
\* queued when the delivery failed and is answered when it succeeded.
RecordPermission(c, m, next) ==
    /\ index[m] # Absent
    /\ index[m].type = "permission_request"
    /\ index[m].res # NoResolution
    /\ index[m].status = "queued"
    /\ next \in {"queued", "answered"}
    /\ RecordDeliveryAttempt(c, m, next)

\* ResolveMessage answers with the resolution it froze under its own lock.
AnswerFrozen(c, m) ==
    /\ index[m] # Absent
    /\ IsDecisionType(index[m].type)
    /\ index[m].res # NoResolution
    /\ Transition(c, m, "answered", NoMode, index[m].res)

\* RequestMessage fails its own message when the question cannot be published.
FailDecision(c, m) ==
    /\ index[m] # Absent
    /\ IsDecisionType(index[m].type)
    /\ Transition(c, m, "failed", NoMode, NoResolution)

\* deliverInstruction on an immediate or unsupported route without a session.
FailUndeliverable(c, m) ==
    /\ index[m] # Absent
    /\ index[m].type = "instruction"
    /\ index[m].mode \in {"immediate", "unsupported"}
    /\ Transition(c, m, "failed", index[m].mode, NoResolution)

\* failQueuedResumeInstructions: a resume route that turns out impossible.
FailQueuedResume(c, m) ==
    /\ index[m] # Absent
    /\ index[m].type = "instruction"
    /\ index[m].mode = "resume"
    /\ Transition(c, m, "failed", "unsupported", NoResolution)

\* expireOneMessage refuses a decision whose resolution is frozen.
ExpireMessage(c, m) ==
    /\ index[m] # Absent
    /\ index[m].res = NoResolution
    /\ Transition(c, m, "expired", NoMode, NoResolution)

\* ResolveMessage on an answered message: an identical resolution succeeds.
ResolveAgain(m, r) ==
    /\ up
    /\ index[m] # Absent
    /\ index[m].status = "answered" /\ index[m].res = r
    /\ told' = [told EXCEPT ![m] = @ \cup {r}]
    /\ UNCHANGED <<journal, torn, marker, up, index, lock, op, syncFailures>>

-----------------------------------------------------------------------------
(* Second half: Store.Append and the update of the index. *)

\* Give up the message lock if c holds it.
Unlock(c, m) == lock' = [lock EXCEPT ![m] = IF @ = c THEN NoClient ELSE @]

Return(c) == op' = [op EXCEPT ![c] = Idle]

\* The whole line and its newline are in the file and synced.
AppendOK(c) ==
    /\ up /\ op[c].stage = "append"
    /\ ~marker /\ ~torn
    /\ journal' = [journal EXCEPT ![op[c].msg] = Append(@, op[c].cand)]
    /\ op' = [op EXCEPT ![c].stage = "install"]
    /\ UNCHANGED <<torn, marker, up, index, lock, told, syncFailures>>

\* Mutant of AppendRefused: the index is updated before the error is seen.
AppendRefusedAfterInstall(c) ==
    /\ up /\ op[c].stage = "append"
    /\ index' = [index EXCEPT ![op[c].msg] = op[c].cand]
    /\ Unlock(c, op[c].msg) /\ Return(c)
    /\ UNCHANGED <<journal, torn, marker, up, told, syncFailures>>

\* The append is refused (marker, incomplete tail) or writes nothing.
AppendRefused(c) ==
    /\ up /\ op[c].stage = "append"
    /\ Unlock(c, op[c].msg) /\ Return(c)
    /\ UNCHANGED <<journal, torn, marker, up, index, told, syncFailures>>

\* The line is written in part: every later append is refused.
AppendTorn(c) ==
    /\ up /\ op[c].stage = "append"
    /\ ~marker /\ ~torn
    /\ torn' = TRUE
    /\ Unlock(c, op[c].msg) /\ Return(c)
    /\ UNCHANGED <<journal, marker, up, index, told, syncFailures>>

\* The line is complete in the file but fsync or close reports an error.
AppendSyncFails(c) ==
    /\ syncFailures < MaxSyncFailures
    /\ up /\ op[c].stage = "append"
    /\ ~marker /\ ~torn
    /\ journal' = [journal EXCEPT ![op[c].msg] = Append(@, op[c].cand)]
    /\ Unlock(c, op[c].msg) /\ Return(c)
    /\ syncFailures' = syncFailures + 1
    /\ UNCHANGED <<torn, marker, up, index, told>>

\* The index keeps a terminal record another path installed meanwhile.
MayInstall(current, v) ==
    \/ current = Absent
    \/ ~IsTerminal(current.status)
    \/ current.status = v.status

\* The index is updated and the caller gets its result.
Install(c) ==
    LET m == op[c].msg
        v == op[c].cand
    IN  /\ up /\ op[c].stage = "install"
        /\ index' = IF MayInstall(index[m], v) THEN [index EXCEPT ![m] = v] ELSE index
        /\ told' = IF MayInstall(index[m], v) /\ v.status = "answered"
                   THEN [told EXCEPT ![m] = @ \cup {v.res}] ELSE told
        /\ Unlock(c, m) /\ Return(c)
        /\ UNCHANGED <<journal, torn, marker, up, syncFailures>>

-----------------------------------------------------------------------------
(* Process death and restart. *)

Crash ==
    /\ up
    /\ up' = FALSE
    /\ index' = [m \in MessageIDs |-> Absent]
    /\ lock' = [m \in MessageIDs |-> NoClient]
    /\ op' = [c \in Clients |-> Idle]
    /\ UNCHANGED <<journal, torn, marker, told, syncFailures>>

JournalOK == \A m \in MessageIDs : Replayable(journal[m])

\* ReplayDetailed repairs an incomplete tail and the Router starts from the
\* last line of every id.  An earlier marker keeps appends disabled.
Load ==
    /\ ~up /\ JournalOK
    /\ up' = TRUE
    /\ torn' = FALSE
    /\ index' = [m \in MessageIDs |->
                    IF journal[m] = <<>> THEN Absent ELSE Last(journal[m])]
    /\ UNCHANGED <<journal, marker, lock, op, told, syncFailures>>

\* A complete line that breaks the rules: nothing is repaired, the index is
\* empty and a durable marker disables every later append.
LoadCorrupt ==
    /\ ~up /\ ~JournalOK
    /\ up' = TRUE
    /\ marker' = TRUE
    /\ index' = [m \in MessageIDs |-> Absent]
    /\ UNCHANGED <<journal, torn, lock, op, told, syncFailures>>

-----------------------------------------------------------------------------

Mutate(c, m) ==
    \/ \E mode \in DeliveryModes : EnqueueInstruction(c, m, mode)
    \/ \E t \in DecisionTypes : EnqueueDecision(c, m, t)
    \/ \E r \in Resolutions : FreezeResolution(c, m, r)
    \/ ReclassifyDelivery(c, m)
    \/ \E s \in {"delivered", "failed"} : RecordInstruction(c, m, s)
    \/ \E s \in {"queued", "answered"} : RecordPermission(c, m, s)
    \/ AnswerFrozen(c, m)
    \/ FailDecision(c, m)
    \/ FailUndeliverable(c, m)
    \/ FailQueuedResume(c, m)
    \/ ExpireMessage(c, m)

AppendStep(c) ==
    \/ AppendOK(c)
    \/ AppendRefused(c)
    \/ AppendTorn(c)
    \/ AppendSyncFails(c)
    \/ Install(c)

Next ==
    \/ \E c \in Clients, m \in MessageIDs : Mutate(c, m)
    \/ \E m \in MessageIDs, r \in Resolutions : ResolveAgain(m, r)
    \/ \E c \in Clients : AppendStep(c)
    \/ Crash
    \/ Load
    \/ LoadCorrupt

Spec == Init /\ [][Next]_vars

-----------------------------------------------------------------------------
(* Properties. *)

\* The one record the Supervisor writes against the journal's own rules:
\* failQueuedResumeInstructions turns a resume route into an unsupported one.
RefusedResume(lines) ==
    \E i \in 2..Len(lines) :
        lines[i - 1].mode = "resume" /\ lines[i].mode = "unsupported"

JournalSound ==
    \A m \in MessageIDs : Replayable(journal[m]) \/ RefusedResume(journal[m])

\* Whatever goroutines interleave, appends fail and processes die, the next
\* Load accepts the lines of every message (store.go validateMessageLifecycle)
\* unless failQueuedResumeInstructions refused that message, as long as no
\* append (jsonl.go AppendJSONL) reports a failure after a complete write.
ReplayableUnlessRefusedResume == syncFailures = 0 => JournalSound

\* router.go:13-17 "Router is the durable outbox / inbox state machine ...
\* concurrent clients cannot ... append conflicting journal records": every
\* journal the Router writes is one that Load accepts.
JournalReplayable == JournalOK

\* router.go:14 "Persistence always precedes in-memory index updates": what
\* the index shows of a message is a line of the journal, also after failed
\* appends.
IndexNeverAhead ==
    \A m \in MessageIDs :
        index[m] # Absent => \E i \in 1..Len(journal[m]) : journal[m][i] = index[m]

\* A resolution some caller was told to be the answer (ResolveMessage returned
\* nil) is the last word of the journal on that message, across restarts.
ToldIsDurable ==
    \A m \in MessageIDs : \A r \in told[m] :
        /\ journal[m] # <<>>
        /\ Last(journal[m]).status = "answered"
        /\ Last(journal[m]).res = r

\* The durable state of a message as the abstract specification sees it.
DurableStage ==
    [m \in MessageIDs |->
        IF journal[m] = <<>> THEN "unpublished"
        ELSE IF Last(journal[m]).status = "answered" THEN "answered"
        ELSE IF IsTerminal(Last(journal[m]).status) THEN "closed"
        ELSE "open"]

DurableIntent ==
    [m \in MessageIDs |->
        IF journal[m] = <<>> THEN NoResolution ELSE Last(journal[m]).res]

Outcome == INSTANCE MessageOutcome
               WITH stage <- DurableStage, intent <- DurableIntent,
                    broken <- syncFailures > 0

\* The journal implements MessageOutcome: every message is published, frozen,
\* answered or closed at most once and in that order, whatever the Router's
\* goroutines, failed appends and restarts do, until AppendJSONL misreports one.
ImplementsOutcome == Outcome!Spec

-----------------------------------------------------------------------------
(* The inductive invariant behind the properties, as long as no fsync has   *)
(* failed after a complete write.                                           *)

Busy(c) == op[c] # Idle

\* No two clients work on one message; a client that works on a message holds
\* its lock, or the message is fresh and in nobody's index yet.
Exclusion ==
    /\ \A c \in Clients : Busy(c) =>
          \/ lock[op[c].msg] = c
          \/ lock[op[c].msg] = NoClient /\ index[op[c].msg] = Absent
    /\ \A c, d \in Clients : Busy(c) /\ Busy(d) /\ op[c].msg = op[d].msg => c = d
    /\ \A m \in MessageIDs : lock[m] # NoClient => op[lock[m]].msg = m

\* A record the Router may write after record p of the same message.
StepOK(p, v) ==
    /\ StatusFieldsOK(v)
    /\ ValidateTransition(p.status, v.status)
    /\ \/ v.res = p.res
       \/ p.status = "queued" /\ v.status = "queued" /\ p.res = NoResolution
    /\ \/ LifecycleOK(p, v)
       \/ p.mode = "resume" /\ v.mode = "unsupported"

\* A record an Enqueue operation writes.
FreshOK(v) == FirstRecordOK(v) /\ v.status = "queued" /\ v.res = NoResolution

\* A record that may replace the one in the index and keeps its answer.
Replaces(current, v) ==
    /\ MayInstall(current, v)
    /\ current # Absent /\ current.status = "answered" => v.res = current.res

\* A record about to be appended continues the journal as it is now, and a
\* record about to be installed is its last line and may replace the index.
CandidateOK ==
    \A c \in Clients :
        LET m == op[c].msg
            v == op[c].cand
        IN  /\ op[c].stage = "append" =>
                  \/ journal[m] = <<>> /\ FreshOK(v)
                  \/ journal[m] # <<>> /\ StepOK(Last(journal[m]), v)
            /\ op[c].stage = "install" =>
                  journal[m] # <<>> /\ Last(journal[m]) = v /\ Replaces(index[m], v)

\* Outside a mutation the index agrees with the journal or is empty.
IndexCurrent ==
    \A m \in MessageIDs :
        \/ index[m] = Absent
        \/ journal[m] # <<>> /\ index[m] = Last(journal[m])
        \/ \E c \in Clients : op[c].stage = "install" /\ op[c].msg = m

LastLineOK ==
    \A m \in MessageIDs : journal[m] # <<>> => StatusFieldsOK(Last(journal[m]))

DownIsEmpty ==
    ~up => /\ \A c \in Clients : op[c] = Idle
           /\ \A m \in MessageIDs : index[m] = Absent /\ lock[m] = NoClient

IInv ==
    /\ TypeOK
    /\ Exclusion
    /\ CandidateOK
    /\ IndexCurrent
    /\ LastLineOK
    /\ DownIsEmpty
    /\ ToldIsDurable
    /\ JournalSound
=============================================================================

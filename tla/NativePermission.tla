-------------------------- MODULE NativePermission --------------------------
(***************************************************************************)
(* Permissions that a harness asks for in its own protocol                 *)
(* (internal/supervisor/permission.go, with expireOneMessage and           *)
(* recomputeTaskWaiting of messages.go).                                   *)
(*                                                                         *)
(* The harness blocks until its request is answered.  The goroutine that   *)
(* drains the session turns a request into a message; a resolver freezes   *)
(* the Main Agent's decision in it, checks that the attempt that asked is  *)
(* the one that runs, responds to the harness and records the answer.  The *)
(* harness, the session and the Supervisor may end between any two steps,  *)
(* and a response may arrive although its call timed out.                  *)
(*                                                                         *)
(* One task.  Native request ids are chosen by the harness and come back   *)
(* in a resumed session.  Router operations and Commits are atomic.        *)
(***************************************************************************)
EXTENDS Integers, Sequences, FiniteSets

CONSTANTS
    Requests,       \* native permission request ids
    Unoffered,      \* decisions that have no native option: pairs of request and decision
    Resolvers,      \* the threads of ResolveMessage
    Driver,         \* the goroutine of executeTask
    MaxAttempts,    \* bound on worker attempts
    MaxCrashes,     \* bound on Supervisor crashes
    MaxCalls,       \* bound on calls of ResolveMessage
    MaxMessages     \* bound on requests, over all attempts

Decisions == {"allow", "deny"}

ASSUME PermissionAssumption ==
    /\ Unoffered \subseteq Requests \X Decisions
    /\ Driver \notin Resolvers /\ "none" \notin Resolvers \cup {Driver}
    /\ MaxAttempts \in Nat \ {0} /\ MaxCrashes \in Nat /\ MaxCalls \in Nat
    /\ MaxMessages \in Nat

VARIABLES
    msg,        \* the permission_request messages, in the order they were enqueued
    asked,      \* the requests the harness of each attempt has made
    got,        \* the responses the harness of each attempt received, by request
    attempt,    \* attempts started
    active,     \* Service.active: the attempt of the registered session, 0 for none
    lock,       \* the decision operation lock of each message: its holder
    blocked,    \* the task is blocked, waiting for a message
    term,       \* the task has ended
    drv,        \* the driver: where it is, its message, what is left of its sweep
    res,        \* the resolvers: where each is, its message and decision
    seen,       \* hasPending as recomputeTaskWaiting read it
    crashes, calls

vars == <<msg, asked, got, attempt, active, lock, blocked, term, drv, res, seen, crashes, calls>>
harnessVars == <<asked, got>>
sessionVars == <<attempt, active, term>>
boundVars == <<crashes, calls>>

Attempts == 1 .. MaxAttempts
Threads == Resolvers \cup {Driver}
NoOne == "none"
Messages == [att : Attempts, req : Requests, status : {"queued", "answered", "expired"},
             res : Decisions \cup {"none"}]

DriverPC == {"session", "bridge", "recompute", "settle", "expire", "swept", "unregister",
             "ended", "over", "down"}
ResolverPC == {"idle", "lock", "bind", "reread", "respond", "record", "recompute",
               "settle"}

TypeOK ==
    /\ msg \in Seq(Messages)
    /\ asked \in [Attempts -> SUBSET Requests]
    /\ got \in [Attempts -> [Requests -> SUBSET Decisions]]
    /\ attempt \in Attempts
    /\ active \in {0, attempt}
    /\ lock \in [DOMAIN msg -> Threads \cup {NoOne}]
    /\ blocked \in BOOLEAN /\ term \in BOOLEAN
    /\ drv.pc \in DriverPC /\ drv.k \in 0 .. Len(msg) /\ drv.todo \subseteq DOMAIN msg
    /\ \A c \in Resolvers : res[c].pc \in ResolverPC /\ res[c].k \in 0 .. Len(msg)
    /\ seen \in [Threads -> BOOLEAN]
    /\ crashes \in 0 .. MaxCrashes /\ calls \in 0 .. MaxCalls

IdleDriver == [pc |-> "session", k |-> 0, todo |-> {}]
IdleResolver == [pc |-> "idle", k |-> 0, decision |-> "allow", ok |-> FALSE]

Init ==
    /\ msg = <<>> /\ lock = <<>>
    /\ asked = [a \in Attempts |-> {}]
    /\ got = [a \in Attempts |-> [r \in Requests |-> {}]]
    /\ attempt = 1 /\ active = 1
    /\ blocked = FALSE /\ term = FALSE
    /\ drv = IdleDriver
    /\ res = [c \in Resolvers |-> IdleResolver]
    /\ seen = [p \in Threads |-> FALSE]
    /\ crashes = 0 /\ calls = 0

Pending(k) == msg[k].status = "queued"
HasPendingDecisions == \E k \in DOMAIN msg : Pending(k)
DriverAt(label) == drv.pc = label
At(c, label) == res[c].pc = label
Goto(c, label) == res' = [res EXCEPT ![c].pc = label]
Up == drv.pc # "down"

-----------------------------------------------------------------------------
(* The harness of the running session asks for a permission. *)

Ask(r) ==
    /\ active # 0 /\ DriverAt("session")
    /\ r \notin asked[active]
    /\ Cardinality({e \in Attempts \X Requests : e[2] \in asked[e[1]]}) < MaxMessages
    /\ asked' = [asked EXCEPT ![active] = @ \cup {r}]
    /\ UNCHANGED <<msg, got, sessionVars, lock, blocked, drv, res, seen, boundVars>>

-----------------------------------------------------------------------------
(* bridgeNativePermission. *)

\* Mutant of findPermissionByIdentity: an id is enough.
findPermissionById(r) == \E k \in DOMAIN msg : msg[k].req = r

findPermissionByIdentity(r) ==
    \E k \in DOMAIN msg : msg[k].req = r /\ msg[k].att = attempt

\* The event of a request may be seen more than once; one it knows is dropped.
BridgeEnqueue(r) ==
    /\ DriverAt("session")
    /\ r \in asked[attempt]
    /\ ~findPermissionByIdentity(r)
    /\ msg' = Append(msg, [att |-> attempt, req |-> r, status |-> "queued", res |-> "none"])
    /\ lock' = Append(lock, NoOne)
    /\ drv' = [drv EXCEPT !.pc = "bridge", !.k = Len(msg')]
    /\ UNCHANGED <<harnessVars, sessionVars, blocked, res, seen, boundVars>>

\* Under the lock of the message, which is read again: a resolver may have been faster.
BridgePublish ==
    /\ DriverAt("bridge")
    /\ lock[drv.k] = NoOne
    /\ IF Pending(drv.k)
       THEN /\ blocked' = TRUE
            /\ drv' = IdleDriver
            /\ UNCHANGED lock
       ELSE /\ lock' = [lock EXCEPT ![drv.k] = Driver]
            /\ drv' = [drv EXCEPT !.pc = "recompute"]
            /\ UNCHANGED blocked
    /\ UNCHANGED <<msg, harnessVars, sessionVars, res, seen, boundVars>>

-----------------------------------------------------------------------------
(* recomputeTaskWaiting: read, then commit. *)

WaitingTask(hadPending) ==
    IF hadPending THEN blocked \/ HasPendingDecisions ELSE blocked /\ term

DriverRecompute ==
    /\ DriverAt("recompute") \/ DriverAt("swept")
    /\ seen' = [seen EXCEPT ![Driver] = HasPendingDecisions]
    /\ drv' = [drv EXCEPT !.pc = "settle"]
    /\ UNCHANGED <<msg, harnessVars, sessionVars, lock, blocked, res, boundVars>>

\* Back to the session after a bridge, on to the end after a sweep.
DriverSettle ==
    /\ DriverAt("settle")
    /\ blocked' = WaitingTask(seen[Driver])
    /\ lock' = IF drv.k = 0 THEN lock ELSE [lock EXCEPT ![drv.k] = NoOne]
    /\ drv' = [IdleDriver EXCEPT !.pc = CASE ~term -> "session"
                                          [] term /\ active # 0 -> "unregister"
                                          [] term /\ active = 0 -> "over"]
    /\ UNCHANGED <<msg, harnessVars, sessionVars, res, seen, boundVars>>

Recompute(c) ==
    /\ At(c, "recompute")
    /\ seen' = [seen EXCEPT ![c] = HasPendingDecisions]
    /\ Goto(c, "settle")
    /\ UNCHANGED <<msg, harnessVars, sessionVars, lock, blocked, drv, boundVars>>

Settle(c) ==
    /\ At(c, "settle")
    /\ blocked' = WaitingTask(seen[c])
    /\ lock' = [lock EXCEPT ![res[c].k] = NoOne]
    /\ res' = [res EXCEPT ![c] = IdleResolver]
    /\ UNCHANGED <<msg, harnessVars, sessionVars, drv, seen, boundVars>>

-----------------------------------------------------------------------------
(* resolveNativePermission, under the operation lock of the message. *)

ResolveMessage(c, k, d) ==
    /\ Up
    /\ At(c, "idle")
    /\ calls < MaxCalls
    /\ calls' = calls + 1
    /\ res' = [res EXCEPT ![c] = [IdleResolver EXCEPT !.pc = "lock", !.k = k, !.decision = d]]
    /\ UNCHANGED <<msg, harnessVars, sessionVars, lock, blocked, drv, seen, crashes>>

\* Mutant of Freeze: the last decision counts.
FreezeAnew(c) ==
    LET k == res[c].k IN
    /\ At(c, "lock")
    /\ lock[k] = NoOne
    /\ IF Pending(k)
       THEN /\ lock' = [lock EXCEPT ![k] = c]
            /\ msg' = [msg EXCEPT ![k].res = res[c].decision]
            /\ Goto(c, "bind")
       ELSE /\ res' = [res EXCEPT ![c] = IdleResolver]
            /\ UNCHANGED <<msg, lock>>
    /\ UNCHANGED <<harnessVars, sessionVars, blocked, drv, seen, boundVars>>

\* The decision is frozen before it is delivered.  A message that has ended, or that has
\* another decision, is not resolved again.
Freeze(c) ==
    LET k == res[c].k IN
    /\ At(c, "lock")
    /\ lock[k] = NoOne
    /\ IF Pending(k) /\ msg[k].res \in {"none", res[c].decision}
       THEN /\ lock' = [lock EXCEPT ![k] = c]
            /\ msg' = [msg EXCEPT ![k].res = res[c].decision]
            /\ Goto(c, "bind")
       ELSE /\ res' = [res EXCEPT ![c] = IdleResolver]
            /\ UNCHANGED <<msg, lock>>
    /\ UNCHANGED <<harnessVars, sessionVars, blocked, drv, seen, boundVars>>

\* Mutant of validatePermissionBinding: any session of the task will do.
validateAnySession(c) ==
    LET k == res[c].k IN
    /\ At(c, "bind")
    /\ Goto(c, IF active # 0 /\ <<msg[k].req, res[c].decision>> \notin Unoffered
               THEN "reread" ELSE "recompute")
    /\ UNCHANGED <<msg, harnessVars, sessionVars, lock, blocked, drv, seen, boundVars>>

\* The session that runs must be the attempt that asked, and the harness must offer the
\* decision; otherwise the message stays as it is.
validatePermissionBinding(c) ==
    LET k == res[c].k IN
    /\ At(c, "bind")
    /\ Goto(c, IF active = msg[k].att /\ <<msg[k].req, res[c].decision>> \notin Unoffered
               THEN "reread" ELSE "recompute")
    /\ UNCHANGED <<msg, harnessVars, sessionVars, lock, blocked, drv, seen, boundVars>>

\* The registered session is looked up once more.
RereadActive(c) ==
    /\ At(c, "reread")
    /\ active # 0
    /\ Goto(c, "respond")
    /\ UNCHANGED <<msg, harnessVars, sessionVars, lock, blocked, drv, seen, boundVars>>

\* RespondPermission: within 15 s it succeeds, fails, or fails although the harness heard it.
Respond(c) ==
    LET k == res[c].k IN
    /\ At(c, "respond")
    /\ \E heard, ok \in BOOLEAN :
          /\ ok => heard
          /\ heard => active # 0
          /\ got' = IF heard THEN [got EXCEPT ![active][msg[k].req] = @ \cup {res[c].decision}]
                    ELSE got
          /\ res' = [res EXCEPT ![c].pc = "record", ![c].ok = ok]
    /\ UNCHANGED <<msg, asked, sessionVars, lock, blocked, drv, seen, boundVars>>

RecordDeliveryAttempt(c) ==
    /\ At(c, "record")
    /\ msg' = IF res[c].ok THEN [msg EXCEPT ![res[c].k].status = "answered"] ELSE msg
    /\ Goto(c, "recompute")
    /\ UNCHANGED <<harnessVars, sessionVars, lock, blocked, drv, seen, boundVars>>

-----------------------------------------------------------------------------
(* The end of a session, of the task and of the run. *)

\* Only a task that fails expires its messages before the session is unregistered.
SessionEnds ==
    /\ DriverAt("session")
    /\ term' = TRUE
    /\ \/ drv' = [drv EXCEPT !.pc = "unregister"]
       \/ drv' = [drv EXCEPT !.pc = "expire", !.todo = {k \in DOMAIN msg : Pending(k)}]
    /\ UNCHANGED <<msg, harnessVars, attempt, active, lock, blocked, res, seen, boundVars>>

Unregister ==
    /\ DriverAt("unregister")
    /\ active' = 0
    /\ drv' = [drv EXCEPT !.pc = "ended"]
    /\ UNCHANGED <<msg, harnessVars, attempt, term, lock, blocked, res, seen, boundVars>>

FinishRun ==
    /\ DriverAt("ended")
    /\ drv' = [drv EXCEPT !.pc = "expire", !.todo = {k \in DOMAIN msg : Pending(k)}]
    /\ UNCHANGED <<msg, harnessVars, sessionVars, lock, blocked, res, seen, boundVars>>

\* A message with a frozen decision is left for reconciliation.
expireOneMessage(k) ==
    /\ DriverAt("expire")
    /\ k \in drv.todo
    /\ \A j \in drv.todo : k <= j
    /\ lock[k] = NoOne
    /\ msg' = IF Pending(k) /\ msg[k].res = "none" THEN [msg EXCEPT ![k].status = "expired"] ELSE msg
    /\ drv' = [drv EXCEPT !.todo = @ \ {k}]
    /\ UNCHANGED <<harnessVars, sessionVars, lock, blocked, res, seen, boundVars>>

SweepEnds ==
    /\ DriverAt("expire")
    /\ drv.todo = {}
    /\ drv' = [drv EXCEPT !.pc = "swept"]
    /\ UNCHANGED <<msg, harnessVars, sessionVars, lock, blocked, res, seen, boundVars>>

-----------------------------------------------------------------------------
(* The Supervisor dies: locks, sessions and calls are gone, the journal stays. *)

Down ==
    /\ active' = 0
    /\ lock' = [k \in DOMAIN msg |-> NoOne]
    /\ drv' = [IdleDriver EXCEPT !.pc = "down"]
    /\ res' = [c \in Resolvers |-> IdleResolver]
    /\ seen' = [p \in Threads |-> FALSE]
    /\ UNCHANGED <<msg, harnessVars, attempt, term, blocked, calls>>

Crash ==
    /\ Up
    /\ crashes < MaxCrashes
    /\ crashes' = crashes + 1
    /\ Down

\* The session was unregistered after the binding was checked: a call of a nil adapter.
Panic(c) ==
    /\ At(c, "reread")
    /\ active = 0
    /\ Down
    /\ UNCHANGED crashes

\* The worker's exit is confirmed, and the task goes on with a new attempt if it can.
Recover ==
    /\ DriverAt("down")
    /\ \/ /\ ~term
          /\ attempt < MaxAttempts
          /\ attempt' = attempt + 1 /\ active' = attempt'
          /\ blocked' = FALSE
          /\ drv' = IdleDriver
       \/ /\ term
          /\ drv' = [IdleDriver EXCEPT !.pc = "ended"]
          /\ UNCHANGED <<attempt, active, blocked>>
    /\ UNCHANGED <<msg, harnessVars, lock, term, res, seen, boundVars>>

-----------------------------------------------------------------------------

Bridge == (\E r \in Requests : BridgeEnqueue(r)) \/ BridgePublish
Drive ==
    \/ Bridge \/ DriverRecompute \/ DriverSettle \/ Unregister \/ FinishRun \/ SweepEnds
    \/ \E k \in DOMAIN msg : expireOneMessage(k)
Resolve(c) ==
    \/ Freeze(c) \/ validatePermissionBinding(c) \/ RereadActive(c) \/ Panic(c)
    \/ Respond(c) \/ RecordDeliveryAttempt(c) \/ Recompute(c) \/ Settle(c)

Next ==
    \/ \E r \in Requests : Ask(r)
    \/ \E c \in Resolvers :
          Resolve(c) \/ \E k \in DOMAIN msg, d \in Decisions : ResolveMessage(c, k, d)
    \/ Drive \/ SessionEnds \/ Crash \/ Recover

\* The goroutines go on; the Main Agent, the worker and the machine do what they like.
Spec == Init /\ [][Next]_vars /\ WF_vars(Drive) /\ \A c \in Resolvers : WF_vars(Resolve(c))

-----------------------------------------------------------------------------
(* Properties. *)

\* Whatever is retried, by whom and after how many crashes: a harness never hears two
\* different answers to one request, a message is answered only if the harness that asked
\* heard exactly the frozen decision, and it expires only if the harness heard none.
OutcomeIsTrue ==
    /\ TypeOK
    /\ \A a \in Attempts, r \in Requests : Cardinality(got[a][r]) <= 1
    /\ \A k \in DOMAIN msg :
        LET heard == got[msg[k].att][msg[k].req] IN
        /\ msg[k].status = "answered" => heard = {msg[k].res}
        /\ msg[k].status = "expired" => heard = {}

\* A response goes to the attempt that asked: a request id that comes back in a resumed
\* session is not answered by what was decided for the old one.
OnlyToTheAsker ==
    \A a \in Attempts, r \in Requests :
        got[a][r] # {} => \E k \in DOMAIN msg : msg[k].att = a /\ msg[k].req = r
                                                /\ msg[k].res \in got[a][r]

Unseen ==
    /\ active # 0 /\ ~term
    /\ \E r \in asked[active] : ~\E k \in DOMAIN msg : msg[k].att = active /\ msg[k].req = r

\* A request of a running session is brought before the Main Agent, also when a former
\* session had one of the same id.
RequestsAreSeen == []<>~Unseen
=============================================================================

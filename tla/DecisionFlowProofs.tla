------------------------- MODULE DecisionFlowProofs -------------------------
(***************************************************************************)
(* Proofs about DecisionFlow, for any number of questions and resolvers    *)
(* and under every failure of the store, the files and the journal: the    *)
(* event log shows a message closed once and last, a scope is widened only *)
(* by a decision, and a task is not left blocked by a decision that is     *)
(* made.                                                                   *)
(***************************************************************************)
EXTENDS DecisionFlow, TLAPS

(* The inductive invariant. *)

PCs == RequestPC \cup ResolverPC \cup DriverPC \cup ExecutorPC

PCsOK ==
    /\ pc \in [Processes -> PCs]
    /\ \A m \in Requests : pc[m] \in RequestPC
    /\ \A s \in Resolvers : pc[s] \in ResolverPC
    /\ pc[Driver] \in DriverPC /\ pc[Executor] \in ExecutorPC

\* TypeOK but for the program counters.
DataOK ==
    /\ status \in [Requests -> {"none", "queued"} \cup Closed]
    /\ frozen \in [Requests -> Resolutions \cup {"none"}]
    /\ scoped \in [Requests -> BOOLEAN]
    /\ opLock \in [Requests -> Processes \cup {Nobody}]
    /\ waiter \in [Requests -> BOOLEAN] /\ wake \in [Requests -> BOOLEAN]
    /\ announced \in [Requests -> Seq({"queued"} \cup Closed)]
    /\ task \in TaskStatuses /\ local \in TaskStatuses
    /\ exited \in BOOLEAN /\ accepting \in BOOLEAN /\ ctxDone \in BOOLEAN
    /\ advance \in BOOLEAN
    /\ target \in [Resolvers -> Requests \cup {Nobody}]
    /\ seen \in [Processes -> BOOLEAN]
    /\ sweep \in [{Driver, Executor} -> Sweep]
    /\ run \in {"active", "terminal", "unfinished"}
    /\ failures \in [store : 0..MaxStoreFailures, file : 0..MaxFileFailures,
                     refusal : 0..MaxRefusals]

ClosedLast(events) ==
    \A i, j \in DOMAIN events : i < j => events[i] = "queued" /\ events[j] \in Closed
OnlyQueued(events) == Len(events) <= 1 /\ \A i \in DOMAIN events : events[i] = "queued"

\* A message and the request that serves it.  The request works under the lock of the
\* message until it waits, and no event tells of the message before it is queued.
MessageInv(m) ==
    /\ pc[m] \in {"locked", "published", "asked", "announce"} => opLock[m] = m
    /\ pc[m] \in {"published", "asked", "announce"} => status[m] = "queued"
    /\ pc[m] = "idle" => status[m] = "none"
    /\ ClosedLast(announced[m])
    /\ status[m] \notin Closed => OnlyQueued(announced[m])
    /\ status[m] \notin Closed /\ pc[m] \in {"idle", "enqueued", "locked"} =>
          announced[m] = <<>>
    /\ scoped[m] = TRUE => frozen[m] = "allow" /\ status[m] # "expired"

\* A resolver holds the lock of its message, which is open until it has answered it.
ResolverInv(s) ==
    pc[s] # "idle" =>
       /\ target[s] \in Requests /\ opLock[target[s]] = s
       /\ pc[s] \in {"scope", "answer"} =>
             status[target[s]] = "queued" /\ frozen[target[s]] # "none"
       /\ pc[s] = "scope" => frozen[target[s]] = "allow"

\* The Driver's worker may be at work.
AtWork == pc[Driver] \in {"starting", "running"}

\* The Executor waits for the Driver, and a worker at work has not exited.
SweepInv ==
    /\ pc[Executor] # "wave" => pc[Driver] \in {"done", "failed"}
    /\ AtWork => exited = FALSE

\* While the store works the index knows of an open decision only if it is open.
Indexed(m) ==
    accepting = TRUE /\ announced[m] # <<>> /\ announced[m][Len(announced[m])] = "queued" =>
       status[m] = "queued"

IndexInv == \A m \in Requests : Indexed(m)

\* The resolver will release the task if it finds nothing pending.
WillRelease(s) ==
    \/ pc[s] \in {"refresh", "recompute"}
    \/ pc[s] = "settle" /\ seen[s] = FALSE

\* What has to be so of a blocked task, but for what the Driver has copied.
BlockInv ==
    accepting = TRUE /\ AtWork /\ failures.file = 0 /\ task = "blocked" /\ local # "blocked" =>
       HasPendingDecisions \/ \E s \in Resolvers : WillRelease(s)

FlowInv ==
    /\ PCsOK /\ DataOK /\ SweepInv /\ IndexInv /\ BlockInv
    /\ \A m \in Requests : MessageInv(m)
    /\ \A s \in Resolvers : ResolverInv(s)

-----------------------------------------------------------------------------
(* The building blocks of the steps. *)

LEMMA Distinct ==
    /\ \A m \in Requests : m \in Processes /\ m \notin Resolvers
                           /\ m # Driver /\ m # Executor /\ m # Nobody
    /\ \A s \in Resolvers : s \in Processes /\ s \notin Requests
                            /\ s # Driver /\ s # Executor /\ s # Nobody
    /\ {Driver, Executor} \subseteq Processes /\ Driver # Executor
    /\ Driver \notin Requests \cup Resolvers /\ Executor \notin Requests \cup Resolvers
    /\ Driver # Nobody /\ Executor # Nobody /\ Nobody \notin Requests /\ Nobody \notin Resolvers
  BY ProcessesAreDistinct DEF Processes

\* A label that p can be at.
Label(p, l) ==
    /\ p \in Requests => l \in RequestPC
    /\ p \in Resolvers => l \in ResolverPC
    /\ p = Driver => l \in DriverPC
    /\ p = Executor => l \in ExecutorPC

LEMMA GotoMoves ==
    ASSUME PCsOK, NEW p \in Processes, NEW l, Goto(p, l), Label(p, l)
    PROVE  PCsOK' /\ pc'[p] = l /\ \A q \in Processes \ {p} : pc'[q] = pc[q]
  <1>1. l \in PCs
    BY DEF Label, PCs, Processes
  <1>2. pc' = [pc EXCEPT ![p] = l] /\ pc \in [Processes -> PCs]
    BY DEF Goto, PCsOK
  <1>3. pc' \in [Processes -> PCs] /\ pc'[p] = l /\ \A q \in Processes \ {p} : pc'[q] = pc[q]
    BY <1>1, <1>2
  <1>4. QED
    BY <1>3, Distinct DEF PCsOK, Label

FailureCounts == [store : 0..MaxStoreFailures, file : 0..MaxFileFailures,
                  refusal : 0..MaxRefusals]

\* The outcome of a step that uses the store, a file or the journal.
Store ==
    \/ StoreOK
    \/ StoreFails
    \/ UNCHANGED <<accepting, failures>>
    \/ (FileFails \/ Refused) /\ UNCHANGED accepting

LEMMA StoreKinds ==
    /\ StoreOK \/ StoreFails => Store
    /\ (FileFails \/ Refused) /\ UNCHANGED accepting => Store
    /\ UNCHANGED <<accepting, failures>> => Store
  BY DEF Store

LEMMA StoreMoves ==
    ASSUME failures \in FailureCounts, accepting \in BOOLEAN, Store
    PROVE  /\ failures' \in FailureCounts /\ accepting' \in BOOLEAN
           /\ accepting' = TRUE => accepting = TRUE
           /\ failures'.file = 0 => failures.file = 0
           /\ StoreFails => accepting' = FALSE
           /\ FileFails => failures'.file # 0
           /\ StoreOK => accepting = TRUE
  <1>1. /\ failures.store \in 0..MaxStoreFailures /\ failures.file \in 0..MaxFileFailures
        /\ failures.refusal \in 0..MaxRefusals
    BY DEF FailureCounts
  <1>2. FileFails => failures' \in FailureCounts /\ failures'.file # 0
    BY <1>1, BoundsAreNat DEF FileFails, FailureCounts
  <1>3. Refused => failures' \in FailureCounts /\ failures'.file = failures.file
    BY <1>1, BoundsAreNat DEF Refused, FailureCounts
  <1>4. StoreFails => /\ failures' \in FailureCounts /\ failures'.file = failures.file
                      /\ accepting' = FALSE
    <2>1. failures' = [failures EXCEPT !.store = @ + 1] /\ failures.store < MaxStoreFailures =>
             failures' \in FailureCounts /\ failures'.file = failures.file
      BY <1>1, BoundsAreNat DEF FailureCounts
    <2>2. QED
      BY <2>1 DEF StoreFails
  <1>5. StoreOK => failures' = failures /\ accepting' = accepting /\ accepting = TRUE
    BY DEF StoreOK
  <1>6. QED
    BY <1>2, <1>3, <1>4, <1>5 DEF Store

LEMMA FirstEvent ==
    ASSUME NEW ev, ev = Append(<<>>, "queued")
    PROVE  ev \in Seq({"queued"} \cup Closed) /\ ClosedLast(ev) /\ OnlyQueued(ev)
  BY DEF ClosedLast, OnlyQueued

LEMMA LastEvent ==
    ASSUME NEW old \in Seq({"queued"} \cup Closed), OnlyQueued(old), NEW c \in Closed
    PROVE  Append(old, c) \in Seq({"queued"} \cup Closed) /\ ClosedLast(Append(old, c))
  BY DEF ClosedLast, OnlyQueued

-----------------------------------------------------------------------------
(* What a step leaves alone. *)

\* One process moves and only message m changes, which no other resolver has locked.
LEMMA OthersKept ==
    ASSUME PCsOK, DataOK, \A n \in Requests : MessageInv(n), \A s \in Resolvers : ResolverInv(s),
           NEW p \in Processes, NEW m \in Requests,
           \A q \in Processes \ {p} : pc'[q] = pc[q],
           \A n \in Requests \ {m} :
               /\ status'[n] = status[n] /\ frozen'[n] = frozen[n] /\ scoped'[n] = scoped[n]
               /\ announced'[n] = announced[n] /\ opLock'[n] = opLock[n],
           \A s \in Resolvers \ {p} : target'[s] = target[s],
           opLock[m] \in Resolvers \ {p} =>
               /\ opLock'[m] = opLock[m] /\ frozen'[m] = frozen[m]
               /\ status[m] = "queued" => status'[m] = "queued",
           p \in Requests => p = m,
           MessageInv(m)', p \in Resolvers => ResolverInv(p)'
    PROVE  (\A n \in Requests : MessageInv(n)') /\ (\A s \in Resolvers : ResolverInv(s)')
  <1>1. ASSUME NEW n \in Requests \ {m} PROVE MessageInv(n)'
    <2>1. pc'[n] = pc[n]
      BY Distinct
    <2>2. MessageInv(n)
      OBVIOUS
    <2>3. QED
      BY <2>1, <2>2 DEF MessageInv
  <1>2. ASSUME NEW s \in Resolvers \ {p} PROVE ResolverInv(s)'
    <2>1. pc'[s] = pc[s] /\ target'[s] = target[s]
      BY Distinct
    <2>2. ResolverInv(s)
      OBVIOUS
    <2>3. QED
      BY <2>1, <2>2 DEF ResolverInv
  <1>3. QED
    BY <1>1, <1>2

\* A step that touches no message.
LEMMA MessagesKept ==
    ASSUME PCsOK, DataOK, \A n \in Requests : MessageInv(n), \A s \in Resolvers : ResolverInv(s),
           NEW p \in Processes, p \notin Requests \cup Resolvers,
           \A q \in Processes \ {p} : pc'[q] = pc[q],
           UNCHANGED <<messageVars, opLock, target>>
    PROVE  (\A n \in Requests : MessageInv(n)') /\ (\A s \in Resolvers : ResolverInv(s)')
  <1>1. ASSUME NEW n \in Requests PROVE MessageInv(n)'
    <2>1. pc'[n] = pc[n] /\ MessageInv(n)
      BY Distinct
    <2>2. QED
      BY <2>1 DEF MessageInv, messageVars
  <1>2. ASSUME NEW s \in Resolvers PROVE ResolverInv(s)'
    <2>1. pc'[s] = pc[s] /\ ResolverInv(s)
      BY Distinct
    <2>2. QED
      BY <2>1 DEF ResolverInv, messageVars
  <1>3. QED
    BY <1>1, <1>2

\* A task does not become blocked, and what excuses a blocked one stays.
LEMMA BlockKept ==
    ASSUME BlockInv, pc'[Driver] = pc[Driver],
           accepting' = TRUE => accepting = TRUE, failures'.file = 0 => failures.file = 0,
           task' = task, local' = local,
           \A m \in Requests : status[m] = "queued" => status'[m] = "queued",
           \A s \in Resolvers : WillRelease(s) => WillRelease(s)'
    PROVE  BlockInv'
  BY DEF BlockInv, AtWork, HasPendingDecisions

\* The Driver and the Executor are where they were, and so is the worker.
LEMMA SweepKept ==
    ASSUME SweepInv, pc'[Driver] = pc[Driver], pc'[Executor] = pc[Executor], exited' = exited
    PROVE  SweepInv'
  BY DEF SweepInv, AtWork

\* Nothing is told of any message but m.
LEMMA IndexKept ==
    ASSUME IndexInv, NEW m, accepting' = TRUE => accepting = TRUE,
           \A n \in Requests \ {m} : status'[n] = status[n] /\ announced'[n] = announced[n],
           m \in Requests =>
              (status'[m] = status[m] /\ announced'[m] = announced[m]) \/ Indexed(m)'
    PROVE  IndexInv'
  <1>1. ASSUME NEW n \in Requests PROVE Indexed(n)'
    <2>1. CASE status'[n] = status[n] /\ announced'[n] = announced[n]
      BY <2>1 DEF IndexInv, Indexed
    <2>2. QED
      BY <2>1
  <1>2. QED
    BY <1>1 DEF IndexInv

\* The last thing told of a message that is closed now, or nothing when the store has failed.
LEMMA IndexClosed ==
    ASSUME NEW m \in Requests,
           \/ accepting' = FALSE
           \/ \E ev \in Seq({"queued"} \cup Closed), c \in Closed : announced'[m] = Append(ev, c)
    PROVE  Indexed(m)'
  BY DEF Indexed, Closed

LEMMA ResolversRelease ==
    ASSUME NEW p \in Processes, p \notin Resolvers,
           \A q \in Processes \ {p} : pc'[q] = pc[q], \A q \in Processes \ {p} : seen'[q] = seen[q]
    PROVE  \A s \in Resolvers : WillRelease(s) => WillRelease(s)'
  BY Distinct DEF WillRelease

-----------------------------------------------------------------------------
(* RequestMessage. *)

\* A step of the request that serves message m.
LEMMA RequestMove ==
    ASSUME FlowInv, NEW m \in Requests, NEW l \in RequestPC, Goto(m, l), DataOK', Store,
           UNCHANGED <<target, exited, local>>,
           \A n \in Requests \ {m} :
               /\ status'[n] = status[n] /\ frozen'[n] = frozen[n] /\ scoped'[n] = scoped[n]
               /\ announced'[n] = announced[n] /\ opLock'[n] = opLock[n],
           opLock[m] \in Resolvers =>
               /\ opLock'[m] = opLock[m] /\ frozen'[m] = frozen[m]
               /\ status[m] = "queued" => status'[m] = "queued",
           pc'[m] = l => MessageInv(m)',
           (status'[m] = status[m] /\ announced'[m] = announced[m]) \/ Indexed(m)',
           \/ BlockInv'
           \/ /\ task' = task /\ \A q \in Processes \ {m} : seen'[q] = seen[q]
              /\ status[m] = "queued" => status'[m] = "queued"
    PROVE  FlowInv'
  <1>1. /\ m \in Processes /\ Label(m, l) /\ PCsOK /\ DataOK /\ SweepInv /\ BlockInv
        /\ IndexInv
    BY Distinct DEF Label, FlowInv
  <1>2. PCsOK' /\ pc'[m] = l /\ \A q \in Processes \ {m} : pc'[q] = pc[q]
    BY <1>1, GotoMoves
  <1>3. (\A n \in Requests : MessageInv(n)') /\ (\A s \in Resolvers : ResolverInv(s)')
    <2>1. m \notin Resolvers /\ MessageInv(m)'
      BY <1>2, Distinct
    <2>2. (\A n \in Requests : MessageInv(n)) /\ (\A s \in Resolvers : ResolverInv(s))
      BY DEF FlowInv
    <2>3. QED
      BY <1>1, <1>2, <2>1, <2>2, OthersKept
  <1>4. failures \in FailureCounts /\ accepting \in BOOLEAN /\ exited \in BOOLEAN
    BY <1>1 DEF DataOK, FailureCounts
  <1>5. /\ accepting' \in BOOLEAN
        /\ accepting' = TRUE => accepting = TRUE
        /\ failures'.file = 0 => failures.file = 0
    BY <1>4, StoreMoves
  <1>6. SweepInv' /\ IndexInv'
    <2>1. pc'[Driver] = pc[Driver] /\ pc'[Executor] = pc[Executor] /\ exited' = exited
      BY <1>2, Distinct
    <2>2. SweepInv'
      BY <1>1, <2>1, SweepKept
    <2>3. QED
      BY <1>1, <1>5, <2>2, IndexKept
  <1>7. BlockInv'
    <2>1. CASE /\ task' = task /\ \A q \in Processes \ {m} : seen'[q] = seen[q]
               /\ status[m] = "queued" => status'[m] = "queued"
      <3>1. \A s \in Resolvers : WillRelease(s) => WillRelease(s)'
        BY <1>1, <1>2, <2>1, Distinct, ResolversRelease
      <3>2. \A n \in Requests : status[n] = "queued" => status'[n] = "queued"
        BY <2>1
      <3>3. pc'[Driver] = pc[Driver]
        BY <1>2, Distinct
      <3>4. QED
        BY <1>1, <1>5, <2>1, <3>1, <3>2, <3>3, BlockKept
    <2>2. QED
      BY <2>1
  <1>8. QED
    BY <1>2, <1>3, <1>6, <1>7 DEF FlowInv

\* recomputeTaskWaiting leaves a task blocked only if a decision is pending or a resolver
\* that has not looked yet will release it.
LEMMA SettleKeepsBlock ==
    ASSUME BlockInv, SweepInv, DataOK, NEW p \in Processes, p # Driver, pc[p] = "settle",
           task' = WaitingTask(seen[p]),
           UNCHANGED <<status, local, accepting, failures, seen>>,
           \A q \in Processes \ {p} : pc'[q] = pc[q]
    PROVE  BlockInv'
  <1>1. seen[p] \in BOOLEAN /\ pc'[Driver] = pc[Driver]
    BY Distinct DEF DataOK
  <1>2. HasPendingDecisions' <=> HasPendingDecisions
    BY DEF HasPendingDecisions
  <1>3. SUFFICES ASSUME accepting = TRUE, AtWork, failures.file = 0, task' = "blocked",
                        local # "blocked", ~HasPendingDecisions
                 PROVE  \E s \in Resolvers : WillRelease(s)'
    BY <1>1, <1>2 DEF BlockInv, AtWork
  <1>4. seen[p] = TRUE /\ task = "blocked"
    BY <1>1, <1>3 DEF WaitingTask, SweepInv
  <1>5. PICK s \in Resolvers : WillRelease(s)
    BY <1>3, <1>4 DEF BlockInv
  <1>6. s # p /\ s \in Processes
    BY <1>4, <1>5, Distinct DEF WillRelease
  <1>7. WillRelease(s)'
    BY <1>5, <1>6 DEF WillRelease
  <1>8. QED
    BY <1>7

LEMMA RequestSteps ==
    ASSUME FlowInv, NEW m \in Requests,
           Enqueue(m) \/ Lock(m) \/ Request(m) \/ RequestError(m)
    PROVE  FlowInv'
  <1>1. PCsOK /\ DataOK /\ SweepInv /\ BlockInv /\ MessageInv(m) /\ m \in Processes
        /\ m \notin Resolvers /\ m # Driver /\ m # Executor /\ m # Nobody
    BY Distinct DEF FlowInv
  <1>2. CASE Enqueue(m)
    <2>1. /\ pc[m] = "idle" /\ status' = [status EXCEPT ![m] = "queued"]
          /\ Goto(m, "enqueued") /\ "enqueued" \in RequestPC /\ Store
          /\ UNCHANGED <<frozen, scoped, announced, opLock, waitVars, taskVars, runVars,
                         target, seen, sweep>>
      BY <1>2, StoreKinds DEF Enqueue, RequestPC, runVars
    <2>2. DataOK'
      BY <1>1, <2>1 DEF DataOK, waitVars, taskVars, runVars
    <2>3. pc'[m] = "enqueued" => MessageInv(m)'
      BY <1>1, <2>1 DEF MessageInv, DataOK, Closed
    <2>4. Indexed(m)' /\ status'[m] = "queued"
      BY <1>1, <2>1 DEF Indexed, DataOK
    <2>5. QED
      BY <1>1, <2>1, <2>2, <2>3, <2>4, RequestMove DEF DataOK, taskVars
  <1>3. CASE Lock(m)
    <2>1. /\ pc[m] = "enqueued" /\ opLock[m] = Nobody /\ opLock' = [opLock EXCEPT ![m] = m]
          /\ Goto(m, "locked") /\ "locked" \in RequestPC /\ Store
          /\ UNCHANGED <<messageVars, waitVars, taskVars, runVars, target, seen, sweep>>
      BY <1>3, StoreKinds DEF Lock, RequestPC, runVars
    <2>2. DataOK'
      BY <1>1, <2>1 DEF DataOK, waitVars, taskVars, runVars, messageVars
    <2>3. pc'[m] = "locked" => MessageInv(m)'
      BY <1>1, <2>1 DEF MessageInv, DataOK, Closed, messageVars
    <2>4. QED
      BY <1>1, <2>1, <2>2, <2>3, RequestMove, Distinct DEF DataOK, taskVars, messageVars
  <1>4. CASE FoundClosed(m)
    <2>1. /\ pc[m] \in {"locked", "published", "announce"}
          /\ Goto(m, "recompute") /\ "recompute" \in RequestPC /\ Store
          /\ UNCHANGED <<messageVars, opLock, target, taskVars, ctxDone, run, seen, sweep, advance>>
          /\ waiter' = [waiter EXCEPT ![m] = FALSE]
          /\ wake' = wake
      BY <1>4, StoreKinds DEF FoundClosed, RequestPC, runVars, waitVars, Unregister
    <2>2. DataOK'
      BY <1>1, <2>1, StoreMoves DEF DataOK, messageVars, taskVars, FailureCounts
    <2>3. pc'[m] = "recompute" => MessageInv(m)'
      BY <1>1, <2>1 DEF MessageInv, DataOK, Closed, messageVars
    <2>4. QED
      BY <1>1, <2>1, <2>2, <2>3, RequestMove DEF DataOK, taskVars, messageVars
  <1>5. CASE PublishQueued(m)
    <2>1. /\ pc[m] = "locked" /\ status[m] = "queued"
          /\ Goto(m, "published") /\ "published" \in RequestPC /\ Store
          /\ announced' = [announced EXCEPT ![m] = Append(@, "queued")]
          /\ waiter' = [waiter EXCEPT ![m] = TRUE]
          /\ UNCHANGED <<status, frozen, scoped, opLock, wake, advance, taskVars, accepting,
                         failures, ctxDone, run, target, seen, sweep>>
      BY <1>5, StoreKinds DEF PublishQueued, RequestPC, StoreOK, Announce
    <2>0. announced'[m] \in Seq({"queued"} \cup Closed)
          /\ ClosedLast(announced'[m]) /\ OnlyQueued(announced'[m])
      <3>1. announced[m] = <<>>
        BY <1>1, <2>1 DEF MessageInv, Closed
      <3>2. announced'[m] = Append(<<>>, "queued")
        BY <1>1, <2>1, <3>1 DEF DataOK
      <3>3. QED
        BY <3>2, FirstEvent
    <2>2. DataOK'
      BY <1>1, <2>1, <2>0 DEF DataOK, taskVars
    <2>3. pc'[m] = "published" => MessageInv(m)'
      BY <1>1, <2>1, <2>0 DEF MessageInv, DataOK, Closed
    <2>4. Indexed(m)'
      BY <2>1 DEF Indexed
    <2>5. QED
      BY <1>1, <2>1, <2>2, <2>3, <2>4, RequestMove DEF DataOK, taskVars
  <1>6. CASE PublishQuestion(m)
    <2>1. /\ pc[m] = "published"
          /\ Goto(m, "asked") /\ "asked" \in RequestPC /\ Store
          /\ UNCHANGED <<messageVars, opLock, target, taskVars, ctxDone, run, seen, sweep, advance>>
          /\ waiter' = waiter
          /\ wake' = wake
      BY <1>6, StoreKinds DEF PublishQuestion, RequestPC, runVars, waitVars, Unregister
    <2>2. DataOK'
      BY <1>1, <2>1, StoreMoves DEF DataOK, messageVars, taskVars, FailureCounts
    <2>3. pc'[m] = "asked" => MessageInv(m)'
      BY <1>1, <2>1 DEF MessageInv, DataOK, Closed, messageVars
    <2>4. QED
      BY <1>1, <2>1, <2>2, <2>3, RequestMove DEF DataOK, taskVars, messageVars
  <1>7. CASE setTaskWaiting(m)
    <2>1. /\ pc[m] = "asked" /\ task' = "blocked"
          /\ Goto(m, "announce") /\ "announce" \in RequestPC /\ Store
          /\ UNCHANGED <<messageVars, opLock, waitVars, exited, local, accepting, failures,
                         ctxDone, run, target, seen, sweep>>
      BY <1>7, StoreKinds DEF setTaskWaiting, RequestPC, StoreOK
    <2>0. BlockInv'
      BY <1>1, <2>1 DEF BlockInv, MessageInv, HasPendingDecisions, messageVars
    <2>2. DataOK'
      BY <1>1, <2>1 DEF DataOK, TaskStatuses, messageVars, waitVars
    <2>3. pc'[m] = "announce" => MessageInv(m)'
      BY <1>1, <2>1 DEF MessageInv, DataOK, Closed, messageVars
    <2>4. QED
      BY <1>1, <2>1, <2>2, <2>3, RequestMove, <2>0 DEF DataOK, taskVars, messageVars
  <1>8. CASE Block(m)
    <2>1. /\ pc[m] = "announce"
          /\ Goto(m, "waiting") /\ "waiting" \in RequestPC /\ Store
          /\ Release(m, m)
          /\ UNCHANGED <<messageVars, target, taskVars, ctxDone, run, seen, sweep, advance, wake>>
          /\ waiter' = waiter
      BY <1>8, StoreKinds DEF Block, RequestPC, waitVars
    <2>2. DataOK'
      BY <1>1, <2>1, StoreMoves DEF DataOK, Release, messageVars, taskVars, FailureCounts
    <2>3. pc'[m] = "waiting" => MessageInv(m)'
      BY <1>1, <2>1 DEF MessageInv, DataOK, Closed, Release, messageVars
    <2>4. QED
      BY <1>1, <2>1, <2>2, <2>3, RequestMove DEF DataOK, taskVars, Release, messageVars
  <1>9. CASE Woken(m)
    <2>1. /\ pc[m] = "waiting"
          /\ Goto(m, "recompute") /\ "recompute" \in RequestPC /\ Store
          /\ UNCHANGED <<messageVars, opLock, target, taskVars, ctxDone, run, seen, sweep, advance>>
          /\ waiter' = [waiter EXCEPT ![m] = FALSE]
          /\ wake' = [wake EXCEPT ![m] = FALSE]
      BY <1>9, StoreKinds DEF Woken, RequestPC, runVars, waitVars, Unregister
    <2>2. DataOK'
      BY <1>1, <2>1, StoreMoves DEF DataOK, messageVars, taskVars, FailureCounts
    <2>3. pc'[m] = "recompute" => MessageInv(m)'
      BY <1>1, <2>1 DEF MessageInv, DataOK, Closed, messageVars
    <2>4. QED
      BY <1>1, <2>1, <2>2, <2>3, RequestMove DEF DataOK, taskVars, messageVars
  <1>10. CASE Cancelled(m)
    <2>1. /\ pc[m] = "waiting"
          /\ Goto(m, "recompute") /\ "recompute" \in RequestPC /\ Store
          /\ UNCHANGED <<messageVars, opLock, target, taskVars, ctxDone, run, seen, sweep, advance>>
          /\ waiter' = [waiter EXCEPT ![m] = FALSE]
          /\ wake' = wake
      BY <1>10, StoreKinds DEF Cancelled, RequestPC, runVars, waitVars, Unregister
    <2>2. DataOK'
      BY <1>1, <2>1, StoreMoves DEF DataOK, messageVars, taskVars, FailureCounts
    <2>3. pc'[m] = "recompute" => MessageInv(m)'
      BY <1>1, <2>1 DEF MessageInv, DataOK, Closed, messageVars
    <2>4. QED
      BY <1>1, <2>1, <2>2, <2>3, RequestMove DEF DataOK, taskVars, messageVars
  <1>11. CASE Recompute(m)
    <2>1. /\ pc[m] = "recompute"
          /\ Goto(m, "settle") /\ "settle" \in RequestPC /\ Store
          /\ seen' = [seen EXCEPT ![m] = HasPendingDecisions]
          /\ UNCHANGED <<messageVars, opLock, waitVars, taskVars, runVars, target, sweep>>
      BY <1>11, StoreKinds DEF Recompute, RequestPC, runVars
    <2>0. HasPendingDecisions \in BOOLEAN
      BY DEF HasPendingDecisions
    <2>2. DataOK'
      BY <1>1, <2>1, <2>0 DEF DataOK, waitVars, taskVars, runVars, messageVars
    <2>3. pc'[m] = "settle" => MessageInv(m)'
      BY <1>1, <2>1 DEF MessageInv, DataOK, Closed, messageVars
    <2>4. QED
      BY <1>1, <2>1, <2>2, <2>3, RequestMove DEF DataOK, taskVars, messageVars
  <1>12. CASE Settle(m)
    <2>1. /\ pc[m] = "settle"
          /\ Goto(m, "done") /\ "done" \in RequestPC /\ Store
          /\ Release(m, m)
          /\ task' = WaitingTask(seen[m])
          /\ UNCHANGED <<messageVars, waitVars, exited, local, accepting, failures, ctxDone, run,
                         target, seen, sweep>>
      BY <1>1, <1>12, StoreKinds DEF Settle, Settled, RequestPC, StoreOK, Release
    <2>0. task' \in TaskStatuses /\ seen[m] \in BOOLEAN
      BY <1>1, <2>1, Distinct DEF DataOK, WaitingTask, TaskStatuses
    <2>0b. BlockInv'
      <3>1. \A q \in Processes \ {m} : pc'[q] = pc[q]
        BY <1>1, <2>1 DEF Goto, PCsOK
      <3>2. QED
        BY <1>1, <2>0, <2>1, <3>1, SettleKeepsBlock DEF messageVars
    <2>2. DataOK'
      BY <1>1, <2>1, <2>0 DEF DataOK, Release, messageVars, waitVars
    <2>3. pc'[m] = "done" => MessageInv(m)'
      BY <1>1, <2>1 DEF MessageInv, DataOK, Closed, Release, messageVars
    <2>4. QED
      BY <1>1, <2>1, <2>2, <2>3, RequestMove, <2>0b DEF DataOK, taskVars, Release, messageVars
  <1>13. CASE PublishQuestionFails(m)
    <2>1. /\ pc[m] = "published" /\ FileFails /\ UNCHANGED accepting
          /\ Goto(m, "recompute") /\ "recompute" \in RequestPC /\ Store
          /\ status' = [status EXCEPT ![m] = "failed"]
          /\ \/ announced' = [announced EXCEPT ![m] = Append(@, "failed")]
             \/ announced' = announced /\ accepting = FALSE
          /\ waiter' = [waiter EXCEPT ![m] = FALSE]
          /\ UNCHANGED <<frozen, scoped, opLock, wake, advance, taskVars, ctxDone, run, target,
                         seen, sweep>>
      BY <1>13, StoreKinds DEF PublishQuestionFails, RequestPC, Announce, Unregister
    <2>0. announced' \in [Requests -> Seq({"queued"} \cup Closed)] /\ ClosedLast(announced'[m])
          /\ \A n \in Requests \ {m} : announced'[n] = announced[n]
      <3>1. announced \in [Requests -> Seq({"queued"} \cup Closed)]
            /\ OnlyQueued(announced[m]) /\ ClosedLast(announced[m]) /\ "failed" \in Closed
        BY <1>1, <2>1 DEF MessageInv, DataOK, Closed
      <3>2. Append(announced[m], "failed") \in Seq({"queued"} \cup Closed)
            /\ ClosedLast(Append(announced[m], "failed"))
        BY <3>1, LastEvent
      <3>3. QED
        BY <2>1, <3>1, <3>2
    <2>0c. failures' \in FailureCounts /\ accepting' \in BOOLEAN
      BY <1>1, <2>1, StoreMoves DEF DataOK, FailureCounts
    <2>0b. BlockInv'
      BY <1>1, <2>1, StoreMoves DEF BlockInv, DataOK, FailureCounts
    <2>2. DataOK'
      BY <1>1, <2>1, <2>0, <2>0c DEF DataOK, Closed, taskVars, FailureCounts
    <2>3. pc'[m] = "recompute" => MessageInv(m)'
      BY <1>1, <2>1, <2>0 DEF MessageInv, DataOK, Closed
    <2>4. Indexed(m)'
      <3>1. announced[m] \in Seq({"queued"} \cup Closed) /\ "failed" \in Closed
        BY <1>1 DEF DataOK, Closed
      <3>2. accepting' = FALSE \/ announced'[m] = Append(announced[m], "failed")
        BY <1>1, <2>1 DEF DataOK
      <3>3. QED
        BY <3>1, <3>2, IndexClosed
    <2>5. QED
      BY <1>1, <2>1, <2>2, <2>3, <2>4, RequestMove, <2>0, <2>0b DEF DataOK, taskVars, MessageInv
  <1>14. CASE RefreshQuestionFails(m)
    <2>1. /\ pc[m] = "published"
          /\ Goto(m, "recompute") /\ "recompute" \in RequestPC /\ Store
          /\ UNCHANGED <<messageVars, opLock, target, taskVars, ctxDone, run, seen, sweep, advance>>
          /\ waiter' = [waiter EXCEPT ![m] = FALSE]
          /\ wake' = wake
      BY <1>14, StoreKinds DEF RefreshQuestionFails, RequestPC, runVars, waitVars, Unregister
    <2>2. DataOK'
      BY <1>1, <2>1, StoreMoves DEF DataOK, messageVars, taskVars, FailureCounts
    <2>3. pc'[m] = "recompute" => MessageInv(m)'
      BY <1>1, <2>1 DEF MessageInv, DataOK, Closed, messageVars
    <2>4. QED
      BY <1>1, <2>1, <2>2, <2>3, RequestMove DEF DataOK, taskVars, messageVars
  <1>15. CASE RequestFails(m)
    <2>1. /\ pc[m] \in {"locked", "asked"}
          /\ Goto(m, "done") /\ "done" \in RequestPC /\ Store
          /\ Release(m, m)
          /\ UNCHANGED <<messageVars, target, taskVars, ctxDone, run, seen, sweep, advance, wake>>
          /\ waiter' = [waiter EXCEPT ![m] = FALSE]
      BY <1>15, StoreKinds DEF RequestFails, RequestPC, Unregister
    <2>2. DataOK'
      BY <1>1, <2>1, StoreMoves DEF DataOK, Release, messageVars, taskVars, FailureCounts
    <2>3. pc'[m] = "done" => MessageInv(m)'
      BY <1>1, <2>1 DEF MessageInv, DataOK, Closed, Release, messageVars
    <2>4. QED
      BY <1>1, <2>1, <2>2, <2>3, RequestMove DEF DataOK, taskVars, Release, messageVars
  <1>16. CASE BlockFails(m)
    <2>1. /\ pc[m] = "announce"
          /\ Goto(m, "recompute") /\ "recompute" \in RequestPC /\ Store
          /\ UNCHANGED <<messageVars, opLock, target, taskVars, ctxDone, run, seen, sweep, advance>>
          /\ waiter' = [waiter EXCEPT ![m] = FALSE]
          /\ wake' = wake
      BY <1>16, StoreKinds DEF BlockFails, RequestPC, runVars, waitVars, Unregister
    <2>2. DataOK'
      BY <1>1, <2>1, StoreMoves DEF DataOK, messageVars, taskVars, FailureCounts
    <2>3. pc'[m] = "recompute" => MessageInv(m)'
      BY <1>1, <2>1 DEF MessageInv, DataOK, Closed, messageVars
    <2>4. QED
      BY <1>1, <2>1, <2>2, <2>3, RequestMove DEF DataOK, taskVars, messageVars
  <1>17. CASE SettleFails(m)
    <2>1. /\ pc[m] = "settle"
          /\ Goto(m, "done") /\ "done" \in RequestPC /\ Store
          /\ Release(m, m)
          /\ UNCHANGED <<messageVars, taskVars, ctxDone, run, seen, sweep, advance, wake>>
          /\ waiter' = waiter /\ target' = [s \in Resolvers |-> IF s = m THEN Nobody ELSE target[s]]
      BY <1>1, <1>17, StoreKinds DEF SettleFails, Settled, Subject, RequestPC, waitVars
    <2>0. target' = target
      BY <1>1, <2>1 DEF DataOK
    <2>2. DataOK'
      BY <1>1, <2>1, StoreMoves DEF DataOK, Release, messageVars, taskVars, FailureCounts
    <2>3. pc'[m] = "done" => MessageInv(m)'
      BY <1>1, <2>1 DEF MessageInv, DataOK, Closed, Release, messageVars
    <2>4. QED
      BY <1>1, <2>1, <2>2, <2>3, RequestMove, <2>0 DEF DataOK, taskVars, Release, messageVars
  <1>18. QED
    BY <1>2, <1>3, <1>4, <1>5, <1>6, <1>7, <1>8, <1>9, <1>10, <1>11, <1>12, <1>13, <1>14, <1>15,
       <1>16, <1>17
    DEF Request, RequestError

-----------------------------------------------------------------------------
(* ResolveMessage. *)

\* A step of resolver s, which works on message m under its lock or takes it.
LEMMA ResolverMove ==
    ASSUME FlowInv, NEW s \in Resolvers, NEW m \in Requests, NEW l \in ResolverPC,
           Goto(s, l), DataOK', Store, UNCHANGED <<exited, local>>,
           \A n \in Requests \ {m} :
               /\ status'[n] = status[n] /\ frozen'[n] = frozen[n] /\ scoped'[n] = scoped[n]
               /\ announced'[n] = announced[n] /\ opLock'[n] = opLock[n],
           \A r \in Resolvers \ {s} : target'[r] = target[r],
           opLock[m] \in {s, Nobody},
           pc'[m] = pc[m] => MessageInv(m)', pc'[s] = l => ResolverInv(s)',
           (status'[m] = status[m] /\ announced'[m] = announced[m]) \/ Indexed(m)',
           \/ accepting' = FALSE
           \/ failures'.file # 0
           \/ pc'[s] = l => WillRelease(s)'
           \/ /\ task' = task /\ \A q \in Processes \ {s} : seen'[q] = seen[q]
              /\ status[m] = "queued" => status'[m] = "queued"
              /\ pc[s] \notin {"refresh", "recompute", "settle"}
           \/ (\A q \in Processes \ {s} : pc'[q] = pc[q]) => BlockInv'
    PROVE  FlowInv'
  <1>1. /\ s \in Processes /\ Label(s, l) /\ PCsOK /\ DataOK /\ SweepInv /\ BlockInv
        /\ IndexInv
    BY Distinct DEF Label, FlowInv
  <1>2. PCsOK' /\ pc'[s] = l /\ \A q \in Processes \ {s} : pc'[q] = pc[q]
    BY <1>1, GotoMoves
  <1>3. (\A n \in Requests : MessageInv(n)') /\ (\A r \in Resolvers : ResolverInv(r)')
    <2>1. s \notin Requests /\ ResolverInv(s)' /\ MessageInv(m)' /\ m \in Processes \ {s}
      BY <1>2, Distinct
    <2>2. (\A n \in Requests : MessageInv(n)) /\ (\A r \in Resolvers : ResolverInv(r))
      BY DEF FlowInv
    <2>3. opLock[m] \notin Resolvers \ {s}
      BY Distinct
    <2>4. QED
      BY <1>1, <1>2, <2>1, <2>2, <2>3, OthersKept
  <1>4. failures \in FailureCounts /\ accepting \in BOOLEAN /\ exited \in BOOLEAN
    BY <1>1 DEF DataOK, FailureCounts
  <1>5. /\ accepting' \in BOOLEAN
        /\ accepting' = TRUE => accepting = TRUE
        /\ failures'.file = 0 => failures.file = 0
    BY <1>4, StoreMoves
  <1>6. SweepInv' /\ IndexInv' /\ pc'[Driver] = pc[Driver]
    <2>1. pc'[Driver] = pc[Driver] /\ pc'[Executor] = pc[Executor]
      BY <1>2, Distinct
    <2>2. SweepInv'
      BY <1>1, <2>1, SweepKept
    <2>3. QED
      BY <1>1, <1>5, <2>1, <2>2, IndexKept
  <1>7. BlockInv'
    <2>1. CASE accepting' = FALSE \/ failures'.file # 0
      BY <2>1 DEF BlockInv
    <2>2. CASE pc'[s] = l => WillRelease(s)'
      <3>1. WillRelease(s)'
        BY <1>2, <2>2
      <3>2. QED
        BY <3>1 DEF BlockInv
    <2>3. CASE /\ task' = task /\ \A q \in Processes \ {s} : seen'[q] = seen[q]
               /\ status[m] = "queued" => status'[m] = "queued"
               /\ pc[s] \notin {"refresh", "recompute", "settle"}
      <3>1. ASSUME NEW r \in Resolvers, WillRelease(r) PROVE WillRelease(r)'
        <4>1. r \in Processes \ {s}
          BY <2>3, <3>1, Distinct DEF WillRelease
        <4>2. QED
          BY <1>2, <2>3, <3>1, <4>1 DEF WillRelease
      <3>2. \A n \in Requests : status[n] = "queued" => status'[n] = "queued"
        BY <2>3
      <3>3. QED
        BY <1>1, <1>5, <1>6, <2>3, <3>1, <3>2, BlockKept
    <2>4. QED
      BY <1>2, <2>1, <2>2, <2>3
  <1>8. QED
    BY <1>2, <1>3, <1>6, <1>7 DEF FlowInv

\* The resolver returns and its lock is free again.
LEMMA LeaveMove ==
    ASSUME FlowInv, NEW s \in Resolvers, pc[s] # "idle", Leave(s), Store, DataOK',
           UNCHANGED <<messageVars, taskVars, seen>>,
           \/ pc[s] \notin {"refresh", "recompute", "settle"}
           \/ accepting' = FALSE
           \/ failures'.file # 0
    PROVE  FlowInv'
  <1>1. PCsOK /\ DataOK /\ SweepInv /\ BlockInv /\ ResolverInv(s) /\ s \in Processes
        /\ s \notin Requests /\ s # Nobody
    BY Distinct DEF FlowInv
  <1>2. PICK m \in Requests : m = target[s] /\ opLock[m] = s
    BY <1>1 DEF ResolverInv
  <1>3. MessageInv(m) /\ m # s
    BY <1>1 DEF FlowInv
  <1>4. /\ opLock' = [opLock EXCEPT ![m] = Nobody] /\ target' = [target EXCEPT ![s] = Nobody]
        /\ Goto(s, "idle") /\ "idle" \in ResolverPC
    BY <1>1, <1>2 DEF Leave, Release, DataOK, ResolverPC
  <1>5. pc'[m] = pc[m] => MessageInv(m)'
    BY <1>1, <1>2, <1>3, <1>4 DEF MessageInv, DataOK, messageVars
  <1>6. pc'[s] = "idle" => ResolverInv(s)'
    BY DEF ResolverInv
  <1>7. \A n \in Requests \ {m} :
               /\ status'[n] = status[n] /\ frozen'[n] = frozen[n] /\ scoped'[n] = scoped[n]
               /\ announced'[n] = announced[n] /\ opLock'[n] = opLock[n]
    BY <1>1, <1>4 DEF messageVars, DataOK
  <1>8. \A r \in Resolvers \ {s} : target'[r] = target[r]
    BY <1>1, <1>4 DEF DataOK
  <1>9. UNCHANGED <<status, announced, task, local, exited, seen>>
    BY DEF messageVars, taskVars
  <1>10. QED
    BY <1>1, <1>2, <1>4, <1>5, <1>6, <1>7, <1>8, <1>9, ResolverMove

LEMMA FreezeStep ==
    ASSUME FlowInv, NEW s \in Resolvers, NEW m \in Requests, NEW r \in Resolutions, Freeze(s, m, r)
    PROVE  FlowInv'
  <1>1. PCsOK /\ DataOK /\ MessageInv(m) /\ s \in Processes
        /\ s \notin Requests /\ s # Nobody /\ m # s /\ m # Nobody
    BY Distinct DEF FlowInv
  <1>2. PICK l \in {"scope", "answer"} : Goto(s, l) /\ (l = "scope" => r = "allow")
    BY DEF Freeze
  <1>3. /\ pc[s] = "idle" /\ opLock[m] = Nobody /\ status[m] = "queued" /\ frozen[m] \in {"none", r}
        /\ frozen' = [frozen EXCEPT ![m] = r] /\ opLock' = [opLock EXCEPT ![m] = s]
        /\ target' = [target EXCEPT ![s] = m] /\ l \in ResolverPC /\ Store
        /\ UNCHANGED <<status, scoped, announced, waitVars, taskVars, runVars, seen, sweep>>
    BY <1>2, StoreKinds DEF Freeze, ResolverPC, runVars
  <1>4. DataOK'
    BY <1>1, <1>3 DEF DataOK, waitVars, taskVars, runVars
  <1>5. pc'[m] = pc[m] => MessageInv(m)'
    BY <1>1, <1>3 DEF MessageInv, DataOK
  <1>6. pc'[s] = l => ResolverInv(s)'
    BY <1>1, <1>2, <1>3 DEF ResolverInv, DataOK, Resolutions
  <1>7. \A n \in Requests \ {m} :
               /\ status'[n] = status[n] /\ frozen'[n] = frozen[n] /\ scoped'[n] = scoped[n]
               /\ announced'[n] = announced[n] /\ opLock'[n] = opLock[n]
    BY <1>1, <1>3 DEF DataOK
  <1>8. (\A q \in Resolvers \ {s} : target'[q] = target[q])
        /\ UNCHANGED <<exited, local, task, seen, status, announced>>
    BY <1>1, <1>3 DEF DataOK, taskVars
  <1>9. QED
    BY <1>1, <1>2, <1>3, <1>4, <1>5, <1>6, <1>7, <1>8, ResolverMove

LEMMA ResolverSteps ==
    ASSUME FlowInv, NEW s \in Resolvers, Resolve(s) \/ ResolveError(s)
    PROVE  FlowInv'
  <1>1. PCsOK /\ DataOK /\ SweepInv /\ BlockInv /\ ResolverInv(s) /\ s \in Processes
        /\ s \notin Requests /\ s # Nobody /\ s # Driver /\ s # Executor
    BY Distinct DEF FlowInv
  <1>2. pc[s] # "idle"
    BY DEF Resolve, ResolveError, approveScope, Answer, Refresh, Recompute, Settle, FinishResolve,
           ResolveRefused, AnswerFails, RefreshFails, ResolveFails, SettleFails
  <1>3. PICK m \in Requests : m = target[s] /\ opLock[m] = s
    BY <1>1, <1>2 DEF ResolverInv
  <1>4. MessageInv(m) /\ m # s
    BY <1>1 DEF FlowInv
  <1>5. /\ failures \in FailureCounts /\ accepting \in BOOLEAN
    BY <1>1 DEF DataOK, FailureCounts
  <1>6. CASE approveScope(s)
    <2>1. /\ pc[s] = "scope" /\ scoped' = [scoped EXCEPT ![m] = TRUE] /\ Goto(s, "answer")
          /\ "answer" \in ResolverPC /\ Store
          /\ UNCHANGED <<status, frozen, announced, opLock, waitVars, taskVars, accepting, failures,
                         ctxDone, run, target, seen, sweep>>
      BY <1>3, <1>6, StoreKinds DEF approveScope, ResolverPC, StoreOK
    <2>2. DataOK'
      BY <1>1, <2>1 DEF DataOK, waitVars, taskVars
    <2>3. pc'[m] = pc[m] => MessageInv(m)'
      BY <1>1, <1>3, <1>4, <2>1 DEF MessageInv, ResolverInv, DataOK
    <2>4. pc'[s] = "answer" => ResolverInv(s)'
      BY <1>1, <1>3, <2>1 DEF ResolverInv
    <2>5. \A n \in Requests \ {m} : scoped'[n] = scoped[n]
      BY <1>1, <2>1 DEF DataOK
    <2>6. QED
      BY <1>1, <1>3, <2>1, <2>2, <2>3, <2>4, <2>5, ResolverMove DEF taskVars
  <1>7. CASE Answer(s)
    <2>1. /\ pc[s] = "answer" /\ status' = [status EXCEPT ![m] = "answered"]
          /\ announced' = [announced EXCEPT ![m] = Append(@, "answered")]
          /\ wake' = [wake EXCEPT ![m] = @ \/ waiter[m]] /\ waiter' = [waiter EXCEPT ![m] = FALSE]
          /\ Goto(s, "refresh") /\ "refresh" \in ResolverPC /\ Store
          /\ UNCHANGED <<frozen, scoped, opLock, advance, taskVars, accepting, failures, ctxDone, run,
                         target, seen, sweep>>
      BY <1>3, <1>7, StoreKinds DEF Answer, Announce, Notify, ResolverPC, StoreOK
    <2>2. status[m] = "queued" /\ "answered" \in Closed
      BY <1>1, <1>3, <2>1 DEF ResolverInv, Closed
    <2>3. announced' \in [Requests -> Seq({"queued"} \cup Closed)] /\ ClosedLast(announced'[m])
          /\ \A n \in Requests \ {m} : announced'[n] = announced[n]
      <3>1. announced \in [Requests -> Seq({"queued"} \cup Closed)] /\ OnlyQueued(announced[m])
        BY <1>1, <1>4, <2>2 DEF MessageInv, DataOK, Closed
      <3>2. Append(announced[m], "answered") \in Seq({"queued"} \cup Closed)
            /\ ClosedLast(Append(announced[m], "answered"))
        BY <2>2, <3>1, LastEvent
      <3>3. QED
        BY <2>1, <3>1, <3>2
    <2>4. DataOK'
      <3>1. wake' \in [Requests -> BOOLEAN] /\ waiter' \in [Requests -> BOOLEAN]
            /\ status' \in [Requests -> {"none", "queued"} \cup Closed]
        BY <1>1, <2>1, <2>2 DEF DataOK
      <3>2. QED
        BY <1>1, <2>1, <2>3, <3>1 DEF DataOK, taskVars
    <2>5. pc'[m] = pc[m] => MessageInv(m)'
      BY <1>1, <1>3, <1>4, <2>1, <2>2, <2>3 DEF MessageInv, DataOK, Closed
    <2>6. pc'[s] = "refresh" => ResolverInv(s)' /\ WillRelease(s)'
      BY <1>1, <1>3, <2>1 DEF ResolverInv, WillRelease
    <2>7. \A n \in Requests \ {m} : status'[n] = status[n]
      BY <1>1, <2>1 DEF DataOK
    <2>8. Indexed(m)'
      <3>1. announced'[m] = Append(announced[m], "answered")
            /\ announced[m] \in Seq({"queued"} \cup Closed)
        BY <1>1, <2>1 DEF DataOK
      <3>2. QED
        BY <2>2, <3>1, IndexClosed
    <2>9. QED
      BY <1>1, <1>3, <2>1, <2>3, <2>4, <2>5, <2>6, <2>7, <2>8, ResolverMove DEF taskVars
  <1>8. CASE AnswerFails(s)
    <2>1. /\ pc[s] = "answer" /\ status' = [status EXCEPT ![m] = "answered"] /\ Store /\ StoreFails
          /\ opLock' = [opLock EXCEPT ![m] = Nobody] /\ target' = [target EXCEPT ![s] = Nobody]
          /\ Goto(s, "idle") /\ "idle" \in ResolverPC
          /\ UNCHANGED <<frozen, scoped, announced, waitVars, taskVars, ctxDone, run, seen, sweep>>
      BY <1>1, <1>3, <1>8, StoreKinds DEF AnswerFails, Leave, Release, DataOK, ResolverPC
    <2>2. failures' \in FailureCounts /\ accepting' = FALSE
      BY <1>5, <2>1, StoreMoves
    <2>3. DataOK'
      BY <1>1, <2>1, <2>2 DEF DataOK, FailureCounts, Closed, waitVars, taskVars
    <2>4. status[m] = "queued"
      BY <1>1, <1>3, <2>1 DEF ResolverInv
    <2>5. pc'[m] = pc[m] => MessageInv(m)'
      BY <1>1, <1>3, <1>4, <2>1, <2>4 DEF MessageInv, DataOK, Closed
    <2>6. pc'[s] = "idle" => ResolverInv(s)'
      BY DEF ResolverInv
    <2>7. (\A n \in Requests \ {m} : status'[n] = status[n] /\ opLock'[n] = opLock[n])
          /\ \A r \in Resolvers \ {s} : target'[r] = target[r]
      BY <1>1, <2>1 DEF DataOK
    <2>8. Indexed(m)'
      BY <2>2 DEF Indexed
    <2>9. QED
      BY <1>1, <1>3, <2>1, <2>2, <2>3, <2>5, <2>6, <2>7, <2>8, ResolverMove DEF taskVars
  <1>9. CASE Refresh(s)
    <2>1. /\ pc[s] = "refresh" /\ Goto(s, "recompute") /\ "recompute" \in ResolverPC /\ Store
          /\ UNCHANGED <<messageVars, opLock, waitVars, taskVars, runVars, target, seen, sweep>>
      BY <1>9, StoreKinds DEF Refresh, ResolverPC, runVars
    <2>2. DataOK'
      BY <1>1, <2>1 DEF DataOK, messageVars, waitVars, taskVars, runVars
    <2>3. pc'[m] = pc[m] => MessageInv(m)'
      BY <1>4, <2>1 DEF MessageInv, messageVars
    <2>4. pc'[s] = "recompute" => ResolverInv(s)' /\ WillRelease(s)'
      BY <1>1, <1>3, <2>1 DEF ResolverInv, WillRelease
    <2>5. QED
      BY <1>1, <1>3, <2>1, <2>2, <2>3, <2>4, ResolverMove DEF taskVars, messageVars
  <1>10. CASE Recompute(s)
    <2>1. /\ pc[s] = "recompute" /\ Goto(s, "settle") /\ "settle" \in ResolverPC /\ Store
          /\ seen' = [seen EXCEPT ![s] = HasPendingDecisions] /\ HasPendingDecisions \in BOOLEAN
          /\ UNCHANGED <<messageVars, opLock, waitVars, taskVars, runVars, target, sweep>>
      BY <1>10, StoreKinds DEF Recompute, ResolverPC, runVars, HasPendingDecisions
    <2>2. DataOK'
      BY <1>1, <2>1 DEF DataOK, messageVars, waitVars, taskVars, runVars
    <2>3. pc'[m] = pc[m] => MessageInv(m)'
      BY <1>4, <2>1 DEF MessageInv, messageVars
    <2>4. pc'[s] = "settle" => ResolverInv(s)'
      BY <1>1, <1>3, <2>1 DEF ResolverInv
    <2>5. (pc'[s] = "settle" => WillRelease(s)') \/ BlockInv'
      <3>1. CASE HasPendingDecisions
        <4>1. HasPendingDecisions'
          BY <2>1, <3>1 DEF HasPendingDecisions, messageVars
        <4>2. QED
          BY <4>1 DEF BlockInv
      <3>2. CASE ~HasPendingDecisions
        <4>1. seen'[s] = FALSE
          BY <1>1, <2>1, <3>2 DEF DataOK
        <4>2. QED
          BY <4>1 DEF WillRelease
      <3>3. QED
        BY <3>1, <3>2
    <2>6. QED
      BY <1>1, <1>3, <2>1, <2>2, <2>3, <2>4, <2>5, ResolverMove DEF taskVars, messageVars
  <1>11. CASE Settle(s)
    <2>1. /\ pc[s] = "settle" /\ Goto(s, "announce") /\ "announce" \in ResolverPC /\ Store
          /\ task' = WaitingTask(seen[s])
          /\ UNCHANGED <<messageVars, opLock, waitVars, exited, local, accepting, failures, ctxDone,
                         run, target, seen, sweep>>
      BY <1>1, <1>11, StoreKinds DEF Settle, Settled, ResolverPC, StoreOK
    <2>2. DataOK'
      <3>1. task' \in TaskStatuses
        BY <1>1, <2>1 DEF DataOK, WaitingTask, TaskStatuses
      <3>2. QED
        BY <1>1, <2>1, <3>1 DEF DataOK, messageVars, waitVars
    <2>3. pc'[m] = pc[m] => MessageInv(m)'
      BY <1>4, <2>1 DEF MessageInv, messageVars
    <2>4. pc'[s] = "announce" => ResolverInv(s)'
      BY <1>1, <1>3, <2>1 DEF ResolverInv
    <2>5. (\A q \in Processes \ {s} : pc'[q] = pc[q]) => BlockInv'
      BY <1>1, <2>1, SettleKeepsBlock DEF messageVars
    <2>6. QED
      BY <1>1, <1>3, <2>1, <2>2, <2>3, <2>4, <2>5, ResolverMove DEF messageVars
  <1>12. ASSUME FinishResolve(s) \/ ResolveRefused(s) \/ RefreshFails(s) \/ ResolveFails(s)
                \/ SettleFails(s)
         PROVE  FlowInv'
    <2>1. /\ Leave(s) /\ Store /\ UNCHANGED <<messageVars, taskVars, waiter, wake, ctxDone, run, seen, sweep>>
          /\ advance' \in BOOLEAN
      <3>1. advance \in BOOLEAN
        BY <1>1 DEF DataOK
      <3>2. CASE FinishResolve(s)
        BY <3>1, <3>2, StoreKinds DEF FinishResolve, HasPendingDecisions
      <3>3. CASE SettleFails(s)
        <4>1. target' = [target EXCEPT ![s] = Nobody]
          BY <1>1, <3>3 DEF SettleFails, DataOK
        <4>2. QED
          BY <1>1, <3>1, <3>3, <4>1, StoreKinds DEF SettleFails, Subject, Leave, waitVars
      <3>4. QED
        BY <1>12, <3>1, <3>2, <3>3, StoreKinds
        DEF ResolveRefused, RefreshFails, ResolveFails, waitVars
    <2>2. failures' \in FailureCounts /\ accepting' \in BOOLEAN
      BY <1>5, <2>1, StoreMoves
    <2>3. DataOK'
      <3>1. opLock' \in [Requests -> Processes \cup {Nobody}]
            /\ target' \in [Resolvers -> Requests \cup {Nobody}]
        BY <1>1, <1>3, <2>1 DEF DataOK, Leave, Release
      <3>2. QED
        BY <1>1, <2>1, <2>2, <3>1 DEF DataOK, FailureCounts, messageVars, taskVars
    <2>4. \/ pc[s] \notin {"refresh", "recompute", "settle"}
          \/ accepting' = FALSE
          \/ failures'.file # 0
      BY <1>5, <1>12, <2>1, StoreMoves
      DEF FinishResolve, ResolveRefused, RefreshFails, ResolveFails, SettleFails
    <2>5. QED
      BY <1>2, <2>1, <2>3, <2>4, LeaveMove DEF taskVars
  <1>13. QED
    BY <1>6, <1>7, <1>8, <1>9, <1>10, <1>11, <1>12 DEF Resolve, ResolveError

-----------------------------------------------------------------------------
(* The end of the task and of the run. *)

\* A step that is not a sweep's, of the Driver or the Executor.
LEMMA MainMove ==
    ASSUME FlowInv, NEW p \in {Driver, Executor}, NEW l, Goto(p, l), Label(p, l), DataOK', Store,
           UNCHANGED <<messageVars, opLock, target, seen>>,
           pc'[p] = l /\ (\A q \in Processes \ {p} : pc'[q] = pc[q]) => SweepInv',
           \/ p = Driver /\ l \notin {"starting", "running"}
           \/ p = Executor /\ UNCHANGED <<task, local>>
           \/ BlockInv'
    PROVE  FlowInv'
  <1>1. /\ p \in Processes /\ p \notin Requests \cup Resolvers /\ PCsOK /\ DataOK /\ BlockInv
        /\ IndexInv /\ Driver \in Processes /\ Driver # Executor
    BY Distinct DEF FlowInv
  <1>2. PCsOK' /\ pc'[p] = l /\ \A q \in Processes \ {p} : pc'[q] = pc[q]
    BY <1>1, GotoMoves
  <1>3. (\A n \in Requests : MessageInv(n)') /\ (\A s \in Resolvers : ResolverInv(s)')
    <2>1. (\A n \in Requests : MessageInv(n)) /\ (\A s \in Resolvers : ResolverInv(s))
      BY DEF FlowInv
    <2>2. QED
      BY <1>1, <1>2, <2>1, MessagesKept
  <1>4. failures \in FailureCounts /\ accepting \in BOOLEAN
    BY <1>1 DEF DataOK, FailureCounts
  <1>5. /\ accepting' = TRUE => accepting = TRUE
        /\ failures'.file = 0 => failures.file = 0
    BY <1>4, StoreMoves
  <1>6. UNCHANGED <<status, announced>>
    BY DEF messageVars
  <1>7. BlockInv'
    <2>1. CASE p = Driver /\ l \notin {"starting", "running"}
      BY <1>2, <2>1 DEF BlockInv, AtWork
    <2>2. CASE p = Executor /\ UNCHANGED <<task, local>>
      <3>1. \A s \in Resolvers : WillRelease(s) => WillRelease(s)'
        BY <1>1, <1>2, ResolversRelease
      <3>2. pc'[Driver] = pc[Driver]
        BY <1>1, <1>2, <2>2
      <3>3. QED
        BY <1>1, <1>5, <1>6, <2>2, <3>1, <3>2, BlockKept
    <2>3. QED
      BY <2>1, <2>2
  <1>8. IndexInv'
    BY <1>1, <1>5, <1>6, IndexKept
  <1>9. QED
    BY <1>2, <1>3, <1>7, <1>8 DEF FlowInv

SweepPC == {"enumerate", "expire", "recompute", "settle"}

\* The lock of m is free and its question open: the sweep closes it.
Expires(m) ==
    /\ status[m] = "queued" /\ frozen[m] = "none" /\ opLock[m] = Nobody
    /\ status' = [status EXCEPT ![m] = "expired"]
    /\ \/ announced' = announced /\ accepting' = FALSE
       \/ announced' = [announced EXCEPT ![m] = Append(@, "expired")]
    /\ UNCHANGED <<frozen, scoped, opLock>>

LEMMA ExpiresTypes ==
    ASSUME FlowInv, NEW m \in Requests, Expires(m)
    PROVE  /\ announced' \in [Requests -> Seq({"queued"} \cup Closed)] /\ ClosedLast(announced'[m])
           /\ Indexed(m)'
           /\ \A n \in Requests \ {m} : announced'[n] = announced[n]
           /\ status' \in [Requests -> {"none", "queued"} \cup Closed]
  <1>1. DataOK /\ MessageInv(m)
    BY DEF FlowInv
  <1>2. /\ announced \in [Requests -> Seq({"queued"} \cup Closed)] /\ "expired" \in Closed
        /\ ClosedLast(announced[m]) /\ OnlyQueued(announced[m])
    BY <1>1 DEF Expires, MessageInv, DataOK, Closed
  <1>3. Append(announced[m], "expired") \in Seq({"queued"} \cup Closed)
        /\ ClosedLast(Append(announced[m], "expired"))
    BY <1>2, LastEvent
  <1>4. status' \in [Requests -> {"none", "queued"} \cup Closed]
    BY <1>1, <1>2 DEF Expires, DataOK
  <1>5. Indexed(m)'
    <2>1. accepting' = FALSE \/ announced'[m] = Append(announced[m], "expired")
      BY <1>2 DEF Expires
    <2>2. announced[m] \in Seq({"queued"} \cup Closed)
      BY <1>2
    <2>3. QED
      BY <1>2, <2>1, <2>2, IndexClosed
  <1>6. QED
    BY <1>2, <1>3, <1>4, <1>5 DEF Expires

\* A step of a sweep, or of the Driver past the work.  The worker is not at work.
LEMMA SweepMove ==
    ASSUME FlowInv, NEW p \in {Driver, Executor}, pc[p] \in SweepPC,
           NEW l \in SweepPC \cup {"record", "done", "failed"}, Goto(p, l), Label(p, l),
           DataOK', Store, exited' = exited, target' = target,
           \/ UNCHANGED <<messageVars, opLock>>
           \/ \E m \in Requests : Expires(m)
    PROVE  FlowInv'
  <1>1. /\ p \in Processes /\ p \notin Requests \cup Resolvers /\ p # Nobody
        /\ PCsOK /\ DataOK /\ SweepInv /\ IndexInv
        /\ Driver \in Processes /\ Executor \in Processes /\ Driver # Executor
    BY Distinct DEF FlowInv
  <1>2. PCsOK' /\ pc'[p] = l /\ \A q \in Processes \ {p} : pc'[q] = pc[q]
    BY <1>1, GotoMoves
  <1>3. failures \in FailureCounts /\ accepting \in BOOLEAN
    BY <1>1 DEF DataOK, FailureCounts
  <1>4. accepting' = TRUE => accepting = TRUE
    BY <1>3, StoreMoves
  <1>5. /\ p = Driver => pc[Executor] = "wave"
        /\ p = Executor => pc[Driver] \in {"done", "failed"}
    BY <1>1 DEF SweepInv, SweepPC
  <1>6. ~AtWork'
    <2>1. CASE p = Driver
      BY <1>2, <2>1 DEF AtWork, SweepPC
    <2>2. CASE p = Executor
      BY <1>1, <1>2, <1>5, <2>2 DEF AtWork
    <2>3. QED
      BY <2>1, <2>2
  <1>7. SweepInv' /\ BlockInv'
    <2>1. pc'[Executor] # "wave" => pc'[Driver] \in {"done", "failed"}
      BY <1>1, <1>2, <1>5
    <2>2. QED
      BY <1>6, <2>1 DEF SweepInv, BlockInv
  <1>8. (\A n \in Requests : MessageInv(n)) /\ (\A s \in Resolvers : ResolverInv(s))
    BY DEF FlowInv
  <1>9. (\A n \in Requests : MessageInv(n)') /\ (\A s \in Resolvers : ResolverInv(s)')
    <2>1. CASE UNCHANGED <<messageVars, opLock>>
      BY <1>1, <1>2, <1>8, <2>1, MessagesKept
    <2>2. CASE \E m \in Requests : Expires(m)
      <3>1. PICK m \in Requests : Expires(m)
        BY <2>2
      <3>2. /\ ClosedLast(announced'[m]) /\ \A n \in Requests \ {m} : announced'[n] = announced[n]
        BY <3>1, ExpiresTypes
      <3>3. m \in Processes /\ m # p /\ m # Nobody /\ MessageInv(m)
        BY <1>1, <1>8, Distinct
      <3>4. MessageInv(m)'
        <4>1. /\ pc'[m] = pc[m] /\ opLock' = opLock /\ scoped' = scoped /\ frozen' = frozen
              /\ status'[m] = "expired" /\ opLock[m] = Nobody
          BY <1>1, <1>2, <3>1, <3>3 DEF Expires, DataOK
        <4>2. pc[m] \notin {"idle", "locked", "published", "asked", "announce"}
              /\ scoped[m] # TRUE
          BY <3>1, <3>3, <4>1 DEF MessageInv, Expires
        <4>3. QED
          BY <3>2, <4>1, <4>2 DEF MessageInv, Closed
      <3>5. /\ \A n \in Requests \ {m} :
                   /\ status'[n] = status[n] /\ frozen'[n] = frozen[n] /\ scoped'[n] = scoped[n]
                   /\ announced'[n] = announced[n] /\ opLock'[n] = opLock[n]
            /\ opLock[m] \notin Resolvers
        BY <1>1, <3>1, <3>2, Distinct DEF Expires, DataOK
      <3>6. QED
        BY <1>1, <1>2, <1>8, <3>4, <3>5, OthersKept
    <2>3. QED
      BY <2>1, <2>2
  <1>10. IndexInv'
    <2>1. CASE UNCHANGED <<messageVars, opLock>>
      BY <1>1, <1>4, <2>1, IndexKept DEF messageVars
    <2>2. CASE \E m \in Requests : Expires(m)
      <3>1. PICK m \in Requests : Expires(m)
        BY <2>2
      <3>2. \A n \in Requests \ {m} : status'[n] = status[n] /\ announced'[n] = announced[n]
        BY <1>1, <3>1, ExpiresTypes DEF Expires, DataOK
      <3>3. Indexed(m)'
        BY <3>1, ExpiresTypes
      <3>4. QED
        BY <1>1, <1>4, <3>2, <3>3, IndexKept
    <2>3. QED
      BY <2>1, <2>2
  <1>11. QED
    BY <1>2, <1>7, <1>9, <1>10 DEF FlowInv

LEMMA SweepTypes ==
    ASSUME NEW w \in Sweep, NEW m, NEW b \in BOOLEAN
    PROVE  /\ [w EXCEPT !.left = @ \ {m}, !.expired = TRUE] \in Sweep
           /\ [w EXCEPT !.left = @ \ {m}, !.refused = @ \/ b] \in Sweep
  BY DEF Sweep

LEMMA AbortLabel ==
    ASSUME NEW p \in {Driver, Executor}, Abort(p)
    PROVE  \E l \in {"enumerate", "record", "done", "failed"} : Goto(p, l) /\ Label(p, l)
  <1>1. p \notin Requests \cup Resolvers /\ Driver # Executor
    BY Distinct
  <1>2. CASE p = Driver
    BY <1>1, <1>2 DEF Abort, Label, DriverPC
  <1>3. CASE p = Executor
    <2>1. Goto(p, FinishFailed) /\ FinishFailed \in {"enumerate", "done"}
      BY <1>1, <1>3 DEF Abort, FinishFailed
    <2>2. QED
      BY <1>1, <1>3, <2>1 DEF Label, ExecutorPC
  <1>4. QED
    BY <1>2, <1>3

LEMMA ExpireSteps ==
    ASSUME FlowInv, NEW p \in {Driver, Executor}, Expire(p)
    PROVE  FlowInv'
  <1>1. PCsOK /\ DataOK /\ p \in Processes /\ p \notin Requests \cup Resolvers /\ sweep[p] \in Sweep
    BY Distinct DEF FlowInv, DataOK
  <1>2. failures \in FailureCounts /\ accepting \in BOOLEAN
    BY <1>1 DEF DataOK, FailureCounts
  <1>3. \A l \in SweepPC : Label(p, l)
    BY <1>1 DEF Label, SweepPC, DriverPC, ExecutorPC
  <1>4. CASE Enumerate(p)
    <2>1. PICK w : w = [left |-> {m \in Requests : status[m] = "queued"},
                        expired |-> FALSE, refused |-> FALSE]
      OBVIOUS
    <2>2. w \in Sweep
      BY <2>1 DEF Sweep
    <2>3. /\ pc[p] = "enumerate" /\ sweep' = [sweep EXCEPT ![p] = w] /\ Goto(p, "expire") /\ Store
          /\ UNCHANGED <<messageVars, opLock, waitVars, taskVars, runVars, target, seen>>
      BY <1>4, <2>1, StoreKinds DEF Enumerate, runVars
    <2>4. DataOK'
      BY <1>1, <2>2, <2>3 DEF DataOK, messageVars, waitVars, taskVars, runVars
    <2>5. QED
      BY <1>3, <2>3, <2>4, SweepMove DEF SweepPC, taskVars
  <1>5. ASSUME NEW m \in Requests, ExpireOne(p, m) PROVE FlowInv'
    <2>1. PICK w : w = [sweep[p] EXCEPT !.left = @ \ {m}, !.expired = TRUE]
      OBVIOUS
    <2>2. w \in Sweep
      BY <1>1, <2>1, SweepTypes
    <2>3. /\ pc[p] = "expire" /\ Expires(m) /\ Store /\ pc' = pc
          /\ wake' = [wake EXCEPT ![m] = @ \/ waiter[m]] /\ waiter' = [waiter EXCEPT ![m] = FALSE]
          /\ UNCHANGED <<advance, taskVars, accepting, failures, ctxDone, run, target, seen>>
      BY <1>5, StoreKinds DEF ExpireOne, Expirable, Expires, Announce, Notify, StoreOK
    <2>4. sweep' = [sweep EXCEPT ![p] = w]
      BY <1>5, <2>1 DEF ExpireOne
    <2>5. Goto(p, "expire")
      BY <1>1, <2>3 DEF Goto, PCsOK
    <2>6. DataOK'
      <3>1. wake' \in [Requests -> BOOLEAN] /\ waiter' \in [Requests -> BOOLEAN]
            /\ sweep' \in [{Driver, Executor} -> Sweep]
        BY <1>1, <2>2, <2>3, <2>4 DEF DataOK
      <3>2. /\ announced' \in [Requests -> Seq({"queued"} \cup Closed)]
            /\ status' \in [Requests -> {"none", "queued"} \cup Closed]
        BY <2>3, ExpiresTypes
      <3>3. UNCHANGED <<frozen, scoped, opLock>>
        BY <2>3 DEF Expires
      <3>4. QED
        BY <1>1, <2>3, <3>1, <3>2, <3>3 DEF DataOK, taskVars
    <2>7. QED
      BY <1>3, <2>3, <2>5, <2>6, SweepMove DEF SweepPC, taskVars
  <1>6. ASSUME NEW m \in Requests, ExpireNothing(p, m) PROVE FlowInv'
    <2>1. PICK w : w = [sweep[p] EXCEPT !.left = @ \ {m}, !.refused = @ \/ status[m] = "queued"]
      OBVIOUS
    <2>2. w \in Sweep
      BY <1>1, <2>1, SweepTypes
    <2>3. /\ pc[p] = "expire" /\ Store /\ pc' = pc
          /\ UNCHANGED <<messageVars, opLock, waitVars, taskVars, runVars, target, seen>>
      BY <1>6, StoreKinds DEF ExpireNothing, runVars
    <2>4. sweep' = [sweep EXCEPT ![p] = w]
      BY <1>6, <2>1 DEF ExpireNothing
    <2>5. Goto(p, "expire")
      BY <1>1, <2>3 DEF Goto, PCsOK
    <2>6. DataOK'
      BY <1>1, <2>2, <2>3, <2>4 DEF DataOK, messageVars, waitVars, taskVars, runVars
    <2>7. QED
      BY <1>3, <2>3, <2>5, <2>6, SweepMove DEF SweepPC, taskVars
  <1>7. ASSUME NEW m \in Requests, ExpireFails(p, m) PROVE FlowInv'
    <2>1. /\ pc[p] = "expire" /\ Expires(m) /\ Store /\ Abort(p)
          /\ UNCHANGED <<waitVars, taskVars, ctxDone, target, seen, sweep>>
      BY <1>2, <1>7, StoreKinds, StoreMoves DEF ExpireFails, Expirable, Expires
    <2>2. PICK l \in {"enumerate", "record", "done", "failed"} : Goto(p, l) /\ Label(p, l)
      BY <2>1, AbortLabel
    <2>3. failures' \in FailureCounts /\ accepting' \in BOOLEAN
      BY <1>2, <2>1, StoreMoves
    <2>4. DataOK'
      <3>1. /\ announced' \in [Requests -> Seq({"queued"} \cup Closed)]
            /\ status' \in [Requests -> {"none", "queued"} \cup Closed]
        BY <2>1, ExpiresTypes
      <3>2. UNCHANGED <<frozen, scoped, opLock>>
        BY <2>1 DEF Expires
      <3>3. run' \in {"active", "terminal", "unfinished"}
        BY <1>1, <2>1 DEF Abort, DataOK
      <3>4. QED
        BY <1>1, <2>1, <2>3, <3>1, <3>2, <3>3 DEF DataOK, FailureCounts, waitVars, taskVars
    <2>5. QED
      BY <2>1, <2>2, <2>4, SweepMove DEF SweepPC, taskVars
  <1>8. ASSUME (\E m \in Requests : ExpireRefused(p, m)) \/ ClearFails(p) PROVE FlowInv'
    <2>1. /\ pc[p] = "expire" /\ Store /\ Abort(p)
          /\ UNCHANGED <<messageVars, opLock, waitVars, taskVars, ctxDone, target, seen, sweep>>
      BY <1>8, StoreKinds DEF ExpireRefused, ClearFails
    <2>2. PICK l \in {"enumerate", "record", "done", "failed"} : Goto(p, l) /\ Label(p, l)
      BY <2>1, AbortLabel
    <2>3. failures' \in FailureCounts /\ accepting' \in BOOLEAN
      BY <1>2, <2>1, StoreMoves
    <2>4. DataOK'
      <3>1. run' \in {"active", "terminal", "unfinished"}
        BY <1>1, <2>1 DEF Abort, DataOK
      <3>2. QED
        BY <1>1, <2>1, <2>3, <3>1 DEF DataOK, FailureCounts, messageVars, waitVars, taskVars
    <2>5. QED
      BY <2>1, <2>2, <2>4, SweepMove DEF SweepPC, taskVars
  <1>9. CASE ExpireDone(p)
    <2>1. /\ pc[p] = "expire" /\ Goto(p, "recompute") /\ Store
          /\ UNCHANGED <<messageVars, opLock, waitVars, taskVars, runVars, target, seen, sweep>>
      BY <1>9, StoreKinds DEF ExpireDone, runVars
    <2>2. DataOK'
      BY <1>1, <2>1 DEF DataOK, messageVars, waitVars, taskVars, runVars
    <2>3. QED
      BY <1>3, <2>1, <2>2, SweepMove DEF SweepPC, taskVars
  <1>10. CASE Recompute(p)
    <2>1. /\ pc[p] = "recompute" /\ Goto(p, "settle") /\ Store
          /\ seen' = [seen EXCEPT ![p] = HasPendingDecisions] /\ HasPendingDecisions \in BOOLEAN
          /\ UNCHANGED <<messageVars, opLock, waitVars, taskVars, runVars, target, sweep>>
      BY <1>10, StoreKinds DEF Recompute, runVars, HasPendingDecisions
    <2>2. DataOK'
      BY <1>1, <2>1 DEF DataOK, messageVars, waitVars, taskVars, runVars
    <2>3. QED
      BY <1>3, <2>1, <2>2, SweepMove DEF SweepPC, taskVars
  <1>11. QED
    BY <1>4, <1>5, <1>6, <1>7, <1>8, <1>9, <1>10 DEF Expire

\* A step of the Driver which is no sweep's, and after which its worker is not at work.
LEMMA DriverMove ==
    ASSUME FlowInv, pc[Driver] \notin {"done", "failed"},
           NEW l \in DriverPC \ {"starting", "running"}, Goto(Driver, l), Store,
           task' \in TaskStatuses, local' \in TaskStatuses, exited' \in BOOLEAN,
           UNCHANGED <<messageVars, opLock, waitVars, ctxDone, run, target, seen, sweep>>
    PROVE  FlowInv'
  <1>1. PCsOK /\ DataOK /\ SweepInv /\ Label(Driver, l) /\ Driver # Executor
    BY Distinct DEF FlowInv, Label
  <1>2. failures' \in FailureCounts /\ accepting' \in BOOLEAN
    BY <1>1, StoreMoves DEF DataOK, FailureCounts
  <1>3. DataOK'
    BY <1>1, <1>2 DEF DataOK, FailureCounts, messageVars, waitVars
  <1>4. pc[Executor] = "wave"
    BY <1>1 DEF SweepInv
  <1>5. pc'[Driver] = l /\ (\A q \in Processes \ {Driver} : pc'[q] = pc[q]) => SweepInv'
    BY <1>1, <1>4, Distinct DEF SweepInv, AtWork
  <1>6. QED
    BY <1>1, <1>3, <1>5, MainMove

LEMMA DriverSteps ==
    ASSUME FlowInv,
           \/ refreshTaskRuntime \/ saveRuntime \/ WorkerExits
           \/ \E end \in Endings : EndTask(end)
           \/ ReportComplete
           \/ FailTask
           \/ EndFails
           \/ Drive
    PROVE  FlowInv'
  <1>1. /\ PCsOK /\ DataOK /\ SweepInv /\ IndexInv /\ Driver \in Processes
        /\ Driver # Executor /\ Driver \notin Requests /\ Driver \notin Resolvers
    BY Distinct DEF FlowInv
  <1>2. failures \in FailureCounts /\ accepting \in BOOLEAN
    BY <1>1 DEF DataOK, FailureCounts
  <1>3. \A l \in DriverPC : Label(Driver, l)
    BY <1>1 DEF Label
  \* The Driver takes up the work or goes on with it.
  <1>4. ASSUME pc[Driver] \in {"starting", "running"}, Goto(Driver, "running"), Store, exited' = exited,
               task' \in TaskStatuses, local' \in TaskStatuses, BlockInv',
               UNCHANGED <<messageVars, opLock, waitVars, ctxDone, run, target, seen, sweep>>
        PROVE  FlowInv'
    <2>1. failures' \in FailureCounts /\ accepting' \in BOOLEAN
      BY <1>2, <1>4, StoreMoves
    <2>2. DataOK'
      BY <1>1, <1>4, <2>1 DEF DataOK, FailureCounts, messageVars, waitVars
    <2>3. pc[Executor] = "wave" /\ exited = FALSE
      BY <1>1, <1>4 DEF SweepInv, AtWork
    <2>4. pc'[Driver] = "running" /\ (\A q \in Processes \ {Driver} : pc'[q] = pc[q]) => SweepInv'
      BY <1>1, <1>4, <2>3, Distinct DEF SweepInv, AtWork
    <2>5. Label(Driver, "running")
      BY <1>3 DEF DriverPC
    <2>6. QED
      BY <1>4, <2>2, <2>4, <2>5, MainMove
  <1>5. CASE refreshTaskRuntime
    <2>1. /\ pc[Driver] \in DOMAIN AfterRefresh /\ Goto(Driver, AfterRefresh[pc[Driver]]) /\ Store
          /\ local' = task /\ task' = task /\ exited' = exited
          /\ UNCHANGED <<messageVars, opLock, waitVars, ctxDone, run, target, seen, sweep>>
      BY <1>5, StoreKinds DEF refreshTaskRuntime, runVars
    <2>2. task' \in TaskStatuses /\ local' \in TaskStatuses /\ exited' \in BOOLEAN
      BY <1>1, <2>1 DEF DataOK
    <2>3. BlockInv'
      BY <2>1 DEF BlockInv
    <2>4. \/ pc[Driver] = "starting" /\ Goto(Driver, "running")
          \/ pc[Driver] \in {"result", "reported", "rejected", "failing"}
             /\ \E l \in {"result", "verifying", "record", "enumerate"} : Goto(Driver, l)
      BY <2>1 DEF AfterRefresh
    <2>5. QED
      BY <1>4, <2>1, <2>2, <2>3, <2>4, DriverMove DEF DriverPC
  <1>6. CASE saveRuntime
    <2>1. /\ pc[Driver] \in DOMAIN AfterSave /\ Goto(Driver, AfterSave[pc[Driver]]) /\ Store
          /\ \/ StoreOK /\ task' = SavedStatus
             \/ StoreFails /\ task' = task
          /\ local' = local /\ exited' = exited
          /\ UNCHANGED <<messageVars, opLock, waitVars, ctxDone, run, target, seen, sweep>>
      BY <1>6, StoreKinds DEF saveRuntime
    <2>2. task' \in TaskStatuses /\ local' \in TaskStatuses /\ exited' \in BOOLEAN
      BY <1>1, <2>1 DEF DataOK, SavedStatus, TaskStatuses
    \* What the index forces is open; the copy is not blocked, or excepted.
    <2>3. BlockInv'
      <3>1. CASE StoreFails
        <4>1. accepting' = FALSE
          BY <1>2, <2>1, <3>1, StoreMoves
        <4>2. QED
          BY <4>1 DEF BlockInv
      <3>2. CASE StoreOK /\ IndexPending
        <4>1. accepting = TRUE
          BY <1>2, <2>1, <3>2, StoreMoves
        <4>2. PICK m \in Requests : announced[m] # <<>> /\ announced[m][Len(announced[m])] = "queued"
          BY <3>2 DEF IndexPending
        <4>3. status'[m] = "queued"
          BY <1>1, <2>1, <4>1, <4>2 DEF IndexInv, Indexed, messageVars
        <4>4. HasPendingDecisions'
          BY <4>3 DEF HasPendingDecisions
        <4>5. QED
          BY <4>4 DEF BlockInv
      <3>3. CASE StoreOK /\ task' = SavedStatus /\ ~IndexPending
        <4>1. task' = local'
          BY <2>1, <3>3 DEF SavedStatus
        <4>2. QED
          BY <4>1 DEF BlockInv
      <3>4. QED
        BY <2>1, <3>1, <3>2, <3>3
    <2>4. \/ pc[Driver] = "running" /\ Goto(Driver, "running")
          \/ pc[Driver] \in {"result", "verifying", "record"}
             /\ \E l \in {"result", "validated", "failed"} : Goto(Driver, l)
      BY <2>1 DEF AfterSave
    <2>5. QED
      BY <1>4, <2>1, <2>2, <2>3, <2>4, DriverMove DEF DriverPC
  <1>7. ASSUME \/ WorkerExits \/ (\E end \in Endings : EndTask(end)) \/ ReportComplete
               \/ VerifyTask \/ RejectTask \/ FailTask
        PROVE  FlowInv'
    <2>1. /\ pc[Driver] \in {"starting", "running", "result", "validated"} /\ Store
          /\ task' \in TaskStatuses /\ local' \in {local, task} /\ exited' \in {exited, TRUE, FALSE}
          /\ UNCHANGED <<messageVars, opLock, waitVars, ctxDone, run, target, seen, sweep>>
      <3>1. task \in TaskStatuses
        BY <1>1 DEF DataOK
      <3>2. CASE WorkerExits
        BY <3>1, <3>2, StoreKinds DEF WorkerExits
      <3>3. CASE \/ (\E end \in Endings : EndTask(end)) \/ ReportComplete
                 \/ VerifyTask \/ RejectTask \/ FailTask
        BY <3>3, StoreKinds
        DEF EndTask, ReportComplete, VerifyTask, RejectTask, FailTask, TaskStatuses, Endings
      <3>4. QED
        BY <1>7, <3>2, <3>3
    <2>2. PICK l \in {"result", "done", "reported", "rejected", "failing"} : Goto(Driver, l)
      BY <1>7 DEF WorkerExits, EndTask, ReportComplete, VerifyTask, RejectTask, FailTask
    <2>3. local' \in TaskStatuses /\ exited' \in BOOLEAN
      BY <1>1, <2>1 DEF DataOK
    <2>4. QED
      BY <2>1, <2>2, <2>3, DriverMove DEF DriverPC
  <1>8. ASSUME VerifyRefused \/ EndFails PROVE FlowInv'
    <2>1. /\ pc[Driver] \in {"starting", "running", "result", "validated"} /\ Store
          /\ Goto(Driver, "failed")
          /\ UNCHANGED <<task, local, exited, messageVars, opLock, waitVars, ctxDone, run, target,
                         seen, sweep>>
      BY <1>8, StoreKinds DEF VerifyRefused, EndFails, taskVars
    <2>2. task' \in TaskStatuses /\ local' \in TaskStatuses /\ exited' \in BOOLEAN
      BY <1>1, <2>1 DEF DataOK
    <2>3. QED
      BY <2>1, <2>2, DriverMove DEF DriverPC
  <1>9. ASSUME Settle(Driver) \/ SettleFails(Driver) PROVE FlowInv'
    <2>1. target' = target
      BY <1>1, <1>9 DEF Settle, SettleFails, DataOK
    <2>2. /\ pc[Driver] = "settle" /\ Store /\ Goto(Driver, "record")
          /\ task' \in {task, WaitingTask(seen[Driver])}
          /\ UNCHANGED <<messageVars, opLock, waitVars, local, exited, ctxDone, run, seen, sweep>>
      BY <1>1, <1>9, StoreKinds DEF Settle, SettleFails, Settled, taskVars
    <2>3. task' \in TaskStatuses /\ local' \in TaskStatuses /\ exited' \in BOOLEAN
      BY <1>1, <2>2 DEF DataOK, WaitingTask, TaskStatuses
    <2>4. QED
      BY <2>1, <2>2, <2>3, DriverMove DEF DriverPC
  <1>10. QED
    BY <1>5, <1>6, <1>7, <1>8, <1>9, ExpireSteps DEF Drive

LEMMA ExecutorSteps ==
    ASSUME FlowInv, Execute
    PROVE  FlowInv'
  <1>1. /\ PCsOK /\ DataOK /\ SweepInv /\ Driver \in Processes /\ Executor \in Processes
        /\ Driver # Executor /\ Executor \notin Requests /\ Executor \notin Resolvers
    BY Distinct DEF FlowInv
  <1>2. failures \in FailureCounts /\ accepting \in BOOLEAN
    BY <1>1 DEF DataOK, FailureCounts
  <1>3. \A l \in ExecutorPC : Label(Executor, l)
    BY <1>1 DEF Label
  \* The Driver has returned, and stays where it is.
  <1>4. ASSUME pc[Executor] # "wave" \/ pc[Driver] \in {"done", "failed"}, exited' = exited,
               \A q \in Processes \ {Executor} : pc'[q] = pc[q]
        PROVE  SweepInv'
    <2>1. pc'[Driver] = pc[Driver] /\ pc[Driver] \in {"done", "failed"}
      BY <1>1, <1>4 DEF SweepInv
    <2>2. QED
      BY <2>1 DEF SweepInv, AtWork
  <1>5. ASSUME WaveDone \/ Barrier \/ AwaitDecision \/ AwaitFails \/ Advance \/ SkipTask
               \/ RerunRefused \/ Interrupt
        PROVE  FlowInv'
    <2>1. /\ pc[Executor] # "wave" \/ pc[Driver] \in {"done", "failed"}
          /\ UNCHANGED <<messageVars, opLock, waiter, wake, task, exited, local, ctxDone, target,
                         seen, sweep>>
          /\ advance' \in {advance, FALSE} /\ run' \in {run, "unfinished"} /\ Store
      <3>1. CASE WaveDone \/ Barrier \/ SkipTask \/ RerunRefused
        BY <3>1, StoreKinds
        DEF WaveDone, Barrier, SkipTask, RerunRefused, waitVars, taskVars, runVars
      <3>2. CASE AwaitDecision \/ AwaitFails
        BY <3>2, StoreKinds DEF AwaitDecision, AwaitFails, waitVars, taskVars
      <3>3. CASE Advance \/ Interrupt
        BY <3>3, StoreKinds DEF Advance, Interrupt, waitVars, taskVars, runVars
      <3>4. QED
        BY <1>5, <3>1, <3>2, <3>3
    <2>2. PICK l \in ExecutorPC : Goto(Executor, l)
      BY <1>5 DEF WaveDone, Barrier, AwaitDecision, AwaitFails, Advance, SkipTask, RerunRefused,
                  Interrupt, ExecutorPC
    <2>3. failures' \in FailureCounts /\ accepting' \in BOOLEAN
      BY <1>2, <2>1, StoreMoves
    <2>4. DataOK'
      BY <1>1, <2>1, <2>3 DEF DataOK, FailureCounts, messageVars
    <2>5. pc'[Executor] = l /\ (\A q \in Processes \ {Executor} : pc'[q] = pc[q]) => SweepInv'
      BY <1>4, <2>1
    <2>6. QED
      BY <1>3, <2>1, <2>2, <2>4, <2>5, MainMove
  <1>6. ASSUME FinishRun \/ FinishRunRefused \/ FinishRunFails PROVE FlowInv'
    <2>1. /\ pc[Executor] = "settle" /\ Store
          /\ task' \in {task, WaitingTask(seen[Executor])}
          /\ UNCHANGED <<messageVars, opLock, waitVars, exited, local, ctxDone, target, seen, sweep>>
      BY <1>6, StoreKinds DEF FinishRun, FinishRunRefused, FinishRunFails, taskVars
    <2>2. run' \in {run, "terminal", "unfinished"}
      BY <1>6 DEF FinishRun, FinishRunRefused, FinishRunFails, Abort
    <2>3. PICK l \in {"enumerate", "record", "done", "failed"} :
             Goto(Executor, l) /\ Label(Executor, l)
      <3>1. CASE FinishRun
        BY <1>3, <3>1 DEF FinishRun, ExecutorPC
      <3>2. CASE FinishRunRefused \/ FinishRunFails
        BY <3>2, AbortLabel DEF FinishRunRefused, FinishRunFails
      <3>3. QED
        BY <1>6, <3>1, <3>2
    <2>4. failures' \in FailureCounts /\ accepting' \in BOOLEAN
      BY <1>2, <2>1, StoreMoves
    <2>5. task' \in TaskStatuses
      BY <1>1, <2>1 DEF DataOK, WaitingTask, TaskStatuses
    <2>6. DataOK'
      BY <1>1, <2>1, <2>2, <2>4, <2>5 DEF DataOK, FailureCounts, messageVars, waitVars
    <2>7. QED
      BY <1>1, <2>1, <2>3, <2>6, SweepMove DEF SweepPC
  <1>7. CASE RerunTask
    <2>1. /\ pc[Executor] = "pass" /\ task' = "running" /\ exited' = FALSE /\ local' = "running"
          /\ pc' = [pc EXCEPT ![Executor] = "wave", ![Driver] = "starting"]
          /\ UNCHANGED <<messageVars, opLock, waitVars, accepting, failures, ctxDone, run, target,
                         seen, sweep>>
      BY <1>7 DEF RerunTask, StoreOK
    <2>2. DataOK'
      BY <1>1, <2>1 DEF DataOK, TaskStatuses, messageVars, waitVars
    <2>3. /\ pc' \in [Processes -> PCs] /\ pc'[Driver] = "starting" /\ pc'[Executor] = "wave"
          /\ \A q \in Requests \cup Resolvers : pc'[q] = pc[q]
      BY <1>1, <2>1, Distinct DEF PCsOK, PCs, DriverPC, ExecutorPC
    <2>4. PCsOK'
      BY <1>1, <2>3 DEF PCsOK, DriverPC, ExecutorPC
    <2>5. SweepInv' /\ BlockInv'
      BY <2>1, <2>3 DEF SweepInv, BlockInv, AtWork
    <2>5b. IndexInv'
      BY <2>1 DEF FlowInv, IndexInv, Indexed, messageVars
    <2>6. ASSUME NEW m \in Requests PROVE MessageInv(m)'
      <3>1. MessageInv(m) /\ pc'[m] = pc[m]
        BY <2>3 DEF FlowInv
      <3>2. QED
        BY <2>1, <3>1 DEF MessageInv, messageVars
    <2>7. ASSUME NEW s \in Resolvers PROVE ResolverInv(s)'
      <3>1. ResolverInv(s) /\ pc'[s] = pc[s]
        BY <2>3 DEF FlowInv
      <3>2. QED
        BY <2>1, <3>1 DEF ResolverInv, messageVars
    <2>8. QED
      BY <2>2, <2>4, <2>5, <2>5b, <2>6, <2>7 DEF FlowInv
  <1>8. QED
    BY <1>5, <1>6, <1>7, ExpireSteps DEF Execute

\* CancelContext and stuttering.
LEMMA FlowUnchanged ==
    ASSUME FlowInv, ctxDone' \in BOOLEAN,
           UNCHANGED <<messageVars, opLock, waitVars, taskVars, accepting, run, failures, localVars>>
    PROVE  FlowInv'
  <1>1. UNCHANGED <<status, frozen, scoped, announced, opLock, waiter, wake, advance, task, exited,
                    local, accepting, run, failures, pc, target, seen, sweep>>
    BY DEF messageVars, waitVars, taskVars, localVars
  <1>2. PCsOK' /\ SweepInv' /\ IndexInv'
    BY <1>1 DEF FlowInv, PCsOK, SweepInv, AtWork, IndexInv, Indexed
  <1>3. DataOK'
    BY <1>1 DEF FlowInv, DataOK
  <1>4. BlockInv'
    <2>1. \A s \in Resolvers : WillRelease(s) => WillRelease(s)'
      BY <1>1 DEF WillRelease
    <2>2. QED
      BY <1>1, <2>1, BlockKept DEF FlowInv
  <1>5. ASSUME NEW m \in Requests PROVE MessageInv(m)'
    <2>1. MessageInv(m)
      BY DEF FlowInv
    <2>2. QED
      BY <1>1, <2>1 DEF MessageInv
  <1>6. ASSUME NEW s \in Resolvers PROVE ResolverInv(s)'
    <2>1. ResolverInv(s)
      BY DEF FlowInv
    <2>2. QED
      BY <1>1, <2>1 DEF ResolverInv
  <1>7. QED
    BY <1>2, <1>3, <1>4, <1>5, <1>6 DEF FlowInv

-----------------------------------------------------------------------------
(* The theorems. *)

LEMMA FlowInitial == Init => FlowInv
  <1> SUFFICES ASSUME Init PROVE FlowInv
    OBVIOUS
  <1>1. PCsOK
    BY Distinct DEF Init, PCsOK, PCs, RequestPC, ResolverPC, DriverPC, ExecutorPC
  <1>2. DataOK
    <2>1. failures \in FailureCounts
      BY BoundsAreNat DEF Init, FailureCounts
    <2>2. NoSweep \in Sweep
      BY DEF NoSweep, Sweep
    <2>3. announced \in [Requests -> Seq({"queued"} \cup Closed)]
      BY DEF Init
    <2>4. QED
      BY <2>1, <2>2, <2>3 DEF Init, DataOK, TaskStatuses, FailureCounts
  <1>3. SweepInv /\ IndexInv /\ BlockInv
    BY Distinct DEF Init, SweepInv, AtWork, IndexInv, Indexed, BlockInv
  <1>4. ASSUME NEW m \in Requests PROVE MessageInv(m)
    BY Distinct DEF Init, MessageInv, ClosedLast, OnlyQueued
  <1>5. ASSUME NEW s \in Resolvers PROVE ResolverInv(s)
    BY Distinct DEF Init, ResolverInv
  <1>6. QED
    BY <1>1, <1>2, <1>3, <1>4, <1>5 DEF FlowInv

LEMMA FlowNext ==
    ASSUME FlowInv, [Next]_vars
    PROVE  FlowInv'
  <1>1. ASSUME CancelContext \/ UNCHANGED vars PROVE FlowInv'
    <2>1. ctxDone \in BOOLEAN
      BY DEF FlowInv, DataOK
    <2>2. QED
      BY <1>1, <2>1, FlowUnchanged DEF CancelContext, vars, runVars
  <1>2. QED
    BY <1>1, RequestSteps, FreezeStep, ResolverSteps, DriverSteps, ExecutorSteps DEF Next

\* Every state of RequestMessage, ResolveMessage and expireTaskMessages satisfies the
\* invariant: who holds a message's lock, what the log tells of it, and who will
\* release a blocked task.
THEOREM FlowInvariant == Spec => []FlowInv
  BY FlowInitial, FlowNext, PTL DEF Spec

\* messages.go:65-66: the log shows a message queued at most once and closed last, whoever
\* answers, expires or fails it meanwhile.
THEOREM EventsStayInOrder == Spec => []EventsInOrder
  <1>1. ASSUME FlowInv PROVE EventsInOrder
    <2>1. TypeOK
      BY <1>1 DEF FlowInv, PCsOK, DataOK, TypeOK
    <2>2. ASSUME NEW m \in Requests PROVE ClosedLast(announced[m])
      BY <1>1 DEF FlowInv, MessageInv
    <2>3. QED
      BY <2>1, <2>2 DEF EventsInOrder, ClosedLast
  <1>2. QED
    BY <1>1, FlowInvariant, PTL

\* messages.go:256: the lock of a message keeps the sweep away from a decision whose scope
\* is being widened.
THEOREM ScopeStaysDecided == Spec => []WidenedScopeIsDecided
  <1>1. ASSUME FlowInv PROVE WidenedScopeIsDecided
    <2>1. ASSUME NEW m \in Requests, scoped[m] PROVE frozen[m] = "allow" /\ status[m] # "expired"
      <3>1. scoped[m] = TRUE /\ MessageInv(m)
        BY <1>1, <2>1 DEF FlowInv, DataOK
      <3>2. QED
        BY <3>1 DEF MessageInv
    <2>2. QED
      BY <2>1 DEF WidenedScopeIsDecided
  <1>2. QED
    BY <1>1, FlowInvariant, PTL

\* messages.go:185-186: with every goroutine out of its critical part, a task whose worker
\* is at work is blocked only by an open decision, however often the Driver saves its copy
\* of it.  Excepted are a question file that could not be written (ResolveMessage returns
\* before it recomputes the task) and a copy taken while a decision was open.
THEOREM NobodyStaysBlocked == Spec => []NoPhantomBlock
  <1>1. ASSUME FlowInv PROVE NoPhantomBlock
    <2>1. SUFFICES ASSUME accepting, failures.file = 0, pc[Driver] \in {"starting", "running"},
                          \A s \in Resolvers : pc[s] = "idle", task = "blocked", local # "blocked"
                   PROVE  HasPendingDecisions
      BY DEF NoPhantomBlock
    <2>2. accepting = TRUE /\ AtWork
      BY <1>1, <2>1 DEF FlowInv, DataOK, AtWork
    <2>3. \A s \in Resolvers : ~WillRelease(s)
      BY <2>1 DEF WillRelease
    <2>4. QED
      BY <1>1, <2>1, <2>2, <2>3 DEF FlowInv, BlockInv
  <1>2. QED
    BY <1>1, FlowInvariant, PTL
=============================================================================

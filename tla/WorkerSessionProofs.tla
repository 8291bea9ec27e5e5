------------------------ MODULE WorkerSessionProofs -------------------------
(***************************************************************************)
(* Proofs about the session of a worker, at both of its ends.              *)
(*                                                                         *)
(* WorkerSession, the Supervisor's end: its type invariant, that the       *)
(* snapshot never claims an exit the process tree has not made, and that a *)
(* result is applied, or called missing, as the end of the last turn       *)
(* warrants.                                                               *)
(*                                                                         *)
(* GrokSession with its EventStream, the adapter's end, for every number   *)
(* of prompts, lines, requests and ends, and every bound of the queue: the *)
(* order of the events, the boundary of each prompt, and the text of its   *)
(* result.                                                                 *)
(***************************************************************************)
EXTENDS WorkerSession, GrokSession, FiniteSetTheorems, WellFoundedInduction, TLAPS

\* A non-empty set of naturals has a least element.
LEMMA LeastElement ==
    ASSUME NEW S \in SUBSET Nat, S # {}
    PROVE  \E i \in S : \A j \in S : i <= j
  <1>1. PICK i \in S : \A j \in S : ~ (<<j, i>> \in OpToRel(<, Nat))
    BY WFMin, NatLessThanWellFounded, Zenon
  <1>2. \A j \in S : ~ (j < i)
    BY <1>1 DEF OpToRel
  <1>3. QED
    BY <1>2

-----------------------------------------------------------------------------
(* Types. *)

LEMMA InitTypeOK == Init => TypeOK
  <1> SUFFICES ASSUME Init PROVE TypeOK
    OBVIOUS
  <1>1. inbox \in Seq(Kinds) /\ Len(inbox) <= MaxQueue
    BY SessionAssumption DEF Init
  <1>2. TreeTypeOK
    BY DEF Init, TreeInit, TreeTypeOK
  <1>3. turns \in 0..MaxTurns
    BY SessionAssumption DEF Init
  <1>4. lastTerm \in Results /\ known \in ProcessStates /\ process \in ProcessStates
    BY DEF Init, Results, ProcessStates
  <1>5. QED
    BY <1>1, <1>2, <1>3, <1>4 DEF Init, TypeOK

LEMMA FirstEndType ==
    ASSUME TypeOK, NEW events \in Seq(Kinds)
    PROVE  FirstEnd(events) \in {"none"} \cup TurnEnds
  <1> DEFINE ends == {i \in 1..Len(events) : events[i] \in TurnEnds}
  <1>1. CASE first = "none" /\ ends # {}
    <2>0. ends \in SUBSET Nat /\ ends # {}
      BY <1>1
    <2>1. \E i \in ends : \A j \in ends : i <= j
      <3> HIDE DEF ends
      <3> QED BY <2>0, LeastElement
    <2>2. (CHOOSE k \in ends : \A j \in ends : k <= j) \in ends
      BY <2>1
    <2>3. QED
      BY <1>1, <2>2 DEF FirstEnd
  <1>2. CASE ~(first = "none" /\ ends # {})
    BY <1>2 DEF FirstEnd, TypeOK
  <1>3. QED
    BY <1>1, <1>2

\* What the loop takes from the channel is an event, and the rest stays one.
LEMMA QueueFacts ==
    ASSUME NEW q \in Seq(Kinds), q # <<>>
    PROVE  /\ Head(q) \in Kinds /\ Tail(q) \in Seq(Kinds)
           /\ Len(q) \in Nat \ {0} /\ Len(Tail(q)) = Len(q) - 1
           /\ <<Head(q)>> \in Seq(Kinds)
  OBVIOUS

LEMMA NextTypeOK == TypeOK /\ [Next]_vars => TypeOK'
  <1> SUFFICES ASSUME TypeOK, [Next]_vars PROVE TypeOK'
    OBVIOUS
  <1>a. UNCHANGED treeVars => TreeTypeOK'
    BY DEF TypeOK, TreeTypeOK, treeVars
  <1>1. CASE Tree
    <2>1. TreeTypeOK'
      BY <1>1 DEF Tree, OperatingSystem, RootExits, PidReused, Forks, ChildExits,
         TypeOK, TreeTypeOK
    <2>2. QED
      BY <1>1, <2>1 DEF Tree, TypeOK, harnessVars, cancelVars, loopVars, taskVars
  <1>2. CASE Harness
    <2>1. ASSUME NEW kind \in Kinds, Emit(kind) PROVE TypeOK'
      <3>1. inbox' \in Seq(Kinds) /\ Len(inbox') <= MaxQueue
        BY <2>1, SessionAssumption DEF Emit, TypeOK
      <3>2. working' \in BOOLEAN
        BY <2>1 DEF Emit
      <3>3. QED
        BY <1>a, <2>1, <3>1, <3>2 DEF Emit, TypeOK, cancelVars,
           loopVars, taskVars
    <2>2. ASSUME NEW ch \in Channels, CloseStream(ch) PROVE TypeOK'
      <3>1. closed' \subseteq {"events", "stderr"}
        BY <2>2 DEF CloseStream, TypeOK
      <3>2. QED
        BY <1>a, <2>2, <3>1 DEF CloseStream, TypeOK, cancelVars, loopVars, taskVars
    <2>3. CASE ReportExit
      BY <1>a, <2>3 DEF ReportExit, TypeOK, cancelVars, loopVars, taskVars
    <2>4. CASE HardTimeout
      BY <1>a, <2>4 DEF HardTimeout, TypeOK, harnessVars, cancelVars, loopVars,
         taskVars
    <2>5. CASE ParentDone
      BY <1>a, <2>5 DEF ParentDone, TypeOK, harnessVars, cancelVars, loopVars,
         taskVars
    <2>6. QED
      BY <1>2, <2>1, <2>2, <2>3, <2>4, <2>5 DEF Harness
  <1>3. CASE Cancellation
    <2>1. CASE RequestCancelTask
      BY <1>a, <2>1 DEF RequestCancelTask, TypeOK, harnessVars, loopVars, taskVars
    <2>2. ASSUME NEW r \in Results, terminateActiveWorker(r) PROVE TypeOK'
      <3>1. /\ ctx' \in {"live", "cancelled", "deadline"}
            /\ canceller' \in {"idle", "terminating", "orphaned", "unknown"}
        BY <2>2 DEF terminateActiveWorker, TypeOK
      <3>2. QED
        BY <1>a, <2>2, <3>1 DEF terminateActiveWorker, TypeOK, harnessVars,
           loopVars, taskVars
    <2>3. CASE recordCancelOrphanRisk
      BY <1>a, <2>3 DEF recordCancelOrphanRisk, TypeOK, harnessVars, loopVars,
         ProcessStates
    <2>4. QED
      BY <1>3, <2>1, <2>2, <2>3 DEF Cancellation
  <1>4. CASE Loop
    <2>1. CASE ContextDone
      <3>1. pc' \in {"loop", "terminating"}
        BY <2>1 DEF ContextDone, Selecting, terminateReliable
      <3>2. /\ contextDone' \in BOOLEAN /\ drain' \in BOOLEAN
            /\ UNCHANGED <<treeVars, complete, harnessVars, ctx, cancelVars, open,
                           closing, exitObserved, resultSeen, lastTerm, timedOut,
                           turns, taskVars, first>>
        BY <2>1 DEF ContextDone
      <3>3. QED
        BY <1>a, <3>1, <3>2 DEF TypeOK, harnessVars, cancelVars, taskVars
    <2>2. CASE ProgressTick
      BY <1>a, <2>2 DEF ProgressTick, TypeOK, harnessVars, cancelVars, loopVars
    <2>3. CASE DrainElapsed
      <3>1. pc' \in {"loop", "terminating"} /\ open' \subseteq Channels
        BY <2>3 DEF DrainElapsed, Selecting, terminateReliable
      <3>2. /\ drain' \in BOOLEAN
            /\ UNCHANGED <<treeVars, complete, harnessVars, ctx, cancelVars, closing,
                           exitObserved, resultSeen, contextDone, lastTerm,
                           timedOut, turns, taskVars, first>>
        BY <2>3 DEF DrainElapsed
      <3>3. QED
        BY <1>a, <3>1, <3>2 DEF TypeOK, harnessVars, cancelVars, taskVars
    <2>4. ASSUME NEW r \in Results, TerminateReturns(r) PROVE TypeOK'
      BY <1>a, <2>4 DEF TerminateReturns, TypeOK, harnessVars, cancelVars, loopVars,
         taskVars
    <2>5. CASE ObserveExit
      <3>1. first' \in {"none"} \cup TurnEnds
        BY <2>5, FirstEndType DEF ObserveExit, TypeOK
      <3>2. inbox' \in Seq(Kinds) /\ Len(inbox') <= MaxQueue
        <4>1. <<>> \in Seq(Kinds) /\ Len(<<>>) = 0
          OBVIOUS
        <4>2. inbox' = <<>> \/ inbox' = inbox
          BY <2>5 DEF ObserveExit
        <4>3. CASE inbox' = <<>>
          BY <4>1, <4>3, SessionAssumption
        <4>4. CASE inbox' = inbox
          BY <4>4 DEF TypeOK
        <4>5. QED
          BY <4>2, <4>3, <4>4
      <3>3. resultSeen' \in BOOLEAN /\ open' \subseteq Channels
            /\ process' \in ProcessStates
        BY <2>5 DEF ObserveExit, TypeOK
      <3>4. QED
        BY <1>a, <2>5, <3>1, <3>2, <3>3 DEF ObserveExit, TypeOK, cancelVars
    <2>6. ASSUME handleNative
          PROVE  /\ inbox' \in Seq(Kinds) /\ Len(inbox') <= MaxQueue
                 /\ FirstEnd(<<Head(inbox)>>) \in {"none"} \cup TurnEnds
      <3>1. inbox \in Seq(Kinds) /\ inbox # <<>> /\ Len(inbox) <= MaxQueue
            /\ inbox' = Tail(inbox)
        BY <2>6 DEF handleNative, TypeOK
      <3>2. <<Head(inbox)>> \in Seq(Kinds)
        BY <3>1, QueueFacts
      <3>3. inbox' \in Seq(Kinds) /\ Len(inbox') <= MaxQueue
        BY <3>1, QueueFacts, SessionAssumption
      <3>4. QED
        BY <3>2, <3>3, FirstEndType
    <2>7. CASE HandleEvent
      BY <1>a, <2>6, <2>7 DEF HandleEvent, handleNative, TypeOK, cancelVars
    <2>8. CASE TurnFailed
      <3>1. /\ resultSeen' \in BOOLEAN /\ closing' \in BOOLEAN /\ drain' \in BOOLEAN
            /\ process' = known
            /\ first' \in {"none"} \cup TurnEnds
        BY <2>6, <2>8 DEF TurnFailed, handleNative
      <3>2. UNCHANGED <<treeVars, complete, closed, reported, ctx, cancelVars, pc,
                        open, exitObserved, contextDone, lastTerm, timedOut, known,
                        outcome, working, turns>>
        BY <2>8 DEF TurnFailed, handleNative
      <3>3. inbox' \in Seq(Kinds) /\ Len(inbox') <= MaxQueue
        BY <2>6, <2>8 DEF TurnFailed
      <3>4. QED
        BY <1>a, <3>1, <3>2, <3>3 DEF TypeOK, cancelVars
    <2>9. CASE StartNextTurn
      <3>1. turns' \in 0..MaxTurns
        BY <2>9, SessionAssumption DEF StartNextTurn, TypeOK
      <3>2. QED
        BY <1>a, <2>6, <2>9, <3>1 DEF StartNextTurn, handleNative, TypeOK, cancelVars
    <2>10. CASE FinalResult
      <3>1. working' \in BOOLEAN
        BY <2>10 DEF FinalResult, TypeOK
      <3>2. QED
        BY <1>a, <2>6, <2>10, <3>1 DEF FinalResult, handleNative, TypeOK, cancelVars
    <2>11. ASSUME NEW ch \in Channels, StreamClosed(ch) PROVE TypeOK'
      <3>1. open' \subseteq Channels
        BY <2>11 DEF StreamClosed, TypeOK
      <3>2. QED
        BY <1>a, <2>11, <3>1 DEF StreamClosed, TypeOK, harnessVars, cancelVars, taskVars
    <2>12. QED
      BY <1>4, <2>1, <2>2, <2>3, <2>4, <2>5, <2>7, <2>8, <2>9, <2>10, <2>11 DEF Loop
  <1>5. CASE AfterLoop
    <2>1. CASE LoopEnds
      <3>1. inbox' \in Seq(Kinds) /\ Len(inbox') <= MaxQueue
        BY <2>1, SessionAssumption DEF LoopEnds
      <3>2. pc' \in {"confirming", "reconfirming", "resolve"} /\ timedOut' \in BOOLEAN
        BY <2>1 DEF LoopEnds, terminateReliable
      <3>3. /\ closed' \subseteq {"events", "stderr"} /\ working' \in BOOLEAN
            /\ closing' \in BOOLEAN /\ contextDone' \in BOOLEAN /\ drain' \in BOOLEAN
            /\ UNCHANGED <<treeVars, complete, reported, ctx, cancelVars, open,
                           exitObserved, resultSeen, lastTerm, turns, taskVars, first>>
        BY <2>1 DEF LoopEnds
      <3>4. QED
        BY <1>a, <3>1, <3>2, <3>3 DEF TypeOK, cancelVars, taskVars
    <2>2. ASSUME NEW r \in Results, ConfirmReturns(r) PROVE TypeOK'
      BY <1>a, <2>2 DEF ConfirmReturns, TypeOK, harnessVars,
         cancelVars, loopVars, taskVars
    <2>3. CASE commitWorkerExitResolution
      <3>1. mapWorkerExitProcessState \in ProcessStates
        BY DEF mapWorkerExitProcessState, ProcessStates
      <3>2. QED
        BY <1>a, <2>3, <3>1 DEF commitWorkerExitResolution, TypeOK,
           harnessVars, cancelVars, loopVars
    <2>4. CASE Decide
      <3>1. Outcomes \subseteq {"cancelled", "process_unconfirmed", "hard_timeout",
                                "process", "result_missing", "apply"}
        BY DEF Outcomes
      <3>2. QED
        BY <1>a, <2>4, <3>1 DEF Decide, TypeOK, harnessVars, cancelVars,
           loopVars
    <2>5. CASE Save
      BY <1>a, <2>5 DEF Save, TypeOK, harnessVars, cancelVars, loopVars
    <2>6. QED
      BY <1>5, <2>1, <2>2, <2>3, <2>4, <2>5 DEF AfterLoop
  <1>6. CASE UNCHANGED vars
    BY <1>a, <1>6 DEF vars, TypeOK, harnessVars, cancelVars,
       loopVars, taskVars
  <1>7. QED
    BY <1>1, <1>2, <1>3, <1>4, <1>5, <1>6 DEF Next

\* Every variable of a session keeps its type.
THEOREM TypeCorrect == Spec => []TypeOK
  BY InitTypeOK, NextTypeOK, PTL DEF Spec

-----------------------------------------------------------------------------
(* The process dimension. *)

\* commitWorkerExitResolution has run.
Resolved == {"decide", "save", "done"}

\* Until the session is resolved only the cancellation writes the process
\* dimension, and it never writes "exited"; from then on "exited" is backed by
\* the last inspection of the tree, in the driver's copy as well as in the
\* snapshot, because either may overwrite the other.
HonestInv ==
    /\ Truthful(lastTerm)
    /\ pc \notin Resolved => known = "alive" /\ process # "exited"
    /\ pc \in Resolved /\ (process = "exited" \/ known = "exited") =>
           TreeExited(lastTerm)
    /\ pc \in {"decide", "save"} => known # "alive" /\ process # "alive"
    /\ pc = "done" /\ outcome # "stopped" => process # "alive"

LEMMA HonestInit == Init => HonestInv
  BY DEF Init, HonestInv, Truthful, Resolved

\* What an inspection reports is true when it reports it.
LEMMA ReportIsTrue ==
    ASSUME TypeOK, NEW r, TerminateTree(r)
    PROVE  Truthful(r)
  BY DEF TerminateTree, inspectTreeState, Truthful, TreeEmpty, TypeOK, TreeTypeOK

LEMMA HonestStep == TypeOK /\ HonestInv /\ [Next]_vars => HonestInv'
  <1> SUFFICES ASSUME TypeOK, HonestInv, [Next]_vars PROVE HonestInv'
    OBVIOUS
  <1>a. UNCHANGED <<treeVars, lastTerm, pc, known, process, outcome>> => HonestInv'
    BY DEF HonestInv, Truthful, TreeEmpty, treeVars
  <1>b. UNCHANGED <<treeVars, lastTerm>> => Truthful(lastTerm)'
    BY DEF HonestInv, Truthful, TreeEmpty, treeVars
  <1>1. CASE Tree
    <2>1. Truthful(lastTerm)'
      BY <1>1 DEF Tree, OperatingSystem, RootExits, PidReused, Forks, ChildExits,
         HonestInv, Truthful, TreeEmpty, TypeOK, TreeTypeOK
    <2>2. QED
      BY <1>1, <2>1 DEF Tree, HonestInv, taskVars
  <1>2. CASE Harness
    BY <1>a, <1>2 DEF Harness, Emit, CloseStream, ReportExit, HardTimeout, ParentDone,
       taskVars
  <1>3. CASE Cancellation
    <2>1. CASE RequestCancelTask
      BY <1>a, <2>1 DEF RequestCancelTask, taskVars
    <2>2. ASSUME NEW r \in Results, terminateActiveWorker(r) PROVE HonestInv'
      BY <1>a, <2>2 DEF terminateActiveWorker, taskVars
    <2>3. CASE recordCancelOrphanRisk
      <3>1. /\ process' = process \/ process' \in {"orphaned", "unknown"}
            /\ UNCHANGED <<treeVars, lastTerm, pc, known, outcome>>
        BY <2>3 DEF recordCancelOrphanRisk
      <3>2. QED
        BY <1>b, <3>1 DEF HonestInv, TreeExited
    <2>4. QED
      BY <1>3, <2>1, <2>2, <2>3 DEF Cancellation
  <1>4. CASE Loop
    <2>1. CASE ContextDone \/ DrainElapsed
      <3>1. /\ pc \notin Resolved /\ pc' \notin Resolved /\ pc' # "done"
            /\ UNCHANGED <<treeVars, lastTerm, known, process, outcome>>
        BY <2>1 DEF ContextDone, DrainElapsed, Selecting, terminateReliable,
           Resolved, taskVars
      <3>2. QED
        BY <1>b, <3>1 DEF HonestInv, Resolved
    <2>2. ASSUME /\ pc \notin Resolved
                 /\ process' \in {process, known}
                 /\ UNCHANGED <<treeVars, lastTerm, pc, known, outcome>>
          PROVE  HonestInv'
      BY <1>b, <2>2 DEF HonestInv, Resolved
    <2>3. CASE ProgressTick
      BY <2>2, <2>3 DEF ProgressTick, Selecting, Resolved
    <2>4. CASE ObserveExit
      BY <2>2, <2>4 DEF ObserveExit, Selecting, Resolved
    <2>5. ASSUME NEW r \in Results, TerminateReturns(r) PROVE HonestInv'
      <3>1. Truthful(r)
        BY <2>5, ReportIsTrue DEF TerminateReturns
      <3>2. Truthful(lastTerm)'
        BY <2>5, <3>1 DEF TerminateReturns, Truthful, TreeEmpty, treeVars
      <3>3. QED
        BY <2>5, <3>2 DEF TerminateReturns, HonestInv, Resolved, taskVars
    <2>6. CASE handleNative
      BY <2>2, <2>6 DEF handleNative, Selecting, Resolved
    <2>7. HandleEvent \/ StartNextTurn \/ FinalResult \/ TurnFailed => handleNative
      BY DEF HandleEvent, StartNextTurn, FinalResult, TurnFailed
    <2>8. ASSUME NEW ch \in Channels, StreamClosed(ch) PROVE HonestInv'
      BY <1>a, <2>8 DEF StreamClosed, taskVars
    <2>9. QED
      BY <1>4, <2>1, <2>3, <2>4, <2>5, <2>6, <2>7, <2>8 DEF Loop
  <1>5. CASE AfterLoop
    <2>1. CASE LoopEnds
      <3>1. /\ pc \notin Resolved /\ pc' \notin Resolved
            /\ UNCHANGED <<treeVars, lastTerm, known, process, outcome>>
        BY <2>1 DEF LoopEnds, terminateReliable, Resolved, taskVars
      <3>2. QED
        BY <1>b, <3>1 DEF HonestInv, Resolved
    <2>2. ASSUME NEW r \in Results, ConfirmReturns(r) PROVE HonestInv'
      <3>1. Truthful(r)
        BY <2>2, ReportIsTrue DEF ConfirmReturns
      <3>2. Truthful(lastTerm)'
        BY <2>2, <3>1 DEF ConfirmReturns, HonestInv, Truthful, TreeEmpty, treeVars
      <3>3. QED
        BY <2>2, <3>2 DEF ConfirmReturns, HonestInv, Resolved, taskVars
    <2>3. CASE commitWorkerExitResolution
      <3>1. /\ mapWorkerExitProcessState # "alive"
            /\ mapWorkerExitProcessState = "exited" => TreeExited(lastTerm)
        BY DEF mapWorkerExitProcessState
      <3>2. pc \notin Resolved /\ UNCHANGED <<treeVars, lastTerm>>
        BY <2>3 DEF commitWorkerExitResolution, Resolved
      <3>3. /\ known' = mapWorkerExitProcessState
            /\ \/ process' = mapWorkerExitProcessState /\ pc' = "decide"
               \/ process' = process /\ pc' = "done" /\ outcome' = "stopped"
        BY <2>3 DEF commitWorkerExitResolution
      <3>4. QED
        BY <1>b, <3>1, <3>2, <3>3 DEF HonestInv, Resolved, TreeExited
    <2>4. CASE Decide
      <3>1. /\ pc = "decide" /\ pc' = "save" /\ known' = process
            /\ UNCHANGED <<treeVars, lastTerm, process>>
        BY <2>4 DEF Decide
      <3>2. QED
        BY <1>b, <3>1 DEF HonestInv, Resolved, TreeExited
    <2>5. CASE Save
      <3>1. /\ pc = "save" /\ pc' = "done" /\ process' \in {process, known}
            /\ UNCHANGED <<treeVars, lastTerm, known, outcome>>
        BY <2>5 DEF Save
      <3>2. QED
        BY <1>b, <3>1 DEF HonestInv, Resolved, TreeExited
    <2>6. QED
      BY <1>5, <2>1, <2>2, <2>3, <2>4, <2>5 DEF AfterLoop
  <1>6. CASE UNCHANGED vars
    BY <1>a, <1>6 DEF vars, taskVars
  <1>7. QED
    BY <1>1, <1>2, <1>3, <1>4, <1>5, <1>6 DEF Next

\* Whatever the tree, the harness, the timers and a concurrent cancellation do,
\* the snapshot says "exited" only if runWorkerSession's last TerminateTree found
\* the tree gone or its pid reused, and a session that ends does not leave
\* "alive" behind unless its Commit failed.
THEOREM ExitStaysHonest == Spec => []ExitIsHonest
  <1>1. HonestInv => ExitIsHonest
    BY DEF HonestInv, ExitIsHonest, Truthful, TreeExited
  <1>2. QED
    BY <1>1, HonestInit, HonestStep, TypeCorrect, PTL DEF Spec

-----------------------------------------------------------------------------
(* The result of the session. *)

\* A turn has one end, so as long as the loop has handled none the channel holds
\* at most one, behind everything else; and since an observed exit empties the
\* channel, what is still to come after it is a trailing result.  Hence ResultSeen
\* says exactly that the first end the loop handled is a result sent in time.
ResultInv ==
    /\ resultSeen <=> first = "result"
    /\ ~closing => first = "none" /\ ~exitObserved
    /\ first = "trailing" => exitObserved
    /\ exitObserved => "exited" \notin open
    /\ closing /\ first = "none" /\ "events" \in open => exitObserved
    /\ first = "failed" => ~working

ChannelInv ==
    /\ ~exitObserved => \A i \in 1..Len(inbox) : inbox[i] # "trailing"
    /\ exitObserved /\ "events" \in open =>
           \A i \in 1..Len(inbox) : inbox[i] # "result"
    /\ first = "none" =>
           \A i \in 1..Len(inbox) : inbox[i] \in TurnEnds => ~working /\ i = Len(inbox)
    /\ first = "failed" => \A i \in 1..Len(inbox) : inbox[i] \notin TurnEnds

OutcomeInv ==
    /\ outcome # "none" => pc \in {"save", "done"}
    /\ outcome = "apply" => resultSeen
    /\ outcome \in {"process", "result_missing", "process_unconfirmed"} => ~resultSeen

TurnInv == ResultInv /\ ChannelInv /\ OutcomeInv

LEMMA TurnInit == Init => TurnInv
  <1> SUFFICES ASSUME Init PROVE TurnInv
    OBVIOUS
  <1>1. ResultInv
    BY DEF Init, ResultInv
  <1>2. ChannelInv
    BY DEF Init, ChannelInv
  <1>3. OutcomeInv
    BY DEF Init, OutcomeInv
  <1>4. QED
    BY <1>1, <1>2, <1>3 DEF TurnInv

\* The first end among no ends, and among one.
LEMMA FirstEndNone ==
    ASSUME NEW events \in Seq(Kinds),
           first # "none" \/ \A i \in 1..Len(events) : events[i] \notin TurnEnds
    PROVE  FirstEnd(events) = first
  BY DEF FirstEnd

LEMMA FirstEndOne ==
    ASSUME NEW events \in Seq(Kinds), first = "none",
           NEW k \in 1..Len(events), events[k] \in TurnEnds,
           \A i \in 1..Len(events) : events[i] \in TurnEnds => i = k
    PROVE  FirstEnd(events) = events[k]
  <1> DEFINE ends == {i \in 1..Len(events) : events[i] \in TurnEnds}
  <1>1. ends = {k}
    OBVIOUS
  <1>2. (CHOOSE i \in {k} : \A j \in {k} : i <= j) = k
    OBVIOUS
  <1>3. QED
    BY <1>1, <1>2 DEF FirstEnd

LEMMA FirstEndHead ==
    ASSUME NEW kind \in Kinds
    PROVE  FirstEnd(<<kind>>) =
               IF first = "none" /\ kind \in TurnEnds THEN kind ELSE first
  <1>1. /\ <<kind>> \in Seq(Kinds) /\ Len(<<kind>>) = 1 /\ <<kind>>[1] = kind
        /\ 1 \in 1..Len(<<kind>>) /\ \A i \in 1..Len(<<kind>>) : i = 1
    OBVIOUS
  <1>2. CASE first = "none" /\ kind \in TurnEnds
    BY <1>1, <1>2, FirstEndOne
  <1>3. CASE ~(first = "none" /\ kind \in TurnEnds)
    BY <1>1, <1>3, FirstEndNone
  <1>4. QED
    BY <1>2, <1>3

\* handleNative takes the oldest event.
LEMMA HandleFacts ==
    ASSUME TypeOK, handleNative
    PROVE  /\ pc = "loop" /\ "events" \in open
           /\ Len(inbox) \in Nat \ {0}
           /\ Head(inbox) \in Kinds /\ Head(inbox) = inbox[1]
           /\ Len(inbox') = Len(inbox) - 1
           /\ \A i \in 1..Len(inbox') : i + 1 \in 1..Len(inbox)
                                        /\ inbox'[i] = inbox[i + 1]
           /\ FirstEnd(<<Head(inbox)>>) =
                  IF first = "none" /\ Head(inbox) \in TurnEnds
                  THEN Head(inbox) ELSE first
  <1>1. inbox \in Seq(Kinds) /\ inbox # <<>> /\ inbox' = Tail(inbox)
    BY DEF handleNative, TypeOK
  <1>2. pc = "loop" /\ "events" \in open
    BY DEF handleNative, Selecting
  <1>3. Head(inbox) \in Kinds
    BY <1>1, QueueFacts
  <1>4. QED
    BY <1>1, <1>2, <1>3, FirstEndHead

\* A step that touches none of what TurnInv is about preserves it.
LEMMA TurnUnchanged ==
    ASSUME TurnInv,
           UNCHANGED <<inbox, working, open, closing, exitObserved, resultSeen, first,
                       outcome>>,
           pc \in {"save", "done"} => pc' \in {"save", "done"}
    PROVE  TurnInv'
  <1>1. ResultInv'
    BY DEF TurnInv, ResultInv
  <1>2. ChannelInv'
    BY DEF TurnInv, ChannelInv
  <1>3. OutcomeInv'
    BY DEF TurnInv, OutcomeInv
  <1>4. QED
    BY <1>1, <1>2, <1>3 DEF TurnInv

LEMMA TurnEmit ==
    ASSUME TypeOK, TurnInv, NEW kind \in Kinds, Emit(kind)
    PROVE  TurnInv'
  <1> USE DEF TurnInv
  <1>1. /\ Len(inbox) \in Nat /\ Len(inbox') = Len(inbox) + 1
        /\ inbox'[Len(inbox')] = kind
        /\ \A i \in 1..Len(inbox) : inbox'[i] = inbox[i]
    BY DEF Emit, TypeOK
  <1>2. /\ working /\ (working' <=> kind = "output")
        /\ kind = "trailing" => exitObserved
        /\ kind = "result" => ~exitObserved
        /\ UNCHANGED <<open, closing, exitObserved, resultSeen, first, pc, outcome>>
    BY DEF Emit, loopVars, taskVars, ResultSubmitted
  <1>3. ResultInv'
    BY <1>2 DEF ResultInv
  <1>4. \A i \in 1..Len(inbox') : i \in 1..Len(inbox) \/ i = Len(inbox')
    BY <1>1
  <1>5. ChannelInv'
    <2>1. ~exitObserved' => \A i \in 1..Len(inbox') : inbox'[i] # "trailing"
      BY <1>1, <1>2, <1>4 DEF ChannelInv
    <2>2. exitObserved' /\ "events" \in open' =>
              \A i \in 1..Len(inbox') : inbox'[i] # "result"
      BY <1>1, <1>2, <1>4 DEF ChannelInv
    <2>3. ASSUME first' = "none", NEW i \in 1..Len(inbox'), inbox'[i] \in TurnEnds
          PROVE  ~working' /\ i = Len(inbox')
      <3>1. \A j \in 1..Len(inbox) : inbox[j] \notin TurnEnds
        BY <1>2, <2>3 DEF ChannelInv
      <3>2. i = Len(inbox') /\ kind \in TurnEnds
        BY <1>1, <1>4, <2>3, <3>1
      <3>3. QED
        BY <1>2, <3>2 DEF TurnEnds
    <2>4. first' # "failed"
      BY <1>2 DEF ResultInv
    <2>5. QED
      BY <2>1, <2>2, <2>3, <2>4 DEF ChannelInv
  <1>6. OutcomeInv'
    BY <1>2 DEF OutcomeInv
  <1>7. QED
    BY <1>3, <1>5, <1>6

\* While the loop runs nothing has been decided.
LEMMA NothingDecided ==
    ASSUME TurnInv, pc \in {"loop", "terminating"}, outcome' = outcome
    PROVE  OutcomeInv'
  BY DEF TurnInv, OutcomeInv

LEMMA TurnObserveExit ==
    ASSUME TypeOK, TurnInv, ObserveExit
    PROVE  TurnInv'
  <1> USE DEF TurnInv
  <1>1. ~exitObserved /\ exitObserved' /\ closing' /\ "exited" \notin open'
        /\ working' = working
    BY DEF ObserveExit, ResultInv, harnessVars
  <1>2. CASE "events" \notin open
    <2>1. /\ UNCHANGED <<inbox, resultSeen, first>> /\ "events" \notin open'
      BY <1>2 DEF ObserveExit
    <2>2. ResultInv'
      BY <1>1, <2>1 DEF ResultInv
    <2>3. ChannelInv'
      BY <1>1, <2>1 DEF ChannelInv
    <2>4. QED
      BY <2>2, <2>3, NothingDecided DEF ObserveExit, Selecting
  <1>3. CASE "events" \in open
    <2>1. /\ inbox' = <<>> /\ first' = FirstEnd(inbox)
          /\ resultSeen' = (resultSeen \/ \E i \in 1..Len(inbox) :
                                              inbox[i] \in ResultSubmitted)
      BY <1>3 DEF ObserveExit
    <2>2. inbox \in Seq(Kinds) /\ Len(inbox) \in Nat
      BY DEF TypeOK
    <2>3. \A i \in 1..Len(inbox) : inbox[i] # "trailing"
      BY <1>1 DEF ChannelInv
    <2>4. /\ resultSeen' <=> first' = "result"
          /\ first' # "trailing"
          /\ first' = "failed" => ~working
      <3>1. CASE first # "none"
        <4>1. first' = first
          BY <2>1, <2>2, <3>1, FirstEndNone
        <4>2. CASE first = "result"
          BY <2>1, <4>1, <4>2 DEF ResultInv
        <4>3. CASE first = "failed"
          <5>1. ~resultSeen /\ ~working
            BY <4>3 DEF ResultInv
          <5>2. \A i \in 1..Len(inbox) : inbox[i] \notin ResultSubmitted
            BY <4>3 DEF ChannelInv, ResultSubmitted, TurnEnds
          <5>3. QED
            BY <2>1, <4>1, <4>3, <5>1, <5>2
        <4>4. CASE first = "trailing"
          BY <1>1, <4>4 DEF ResultInv
        <4>5. QED
          BY <3>1, <4>2, <4>3, <4>4 DEF TypeOK, TurnEnds
      <3>2. CASE first = "none" /\ \A i \in 1..Len(inbox) : inbox[i] \notin TurnEnds
        <4>1. first' = first
          BY <2>1, <2>2, <3>2, FirstEndNone
        <4>2. ~resultSeen'
          BY <2>1, <3>2 DEF ResultInv, ResultSubmitted, TurnEnds
        <4>3. QED
          BY <3>2, <4>1, <4>2
      <3>3. ASSUME first = "none", NEW k \in 1..Len(inbox), inbox[k] \in TurnEnds
            PROVE  /\ resultSeen' <=> first' = "result"
                   /\ first' # "trailing"
                   /\ first' = "failed" => ~working
        <4>1. ~working /\ \A i \in 1..Len(inbox) : inbox[i] \in TurnEnds => i = k
          BY <3>3 DEF ChannelInv
        <4>2. first' = inbox[k]
          BY <2>1, <2>2, <3>3, <4>1, FirstEndOne
        <4>3. ~resultSeen
          BY <3>3 DEF ResultInv
        <4>4. resultSeen' <=> inbox[k] \in ResultSubmitted
          BY <2>1, <3>3, <4>1, <4>3 DEF ResultSubmitted, TurnEnds
        <4>5. QED
          BY <2>3, <3>3, <4>1, <4>2, <4>4 DEF ResultSubmitted, TurnEnds
      <3>4. QED
        BY <3>1, <3>2, <3>3
    <2>5. ResultInv'
      BY <1>1, <2>4 DEF ResultInv
    <2>6. ChannelInv'
      BY <2>1 DEF ChannelInv
    <2>7. QED
      BY <2>5, <2>6, NothingDecided DEF ObserveExit, Selecting
  <1>4. QED
    BY <1>2, <1>3

LEMMA TurnHandle ==
    ASSUME TypeOK, TurnInv, HandleEvent \/ StartNextTurn \/ FinalResult \/ TurnFailed
    PROVE  TurnInv'
  <1> USE DEF TurnInv
  <1> DEFINE x == Head(inbox)
  <1>1. handleNative
    BY DEF HandleEvent, StartNextTurn, FinalResult, TurnFailed
  <1>2. /\ pc = "loop" /\ "events" \in open
        /\ Len(inbox) \in Nat \ {0} /\ x \in Kinds /\ x = inbox[1]
        /\ Len(inbox') = Len(inbox) - 1
        /\ \A i \in 1..Len(inbox') : i + 1 \in 1..Len(inbox)
                                     /\ inbox'[i] = inbox[i + 1]
        /\ FirstEnd(<<x>>) = IF first = "none" /\ x \in TurnEnds THEN x ELSE first
    BY <1>1, HandleFacts
  <1>3. UNCHANGED <<open, exitObserved>> /\ outcome' = outcome
    BY <1>1 DEF handleNative
  <1> HIDE DEF x
  <1>4. /\ ~exitObserved => x # "trailing"
        /\ exitObserved => x # "result"
        /\ first = "none" /\ x \in TurnEnds => ~working /\ Len(inbox) = 1
        /\ first = "failed" => x \notin TurnEnds
    BY <1>2 DEF ChannelInv
  <1>5. /\ ~exitObserved => \A i \in 1..Len(inbox') : inbox'[i] # "trailing"
        /\ exitObserved => \A i \in 1..Len(inbox') : inbox'[i] # "result"
        /\ first = "none" => \A i \in 1..Len(inbox') :
               inbox'[i] \in TurnEnds => ~working /\ i = Len(inbox')
        /\ first = "failed" => \A i \in 1..Len(inbox') : inbox'[i] \notin TurnEnds
    BY <1>2 DEF ChannelInv
  <1>6. OutcomeInv'
    BY <1>2, <1>3, NothingDecided
  <1>7. CASE HandleEvent
    <2>1. /\ closing \/ x = "output"
          /\ first' = FirstEnd(<<x>>)
          /\ UNCHANGED <<working, closing, resultSeen>>
      BY <1>7 DEF HandleEvent, x
    <2>2. CASE first = "none" /\ x \in TurnEnds
      <3>1. closing /\ exitObserved /\ first' = x /\ x \in {"failed", "trailing"}
        BY <1>2, <1>4, <2>1, <2>2 DEF ResultInv, TurnEnds
      <3>2. ~working /\ Len(inbox') = 0
        BY <1>2, <1>4, <2>2
      <3>3. ResultInv'
        BY <1>2, <1>3, <2>1, <2>2, <3>1, <3>2 DEF ResultInv
      <3>4. ChannelInv'
        BY <3>2 DEF ChannelInv
      <3>5. QED
        BY <1>6, <3>3, <3>4
    <2>3. CASE ~(first = "none" /\ x \in TurnEnds)
      <3>1. first' = first
        BY <1>2, <2>1, <2>3
      <3>2. ResultInv'
        BY <1>3, <2>1, <3>1 DEF ResultInv
      <3>3. ChannelInv'
        BY <1>3, <1>5, <2>1, <3>1 DEF ChannelInv
      <3>4. QED
        BY <1>6, <3>2, <3>3
    <2>4. QED
      BY <2>2, <2>3
  <1>8. CASE StartNextTurn \/ FinalResult \/ TurnFailed
    <2>1. ~closing /\ x \in TurnEnds
      BY <1>8 DEF StartNextTurn, FinalResult, TurnFailed, x, ResultSubmitted, TurnEnds
    <2>2. /\ first = "none" /\ ~exitObserved /\ ~resultSeen
          /\ ~working /\ Len(inbox') = 0
      BY <1>2, <1>4, <2>1 DEF ResultInv
    <2>3. ChannelInv'
      BY <2>2 DEF ChannelInv
    <2>4. CASE StartNextTurn
      <3>1. first' = "none" /\ UNCHANGED <<closing, resultSeen>>
        BY <2>4 DEF StartNextTurn
      <3>2. ResultInv'
        BY <1>3, <2>1, <2>2, <3>1 DEF ResultInv
      <3>3. QED
        BY <1>6, <2>3, <3>2
    <2>5. CASE FinalResult
      <3>1. x \in ResultSubmitted /\ resultSeen' /\ closing' /\ first' = FirstEnd(<<x>>)
        BY <2>5 DEF FinalResult, x
      <3>2. first' = "result"
        BY <1>2, <1>4, <2>1, <2>2, <3>1 DEF ResultSubmitted
      <3>3. ResultInv'
        BY <1>3, <2>2, <3>1, <3>2 DEF ResultInv
      <3>4. QED
        BY <1>6, <2>3, <3>3
    <2>6. CASE TurnFailed
      <3>1. /\ x = "failed" /\ ~resultSeen' /\ closing' /\ first' = FirstEnd(<<x>>)
            /\ working' = working
        BY <2>6 DEF TurnFailed, x
      <3>2. first' = "failed"
        BY <1>2, <2>1, <2>2, <3>1
      <3>3. ResultInv'
        BY <1>3, <2>2, <3>1, <3>2 DEF ResultInv
      <3>4. QED
        BY <1>6, <2>3, <3>3
    <2>7. QED
      BY <1>8, <2>4, <2>5, <2>6
  <1>9. QED
    BY <1>7, <1>8

LEMMA TurnStep == TypeOK /\ TurnInv /\ [Next]_vars => TurnInv'
  <1> SUFFICES ASSUME TypeOK, TurnInv, [Next]_vars PROVE TurnInv'
    OBVIOUS
  <1>1. CASE Tree
    BY <1>1, TurnUnchanged DEF Tree, harnessVars, loopVars, taskVars
  <1>2. CASE Harness
    <2>1. ASSUME NEW kind \in Kinds, Emit(kind) PROVE TurnInv'
      BY <2>1, TurnEmit
    <2>2. ASSUME NEW ch \in Channels, CloseStream(ch) PROVE TurnInv'
      BY <2>2, TurnUnchanged DEF CloseStream, loopVars, taskVars
    <2>3. CASE ReportExit \/ HardTimeout \/ ParentDone
      BY <2>3, TurnUnchanged DEF ReportExit, HardTimeout, ParentDone, harnessVars,
         loopVars, taskVars
    <2>4. QED
      BY <1>2, <2>1, <2>2, <2>3 DEF Harness
  <1>3. CASE Cancellation
    BY <1>3, TurnUnchanged DEF Cancellation, RequestCancelTask, terminateActiveWorker,
       recordCancelOrphanRisk, harnessVars, loopVars, taskVars
  <1>4. CASE Loop
    <2>1. CASE ContextDone
      BY <2>1, TurnUnchanged DEF ContextDone, Selecting, harnessVars, taskVars
    <2>2. CASE ProgressTick
      BY <2>2, TurnUnchanged DEF ProgressTick, harnessVars, loopVars
    <2>3. ASSUME pc = "loop", open' \subseteq open,
                 UNCHANGED <<inbox, working, closing, exitObserved, resultSeen, first,
                             outcome>>
          PROVE  TurnInv'
      <3>1. ResultInv'
        BY <2>3 DEF TurnInv, ResultInv
      <3>2. ChannelInv'
        BY <2>3 DEF TurnInv, ChannelInv
      <3>3. QED
        BY <2>3, <3>1, <3>2, NothingDecided DEF TurnInv
    <2>4. CASE DrainElapsed
      BY <2>3, <2>4 DEF DrainElapsed, Selecting, harnessVars, taskVars
    <2>5. ASSUME NEW r \in Results, TerminateReturns(r) PROVE TurnInv'
      BY <2>5, TurnUnchanged DEF TerminateReturns, harnessVars, loopVars, taskVars
    <2>6. CASE ObserveExit
      BY <2>6, TurnObserveExit
    <2>7. CASE HandleEvent \/ StartNextTurn \/ FinalResult \/ TurnFailed
      BY <2>7, TurnHandle
    <2>8. ASSUME NEW ch \in Channels, StreamClosed(ch) PROVE TurnInv'
      BY <2>3, <2>8 DEF StreamClosed, Selecting, harnessVars, taskVars
    <2>9. QED
      BY <1>4, <2>1, <2>2, <2>4, <2>5, <2>6, <2>7, <2>8 DEF Loop
  <1>5. CASE AfterLoop
    <2>1. CASE LoopEnds
      <3>1. /\ pc = "loop" /\ open = {} /\ inbox' = <<>> /\ ~working' /\ closing'
            /\ UNCHANGED <<open, exitObserved, resultSeen, first, outcome>>
        BY <2>1 DEF LoopEnds, taskVars
      <3>2. ResultInv'
        BY <3>1 DEF TurnInv, ResultInv
      <3>3. ChannelInv'
        BY <3>1 DEF ChannelInv
      <3>4. QED
        BY <3>1, <3>2, <3>3, NothingDecided DEF TurnInv
    <2>2. ASSUME NEW r \in Results, ConfirmReturns(r) PROVE TurnInv'
      BY <2>2, TurnUnchanged DEF ConfirmReturns, harnessVars, loopVars, taskVars
    <2>3. ASSUME UNCHANGED <<inbox, working, open, closing, exitObserved, resultSeen,
                             first>>,
                 OutcomeInv'
          PROVE  TurnInv'
      <3>1. ResultInv'
        BY <2>3 DEF TurnInv, ResultInv
      <3>2. ChannelInv'
        BY <2>3 DEF TurnInv, ChannelInv
      <3>3. QED
        BY <2>3, <3>1, <3>2 DEF TurnInv
    <2>4. CASE commitWorkerExitResolution
      <3>1. OutcomeInv'
        BY <2>4 DEF commitWorkerExitResolution, TurnInv, OutcomeInv
      <3>2. QED
        BY <2>3, <2>4, <3>1 DEF commitWorkerExitResolution, harnessVars, loopVars
    <2>5. CASE Decide
      <3>1. /\ "apply" \in Outcomes => resultSeen
            /\ \A o \in {"process", "result_missing", "process_unconfirmed"} :
                   o \in Outcomes => ~resultSeen
        BY DEF Outcomes
      <3>2. outcome' \in Outcomes /\ pc' = "save" /\ resultSeen' = resultSeen
        BY <2>5 DEF Decide, loopVars
      <3>3. OutcomeInv'
        BY <3>1, <3>2 DEF OutcomeInv
      <3>4. QED
        BY <2>3, <2>5, <3>3 DEF Decide, harnessVars, loopVars
    <2>6. CASE Save
      BY <2>6, TurnUnchanged DEF Save, harnessVars, loopVars
    <2>7. QED
      BY <1>5, <2>1, <2>2, <2>4, <2>5, <2>6 DEF AfterLoop
  <1>6. CASE UNCHANGED vars
    BY <1>6, TurnUnchanged DEF vars, harnessVars, loopVars, taskVars
  <1>7. QED
    BY <1>1, <1>2, <1>3, <1>4, <1>5, <1>6 DEF Next

\* executeTask applies a result only if the last turn that was started ended with
\* it, and never the result that began another turn, nor that of a failed turn.
THEOREM AppliedResultStaysCurrent == Spec => []AppliedResultIsCurrent
  <1>1. TurnInv => AppliedResultIsCurrent
    BY DEF TurnInv, ResultInv, OutcomeInv, AppliedResultIsCurrent
  <1>2. QED
    BY <1>1, TurnInit, TurnStep, TypeCorrect, PTL DEF Spec

\* A result that was in the channel when the exit was observed is not called
\* missing, however many events the channel holds.
THEOREM BufferedResultAlwaysCounts == Spec => []BufferedResultCounts
  <1>1. TurnInv => BufferedResultCounts
    BY DEF TurnInv, ResultInv, OutcomeInv, BufferedResultCounts
  <1>2. QED
    BY <1>1, TurnInit, TurnStep, TypeCorrect, PTL DEF Spec

-----------------------------------------------------------------------------
(* The adapter's end: GrokSession and the EventStream it publishes to. *)

-----------------------------------------------------------------------------
(* The inductive invariant of the adapter's end. *)

Events == [kind : {"model.output_delta", "notice", "result.submitted", "turn.failed"}, gen : Ids]
Lines == [type : {"chunk", "reply", "notice"}, id : Ids, ok : BOOLEAN]
Turns == [completed : BOOLEAN, success : BOOLEAN, final : Seq(Gens)]

\* Where a sequence holds a value of S.
Hits(s, S) == {i \in DOMAIN s : s[i] \in S}
Progress == {e \in Events : ~IsCriticalNativeEvent(e)}
Chunks == {l \in Lines : l.type = "chunk"}

StreamTypes ==
    /\ queue \in Seq(Events) /\ out \in Seq(Events) /\ accepted \in Seq(Events)
    /\ accepting \in BOOLEAN /\ gracefulClose \in BOOLEAN /\ aborting \in BOOLEAN
    /\ ownerExited \in BOOLEAN

ProcessTypes ==
    /\ alive \in BOOLEAN /\ reaped \in BOOLEAN /\ inputClosed \in BOOLEAN
    /\ lines \in Seq(Lines)
    /\ work \in [Ids -> {"none", "open", "ok", "error"}]
    /\ spoken \in [Gens -> Nat] /\ notices \in [Gens -> Nat]

SessionTypes ==
    /\ generation \in 0..MaxGen /\ promptInFlight \in BOOLEAN
    /\ output \in Seq(Gens) /\ turn \in [Gens -> Turns]
    /\ pending \subseteq Ids /\ response \in [Ids -> {"none", "ok", "error"}]
    /\ readerExited \in BOOLEAN /\ shutdown \in BOOLEAN /\ ctxDone \in BOOLEAN
    /\ start \in {"call", "wait", "prompt", "sending", "running", "failed"}
    /\ prompt \in [Gens -> {"none", "write", "wait", "finalize", "record", "done", "failed"}]
    /\ pick \in [Gens -> {"none", "ok", "error", "stop"}]
    /\ reader \in {"read", "signal", "exit", "drain", "done"}
    /\ term \in {"idle", "done"}

\* What was accepted is what was sent and what is queued, and no event is refused: Publish
\* is called only while the stream accepts or is being aborted.
StreamInv ==
    /\ progressInQueue = Cardinality(Hits(queue, Progress))
    /\ progressInQueue <= ProgressQueueLimit
    /\ refused = {}
    /\ ~ownerExited => accepted = out \o queue
    /\ ownerExited => queue = <<>> /\ ~accepting /\ IsPrefix(out, accepted)
                      /\ (aborting \/ accepted = out)

\* How far the reader is past the end of the process, and that it closes the stream when no
\* waiter is left that could publish.
EndInv ==
    /\ reader # "read" => ~alive /\ shutdown /\ lines = <<>>
    /\ readerExited <=> reader \in {"drain", "done"}
    /\ reader = "done" => producers = {}
    /\ gracefulClose => reader = "done"
    /\ accepting <=> ~gracefulClose /\ ~aborting
    /\ reaped => ~alive
    /\ ~ctxDone /\ term = "idle" /\ reader = "read" => ~shutdown

\* Where prompt g is: only the latest is in flight, and what is known of it while it is.
PromptOK(g) ==
       /\ prompt[g] = "none" <=> g > generation
       /\ g \in pending => prompt[g] \in {"write", "wait"}
       /\ prompt[g] \in {"write", "wait"} => g = generation /\ promptInFlight
       /\ prompt[g] \in {"none", "write"} =>
             work[g] = "none" /\ response[g] = "none" /\ spoken[g] = 0
       /\ pick[g] # "none" => prompt[g] \in {"finalize", "record"}
       /\ turn[g].success => turn[g].completed
       /\ prompt[g] = "record" => turn[g].completed /\ (turn[g].success <=> pick[g] = "ok")

PromptInv == \A g \in Gens : PromptOK(g)

\* BoundaryIsReady, and that a waiter which has published is done.
BoundaryInv ==
    /\ \A i \in DOMAIN accepted : IsBoundary(accepted[i]) =>
          LET g == accepted[i].gen IN
          /\ g \in Gens /\ prompt[g] = "done" /\ turn[g].completed
          /\ accepted[i] = Boundary(g, turn[g].success)
    /\ \A i, j \in DOMAIN accepted :
          IsBoundary(accepted[i]) /\ accepted[i].gen = accepted[j].gen
             /\ IsBoundary(accepted[j]) => i = j

IsReply(l, g) == l.type = "reply" /\ l.id = g
IsChunk(l) == l.type = "chunk"
Answer(ok) == IF ok THEN "ok" ELSE "error"

\* A reply on its way, in the channel of its waiter, picked or recorded is the harness's own
\* answer to that prompt, and comes behind all its chunks.
ReplyInv ==
    /\ \A i \in DOMAIN lines, g \in Gens : IsReply(lines[i], g) => work[g] = Answer(lines[i].ok)
    /\ \A i \in DOMAIN lines : IsChunk(lines[i]) => lines[i].id \in Gens /\ work[lines[i].id] # "none"
    /\ \A i, j \in DOMAIN lines, g \in Gens :
          IsReply(lines[i], g) /\ IsChunk(lines[j]) /\ lines[j].id = g => j < i
    /\ \A g \in Gens : /\ response[g] # "none" => work[g] = response[g]
                       /\ pick[g] \in {"ok", "error"} => work[g] = pick[g]
                       /\ turn[g].success => work[g] = "ok"

Undisturbed == ~ctxDone /\ term = "idle"
Answered(g) == response[g] # "none" \/ pick[g] \in {"ok", "error"}

\* As long as nobody ends the session, the chunks of the latest prompt are in output or
\* before its reply in the pipe; no other prompt has one there.
TextInv == Undisturbed =>
    /\ \A g \in Gens : turn[g].success => turn[g].final = [i \in 1..spoken[g] |-> g]
    /\ \A i \in DOMAIN lines : IsChunk(lines[i]) => lines[i].id = generation /\ promptInFlight
    /\ reader = "read" => \A g \in Gens : work[g] = "open" => g = generation /\ promptInFlight
    /\ \A i \in DOMAIN output : output[i] = generation
    /\ generation # 0 /\ (~reaped \/ \E i \in DOMAIN lines : IsReply(lines[i], generation))
          => spoken[generation] = Len(output) + Cardinality(Hits(lines, Chunks))
    /\ generation # 0 /\ Answered(generation) =>
          spoken[generation] = Len(output) /\ \A i \in DOMAIN lines : ~IsChunk(lines[i])

\* All of it, preserved by every step.
SessionInv ==
    /\ StreamTypes /\ ProcessTypes /\ SessionTypes
    /\ StreamInv /\ EndInv /\ PromptInv /\ BoundaryInv /\ ReplyInv /\ TextInv

-----------------------------------------------------------------------------
(* Sequences, and how often a value of a set occurs in one. *)

LEMMA HitsFinite ==
    ASSUME NEW T, NEW s \in Seq(T), NEW S
    PROVE  IsFiniteSet(Hits(s, S)) /\ Cardinality(Hits(s, S)) \in Nat
  <1>1. IsFiniteSet(1 .. Len(s))
    BY FS_Interval
  <1>2. Hits(s, S) \subseteq 1 .. Len(s)
    BY DEF Hits
  <1>3. IsFiniteSet(Hits(s, S))
    BY <1>1, <1>2, FS_Subset
  <1>4. QED
    BY <1>3, FS_CardinalityType

LEMMA HitsEmpty == \A S : Hits(<<>>, S) = {} /\ Cardinality(Hits(<<>>, S)) = 0
  BY FS_EmptySet DEF Hits

LEMMA HitsAppend ==
    ASSUME NEW T, NEW s \in Seq(T), NEW S, NEW e \in T
    PROVE  Cardinality(Hits(Append(s, e), S))
              = IF e \in S THEN Cardinality(Hits(s, S)) + 1 ELSE Cardinality(Hits(s, S))
  <1>1. DOMAIN Append(s, e) = DOMAIN s \cup {Len(s) + 1}
    OBVIOUS
  <1>2. \A i \in DOMAIN s : Append(s, e)[i] = s[i]
    OBVIOUS
  <1>3. Append(s, e)[Len(s) + 1] = e
    OBVIOUS
  <1>4. Len(s) + 1 \notin Hits(s, S)
    BY DEF Hits
  <1>5. CASE e \in S
    <2>1. Hits(Append(s, e), S) = Hits(s, S) \cup {Len(s) + 1}
      BY <1>1, <1>2, <1>3, <1>5 DEF Hits
    <2>2. QED
      BY <1>4, <1>5, <2>1, HitsFinite, FS_AddElement
  <1>6. CASE e \notin S
    <2>1. Hits(Append(s, e), S) = Hits(s, S)
      BY <1>1, <1>2, <1>3, <1>6 DEF Hits
    <2>2. QED
      BY <1>6, <2>1
  <1>7. QED
    BY <1>5, <1>6

LEMMA HitsTail ==
    ASSUME NEW T, NEW s \in Seq(T), s # <<>>, NEW S
    PROVE  Cardinality(Hits(Tail(s), S))
              = IF Head(s) \in S THEN Cardinality(Hits(s, S)) - 1 ELSE Cardinality(Hits(s, S))
  <1> DEFINE rest == {i \in Hits(s, S) : i # 1}
             shift == [i \in Hits(Tail(s), S) |-> i + 1]
  <1>1. /\ Tail(s) \in Seq(T) /\ DOMAIN Tail(s) = 1 .. (Len(s) - 1)
        /\ \A i \in DOMAIN Tail(s) : Tail(s)[i] = s[i + 1]
        /\ 1 \in DOMAIN s /\ Head(s) = s[1] /\ Len(s) \in Nat \ {0}
    OBVIOUS
  <1>2. \A i \in Hits(Tail(s), S) : i \in Nat /\ i + 1 \in rest
    BY <1>1 DEF Hits
  <1>3. \A j \in rest : j - 1 \in Hits(Tail(s), S) /\ shift[j - 1] = j
    <2> SUFFICES ASSUME NEW j \in rest PROVE j - 1 \in Hits(Tail(s), S) /\ shift[j - 1] = j
      OBVIOUS
    <2>1. j \in 1 .. Len(s) /\ j # 1 /\ s[j] \in S
      BY DEF Hits
    <2>2. j - 1 \in DOMAIN Tail(s) /\ Tail(s)[j - 1] = s[j]
      BY <1>1, <2>1
    <2>3. QED
      BY <2>1, <2>2 DEF Hits
  <1>4. shift \in Bijection(Hits(Tail(s), S), rest)
    <2>1. shift \in [Hits(Tail(s), S) -> rest]
      BY <1>2
    <2>2. \A a, b \in Hits(Tail(s), S) : shift[a] = shift[b] => a = b
      BY <1>2
    <2>3. \A j \in rest : \E a \in Hits(Tail(s), S) : shift[a] = j
      BY <1>3
    <2>4. QED
      BY <2>1, <2>2, <2>3 DEF Bijection, Injection, Surjection, IsInjective
  <1>5. Cardinality(rest) = Cardinality(Hits(Tail(s), S))
    <2>1. IsFiniteSet(Hits(Tail(s), S))
      BY <1>1, HitsFinite
    <2>2. QED
      <3> HIDE DEF rest, shift
      <3> QED BY <1>4, <2>1, FS_Bijection DEF ExistsBijection
  <1>6. CASE Head(s) \in S
    <2>1. 1 \in Hits(s, S) /\ rest = Hits(s, S) \ {1}
      BY <1>1, <1>6 DEF Hits
    <2>2. QED
      BY <1>5, <1>6, <2>1, HitsFinite, FS_RemoveElement
  <1>7. CASE Head(s) \notin S
    <2>1. rest = Hits(s, S)
      BY <1>1, <1>7 DEF Hits
    <2>2. QED
      BY <1>5, <1>7, <2>1
  <1>8. QED
    BY <1>6, <1>7

-----------------------------------------------------------------------------
(* The stream. *)

LEMMA SeqEqual ==
    ASSUME NEW T, NEW s \in Seq(T), NEW t \in Seq(T), Len(s) = Len(t),
           \A i \in 1 .. Len(s) : s[i] = t[i]
    PROVE  s = t
  OBVIOUS

LEMMA ConcatAppend ==
    ASSUME NEW T, NEW r \in Seq(T), NEW s \in Seq(T), NEW e \in T
    PROVE  r \o Append(s, e) = Append(r \o s, e)
  OBVIOUS

LEMMA ConcatMove ==
    ASSUME NEW T, NEW r \in Seq(T), NEW s \in Seq(T), s # <<>>
    PROVE  Append(r, Head(s)) \o Tail(s) = r \o s
  <1> DEFINE u == Append(r, Head(s)) \o Tail(s)
  <1>1. /\ Head(s) \in T /\ Tail(s) \in Seq(T) /\ Len(s) \in Nat \ {0} /\ Len(Tail(s)) = Len(s) - 1
        /\ Head(s) = s[1] /\ \A i \in 1 .. Len(Tail(s)) : Tail(s)[i] = s[i + 1]
    OBVIOUS
  <1>2. Append(r, Head(s)) \in Seq(T) /\ Len(Append(r, Head(s))) = Len(r) + 1
    BY <1>1
  <1>3. u \in Seq(T) /\ Len(u) = Len(r) + Len(s)
    BY <1>1, <1>2
  <1>4. r \o s \in Seq(T) /\ Len(r \o s) = Len(r) + Len(s)
    OBVIOUS
  <1>5. \A i \in 1 .. Len(u) : u[i] = (r \o s)[i]
    <2> SUFFICES ASSUME NEW i \in 1 .. Len(u) PROVE u[i] = (r \o s)[i]
      OBVIOUS
    <2>1. CASE i <= Len(r)
      BY <1>1, <1>2, <1>3, <2>1
    <2>2. CASE i = Len(r) + 1
      BY <1>1, <1>2, <1>3, <2>2
    <2>3. CASE i > Len(r) + 1
      <3>1. u[i] = Tail(s)[i - (Len(r) + 1)]
        BY <1>1, <1>2, <1>3, <2>3
      <3>2. i - (Len(r) + 1) \in 1 .. Len(Tail(s))
        BY <1>1, <1>3, <2>3
      <3>3. QED
        BY <1>1, <1>3, <2>3, <3>1, <3>2
    <2>4. QED
      BY <2>1, <2>2, <2>3
  <1>6. QED
    <2> HIDE DEF u
    <2>1. u = r \o s
      <3>1. Len(u) = Len(r \o s)
        BY <1>3, <1>4
      <3>2. QED
        BY <1>3, <1>4, <1>5, <3>1, SeqEqual
    <2>2. QED
      BY <2>1 DEF u

LEMMA PublishKeeps ==
    ASSUME SessionBounds, StreamTypes, StreamInv, NEW e \in Events, Publish(e), accepting \/ aborting
    PROVE  /\ StreamTypes' /\ StreamInv'
           /\ UNCHANGED <<accepting, gracefulClose, aborting>>
           /\ accepted' \in {accepted, Append(accepted, e)}
  <1>0. /\ queue \in Seq(Events) /\ accepted \in Seq(Events) /\ out \in Seq(Events)
        /\ UNCHANGED <<accepting, gracefulClose, aborting, ownerExited, out>>
    BY DEF Publish, StreamTypes
  <1>1. CASE UNCHANGED <<queue, progressInQueue, accepted, refused>>
    BY <1>0, <1>1 DEF StreamTypes, StreamInv
  <1>2. CASE /\ accepting /\ ~aborting /\ Accept(e)
             /\ progressInQueue' = IF IsCriticalNativeEvent(e) THEN progressInQueue ELSE progressInQueue + 1
             /\ progressInQueue' <= ProgressQueueLimit
    <2>1. /\ queue' = Append(queue, e) /\ accepted' = Append(accepted, e) /\ UNCHANGED refused
      BY <1>2 DEF Accept
    <2>2. queue' \in Seq(Events) /\ accepted' \in Seq(Events)
      BY <1>0, <2>1
    <2>3. StreamTypes'
      BY <1>0, <2>2 DEF StreamTypes
    <2>4. progressInQueue' = Cardinality(Hits(queue', Progress))
      <3>1. e \in Progress <=> ~IsCriticalNativeEvent(e)
        BY DEF Progress
      <3>2. progressInQueue = Cardinality(Hits(queue, Progress))
        BY DEF StreamInv
      <3>3. Cardinality(Hits(queue', Progress)) = IF e \in Progress THEN Cardinality(Hits(queue, Progress)) + 1
                                                  ELSE Cardinality(Hits(queue, Progress))
        BY <1>0, <2>1, HitsAppend
      <3>4. Progress' = Progress
        BY DEF Progress, IsCriticalNativeEvent
      <3>5. QED
        BY <1>2, <3>1, <3>2, <3>3
    <2>5. ~ownerExited
      BY <1>2 DEF StreamInv
    <2>6. accepted' = out \o queue'
      <3>1. accepted = out \o queue
        BY <2>5 DEF StreamInv
      <3>2. QED
        <4>1. out \o Append(queue, e) = Append(out \o queue, e)
          BY <1>0, ConcatAppend
        <4>2. QED
          BY <2>1, <3>1, <4>1
    <2>7. StreamInv'
      <3>1. Progress' = Progress
        BY DEF Progress, IsCriticalNativeEvent
      <3>2. Hits(queue, Progress)' = Hits(queue', Progress)
        BY <3>1 DEF Hits
      <3>3. refused' = {}
        BY <2>1 DEF StreamInv
      <3>4. QED
        BY <1>0, <1>2, <2>4, <2>5, <2>6, <3>2, <3>3 DEF StreamInv
    <2>8. QED
      BY <1>0, <2>1, <2>3, <2>7
  <1>3. UNCHANGED <<queue, progressInQueue, accepted, refused>>
        \/ /\ accepting /\ ~aborting /\ Accept(e)
           /\ progressInQueue' = IF IsCriticalNativeEvent(e) THEN progressInQueue ELSE progressInQueue + 1
           /\ progressInQueue' <= ProgressQueueLimit
    <2>1. progressInQueue \in Nat /\ progressInQueue <= ProgressQueueLimit
      BY <1>0, HitsFinite DEF StreamInv
    <2>2. ProgressQueueLimit \in Nat
      BY StreamBounds
    <2>3. QED
      BY <2>1, <2>2 DEF Publish, Reject, DropProgress
  <1>4. QED
    BY <1>1, <1>2, <1>3

LEMMA ForwardKeeps ==
    ASSUME SessionBounds, StreamTypes, StreamInv, Forward
    PROVE  StreamTypes' /\ StreamInv'
  <1>0. /\ queue \in Seq(Events) /\ accepted \in Seq(Events) /\ out \in Seq(Events)
        /\ ~ownerExited /\ queue # <<>>
        /\ out' = Append(out, Head(queue)) /\ queue' = Tail(queue) /\ progressInQueue' = Taken
        /\ UNCHANGED <<accepting, gracefulClose, aborting, ownerExited, accepted, refused>>
    BY DEF Forward, StreamTypes
  <1>1. Head(queue) \in Events /\ Tail(queue) \in Seq(Events) /\ out' \in Seq(Events)
    BY <1>0
  <1>2. Progress' = Progress /\ Hits(queue, Progress)' = Hits(queue', Progress)
    BY DEF Progress, IsCriticalNativeEvent, Hits
  <1>3. Head(queue) \in Progress <=> ~IsCriticalNativeEvent(Head(queue))
    BY <1>1 DEF Progress
  <1>4. progressInQueue = Cardinality(Hits(queue, Progress)) /\ progressInQueue \in Nat
        /\ progressInQueue <= ProgressQueueLimit /\ ProgressQueueLimit \in Nat
    BY <1>0, HitsFinite, StreamBounds DEF StreamInv
  <1>5. progressInQueue' = Cardinality(Hits(queue', Progress))
    BY <1>0, <1>3, <1>4, HitsTail DEF Taken
  <1>6. progressInQueue' <= ProgressQueueLimit
    BY <1>0, <1>4 DEF Taken
  <1>7. accepted' = out' \o queue'
    BY <1>0, ConcatMove DEF StreamInv
  <1>8. refused' = {}
    BY <1>0 DEF StreamInv
  <1>9. QED
    BY <1>0, <1>1, <1>2, <1>5, <1>6, <1>7, <1>8 DEF StreamTypes, StreamInv

LEMMA PrefixOfConcat ==
    ASSUME NEW T, NEW r \in Seq(T), NEW s \in Seq(T)
    PROVE  IsPrefix(r, r \o s) /\ IsPrefix(r, r) /\ (s = <<>> => r \o s = r)
  <1>1. Len(r) <= Len(r \o s) /\ Len(r) \in Nat
    OBVIOUS
  <1>2. \A i \in 1 .. Len(r) : (r \o s)[i] = r[i]
    OBVIOUS
  <1>3. SubSeq(r, 1, Len(r)) = r /\ SubSeq(r \o s, 1, Len(r)) = r
    <2>1. r \o s \in Seq(T)
      OBVIOUS
    <2>2. \A t \in Seq(T) : \A n \in 0 .. Len(t) :
             /\ SubSeq(t, 1, n) \in Seq(T) /\ Len(SubSeq(t, 1, n)) = n
             /\ \A i \in 1 .. n : SubSeq(t, 1, n)[i] = t[i]
      OBVIOUS
    <2>3. Len(r) \in 0 .. Len(r) /\ Len(r) \in 0 .. Len(r \o s)
      BY <1>1, <2>1
    <2>4. /\ SubSeq(r, 1, Len(r)) \in Seq(T) /\ Len(SubSeq(r, 1, Len(r))) = Len(r)
          /\ \A i \in 1 .. Len(r) : SubSeq(r, 1, Len(r))[i] = r[i]
      BY <2>2, <2>3
    <2>5. /\ SubSeq(r \o s, 1, Len(r)) \in Seq(T) /\ Len(SubSeq(r \o s, 1, Len(r))) = Len(r)
          /\ \A i \in 1 .. Len(r) : SubSeq(r \o s, 1, Len(r))[i] = (r \o s)[i]
      BY <2>1, <2>2, <2>3
    <2>6. QED
      BY <1>2, <2>4, <2>5
  <1>4. s = <<>> => r \o s = r
    OBVIOUS
  <1>5. IsPrefix(r, r \o s)
    BY <1>1, <1>3 DEF IsPrefix
  <1>6. IsPrefix(r, r)
    BY <1>1 DEF IsPrefix
  <1>7. QED
    BY <1>4, <1>5, <1>6

LEMMA OwnerExitKeeps ==
    ASSUME StreamTypes, StreamInv, OwnerExit, EndInv, ProgressQueueLimit \in Nat
    PROVE  StreamTypes' /\ StreamInv'
  <1>0. /\ queue \in Seq(Events) /\ accepted \in Seq(Events) /\ out \in Seq(Events)
        /\ accepted = out \o queue /\ refused = {}
        /\ aborting \/ (gracefulClose /\ queue = <<>>)
        /\ queue' = <<>> /\ progressInQueue' = 0 /\ ownerExited' = TRUE
        /\ UNCHANGED <<accepting, gracefulClose, aborting, out, accepted, refused>>
    BY DEF OwnerExit, StreamTypes, StreamInv
  <1>1. IsPrefix(out, accepted) /\ (aborting \/ accepted = out)
    BY <1>0, PrefixOfConcat
  <1>2. StreamTypes'
    BY <1>0 DEF StreamTypes
  <1>3. progressInQueue' = Cardinality(Hits(queue', Progress'))
    BY <1>0, HitsEmpty
  <1>4. ~accepting
    BY <1>0 DEF EndInv
  <1>5. QED
    BY <1>0, <1>1, <1>2, <1>3, <1>4 DEF StreamInv, Hits

-----------------------------------------------------------------------------
(* What a step leaves alone. *)

LEMMA GenFacts == \A g \in Gens : g \in Ids /\ g # 0 /\ g \in Nat
  BY DEF Gens, Ids

LEMMA StreamKept ==
    ASSUME StreamTypes, StreamInv, UNCHANGED streamVars PROVE StreamTypes' /\ StreamInv'
  BY DEF StreamTypes, StreamInv, streamVars, Hits, Progress, IsCriticalNativeEvent

LEMMA ProcessKept ==
    ASSUME ProcessTypes, UNCHANGED processVars PROVE ProcessTypes'
  BY DEF ProcessTypes, processVars

LEMMA PromptKept ==
    ASSUME PromptInv, UNCHANGED <<generation, promptInFlight>>,
           \A g \in Gens : /\ prompt'[g] = prompt[g] /\ pick'[g] = pick[g] /\ turn'[g] = turn[g]
                           /\ work'[g] = work[g] /\ spoken'[g] = spoken[g]
                           /\ response'[g] = response[g] /\ (g \in pending' => g \in pending)
    PROVE  PromptInv'
  BY DEF PromptInv, PromptOK

LEMMA BoundaryKept ==
    ASSUME StreamTypes, BoundaryInv, NEW e \in Events, ~IsBoundary(e),
           accepted' \in {accepted, Append(accepted, e)},
           \A g \in Gens : /\ prompt[g] = "done" => prompt'[g] = "done"
                           /\ turn[g].completed => turn'[g] = turn[g]
    PROVE  BoundaryInv'
  <1>1. accepted \in Seq(Events)
    BY DEF StreamTypes
  <1>2. \A i \in DOMAIN accepted' : IsBoundary(accepted'[i]) =>
           i \in DOMAIN accepted /\ accepted'[i] = accepted[i]
    BY <1>1
  <1>3. \A i \in DOMAIN accepted' : IsBoundary(accepted'[i]) =>
           LET g == accepted'[i].gen IN
           /\ g \in Gens /\ prompt'[g] = "done" /\ turn'[g].completed
           /\ accepted'[i] = Boundary(g, turn'[g].success)
    BY <1>2 DEF BoundaryInv
  <1>4. \A i, j \in DOMAIN accepted' :
           IsBoundary(accepted'[i]) /\ accepted'[i].gen = accepted'[j].gen
              /\ IsBoundary(accepted'[j]) => i = j
    BY <1>2 DEF BoundaryInv
  <1>5. QED
    BY <1>3, <1>4 DEF BoundaryInv, IsBoundary, Boundary

LEMMA NoticeEvent == Notice \in Events /\ ~IsBoundary(Notice)
  BY SessionBounds DEF Notice, Events, IsBoundary, Ids

LEMMA BoundarySame ==
    ASSUME StreamTypes, BoundaryInv, UNCHANGED accepted,
           \A g \in Gens : /\ prompt[g] = "done" => prompt'[g] = "done"
                           /\ turn[g].completed => turn'[g] = turn[g]
    PROVE  BoundaryInv'
  BY NoticeEvent, BoundaryKept

LEMMA ReplyKept ==
    ASSUME ReplyInv, UNCHANGED lines,
           \A g \in Gens : /\ work'[g] = work[g] /\ turn'[g].success = turn[g].success
                           /\ response'[g] \in {"none", response[g]} /\ pick'[g] \in {"none", "stop", pick[g]}
    PROVE  ReplyInv'
  BY DEF ReplyInv, IsReply, IsChunk, Answer

LEMMA TextKept ==
    ASSUME TextInv, UNCHANGED <<lines, reaped, generation, promptInFlight, output>>,
           \A g \in Gens : /\ work'[g] = work[g] /\ turn'[g] = turn[g] /\ spoken'[g] = spoken[g],
           generation # 0 /\ Answered(generation)' => Answered(generation),
           Undisturbed' => Undisturbed, reader' = "read" => reader = "read",
           generation \in 0 .. MaxGen
    PROVE  TextInv'
  <1>1. generation # 0 => generation \in Gens
    BY SessionBounds DEF Gens
  <1>2. Hits(lines, Chunks)' = Hits(lines, Chunks)
    BY DEF Hits, Chunks, Lines, Ids
  <1>3. QED
    BY <1>1, <1>2 DEF TextInv, IsReply, IsChunk

LEMMA SessionKept ==
    ASSUME SessionTypes, PromptInv, BoundaryInv, ReplyInv, TextInv, StreamTypes,
           UNCHANGED <<promptVars, waiterVars, accepted, lines, chanVars>>,
           reaped' = reaped, \A g \in Gens : work'[g] = work[g] /\ spoken'[g] = spoken[g],
           Undisturbed' => Undisturbed, reader' = "read" => reader = "read"
    PROVE  PromptInv' /\ BoundaryInv' /\ ReplyInv' /\ TextInv'
  <1>1. UNCHANGED <<generation, promptInFlight, output, turn, prompt, pick, pending, response>>
    BY DEF promptVars, waiterVars, chanVars
  <1>2. PromptInv'
    BY <1>1, PromptKept
  <1>3. BoundaryInv'
    BY <1>1, BoundarySame
  <1>4. ReplyInv'
    BY <1>1, ReplyKept
  <1>5. generation \in 0 .. MaxGen /\ (Answered(generation)' => Answered(generation))
    BY <1>1 DEF SessionTypes, Answered
  <1>6. TextInv'
    BY <1>1, <1>5, TextKept
  <1>7. QED
    BY <1>2, <1>3, <1>4, <1>6

LEMMA ForwardInv == SessionBounds /\ SessionInv /\ (forward \/ ownerExit) => SessionInv'
  <1> SUFFICES ASSUME SessionBounds, SessionInv, forward \/ ownerExit PROVE SessionInv'
    OBVIOUS
  <1>1. UNCHANGED <<processVars, promptVars, waiterVars, readerVars, startVars, term, chanVars, stopVars,
                    accepted, accepting, gracefulClose, aborting>>
    BY DEF forward, ownerExit, Forward, OwnerExit
  <1>2. StreamTypes' /\ StreamInv'
    BY ForwardKeeps, OwnerExitKeeps, StreamBounds DEF forward, ownerExit, SessionInv
  <1>3. ProcessTypes' /\ SessionTypes'
    BY <1>1 DEF SessionInv, ProcessTypes, SessionTypes, processVars, promptVars, waiterVars, readerVars,
       startVars, chanVars, stopVars
  <1>4. EndInv'
    BY <1>1 DEF SessionInv, EndInv, producers, processVars, promptVars, waiterVars, readerVars,
       startVars, chanVars, stopVars
  <1>5. PromptInv' /\ BoundaryInv' /\ ReplyInv' /\ TextInv'
    BY <1>1, SessionKept DEF SessionInv, processVars, readerVars, stopVars, Undisturbed
  <1>6. QED
    BY <1>2, <1>3, <1>4, <1>5 DEF SessionInv

LEMMA AbortInv == SessionBounds /\ SessionInv /\ abortStream => SessionInv'
  <1> SUFFICES ASSUME SessionBounds, SessionInv, abortStream PROVE SessionInv'
    OBVIOUS
  <1>1. /\ UNCHANGED <<processVars, promptVars, waiterVars, readerVars, startVars, term, chanVars, stopVars,
                       queue, progressInQueue, gracefulClose, ownerExited, out, accepted, refused>>
        /\ accepting' = FALSE /\ aborting' = TRUE
    BY DEF abortStream, Abort
  <1>2. StreamTypes' /\ StreamInv'
    BY <1>1 DEF SessionInv, StreamTypes, StreamInv, Hits, Progress, IsCriticalNativeEvent
  <1>3. ProcessTypes' /\ SessionTypes'
    BY <1>1 DEF SessionInv, ProcessTypes, SessionTypes, processVars, promptVars, waiterVars, readerVars,
       startVars, chanVars, stopVars
  <1>4. EndInv'
    BY <1>1 DEF SessionInv, EndInv, producers, processVars, promptVars, waiterVars, readerVars,
       startVars, chanVars, stopVars
  <1>5. PromptInv' /\ BoundaryInv' /\ ReplyInv' /\ TextInv'
    BY <1>1, SessionKept DEF SessionInv, processVars, readerVars, stopVars, Undisturbed
  <1>6. QED
    BY <1>2, <1>3, <1>4, <1>5 DEF SessionInv

LEMMA StopInv == SessionBounds /\ SessionInv /\ (TerminateSession \/ CtxCancel) => SessionInv'
  <1> SUFFICES ASSUME SessionBounds, SessionInv, TerminateSession \/ CtxCancel PROVE SessionInv'
    OBVIOUS
  <1>1. /\ UNCHANGED <<streamVars, alive, reaped, lines, work, spoken, notices,
                       promptVars, waiterVars, readerVars, startVars, chanVars>>
        /\ ctxDone' \in BOOLEAN /\ shutdown' \in BOOLEAN /\ term' \in {"idle", "done"}
        /\ inputClosed' \in BOOLEAN /\ (shutdown => shutdown')
        /\ ctxDone' \/ term' = "done"
    BY DEF TerminateSession, CtxCancel, SessionInv, SessionTypes, ProcessTypes, processVars
  <1>2. StreamTypes' /\ StreamInv'
    BY <1>1, StreamKept DEF SessionInv
  <1>3. ProcessTypes' /\ SessionTypes'
    BY <1>1 DEF SessionInv, ProcessTypes, SessionTypes, promptVars, waiterVars, readerVars,
       startVars, chanVars
  <1>4. EndInv'
    BY <1>1 DEF SessionInv, EndInv, producers, promptVars, waiterVars, readerVars,
       startVars, chanVars, streamVars
  <1>5. PromptInv' /\ BoundaryInv' /\ ReplyInv' /\ TextInv'
    <2>1. ~Undisturbed'
      BY <1>1 DEF Undisturbed
    <2>2. QED
      BY <1>1, <2>1, SessionKept DEF SessionInv, readerVars, streamVars
  <1>6. QED
    BY <1>2, <1>3, <1>4, <1>5 DEF SessionInv

LEMMA ReaderEndsInv ==
    SessionBounds /\ SessionInv /\ (readEOF \/ readerExits \/ closeStream) => SessionInv'
  <1> SUFFICES ASSUME SessionBounds, SessionInv, readEOF \/ readerExits \/ closeStream PROVE SessionInv'
    OBVIOUS
  <1>1. /\ UNCHANGED <<processVars, promptVars, waiterVars, startVars, term, chanVars, ctxDone,
                       queue, progressInQueue, aborting, ownerExited, out, accepted, refused>>
        /\ reader' # "read" /\ (Undisturbed' => Undisturbed)
    BY DEF readEOF, readerExits, closeStream, CloseGracefully, streamVars, Undisturbed, stopVars
  <1>2. /\ (accepting' => accepting) /\ accepting' \in BOOLEAN /\ gracefulClose' \in BOOLEAN
        /\ reader' \in {"read", "signal", "exit", "drain", "done"} /\ shutdown' \in BOOLEAN
        /\ readerExited' \in BOOLEAN
    <2>1. /\ accepting \in BOOLEAN /\ gracefulClose \in BOOLEAN /\ shutdown \in BOOLEAN
          /\ readerExited \in BOOLEAN
      BY DEF SessionInv, StreamTypes, SessionTypes
    <2>2. CASE readEOF
      BY <2>1, <2>2 DEF readEOF, streamVars
    <2>3. CASE readerExits
      BY <2>1, <2>3 DEF readerExits, streamVars, stopVars
    <2>4. CASE closeStream
      BY <2>1, <2>4 DEF closeStream, CloseGracefully, stopVars
    <2>5. QED
      BY <2>2, <2>3, <2>4
  <1>3. StreamTypes' /\ StreamInv'
    BY <1>1, <1>2 DEF SessionInv, StreamTypes, StreamInv, Hits, Progress, IsCriticalNativeEvent
  <1>4. ProcessTypes' /\ SessionTypes'
    BY <1>1, <1>2 DEF SessionInv, ProcessTypes, SessionTypes, processVars, promptVars, waiterVars,
       startVars, chanVars
  <1>5. EndInv'
    <2>1. alive' = alive /\ lines' = lines /\ reaped' = reaped /\ prompt' = prompt /\ producers' = producers
      BY <1>1 DEF processVars, waiterVars, producers
    <2>2. CASE readEOF
      BY <1>1, <2>1, <2>2 DEF SessionInv, EndInv, readEOF, streamVars
    <2>3. CASE readerExits
      BY <1>1, <2>1, <2>3 DEF SessionInv, EndInv, readerExits, streamVars, stopVars
    <2>4. CASE closeStream
      BY <1>1, <2>1, <2>4 DEF SessionInv, EndInv, closeStream, CloseGracefully, stopVars
    <2>5. QED
      BY <2>2, <2>3, <2>4
  <1>6. PromptInv' /\ BoundaryInv' /\ ReplyInv' /\ TextInv'
    BY <1>1, SessionKept DEF SessionInv, processVars
  <1>7. QED
    BY <1>3, <1>4, <1>5, <1>6 DEF SessionInv

-----------------------------------------------------------------------------
(* The harness. *)

LEMMA LineFacts ==
    ASSUME SessionBounds
    PROVE  \A i \in Ids, ok \in BOOLEAN : /\ ReplyLine(i, ok) \in Lines /\ ReplyLine(i, ok) \notin Chunks
                                          /\ NoticeLine \in Lines /\ NoticeLine \notin Chunks
                                          /\ ChunkLine(i) \in Lines /\ ChunkLine(i) \in Chunks
  BY DEF SessionBounds, ReplyLine, NoticeLine, ChunkLine, Lines, Chunks, Ids

LEMMA HarnessFrame ==
    ASSUME SessionInv, UNCHANGED <<streamVars, promptVars, waiterVars, readerVars, startVars,
                                   term, chanVars, stopVars>>,
           ProcessTypes', alive' => alive, reaped' => ~alive', reader # "read" => lines' = <<>>
    PROVE  StreamTypes' /\ StreamInv' /\ SessionTypes' /\ EndInv' /\ BoundaryInv'
  <1>1. StreamTypes' /\ StreamInv'
    BY StreamKept DEF SessionInv
  <1>2. SessionTypes'
    BY DEF SessionInv, SessionTypes, promptVars, waiterVars, readerVars, startVars, chanVars, stopVars
  <1>3. EndInv'
    BY DEF SessionInv, EndInv, producers, waiterVars, readerVars, stopVars, streamVars
  <1>4. BoundaryInv'
    BY BoundarySame DEF SessionInv, streamVars, waiterVars, promptVars
  <1>5. QED
    BY <1>1, <1>2, <1>3, <1>4

HarnessFrameVars == <<streamVars, promptVars, waiterVars, readerVars, startVars, term, chanVars, stopVars>>

LEMMA LinesAppend ==
    ASSUME lines \in Seq(Lines), NEW l \in Lines, lines' = Append(lines, l)
    PROVE  /\ lines' \in Seq(Lines) /\ Len(lines) \in Nat
           /\ DOMAIN lines' = DOMAIN lines \cup {Len(lines) + 1}
           /\ DOMAIN lines = 1 .. Len(lines)
           /\ \A i \in DOMAIN lines : lines'[i] = lines[i] /\ i < Len(lines) + 1
           /\ lines'[Len(lines) + 1] = l
           /\ Cardinality(Hits(lines', Chunks))
                 = IF l \in Chunks THEN Cardinality(Hits(lines, Chunks)) + 1 ELSE Cardinality(Hits(lines, Chunks))
           /\ Hits(lines, Chunks)' = Hits(lines', Chunks)
  <1>1. Cardinality(Hits(Append(lines, l), Chunks))
           = IF l \in Chunks THEN Cardinality(Hits(lines, Chunks)) + 1 ELSE Cardinality(Hits(lines, Chunks))
    BY HitsAppend
  <1>2. Hits(lines, Chunks)' = Hits(lines', Chunks)
    BY DEF Hits, Chunks, Lines, Ids
  <1>3. QED
    BY <1>1, <1>2

LEMMA ChunkInv ==
    ASSUME SessionBounds, SessionInv, NEW g \in Gens, HarnessChunk(g), UNCHANGED HarnessFrameVars
    PROVE  SessionInv'
  <1> USE DEF HarnessFrameVars
  <1>0. g \in Ids /\ lines \in Seq(Lines) /\ ChunkLine(g) \in Lines /\ ChunkLine(g) \in Chunks
    BY GenFacts, LineFacts DEF SessionInv, ProcessTypes
  <1>1. /\ alive /\ work[g] = "open" /\ lines' = Append(lines, ChunkLine(g))
        /\ spoken' = [spoken EXCEPT ![g] = @ + 1]
        /\ UNCHANGED <<alive, reaped, inputClosed, work, notices>>
    BY DEF HarnessChunk
  <1>2. UNCHANGED <<generation, promptInFlight, output, turn, prompt, pick, reader, readerExited, pending,
                    response, ctxDone, term>>
    BY DEF promptVars, waiterVars, readerVars, chanVars, stopVars
  <1>3. ProcessTypes'
    BY <1>0, <1>1, LinesAppend DEF SessionInv, ProcessTypes
  <1>4. StreamTypes' /\ StreamInv' /\ SessionTypes' /\ EndInv' /\ BoundaryInv'
    <2>1. reader = "read"
      BY <1>1 DEF SessionInv, EndInv
    <2>2. reaped' => ~alive'
      BY <1>1 DEF SessionInv, EndInv
    <2>3. QED
      BY <1>1, <1>3, <2>1, <2>2, HarnessFrame
  <1>5. PromptInv'
    <2>1. prompt[g] \notin {"none", "write"}
      BY <1>1 DEF SessionInv, PromptInv, PromptOK
    <2>2. \A h \in Gens : h # g => spoken'[h] = spoken[h]
      BY <1>1 DEF SessionInv, ProcessTypes
    <2>3. QED
      BY <1>1, <1>2, <2>1, <2>2 DEF SessionInv, PromptInv, PromptOK
  <1>6. ReplyInv'
    <2>1. \A i \in DOMAIN lines : ~IsReply(lines[i], g)
      BY <1>1 DEF SessionInv, ReplyInv, Answer
    <2>2. ~ \E h \in Gens : IsReply(ChunkLine(g), h)
      BY DEF IsReply, ChunkLine
    <2>3. ChunkLine(g).id = g
      BY DEF ChunkLine
    <2>4. QED
      BY <1>0, <1>1, <1>2, <2>1, <2>2, <2>3, LinesAppend DEF SessionInv, ReplyInv, IsReply, IsChunk
  <1>7. TextInv'
    <2> SUFFICES ASSUME Undisturbed' PROVE TextInv'
      BY DEF TextInv
    <2>1. Undisturbed /\ reader = "read"
      BY <1>1, <1>2 DEF Undisturbed, SessionInv, EndInv
    <2>2. g = generation /\ promptInFlight
      BY <1>1, <2>1 DEF SessionInv, TextInv
    <2>3. work[g] \notin {"ok", "error"}
      BY <1>1
    <2>4. ~Answered(g) /\ ~turn[g].success /\ \A i \in DOMAIN lines : ~IsReply(lines[i], g)
      <3>1. response[g] \in {"none", "ok", "error"}
        BY <1>0 DEF SessionInv, SessionTypes
      <3>2. ~Answered(g) /\ ~turn[g].success
        BY <2>3, <3>1 DEF SessionInv, ReplyInv, Answered
      <3>3. QED
        BY <2>3, <3>2 DEF SessionInv, ReplyInv, Answer
    <2>5. ~reaped
      BY <1>1 DEF SessionInv, EndInv
    <2>6. spoken[g] = Len(output) + Cardinality(Hits(lines, Chunks))
      BY <2>1, <2>2, <2>5, GenFacts DEF SessionInv, TextInv
    <2>7. spoken'[g] = spoken[g] + 1 /\ \A h \in Gens : h # g => spoken'[h] = spoken[h]
      BY <1>1 DEF SessionInv, ProcessTypes
    <2>8. spoken'[g] = Len(output) + Cardinality(Hits(lines, Chunks)')
      <3>1. Cardinality(Hits(lines, Chunks)) \in Nat /\ Len(output) \in Nat
        BY <1>0, HitsFinite DEF SessionInv, SessionTypes
      <3>2. Cardinality(Hits(lines, Chunks)') = Cardinality(Hits(lines, Chunks)) + 1
        BY <1>0, <1>1, LinesAppend
      <3>3. QED
        BY <2>6, <2>7, <3>1, <3>2
    <2>9. ChunkLine(g).id = g
      BY DEF ChunkLine
    <2>10. ~Answered(g)'
      BY <1>2, <2>4 DEF Answered
    <2>11. \A i \in DOMAIN lines' : IsChunk(lines'[i]) => lines'[i].id = generation' /\ promptInFlight'
      BY <1>0, <1>1, <1>2, <2>1, <2>2, <2>9, LinesAppend DEF SessionInv, TextInv
    <2>12. \A h \in Gens : turn'[h].success => turn'[h].final = [i \in 1 .. spoken'[h] |-> h]
      BY <1>2, <2>1, <2>4, <2>7 DEF SessionInv, TextInv
    <2>13. QED
      BY <1>1, <1>2, <2>1, <2>2, <2>8, <2>10, <2>11, <2>12 DEF SessionInv, TextInv, IsChunk
  <1>8. QED
    BY <1>3, <1>4, <1>5, <1>6, <1>7 DEF SessionInv

LEMMA NoticeInv ==
    ASSUME SessionBounds, SessionInv, NEW g \in Gens, HarnessNotice(g), UNCHANGED HarnessFrameVars
    PROVE  SessionInv'
  <1> USE DEF HarnessFrameVars
  <1>0. g \in Ids /\ lines \in Seq(Lines) /\ NoticeLine \in Lines /\ NoticeLine \notin Chunks
    BY GenFacts, LineFacts DEF SessionInv, ProcessTypes
  <1>1. /\ alive /\ lines' = Append(lines, NoticeLine) /\ notices' = [notices EXCEPT ![g] = @ + 1]
        /\ UNCHANGED <<alive, reaped, inputClosed, work, spoken>>
    BY DEF HarnessNotice
  <1>2. UNCHANGED <<generation, promptInFlight, output, turn, prompt, pick, reader, readerExited, pending,
                    response, ctxDone, term>>
    BY DEF promptVars, waiterVars, readerVars, chanVars, stopVars
  <1>3. ProcessTypes'
    BY <1>0, <1>1, LinesAppend DEF SessionInv, ProcessTypes
  <1>4. StreamTypes' /\ StreamInv' /\ SessionTypes' /\ EndInv' /\ BoundaryInv'
    <2>1. reader = "read" /\ (reaped' => ~alive')
      BY <1>1 DEF SessionInv, EndInv
    <2>2. QED
      BY <1>1, <1>3, <2>1, HarnessFrame
  <1>5. PromptInv'
    BY <1>1, <1>2, PromptKept DEF SessionInv
  <1>6. ~IsChunk(NoticeLine) /\ \A h \in Gens : ~IsReply(NoticeLine, h)
    BY DEF IsChunk, IsReply, NoticeLine
  <1>7. ReplyInv'
    BY <1>0, <1>1, <1>2, <1>6, LinesAppend DEF SessionInv, ReplyInv, IsReply, IsChunk
  <1>8. TextInv'
    <2> SUFFICES ASSUME Undisturbed' PROVE TextInv'
      BY DEF TextInv
    <2>1. Undisturbed
      BY <1>2 DEF Undisturbed
    <2>2. generation # 0 => generation \in Gens
      BY SessionBounds DEF Gens, SessionInv, SessionTypes
    <2>3. \A i \in DOMAIN lines' : IsChunk(lines'[i]) \/ (generation # 0 /\ IsReply(lines'[i], generation)) =>
             i \in DOMAIN lines /\ lines'[i] = lines[i]
      BY <1>0, <1>1, <1>6, <2>2, LinesAppend
    <2>4. Cardinality(Hits(lines, Chunks)') = Cardinality(Hits(lines, Chunks))
      BY <1>0, <1>1, LinesAppend
    <2>5. QED
      BY <1>1, <1>2, <2>1, <2>3, <2>4 DEF SessionInv, TextInv, IsChunk, IsReply, Answered
  <1>9. QED
    BY <1>3, <1>4, <1>5, <1>7, <1>8 DEF SessionInv

LEMMA AnswerInv ==
    ASSUME SessionBounds, SessionInv, NEW n \in Ids, NEW ok \in BOOLEAN, HarnessReply(n, ok),
           UNCHANGED HarnessFrameVars
    PROVE  SessionInv'
  <1> USE DEF HarnessFrameVars
  <1>0. lines \in Seq(Lines) /\ ReplyLine(n, ok) \in Lines /\ ReplyLine(n, ok) \notin Chunks
    BY LineFacts DEF SessionInv, ProcessTypes
  <1>1. /\ alive /\ work[n] = "open" /\ lines' = Append(lines, ReplyLine(n, ok))
        /\ work' = [work EXCEPT ![n] = Answer(ok)]
        /\ UNCHANGED <<alive, reaped, inputClosed, spoken, notices>>
    BY DEF HarnessReply, Answer
  <1>2. UNCHANGED <<generation, promptInFlight, output, turn, prompt, pick, reader, readerExited, pending,
                    response, ctxDone, term>>
    BY DEF promptVars, waiterVars, readerVars, chanVars, stopVars
  <1>a. /\ work \in [Ids -> {"none", "open", "ok", "error"}]
        /\ work'[n] = Answer(ok) /\ Answer(ok) \in {"ok", "error"}
        /\ \A g \in Ids : g # n => work'[g] = work[g]
    BY <1>1 DEF SessionInv, ProcessTypes, Answer
  <1>3. ProcessTypes'
    BY <1>0, <1>1, <1>a, LinesAppend DEF SessionInv, ProcessTypes
  <1>4. StreamTypes' /\ StreamInv' /\ SessionTypes' /\ EndInv' /\ BoundaryInv'
    <2>1. reader = "read" /\ (reaped' => ~alive')
      BY <1>1 DEF SessionInv, EndInv
    <2>2. QED
      BY <1>1, <1>3, <2>1, HarnessFrame
  <1>5. PromptInv'
    <2>1. n \in Gens => prompt[n] \notin {"none", "write"}
      BY <1>1 DEF SessionInv, PromptInv, PromptOK
    <2>2. QED
      BY <1>1, <1>2, <1>a, <2>1, GenFacts DEF SessionInv, PromptInv, PromptOK
  <1>6. /\ ~IsChunk(ReplyLine(n, ok)) /\ \A h \in Gens : IsReply(ReplyLine(n, ok), h) => h = n
        /\ ReplyLine(n, ok).ok = ok
    BY DEF IsChunk, IsReply, ReplyLine
  <1>7. \A g \in Gens : g = n => /\ response[g] = "none" /\ pick[g] \notin {"ok", "error"} /\ ~turn[g].success
                                 /\ \A i \in DOMAIN lines : ~IsReply(lines[i], g)
    <2> SUFFICES ASSUME n \in Gens
                 PROVE  /\ response[n] = "none" /\ pick[n] \notin {"ok", "error"} /\ ~turn[n].success
                        /\ \A i \in DOMAIN lines : ~IsReply(lines[i], n)
      OBVIOUS
    <2>1. response[n] \in {"none", "ok", "error"}
      BY DEF SessionInv, SessionTypes
    <2>2. response[n] = "none" /\ pick[n] \notin {"ok", "error"} /\ ~turn[n].success
      BY <1>1, <2>1 DEF SessionInv, ReplyInv
    <2>3. QED
      BY <1>1, <2>2 DEF SessionInv, ReplyInv, Answer
  <1>8. ReplyInv'
    <2>1. \A i \in DOMAIN lines', g \in Gens : IsReply(lines'[i], g) => work'[g] = Answer(lines'[i].ok)
      BY <1>0, <1>1, <1>6, <1>7, <1>a, GenFacts, LinesAppend DEF SessionInv, ReplyInv
    <2>2. \A i \in DOMAIN lines' : IsChunk(lines'[i]) =>
             i \in DOMAIN lines /\ lines'[i] = lines[i] /\ lines'[i].id \in Gens /\ work'[lines'[i].id] # "none"
      BY <1>0, <1>1, <1>6, <1>a, GenFacts, LinesAppend DEF SessionInv, ReplyInv
    <2>3. \A i, j \in DOMAIN lines', g \in Gens :
             IsReply(lines'[i], g) /\ IsChunk(lines'[j]) /\ lines'[j].id = g => j < i
      <3> SUFFICES ASSUME NEW i \in DOMAIN lines', NEW j \in DOMAIN lines', NEW g \in Gens,
                          IsReply(lines'[i], g), IsChunk(lines'[j]), lines'[j].id = g
                   PROVE  j < i
        OBVIOUS
      <3>1. j \in DOMAIN lines /\ lines'[j] = lines[j]
        BY <2>2
      <3>2. CASE i \in DOMAIN lines
        BY <1>0, <1>1, <3>1, <3>2, LinesAppend DEF SessionInv, ReplyInv
      <3>3. CASE i = Len(lines) + 1
        BY <1>0, <1>1, <3>1, <3>3, LinesAppend
      <3>4. QED
        BY <1>0, <1>1, <3>2, <3>3, LinesAppend
    <2>4. \A g \in Gens : /\ response'[g] # "none" => work'[g] = response'[g]
                          /\ pick'[g] \in {"ok", "error"} => work'[g] = pick'[g]
                          /\ turn'[g].success => work'[g] = "ok"
      BY <1>2, <1>7, <1>a, GenFacts DEF SessionInv, ReplyInv
    <2>5. QED
      BY <2>1, <2>2, <2>3, <2>4 DEF ReplyInv, IsReply, IsChunk, Answer
  <1>9. TextInv'
    <2> SUFFICES ASSUME Undisturbed' PROVE TextInv'
      BY DEF TextInv
    <2>1. Undisturbed /\ reader = "read" /\ ~reaped
      BY <1>1, <1>2 DEF Undisturbed, SessionInv, EndInv
    <2>2. \A i \in DOMAIN lines' : IsChunk(lines'[i]) => i \in DOMAIN lines /\ lines'[i] = lines[i]
      BY <1>0, <1>1, <1>6, LinesAppend
    <2>3. Cardinality(Hits(lines, Chunks)') = Cardinality(Hits(lines, Chunks))
      BY <1>0, <1>1, LinesAppend
    <2>4. \A g \in Gens : work'[g] = "open" => work[g] = "open"
      BY <1>a, GenFacts
    <2>5. QED
      BY <1>1, <1>2, <2>1, <2>2, <2>3, <2>4 DEF SessionInv, TextInv, IsChunk, Answered
  <1>10. QED
    BY <1>3, <1>4, <1>5, <1>8, <1>9 DEF SessionInv

LEMMA HarnessExitInv ==
    ASSUME SessionBounds, SessionInv, HarnessExit, UNCHANGED HarnessFrameVars PROVE SessionInv'
  <1> USE DEF HarnessFrameVars
  <1>1. alive' = FALSE /\ UNCHANGED <<reaped, inputClosed, lines, work, spoken, notices>>
    BY DEF HarnessExit
  <1>2. ProcessTypes'
    BY <1>1 DEF SessionInv, ProcessTypes
  <1>3. StreamTypes' /\ StreamInv' /\ SessionTypes' /\ EndInv' /\ BoundaryInv'
    <2>1. (reader # "read" => lines' = <<>>) /\ (reaped' => ~alive')
      BY <1>1 DEF SessionInv, EndInv
    <2>2. QED
      BY <1>1, <1>2, <2>1, HarnessFrame
  <1>4. PromptInv' /\ BoundaryInv' /\ ReplyInv' /\ TextInv'
    BY <1>1, SessionKept DEF SessionInv, streamVars, stopVars, readerVars, Undisturbed
  <1>5. QED
    BY <1>2, <1>3, <1>4 DEF SessionInv

LEMMA PrefixFacts ==
    ASSUME NEW T, NEW s \in Seq(T), NEW n \in 0 .. Len(s)
    PROVE  /\ SubSeq(s, 1, n) \in Seq(T) /\ DOMAIN SubSeq(s, 1, n) = 1 .. n
           /\ \A i \in 1 .. n : i \in DOMAIN s /\ SubSeq(s, 1, n)[i] = s[i]
           /\ s = <<>> => SubSeq(s, 1, n) = <<>>
  OBVIOUS

LEMMA WaitInv ==
    ASSUME SessionBounds, SessionInv, wait, UNCHANGED HarnessFrameVars PROVE SessionInv'
  <1> USE DEF HarnessFrameVars
  <1>1. /\ ~alive /\ ~reaped /\ reaped' = TRUE /\ inputClosed' = TRUE
        /\ UNCHANGED <<alive, work, spoken, notices>>
    BY DEF wait
  <1>2. PICK n \in 0 .. Len(lines) : lines' = SubSeq(lines, 1, n)
    BY DEF wait
  <1>3. lines \in Seq(Lines)
    BY DEF SessionInv, ProcessTypes
  <1>4. /\ lines' \in Seq(Lines) /\ DOMAIN lines' = 1 .. n
        /\ \A i \in DOMAIN lines' : i \in DOMAIN lines /\ lines'[i] = lines[i]
        /\ lines = <<>> => lines' = <<>>
    BY <1>2, <1>3, PrefixFacts
  <1>5. UNCHANGED <<generation, promptInFlight, output, turn, prompt, pick, reader, readerExited, pending,
                    response, ctxDone, term>>
    BY DEF promptVars, waiterVars, readerVars, chanVars, stopVars
  <1>6. ProcessTypes'
    BY <1>1, <1>4 DEF SessionInv, ProcessTypes
  <1>7. StreamTypes' /\ StreamInv' /\ SessionTypes' /\ EndInv' /\ BoundaryInv'
    <2>1. (reader # "read" => lines' = <<>>) /\ (reaped' => ~alive')
      BY <1>1, <1>4 DEF SessionInv, EndInv
    <2>2. QED
      BY <1>1, <1>6, <2>1, HarnessFrame
  <1>8. PromptInv'
    BY <1>1, <1>5, PromptKept DEF SessionInv
  <1>9. ReplyInv'
    BY <1>1, <1>4, <1>5 DEF SessionInv, ReplyInv, IsReply, IsChunk
  <1>10. TextInv'
    <2> SUFFICES ASSUME Undisturbed' PROVE TextInv'
      BY DEF TextInv
    <2>1. Undisturbed
      BY <1>5 DEF Undisturbed
    <2>2. ASSUME generation # 0, NEW i \in DOMAIN lines', IsReply(lines'[i], generation)
          PROVE  spoken[generation] = Len(output) + Cardinality(Hits(lines, Chunks)')
      <3>1. generation \in Gens
        BY <2>2, SessionBounds DEF SessionInv, SessionTypes, Gens
      <3>2. spoken[generation] = Len(output) + Cardinality(Hits(lines, Chunks))
        BY <1>1, <2>1, <2>2 DEF SessionInv, TextInv
      <3>3. \A j \in DOMAIN lines : lines[j] \in Chunks => j < i
        <4> SUFFICES ASSUME NEW j \in DOMAIN lines, lines[j] \in Chunks PROVE j < i
          OBVIOUS
        <4>1. IsChunk(lines[j])
          BY DEF IsChunk, Chunks
        <4>2. lines[j].id = generation
          BY <2>1, <4>1 DEF SessionInv, TextInv
        <4>3. i \in DOMAIN lines /\ IsReply(lines[i], generation)
          BY <1>4, <2>2
        <4>4. QED
          BY <3>1, <4>1, <4>2, <4>3 DEF SessionInv, ReplyInv
      <3>4. \A j \in DOMAIN lines : lines[j] \in Chunks => j \in DOMAIN lines'
        BY <1>3, <1>4, <2>2, <3>3
      <3>5. Hits(lines', Chunks) = Hits(lines, Chunks)
        BY <1>4, <3>4 DEF Hits
      <3>6. Hits(lines, Chunks)' = Hits(lines', Chunks)
        BY DEF Hits, Chunks, Lines, Ids
      <3>7. QED
        BY <3>2, <3>5, <3>6
    <2>3. QED
      BY <1>1, <1>4, <1>5, <2>1, <2>2 DEF SessionInv, TextInv, IsChunk, IsReply, Answered
  <1>11. QED
    BY <1>6, <1>7, <1>8, <1>9, <1>10 DEF SessionInv

LEMMA HarnessInv == SessionBounds /\ SessionInv /\ HarnessStep => SessionInv'
  <1> SUFFICES ASSUME SessionBounds, SessionInv, HarnessStep PROVE SessionInv'
    OBVIOUS
  <1>1. UNCHANGED HarnessFrameVars
    BY DEF HarnessStep, HarnessFrameVars
  <1>2. QED
    BY <1>1, ChunkInv, NoticeInv, AnswerInv, HarnessExitInv, WaitInv DEF HarnessStep

-----------------------------------------------------------------------------
(* StartSession and the prompts. *)

LEMMA RequestInv == SessionBounds /\ SessionInv /\ (request \/ startStep) => SessionInv'
  <1> SUFFICES ASSUME SessionBounds, SessionInv, request \/ startStep PROVE SessionInv'
    OBVIOUS
  <1>0. 0 \in Ids /\ 0 \notin Gens
    BY SessionBounds DEF Ids, Gens
  <1>1. /\ UNCHANGED <<streamVars, alive, reaped, lines, spoken, notices, promptVars, waiterVars,
                       readerVars,
                       term, stopVars>>
        /\ inputClosed' \in BOOLEAN
        /\ start' \in {"call", "wait", "prompt", "sending", "running", "failed"}
    BY DEF request, startStep, SessionInv, ProcessTypes
  <1>2. /\ pending' \subseteq Ids /\ \A g \in Gens : g \in pending' => g \in pending
        /\ work' \in [Ids -> {"none", "open", "ok", "error"}] /\ \A g \in Gens : work'[g] = work[g]
        /\ response' \in [Ids -> {"none", "ok", "error"}] /\ \A g \in Gens : response'[g] = response[g]
    <2>1. CASE request
      <3>1. /\ pending' \in {pending, pending \union {0}} /\ response' = response
            /\ work' \in {work, [work EXCEPT ![0] = "open"]}
        BY <2>1 DEF request, chanVars
      <3>2. QED
        BY <1>0, <3>1, GenFacts DEF SessionInv, SessionTypes, ProcessTypes
    <2>2. CASE startStep
      BY <1>0, <2>2, GenFacts DEF startStep, requestReturns, SessionInv, SessionTypes, ProcessTypes
    <2>3. QED
      BY <2>1, <2>2
  <1>3. UNCHANGED <<generation, promptInFlight, output, turn, prompt, pick, reader, readerExited,
                    shutdown, ctxDone>>
    BY <1>1 DEF promptVars, waiterVars, readerVars, stopVars
  <1>4. StreamTypes' /\ StreamInv'
    BY <1>1, StreamKept DEF SessionInv
  <1>5. ProcessTypes' /\ SessionTypes'
    BY <1>1, <1>2, <1>3 DEF SessionInv, ProcessTypes, SessionTypes
  <1>6. EndInv'
    BY <1>1, <1>3 DEF SessionInv, EndInv, producers, streamVars
  <1>7. PromptInv'
    BY <1>1, <1>2, <1>3, PromptKept DEF SessionInv
  <1>8. BoundaryInv'
    BY <1>1, <1>3, BoundarySame DEF SessionInv, streamVars
  <1>9. ReplyInv'
    BY <1>1, <1>2, <1>3, ReplyKept DEF SessionInv
  <1>10. TextInv'
    <2>1. generation # 0 => generation \in Gens
      BY SessionBounds DEF Gens, SessionInv, SessionTypes
    <2>2. generation # 0 /\ Answered(generation)' => Answered(generation)
      BY <1>2, <1>3, <2>1 DEF Answered
    <2>3. Undisturbed' => Undisturbed
      BY <1>1, <1>3 DEF Undisturbed
    <2>4. QED
      BY <1>1, <1>2, <1>3, <2>2, <2>3, TextKept DEF SessionInv, SessionTypes
  <1>11. QED
    BY <1>4, <1>5, <1>6, <1>7, <1>8, <1>9, <1>10 DEF SessionInv

LEMMA NewGenerationInv ==
    ASSUME SessionBounds, SessionInv, NEW g \in Gens, newGeneration(g),
           UNCHANGED <<streamVars, alive, reaped, lines, work, spoken, notices,
                       pick, readerVars, term, response, stopVars>>,
           start' \in {"call", "wait", "prompt", "sending", "running", "failed"}, inputClosed' \in BOOLEAN
    PROVE  SessionInv'
  <1>0. g \in Ids /\ g # 0 /\ g \in Nat /\ g \in 0 .. MaxGen
    BY SessionBounds DEF Gens, Ids
  <1>1. /\ ~readerExited /\ ~promptInFlight /\ g = generation + 1
        /\ generation' = g /\ promptInFlight' = TRUE /\ output' = <<>>
        /\ pending' = pending \union {g} /\ prompt' = [prompt EXCEPT ![g] = "write"] /\ turn' = turn
    BY DEF newGeneration
  <1>2. UNCHANGED <<reader, readerExited, shutdown, ctxDone, accepted, accepting, gracefulClose, aborting>>
    BY DEF readerVars, stopVars, streamVars
  <1>3. StreamTypes' /\ StreamInv'
    BY StreamKept DEF SessionInv
  <1>a. prompt'[g] = "write" /\ \A h \in Gens : h # g => prompt'[h] = prompt[h]
    BY <1>1 DEF SessionInv, SessionTypes
  <1>4. ProcessTypes' /\ SessionTypes'
    BY <1>0, <1>1, <1>2 DEF SessionInv, ProcessTypes, SessionTypes
  <1>5. EndInv'
    BY <1>1, <1>2 DEF SessionInv, EndInv
  <1>6. generation \in Nat /\ g > generation
    BY <1>0, <1>1 DEF SessionInv, SessionTypes
  <1>7. /\ prompt[g] = "none" /\ work[g] = "none" /\ response[g] = "none" /\ spoken[g] = 0 /\ pick[g] = "none"
    BY <1>6 DEF SessionInv, PromptInv, PromptOK
  <1>8. PromptInv'
    <2> SUFFICES ASSUME NEW h \in Gens PROVE PromptOK(h)'
      BY DEF PromptInv, Gens
    <2>1. h # g => (h > generation <=> h > g)
      BY <1>1, <1>6, GenFacts
    <2>2. CASE h = g
      <3>1. prompt'[h] = "write" /\ ~(h > generation')
        BY <1>0, <1>1, <1>a, <2>2
      <3>2. QED
        BY <1>1, <1>7, <2>2, <3>1 DEF PromptOK, SessionInv, PromptInv
    <2>3. CASE h # g
      <3>1. prompt[h] \notin {"write", "wait"}
        BY <1>1 DEF SessionInv, PromptInv, PromptOK
      <3>2. QED
        BY <1>1, <1>a, <2>1, <2>3, <3>1 DEF SessionInv, PromptInv, PromptOK
    <2>4. QED
      BY <2>2, <2>3
  <1>9. BoundaryInv'
    BY <1>1, <1>2, <1>7, <1>a, BoundarySame DEF SessionInv
  <1>10. ReplyInv'
    BY <1>1, ReplyKept DEF SessionInv
  <1>11. TextInv'
    <2> SUFFICES ASSUME Undisturbed' PROVE TextInv'
      BY DEF TextInv
    <2>1. Undisturbed
      BY <1>2 DEF Undisturbed
    <2>2. \A i \in DOMAIN lines : ~IsChunk(lines[i])
      BY <1>1, <2>1 DEF SessionInv, TextInv
    <2>3. Hits(lines, Chunks)' = {} /\ Cardinality({}) = 0
      BY <2>2, FS_EmptySet DEF Hits, Chunks, IsChunk
    <2>4. ~Answered(g)'
      BY <1>7 DEF Answered
    <2>5. \A h \in Gens : reader = "read" => work[h] # "open"
      BY <1>1, <2>1 DEF SessionInv, TextInv
    <2>6. Len(output') = 0 /\ DOMAIN output' = {}
      BY <1>1
    <2>7. QED
      BY <1>1, <1>2, <1>7, <2>1, <2>2, <2>3, <2>4, <2>5, <2>6 DEF SessionInv, TextInv, IsChunk
  <1>12. QED
    BY <1>3, <1>4, <1>5, <1>8, <1>9, <1>10, <1>11 DEF SessionInv

LEMMA FirstPromptInv == SessionBounds /\ SessionInv /\ firstPrompt => SessionInv'
  <1> SUFFICES ASSUME SessionBounds, SessionInv, firstPrompt PROVE SessionInv'
    OBVIOUS
  <1>1. UNCHANGED <<streamVars, alive, reaped, lines, work, spoken, notices,
                    pick, readerVars, call, term, response, stopVars>>
    BY DEF firstPrompt
  <1>2. CASE newGeneration(1) /\ start' = "sending" /\ UNCHANGED inputClosed
    <2>1. 1 \in Gens
      BY SessionBounds DEF Gens
    <2>2. inputClosed' \in BOOLEAN
      BY <1>2 DEF SessionInv, ProcessTypes
    <2>3. QED
      BY <1>1, <1>2, <2>1, <2>2, NewGenerationInv
  <1>3. CASE start' = "failed" /\ inputClosed' = TRUE /\ UNCHANGED <<promptVars, pending, prompt>>
    <2>1. StreamTypes' /\ StreamInv'
      BY <1>1, StreamKept DEF SessionInv
    <2>2. ProcessTypes' /\ SessionTypes' /\ EndInv'
      BY <1>1, <1>3 DEF SessionInv, ProcessTypes, SessionTypes, EndInv, producers, promptVars,
         readerVars,
         stopVars, streamVars
    <2>3. PromptInv' /\ BoundaryInv' /\ ReplyInv' /\ TextInv'
      BY <1>1, <1>3, SessionKept DEF SessionInv, waiterVars, chanVars, streamVars, readerVars, stopVars,
         Undisturbed
    <2>4. QED
      BY <2>1, <2>2, <2>3 DEF SessionInv
  <1>4. QED
    BY <1>2, <1>3 DEF firstPrompt

LEMMA SendMessageInv ==
    ASSUME SessionBounds, SessionInv, NEW g \in Gens, SendMessage(g) PROVE SessionInv'
  <1>1. /\ start' \in {"call", "wait", "prompt", "sending", "running", "failed"} /\ inputClosed' \in BOOLEAN
    BY DEF SendMessage, startVars, processVars, SessionInv, ProcessTypes, SessionTypes
  <1>2. QED
    BY <1>1, NewGenerationInv DEF SendMessage, processVars

\* The sender of a prompt gets it written, or clears its mark and fails.
LEMMA WritePromptInv ==
    ASSUME SessionBounds, SessionInv, NEW g \in Gens, writePrompt(g) PROVE SessionInv'
  <1>0. g \in Ids /\ g # 0
    BY GenFacts
  <1>1. /\ prompt[g] = "write"
        /\ UNCHANGED <<streamVars, alive, reaped, lines, spoken, notices, pick, readerVars, call, term,
                       response, stopVars, generation, output, turn>>
    BY DEF writePrompt, clearPromptInFlight, promptVars
  <1>2. UNCHANGED <<reader, readerExited, shutdown, ctxDone, accepted, accepting, gracefulClose, aborting>>
    BY <1>1 DEF readerVars, stopVars, streamVars
  <1>3. \/ /\ Writable
           /\ work' = [work EXCEPT ![g] = "open"] /\ prompt' = [prompt EXCEPT ![g] = "wait"]
           /\ pending' = pending /\ promptInFlight' = promptInFlight
        \/ /\ work' = work /\ prompt' = [prompt EXCEPT ![g] = "failed"]
           /\ pending' = pending \ {g} /\ promptInFlight' = (promptInFlight /\ generation # g)
    BY DEF writePrompt, clearPromptInFlight, promptVars
  <1>4. /\ start' \in {"call", "wait", "prompt", "sending", "running", "failed"} /\ inputClosed' \in BOOLEAN
    BY DEF writePrompt, SessionInv, ProcessTypes, SessionTypes
  <1>5. StreamTypes' /\ StreamInv'
    BY <1>1, StreamKept DEF SessionInv
  <1>6. /\ work[g] = "none" /\ response[g] = "none" /\ spoken[g] = 0 /\ pick[g] = "none"
    BY <1>1 DEF SessionInv, PromptInv, PromptOK
  <1>7. /\ prompt'[g] \in {"wait", "failed"} /\ \A h \in Gens : h # g => prompt'[h] = prompt[h]
        /\ prompt' \in [Gens -> {"none", "write", "wait", "finalize", "record", "done", "failed"}]
        /\ work'[g] \in {"none", "open"} /\ \A h \in Gens : h # g => work'[h] = work[h]
        /\ work' \in [Ids -> {"none", "open", "ok", "error"}]
        /\ pending' \subseteq pending /\ (prompt'[g] = "failed" => g \notin pending')
        /\ (work'[g] = "open" => alive) /\ promptInFlight' \in BOOLEAN
    BY <1>0, <1>3, <1>6, GenFacts DEF SessionInv, SessionTypes, ProcessTypes, Writable
  <1>8. ProcessTypes' /\ SessionTypes'
    BY <1>1, <1>2, <1>4, <1>7 DEF SessionInv, ProcessTypes, SessionTypes
  <1>9. EndInv'
    <2>1. producers' \subseteq producers
      BY <1>1, <1>7 DEF producers
    <2>2. QED
      BY <1>1, <1>2, <2>1 DEF SessionInv, EndInv
  <1>10. PromptInv'
    <2> SUFFICES ASSUME NEW h \in Gens PROVE PromptOK(h)'
      BY DEF PromptInv, Gens
    <2>1. PromptOK(h) /\ (h = g => ~(g > generation))
      BY <1>1 DEF SessionInv, PromptInv, PromptOK
    <2>2. CASE h = g
      BY <1>1, <1>3, <1>6, <1>7, <2>1, <2>2 DEF PromptOK
    <2>3. CASE h # g
      <3>1. prompt[h] \notin {"write", "wait"}
        BY <1>1, <2>1, <2>3 DEF SessionInv, PromptInv, PromptOK
      <3>2. QED
        BY <1>1, <1>7, <2>1, <2>3, <3>1 DEF PromptOK
    <2>4. QED
      BY <2>2, <2>3
  <1>11. BoundaryInv'
    BY <1>1, <1>2, <1>7, BoundarySame DEF SessionInv
  <1>12. \A i \in DOMAIN lines : ~IsReply(lines[i], g) /\ ~(IsChunk(lines[i]) /\ lines[i].id = g)
    BY <1>6 DEF SessionInv, ReplyInv, Answer
  <1>13. ReplyInv'
    <2>1. \A h \in Gens : h = g => ~turn[h].success
      BY <1>6 DEF SessionInv, ReplyInv
    <2>2. QED
      BY <1>1, <1>6, <1>7, <1>12, <2>1 DEF SessionInv, ReplyInv, IsReply, IsChunk
  <1>14. TextInv'
    <2> SUFFICES ASSUME Undisturbed' PROVE TextInv'
      BY DEF TextInv
    <2>1. Undisturbed
      BY <1>1, <1>2 DEF Undisturbed
    <2>2. \A i \in DOMAIN lines' : IsChunk(lines'[i]) => lines'[i].id = generation' /\ promptInFlight'
      <3>1. promptInFlight /\ generation # g => promptInFlight'
        BY <1>3
      <3>2. QED
        BY <1>1, <1>12, <2>1, <3>1 DEF SessionInv, TextInv
    <2>3. reader' = "read" => \A h \in Gens : work'[h] = "open" => h = generation' /\ promptInFlight'
      <3> SUFFICES ASSUME reader' = "read", NEW h \in Gens, work'[h] = "open"
                   PROVE  h = generation' /\ promptInFlight'
        OBVIOUS
      <3>1. CASE h # g
        BY <1>1, <1>2, <1>3, <1>7, <2>1, <3>1 DEF SessionInv, TextInv
      <3>2. CASE h = g
        BY <1>1, <1>2, <1>3, <1>6, <3>2 DEF SessionInv, PromptInv, PromptOK
      <3>3. QED
        BY <3>1, <3>2
    <2>4. Hits(lines, Chunks)' = Hits(lines, Chunks)
      BY <1>1 DEF Hits, Chunks, Lines, Ids
    <2>5. QED
      BY <1>1, <1>2, <2>1, <2>2, <2>3, <2>4 DEF SessionInv, TextInv, IsChunk, IsReply, Answered
  <1>15. QED
    BY <1>5, <1>8, <1>9, <1>10, <1>11, <1>13, <1>14 DEF SessionInv

LEMMA SelectInv ==
    ASSUME SessionBounds, SessionInv, NEW g \in Gens, selectCompletion(g) PROVE SessionInv'
  <1>0. g \in Ids /\ g # 0
    BY GenFacts
  <1>1. /\ prompt[g] = "wait" /\ prompt' = [prompt EXCEPT ![g] = "finalize"]
        /\ response' = [response EXCEPT ![g] = "none"] /\ pending' = pending \ {g}
        /\ promptInFlight' = (promptInFlight /\ generation # g)
        /\ UNCHANGED <<streamVars, processVars, readerVars, startVars, term, stopVars, generation, output,
                       turn>>
    BY DEF selectCompletion, clearPromptInFlight, Step
  <1>2. PICK p \in {"ok", "error", "stop"} :
           /\ p = response[g] \/ (p = "stop" /\ (ctxDone \/ shutdown))
           /\ pick' = [pick EXCEPT ![g] = p]
    BY DEF selectCompletion
  <1>3. UNCHANGED <<reader, readerExited, shutdown, ctxDone, accepted, accepting, gracefulClose, aborting,
                    alive, reaped, lines, work, spoken>>
    BY <1>1 DEF readerVars, stopVars, streamVars, processVars
  <1>4. /\ prompt'[g] = "finalize" /\ \A h \in Gens : h # g => prompt'[h] = prompt[h]
        /\ pick'[g] = p /\ \A h \in Gens : h # g => pick'[h] = pick[h]
        /\ response'[g] = "none" /\ \A h \in Gens : h # g => response'[h] = response[h]
        /\ pick' \in [Gens -> {"none", "ok", "error", "stop"}]
        /\ response' \in [Ids -> {"none", "ok", "error"}]
        /\ prompt' \in [Gens -> {"none", "write", "wait", "finalize", "record", "done", "failed"}]
        /\ promptInFlight' \in BOOLEAN
    BY <1>0, <1>1, <1>2, GenFacts DEF SessionInv, SessionTypes
  <1>5. StreamTypes' /\ StreamInv' /\ ProcessTypes'
    BY <1>1, StreamKept, ProcessKept DEF SessionInv
  <1>6. SessionTypes'
    BY <1>1, <1>3, <1>4 DEF SessionInv, SessionTypes, startVars
  <1>7. EndInv'
    <2>1. producers' \subseteq producers
      BY <1>1, <1>4 DEF producers
    <2>2. QED
      BY <1>1, <1>3, <2>1 DEF SessionInv, EndInv
  <1>8. g = generation /\ promptInFlight
    BY <1>1 DEF SessionInv, PromptInv, PromptOK
  <1>9. PromptInv'
    <2> SUFFICES ASSUME NEW h \in Gens PROVE PromptOK(h)'
      BY DEF PromptInv, Gens
    <2>1. PromptOK(h) /\ (h # g => prompt[h] \notin {"write", "wait"})
      BY <1>8 DEF SessionInv, PromptInv, PromptOK
    <2>2. CASE h = g
      BY <1>1, <1>4, <2>1, <2>2 DEF PromptOK
    <2>3. CASE h # g
      BY <1>1, <1>3, <1>4, <2>1, <2>3 DEF PromptOK
    <2>4. QED
      BY <2>2, <2>3
  <1>10. BoundaryInv'
    BY <1>1, <1>3, <1>4, BoundarySame DEF SessionInv
  <1>11. ReplyInv'
    <2>1. p \in {"ok", "error"} => work[g] = p
      BY <1>2 DEF SessionInv, ReplyInv
    <2>2. QED
      BY <1>1, <1>3, <1>4, <2>1 DEF SessionInv, ReplyInv, IsReply, IsChunk, Answer
  <1>12. TextInv'
    <2> SUFFICES ASSUME Undisturbed' PROVE TextInv'
      BY DEF TextInv
    <2>1. Undisturbed
      BY <1>1, <1>3 DEF Undisturbed
    <2>2. Hits(lines, Chunks)' = Hits(lines, Chunks)
      BY <1>3 DEF Hits, Chunks, Lines, Ids
    <2>3. p = "stop" => reader # "read" /\ lines = <<>>
      BY <1>0, <1>2, <2>1 DEF SessionInv, SessionTypes, EndInv, Undisturbed
    <2>4. p \in {"ok", "error"} => /\ Answered(generation) /\ work[g] = p
                                  /\ \A i \in DOMAIN lines : ~IsChunk(lines[i])
      BY <1>0, <1>2, <1>8, <2>1 DEF SessionInv, TextInv, Answered, ReplyInv
    <2>5. \A i \in DOMAIN lines : ~IsChunk(lines[i])
      BY <2>3, <2>4
    <2>6. reader = "read" => \A h \in Gens : work[h] # "open"
      BY <1>8, <2>1, <2>3, <2>4 DEF SessionInv, TextInv
    <2>7. Answered(generation)' => Answered(generation)
      BY <1>1, <1>2, <1>4, <1>8 DEF Answered
    <2>8. QED
      BY <1>1, <1>3, <2>1, <2>2, <2>5, <2>6, <2>7 DEF SessionInv, TextInv, IsChunk, IsReply
  <1>13. QED
    BY <1>5, <1>6, <1>7, <1>9, <1>10, <1>11, <1>12 DEF SessionInv

LEMMA FinalizeInv ==
    ASSUME SessionBounds, SessionInv, NEW g \in Gens, finalizeGeneration(g) PROVE SessionInv'
  <1>0. g \in Ids /\ g # 0
    BY GenFacts
  <1>1. /\ prompt[g] = "finalize"
        /\ UNCHANGED <<streamVars, processVars, generation, promptInFlight, output,
                       readerVars, startVars, term, chanVars, stopVars>>
    BY DEF finalizeGeneration, Step
  <1>2. UNCHANGED <<reader, readerExited, shutdown, ctxDone, accepted, accepting, gracefulClose, aborting,
                    alive, reaped, lines, work, spoken, pending, response>>
    BY <1>1 DEF readerVars, stopVars, streamVars, processVars, chanVars
  <1>3. \/ /\ prompt' = [prompt EXCEPT ![g] = "done"] /\ pick' = [pick EXCEPT ![g] = "none"] /\ turn' = turn
        \/ /\ generation = g /\ ~turn[g].completed
           /\ prompt' = [prompt EXCEPT ![g] = "record"] /\ turn' = [turn EXCEPT ![g] = Frozen(g)]
           /\ pick' = pick
    BY DEF finalizeGeneration, Step
  <1>4. Frozen(g) \in Turns /\ Frozen(g).completed = TRUE /\ (Frozen(g).success <=> pick[g] = "ok")
        /\ (pick[g] = "ok" => Frozen(g).final = output)
    <2>1. CASE pick[g] = "ok"
      <3>1. (pick[g] = "ok") = TRUE
        BY <2>1
      <3>2. Frozen(g) = [completed |-> TRUE, success |-> TRUE, final |-> output]
        BY <2>1, <3>1 DEF Frozen
      <3>3. output \in Seq(Gens)
        BY DEF SessionInv, SessionTypes
      <3>4. QED
        BY <2>1, <3>2, <3>3 DEF Turns
    <2>2. CASE pick[g] # "ok"
      <3>1. (pick[g] = "ok") = FALSE
        BY <2>2
      <3>2. Frozen(g) = [completed |-> TRUE, success |-> FALSE, final |-> <<>>]
        BY <2>2, <3>1 DEF Frozen
      <3>3. QED
        BY <2>2, <3>2 DEF Turns
    <2>3. QED
      BY <2>1, <2>2
  <1>5. /\ prompt'[g] \in {"done", "record"} /\ \A h \in Gens : h # g => prompt'[h] = prompt[h]
        /\ pick'[g] \in {"none", pick[g]} /\ \A h \in Gens : h # g => pick'[h] = pick[h]
        /\ \A h \in Gens : h # g => turn'[h] = turn[h]
        /\ turn[g].completed => turn'[g] = turn[g]
        /\ turn'[g] \in {turn[g], Frozen(g)}
        /\ prompt'[g] = "record" => generation = g /\ turn'[g] = Frozen(g) /\ pick'[g] = pick[g]
        /\ prompt'[g] = "done" => turn'[g] = turn[g] /\ pick'[g] = "none"
    BY <1>3 DEF SessionInv, SessionTypes
  <1>6. /\ prompt' \in [Gens -> {"none", "write", "wait", "finalize", "record", "done", "failed"}]
        /\ pick' \in [Gens -> {"none", "ok", "error", "stop"}] /\ turn' \in [Gens -> Turns]
    BY <1>3, <1>4 DEF SessionInv, SessionTypes
  <1>7. StreamTypes' /\ StreamInv' /\ ProcessTypes'
    BY <1>1, StreamKept, ProcessKept DEF SessionInv
  <1>8. SessionTypes'
    BY <1>1, <1>2, <1>6 DEF SessionInv, SessionTypes, startVars
  <1>9. EndInv'
    <2>1. producers' \subseteq producers
      BY <1>1, <1>5 DEF producers
    <2>2. QED
      BY <1>1, <1>2, <2>1 DEF SessionInv, EndInv
  <1>10. PromptInv'
    <2> SUFFICES ASSUME NEW h \in Gens PROVE PromptOK(h)'
      BY DEF PromptInv, Gens
    <2>1. PromptOK(h)
      BY DEF SessionInv, PromptInv
    <2>2. CASE h = g
      <3>1. turn'[g].success => turn'[g].completed
        BY <1>4, <1>5, <2>1, <2>2 DEF PromptOK
      <3>2. prompt'[g] = "record" => turn'[g].completed /\ (turn'[g].success <=> pick'[g] = "ok")
        BY <1>4, <1>5
      <3>3. QED
        BY <1>1, <1>2, <1>5, <2>1, <2>2, <3>1, <3>2 DEF PromptOK
    <2>3. CASE h # g
      BY <1>1, <1>2, <1>5, <2>1, <2>3 DEF PromptOK
    <2>4. QED
      BY <2>2, <2>3
  <1>11. BoundaryInv'
    BY <1>1, <1>2, <1>5, BoundarySame DEF SessionInv
  <1>12. ReplyInv'
    <2>1. turn'[g].success => turn[g].success \/ pick[g] = "ok"
      BY <1>4, <1>5
    <2>2. QED
      BY <1>1, <1>2, <1>5, <2>1 DEF SessionInv, ReplyInv, IsReply, IsChunk, Answer
  <1>13. TextInv'
    <2> SUFFICES ASSUME Undisturbed' PROVE TextInv'
      BY DEF TextInv
    <2>1. Undisturbed
      BY <1>1, <1>2 DEF Undisturbed
    <2>2. Hits(lines, Chunks)' = Hits(lines, Chunks)
      BY <1>2 DEF Hits, Chunks, Lines, Ids
    <2>3. turn'[g].success => turn'[g].final = [i \in 1 .. spoken[g] |-> g]
      <3>1. CASE turn'[g] = turn[g]
        BY <2>1, <3>1 DEF SessionInv, TextInv
      <3>2. CASE turn'[g] = Frozen(g) /\ generation = g /\ pick[g] = "ok"
        <4>1. Len(output) = spoken[g] /\ \A i \in DOMAIN output : output[i] = g
          BY <1>0, <2>1, <3>2 DEF SessionInv, TextInv, Answered
        <4>2. output = [i \in 1 .. Len(output) |-> output[i]]
          BY DEF SessionInv, SessionTypes
        <4>3. output = [i \in 1 .. spoken[g] |-> g]
          BY <4>1, <4>2
        <4>4. QED
          BY <1>4, <3>2, <4>3
      <3>3. QED
        BY <1>3, <1>4, <1>5, <3>1, <3>2
    <2>4. generation # 0 /\ Answered(generation)' => Answered(generation)
      <3>1. generation # 0 => generation \in Gens
        BY SessionBounds DEF SessionInv, SessionTypes, Gens
      <3>2. QED
        BY <1>1, <1>2, <1>5, <3>1 DEF Answered
    <2>5. QED
      BY <1>1, <1>2, <1>5, <2>1, <2>2, <2>3, <2>4 DEF SessionInv, TextInv, IsChunk, IsReply
  <1>14. QED
    BY <1>7, <1>8, <1>9, <1>10, <1>11, <1>12, <1>13 DEF SessionInv

LEMMA BoundaryFacts ==
    ASSUME NEW g \in Gens, NEW k \in BOOLEAN
    PROVE  Boundary(g, k) \in Events /\ IsBoundary(Boundary(g, k)) /\ Boundary(g, k).gen = g
  BY GenFacts DEF Boundary, Events, IsBoundary

LEMMA PublishBoundaryInv ==
    ASSUME SessionBounds, SessionInv, NEW g \in Gens, publishBoundary(g) PROVE SessionInv'
  <1>0. g \in Ids /\ g # 0
    BY GenFacts
  <1> DEFINE e == Boundary(g, pick[g] = "ok")
  <1>1. /\ prompt[g] = "record" /\ prompt' = [prompt EXCEPT ![g] = "done"]
        /\ pick' = [pick EXCEPT ![g] = "none"] /\ Publish(e)
        /\ UNCHANGED <<processVars, promptVars, readerVars, startVars, term, chanVars, stopVars>>
    BY DEF publishBoundary, Step
  <1>2. UNCHANGED <<reader, readerExited, shutdown, ctxDone, alive, reaped, lines, work, spoken, pending,
                    response, generation, promptInFlight, output, turn, gracefulClose, ownerExited, aborting,
                    accepting>>
    BY <1>1 DEF readerVars, stopVars, processVars, chanVars, promptVars, Publish
  <1>3. e \in Events /\ IsBoundary(e) /\ e.gen = g
    BY BoundaryFacts
  <1>4. accepting \/ aborting
    <2>1. g \in producers
      BY <1>1 DEF producers
    <2>2. QED
      BY <2>1 DEF SessionInv, EndInv
  <1>5. StreamTypes' /\ StreamInv' /\ accepted' \in {accepted, Append(accepted, e)}
    <2> HIDE DEF e
    <2> QED BY <1>1, <1>3, <1>4, PublishKeeps DEF SessionInv
  <1>6. /\ prompt'[g] = "done" /\ \A h \in Gens : h # g => prompt'[h] = prompt[h]
        /\ pick'[g] = "none" /\ \A h \in Gens : h # g => pick'[h] = pick[h]
        /\ prompt' \in [Gens -> {"none", "write", "wait", "finalize", "record", "done", "failed"}]
        /\ pick' \in [Gens -> {"none", "ok", "error", "stop"}]
    BY <1>1 DEF SessionInv, SessionTypes
  <1>7. ProcessTypes' /\ SessionTypes'
    BY <1>1, <1>2, <1>6, ProcessKept DEF SessionInv, SessionTypes, startVars
  <1>8. EndInv'
    <2>1. producers' \subseteq producers
      BY <1>1, <1>6 DEF producers
    <2>2. QED
      BY <1>1, <1>2, <2>1 DEF SessionInv, EndInv
  <1>9. PromptInv'
    BY <1>1, <1>2, <1>6 DEF SessionInv, PromptInv, PromptOK
  <1>10. BoundaryInv'
    <2>1. turn[g].completed /\ (turn[g].success <=> pick[g] = "ok") /\ turn[g].success \in BOOLEAN
      BY <1>1 DEF SessionInv, PromptInv, PromptOK, SessionTypes, Turns
    <2>2. e = Boundary(g, turn[g].success)
      BY <2>1 DEF Boundary
    <2>3. CASE accepted' = accepted
      BY <1>1, <1>2, <1>6, <2>3, BoundarySame DEF SessionInv
    <2>4. CASE accepted' = Append(accepted, e)
      <3> HIDE DEF e
      <3>1. accepted \in Seq(Events)
        BY DEF SessionInv, StreamTypes
      <3>2. /\ DOMAIN accepted' = DOMAIN accepted \cup {Len(accepted) + 1}
            /\ \A i \in DOMAIN accepted : accepted'[i] = accepted[i]
            /\ accepted'[Len(accepted) + 1] = e
        BY <1>3, <2>4, <3>1
      <3>3. \A i \in DOMAIN accepted : IsBoundary(accepted[i]) => accepted[i].gen # g
        BY <1>1 DEF SessionInv, BoundaryInv
      <3>4. \A i \in DOMAIN accepted' : IsBoundary(accepted'[i]) =>
               LET h == accepted'[i].gen IN
               /\ h \in Gens /\ prompt'[h] = "done" /\ turn[h].completed
               /\ accepted'[i] = Boundary(h, turn[h].success)
        BY <1>3, <1>6, <2>1, <2>2, <3>2, <3>3 DEF SessionInv, BoundaryInv
      <3>5. \A i, j \in DOMAIN accepted' :
               IsBoundary(accepted'[i]) /\ accepted'[i].gen = accepted'[j].gen
                  /\ IsBoundary(accepted'[j]) => i = j
        BY <1>3, <3>2, <3>3 DEF SessionInv, BoundaryInv
      <3>6. QED
        BY <1>2, <3>4, <3>5 DEF BoundaryInv, IsBoundary, Boundary
    <2>5. QED
      BY <1>5, <2>3, <2>4
  <1>11. ReplyInv'
    BY <1>1, <1>2, <1>6, ReplyKept DEF SessionInv
  <1>12. TextInv'
    <2>1. generation # 0 => generation \in Gens
      BY SessionBounds DEF SessionInv, SessionTypes, Gens
    <2>2. generation # 0 /\ Answered(generation)' => Answered(generation)
      BY <1>2, <1>6, <2>1 DEF Answered
    <2>3. Undisturbed' => Undisturbed
      BY <1>1, <1>2 DEF Undisturbed
    <2>4. QED
      BY <1>1, <1>2, <2>2, <2>3, TextKept DEF SessionInv, SessionTypes
  <1>13. QED
    BY <1>5, <1>7, <1>8, <1>9, <1>10, <1>11, <1>12 DEF SessionInv

LEMMA SignalInv == SessionBounds /\ SessionInv /\ signalResult => SessionInv'
  <1> SUFFICES ASSUME SessionBounds, SessionInv, signalResult PROVE SessionInv'
    OBVIOUS
  <1>1. /\ reader = "signal" /\ reader' = "exit"
        /\ UNCHANGED <<streamVars, processVars, generation, promptInFlight, output,
                       waiterVars, readerExited, startVars, term, chanVars, stopVars>>
    BY DEF signalResult
  <1>2. UNCHANGED <<shutdown, ctxDone, alive, reaped, lines, work, spoken, pending, response, accepted,
                    accepting,
                    gracefulClose, aborting, prompt, pick>>
    BY <1>1 DEF stopVars, processVars, chanVars, waiterVars, streamVars
  <1> DEFINE t == [NoTurn EXCEPT !.completed = TRUE]
  <1>a. t \in Turns /\ t.completed = TRUE /\ t.success = FALSE
    <2>1. \A x \in Turns : /\ [x EXCEPT !.completed = TRUE] \in Turns
                           /\ [x EXCEPT !.completed = TRUE].completed = TRUE
                           /\ [x EXCEPT !.completed = TRUE].success = x.success
      BY DEF Turns
    <2>2. NoTurn \in Turns /\ NoTurn.success = FALSE
      BY DEF NoTurn, Turns
    <2>3. QED
      BY <2>1, <2>2
  <1>b. \/ turn' = turn
        \/ generation \in Gens /\ ~turn[generation].completed /\ turn' = [turn EXCEPT ![generation] = t]
    BY SessionBounds DEF signalResult, SessionInv, SessionTypes, Gens
  <1>c. turn \in [Gens -> Turns]
    BY DEF SessionInv, SessionTypes
  <1>3. \A g \in Gens : \/ turn'[g] = turn[g]
                        \/ /\ ~turn[g].completed /\ turn'[g].completed /\ turn'[g].success = FALSE
    <2> HIDE DEF t
    <2> QED BY <1>a, <1>b, <1>c
  <1>4. turn' \in [Gens -> Turns]
    <2> HIDE DEF t
    <2> QED BY <1>a, <1>b, <1>c
  <1>5. StreamTypes' /\ StreamInv' /\ ProcessTypes'
    BY <1>1, StreamKept, ProcessKept DEF SessionInv
  <1>6. SessionTypes'
    BY <1>1, <1>2, <1>4 DEF SessionInv, SessionTypes, startVars
  <1>7. EndInv'
    BY <1>1, <1>2 DEF SessionInv, EndInv, producers
  <1>8. \A g \in Gens : turn[g].success => turn[g].completed
    BY DEF SessionInv, PromptInv, PromptOK
  <1>9. PromptInv'
    BY <1>1, <1>2, <1>3 DEF SessionInv, PromptInv, PromptOK
  <1>10. BoundaryInv'
    BY <1>2, <1>3, BoundarySame DEF SessionInv
  <1>11. ReplyInv'
    BY <1>1, <1>2, <1>3 DEF SessionInv, ReplyInv, IsReply, IsChunk, Answer
  <1>12. TextInv'
    <2> SUFFICES ASSUME Undisturbed' PROVE TextInv'
      BY DEF TextInv
    <2>1. Undisturbed
      BY <1>1, <1>2 DEF Undisturbed
    <2>2. Hits(lines, Chunks)' = Hits(lines, Chunks)
      BY <1>2 DEF Hits, Chunks, Lines, Ids
    <2>3. \A g \in Gens : turn'[g].success => turn'[g] = turn[g]
      BY <1>3
    <2>4. QED
      BY <1>1, <1>2, <2>1, <2>2, <2>3 DEF SessionInv, TextInv, IsChunk, IsReply, Answered
  <1>13. QED
    BY <1>5, <1>6, <1>7, <1>9, <1>10, <1>11, <1>12 DEF SessionInv

-----------------------------------------------------------------------------
(* The line reader. *)

LEMMA LinesTail ==
    ASSUME lines \in Seq(Lines), lines # <<>>, lines' = Tail(lines)
    PROVE  /\ lines' \in Seq(Lines) /\ Head(lines) = lines[1] /\ Head(lines) \in Lines
           /\ 1 \in DOMAIN lines
           /\ \A i \in DOMAIN lines' : i \in Nat \ {0} /\ i + 1 \in DOMAIN lines /\ lines'[i] = lines[i + 1]
           /\ \A j \in DOMAIN lines : j # 1 => j - 1 \in DOMAIN lines' /\ lines'[j - 1] = lines[j]
           /\ Cardinality(Hits(lines, Chunks)) \in Nat /\ Cardinality(Hits(lines', Chunks)) \in Nat
           /\ Cardinality(Hits(lines', Chunks))
                 = IF Head(lines) \in Chunks THEN Cardinality(Hits(lines, Chunks)) - 1
                   ELSE Cardinality(Hits(lines, Chunks))
           /\ Hits(lines, Chunks)' = Hits(lines', Chunks)
  <1>1. /\ lines' \in Seq(Lines) /\ Head(lines) = lines[1] /\ Head(lines) \in Lines /\ 1 \in DOMAIN lines
        /\ \A i \in DOMAIN lines' : i \in Nat \ {0} /\ i + 1 \in DOMAIN lines /\ lines'[i] = lines[i + 1]
        /\ \A j \in DOMAIN lines : j # 1 => j - 1 \in DOMAIN lines' /\ lines'[j - 1] = lines[j]
    OBVIOUS
  <1>2. Hits(lines, Chunks)' = Hits(lines', Chunks)
    BY DEF Hits, Chunks, Lines, Ids
  <1>3. QED
    BY <1>1, <1>2, HitsTail, HitsFinite

\* What every line leaves behind: the reader goes on, and ReplyInv holds of the rest.
HandlesLine ==
    /\ reader = "read" /\ lines # <<>> /\ lines' = Tail(lines)
    /\ UNCHANGED <<alive, reaped, inputClosed, work, spoken, notices, generation,
                   promptInFlight, turn, waiterVars, readerVars, startVars, term, stopVars>>

LEMMA LineFrame ==
    ASSUME SessionBounds, SessionInv, HandlesLine, StreamTypes', StreamInv',
           UNCHANGED <<accepting, gracefulClose, aborting>>, NEW e \in Events, ~IsBoundary(e),
           accepted' \in {accepted, Append(accepted, e)},
           output' \in Seq(Gens), pending' \subseteq pending, response' \in [Ids -> {"none", "ok", "error"}],
           \A g \in Gens : /\ response'[g] # "none" => work[g] = response'[g]
                           /\ response'[g] # response[g] => prompt[g] \in {"write", "wait"} /\ work[g] # "none"
    PROVE  /\ ProcessTypes' /\ SessionTypes' /\ EndInv' /\ PromptInv' /\ BoundaryInv' /\ ReplyInv'
           /\ UNCHANGED <<reader, ctxDone, term, prompt, pick, reaped, work, spoken, generation,
                          promptInFlight, turn>>
  <1>1. /\ lines \in Seq(Lines) /\ lines # <<>> /\ lines' = Tail(lines)
        /\ UNCHANGED <<alive, reaped, inputClosed, work, spoken, notices, generation, start, call,
                       promptInFlight, turn, prompt, pick, reader, readerExited, term, shutdown, ctxDone>>
    BY DEF HandlesLine, waiterVars, readerVars, startVars, stopVars, SessionInv, ProcessTypes
  <1>2. ProcessTypes' /\ SessionTypes'
    BY <1>1, LinesTail DEF SessionInv, ProcessTypes, SessionTypes
  <1>3. EndInv'
    BY <1>1 DEF HandlesLine, SessionInv, EndInv, producers
  <1>4. PromptInv'
    <2> SUFFICES ASSUME NEW g \in Gens PROVE PromptOK(g)'
      BY DEF PromptInv, Gens
    <2>1. PromptOK(g)
      BY DEF SessionInv, PromptInv
    <2>2. prompt[g] \in {"none", "write"} => response'[g] = "none"
      BY <2>1 DEF PromptOK
    <2>3. QED
      BY <1>1, <2>1, <2>2 DEF PromptOK
  <1>5. BoundaryInv'
    BY <1>1, BoundaryKept DEF SessionInv
  <1>6. ReplyInv'
    <2>1. \A i \in DOMAIN lines' : i \in Nat \ {0} /\ i + 1 \in DOMAIN lines /\ lines'[i] = lines[i + 1]
      BY <1>1, LinesTail
    <2>2. \A i, j \in DOMAIN lines' : j + 1 < i + 1 => j < i
      BY <2>1
    <2>3. \A i, j \in DOMAIN lines', g \in Gens :
             IsReply(lines'[i], g) /\ IsChunk(lines'[j]) /\ lines'[j].id = g => j < i
      BY <2>1, <2>2 DEF SessionInv, ReplyInv
    <2>4. QED
      BY <1>1, <2>1, <2>3 DEF SessionInv, ReplyInv, IsReply, IsChunk, Answer
  <1>7. QED
    BY <1>1, <1>2, <1>3, <1>4, <1>5, <1>6

LEMMA EventFacts ==
    ASSUME SessionBounds, NEW i \in Ids
    PROVE  Delta(i) \in Events /\ ~IsBoundary(Delta(i))
  BY DEF Delta, Events, IsBoundary

LEMMA ReplyLineInv ==
    ASSUME SessionBounds, SessionInv, HandlesLine, Head(lines).type = "reply",
           response' = IF Head(lines).id \notin pending THEN response
                       ELSE [response EXCEPT ![Head(lines).id] = Answer(Head(lines).ok)],
           pending' = pending \ {Head(lines).id}, UNCHANGED <<output, streamVars>>
    PROVE  SessionInv'
  <1> DEFINE l == Head(lines)
  <1>1. /\ lines \in Seq(Lines) /\ lines # <<>> /\ lines' = Tail(lines) /\ reader = "read"
        /\ response \in [Ids -> {"none", "ok", "error"}] /\ pending \subseteq Ids
    BY DEF HandlesLine, SessionInv, ProcessTypes, SessionTypes
  <1>2. /\ 1 \in DOMAIN lines /\ l = lines[1] /\ l.id \in Ids /\ l.ok \in BOOLEAN
        /\ l \notin Chunks /\ Answer(l.ok) \in {"ok", "error"}
    BY <1>1, LinesTail DEF Lines, Chunks, Answer
  <1>3. \A g \in Gens : /\ l.id = g => IsReply(lines[1], g) /\ work[g] = Answer(l.ok)
                        /\ l.id # g => response'[g] = response[g]
                        /\ response'[g] \in {response[g], Answer(l.ok)}
                        /\ response'[g] # response[g] => g \in pending /\ l.id = g
    <2>1. \A g \in Gens : l.id = g => IsReply(lines[1], g) /\ work[g] = Answer(l.ok)
      BY <1>2 DEF IsReply, SessionInv, ReplyInv
    <2>2. QED
      BY <1>1, <1>2, <2>1, GenFacts
  <1>4. \A g \in Gens : /\ response'[g] # "none" => work[g] = response'[g]
                        /\ response'[g] # response[g] => prompt[g] \in {"write", "wait"} /\ work[g] # "none"
    <2> SUFFICES ASSUME NEW g \in Gens
                 PROVE  /\ response'[g] # "none" => work[g] = response'[g]
                        /\ response'[g] # response[g] => prompt[g] \in {"write", "wait"} /\ work[g] # "none"
      OBVIOUS
    <2>1. CASE response'[g] = response[g]
      BY <2>1 DEF SessionInv, ReplyInv
    <2>2. CASE response'[g] # response[g]
      BY <1>2, <1>3, <2>2 DEF SessionInv, PromptInv, PromptOK
    <2>3. QED
      BY <2>1, <2>2
  <1>5. response' \in [Ids -> {"none", "ok", "error"}] /\ pending' \subseteq pending
    BY <1>1, <1>2
  <1>6. StreamTypes' /\ StreamInv' /\ output' \in Seq(Gens)
    BY StreamKept DEF SessionInv, SessionTypes
  <1>7. /\ ProcessTypes' /\ SessionTypes' /\ EndInv' /\ PromptInv' /\ BoundaryInv' /\ ReplyInv'
        /\ UNCHANGED <<reader, ctxDone, term, prompt, pick, reaped, work, spoken, generation,
                       promptInFlight, turn>>
    <2>1. UNCHANGED <<accepted, accepting, gracefulClose, aborting>>
      BY DEF streamVars
    <2>2. QED
      BY <1>4, <1>5, <1>6, <2>1, NoticeEvent, LineFrame
  <1>8. TextInv'
    <2> SUFFICES ASSUME Undisturbed' PROVE TextInv'
      BY DEF TextInv
    <2>1. Undisturbed
      BY <1>7 DEF Undisturbed
    <2>2. \A i \in DOMAIN lines' : i + 1 \in DOMAIN lines /\ lines'[i] = lines[i + 1]
      BY <1>1, LinesTail
    <2>3. Cardinality(Hits(lines, Chunks)') = Cardinality(Hits(lines, Chunks))
      BY <1>1, <1>2, LinesTail
    <2>4. generation # 0 => generation \in Gens
      BY SessionBounds DEF SessionInv, SessionTypes, Gens
    <2>5. ASSUME generation # 0, response'[generation] # response[generation]
          PROVE  spoken[generation] = Len(output) /\ \A i \in DOMAIN lines : ~IsChunk(lines[i])
      <3>1. IsReply(lines[1], generation)
        BY <1>3, <2>4, <2>5
      <3>2. \A j \in DOMAIN lines : ~IsChunk(lines[j])
        <4> SUFFICES ASSUME NEW j \in DOMAIN lines, IsChunk(lines[j]) PROVE FALSE
          OBVIOUS
        <4>1. lines[j].id = generation
          BY <2>1 DEF SessionInv, TextInv
        <4>2. j < 1
          BY <1>2, <2>4, <2>5, <3>1, <4>1 DEF SessionInv, ReplyInv
        <4>3. j \in Nat \ {0}
          BY <1>1
        <4>4. QED
          BY <4>2, <4>3
      <3>3. Hits(lines, Chunks) = {}
        BY <3>2 DEF Hits, Chunks, IsChunk
      <3>4. spoken[generation] = Len(output) + Cardinality(Hits(lines, Chunks))
        BY <1>2, <2>1, <2>5, <3>1 DEF SessionInv, TextInv
      <3>5. Cardinality(Hits(lines, Chunks)) = 0
        BY <3>3, FS_EmptySet
      <3>6. Len(output) \in Nat
        BY DEF SessionInv, SessionTypes
      <3>7. QED
        BY <3>2, <3>4, <3>5, <3>6
    <2>6. generation # 0 /\ Answered(generation)' =>
             spoken[generation] = Len(output) /\ \A i \in DOMAIN lines : ~IsChunk(lines[i])
      <3>1. generation # 0 /\ Answered(generation)' =>
               Answered(generation) \/ response'[generation] # response[generation]
        BY <1>7 DEF Answered
      <3>2. QED
        BY <2>1, <2>5, <3>1 DEF SessionInv, TextInv
    <2>7. QED
      BY <1>1, <1>7, <2>1, <2>2, <2>3, <2>6 DEF SessionInv, TextInv, IsChunk, IsReply
  <1>9. QED
    BY <1>6, <1>7, <1>8 DEF SessionInv

LEMMA NoticeLineInv ==
    ASSUME SessionBounds, SessionInv, HandlesLine, Head(lines).type = "notice", Publish(Notice),
           UNCHANGED <<output, chanVars>>
    PROVE  SessionInv'
  <1>1. /\ lines \in Seq(Lines) /\ lines # <<>> /\ lines' = Tail(lines) /\ reader = "read"
        /\ response' = response /\ pending' = pending /\ output' = output /\ output' \in Seq(Gens)
        /\ response' \in [Ids -> {"none", "ok", "error"}]
    BY DEF HandlesLine, SessionInv, ProcessTypes, SessionTypes, chanVars
  <1>2. /\ 1 \in DOMAIN lines /\ Head(lines) \notin Chunks
    BY <1>1, LinesTail DEF Chunks
  <1>3. accepting \/ aborting
    BY <1>1 DEF SessionInv, EndInv
  <1>4. /\ StreamTypes' /\ StreamInv' /\ accepted' \in {accepted, Append(accepted, Notice)}
        /\ UNCHANGED <<accepting, gracefulClose, aborting>>
    BY <1>3, NoticeEvent, PublishKeeps DEF SessionInv
  <1>5. \A g \in Gens : response'[g] # "none" => work[g] = response'[g]
    BY <1>1 DEF SessionInv, ReplyInv
  <1>6. /\ ProcessTypes' /\ SessionTypes' /\ EndInv' /\ PromptInv' /\ BoundaryInv' /\ ReplyInv'
        /\ UNCHANGED <<reader, ctxDone, term, prompt, pick, reaped, work, spoken, generation,
                       promptInFlight, turn>>
    BY <1>1, <1>4, <1>5, NoticeEvent, LineFrame
  <1>7. TextInv'
    <2> SUFFICES ASSUME Undisturbed' PROVE TextInv'
      BY DEF TextInv
    <2>1. Undisturbed
      BY <1>6 DEF Undisturbed
    <2>2. \A i \in DOMAIN lines' : i + 1 \in DOMAIN lines /\ lines'[i] = lines[i + 1]
      BY <1>1, LinesTail
    <2>3. Cardinality(Hits(lines, Chunks)') = Cardinality(Hits(lines, Chunks))
      BY <1>1, <1>2, LinesTail
    <2>4. QED
      BY <1>1, <1>6, <2>1, <2>2, <2>3 DEF SessionInv, TextInv, IsChunk, IsReply, Answered
  <1>8. QED
    BY <1>4, <1>6, <1>7 DEF SessionInv

LEMMA ChunkLineInv ==
    ASSUME SessionBounds, SessionInv, HandlesLine, Head(lines).type = "chunk",
           output' = Append(output, Head(lines).id), Publish(Delta(Head(lines).id)), UNCHANGED chanVars
    PROVE  SessionInv'
  <1> DEFINE l == Head(lines)
  <1>1. /\ lines \in Seq(Lines) /\ lines # <<>> /\ lines' = Tail(lines) /\ reader = "read"
        /\ response' = response /\ pending' = pending /\ output \in Seq(Gens)
        /\ response' \in [Ids -> {"none", "ok", "error"}]
    BY DEF HandlesLine, SessionInv, ProcessTypes, SessionTypes, chanVars
  <1>2. /\ 1 \in DOMAIN lines /\ l = lines[1] /\ l \in Chunks
    BY <1>1, LinesTail DEF Chunks
  <1>3. accepting \/ aborting
    BY <1>1 DEF SessionInv, EndInv
  <1>4. IsChunk(lines[1]) /\ l.id \in Gens /\ l.id \in Ids
    BY <1>2, GenFacts DEF IsChunk, Chunks, SessionInv, ReplyInv
  <1>5. Delta(l.id) \in Events /\ ~IsBoundary(Delta(l.id))
    BY <1>4, EventFacts
  <1>6. /\ StreamTypes' /\ StreamInv' /\ accepted' \in {accepted, Append(accepted, Delta(l.id))}
        /\ UNCHANGED <<accepting, gracefulClose, aborting>>
    BY <1>3, <1>5, PublishKeeps DEF SessionInv
  <1>7. \A g \in Gens : response'[g] # "none" => work[g] = response'[g]
    BY <1>1 DEF SessionInv, ReplyInv
  <1>8. /\ output' \in Seq(Gens) /\ Len(output') = Len(output) + 1 /\ Len(output) \in Nat
        /\ \A i \in DOMAIN output' : output'[i] = l.id \/ (i \in DOMAIN output /\ output'[i] = output[i])
    BY <1>1, <1>4
  <1>9. /\ ProcessTypes' /\ SessionTypes' /\ EndInv' /\ PromptInv' /\ BoundaryInv' /\ ReplyInv'
        /\ UNCHANGED <<reader, ctxDone, term, prompt, pick, reaped, work, spoken, generation,
                       promptInFlight, turn>>
    BY <1>1, <1>5, <1>6, <1>7, <1>8, LineFrame
  <1>10. TextInv'
    <2> SUFFICES ASSUME Undisturbed' PROVE TextInv'
      BY DEF TextInv
    <2>1. Undisturbed
      BY <1>9 DEF Undisturbed
    <2>2. \A i \in DOMAIN lines' : i + 1 \in DOMAIN lines /\ lines'[i] = lines[i + 1]
      BY <1>1, LinesTail
    <2>3. /\ Cardinality(Hits(lines, Chunks)') = Cardinality(Hits(lines, Chunks)) - 1
          /\ Cardinality(Hits(lines, Chunks)) \in Nat
      BY <1>1, <1>2, LinesTail
    <2>4. l.id = generation
      BY <1>2, <1>4, <2>1 DEF SessionInv, TextInv
    <2>5. generation # 0 => ~Answered(generation)
      BY <1>2, <1>4, <2>1 DEF SessionInv, TextInv
    <2>6. Answered(generation)' <=> Answered(generation)
      BY <1>1, <1>9 DEF Answered
    <2>7. \A i \in DOMAIN output' : output'[i] = generation'
      BY <1>8, <1>9, <2>1, <2>4 DEF SessionInv, TextInv
    <2>8. generation # 0 /\ (~reaped \/ \E i \in DOMAIN lines : IsReply(lines[i], generation)) =>
             spoken[generation] = Len(output') + Cardinality(Hits(lines, Chunks)')
      BY <1>8, <2>1, <2>3 DEF SessionInv, TextInv
    <2>9. \A i \in DOMAIN lines' : IsChunk(lines'[i]) => lines'[i].id = generation' /\ promptInFlight'
      BY <1>9, <2>1, <2>2 DEF SessionInv, TextInv
    <2>10. generation' # 0 /\ (~reaped' \/ \E i \in DOMAIN lines' : IsReply(lines'[i], generation')) =>
             spoken'[generation'] = Len(output') + Cardinality(Hits(lines, Chunks)')
      BY <1>9, <2>2, <2>8
    <2>11. QED
      BY <1>9, <2>1, <2>5, <2>6, <2>7, <2>9, <2>10 DEF SessionInv, TextInv, IsChunk, IsReply
  <1>11. QED
    BY <1>6, <1>9, <1>10 DEF SessionInv

LEMMA HandleLineInv == SessionBounds /\ SessionInv /\ handleLine => SessionInv'
  <1> SUFFICES ASSUME SessionBounds, SessionInv, handleLine PROVE SessionInv'
    OBVIOUS
  <1>1. HandlesLine
    BY DEF handleLine, HandlesLine
  <1>2. CASE Head(lines).type = "reply"
    BY <1>1, <1>2, ReplyLineInv DEF handleLine, Answer
  <1>3. CASE Head(lines).type = "chunk"
    BY <1>1, <1>3, ChunkLineInv DEF handleLine
  <1>4. CASE Head(lines).type = "notice"
    BY <1>1, <1>4, NoticeLineInv DEF handleLine
  <1>5. QED
    BY <1>2, <1>3, <1>4 DEF handleLine

-----------------------------------------------------------------------------
(* The theorems. *)

LEMMA InitInv == SessionBounds /\ GrokInit => SessionInv
  <1> SUFFICES ASSUME SessionBounds, GrokInit PROVE SessionInv
    OBVIOUS
  <1>1. StreamTypes /\ ProcessTypes
    <2>1. StreamTypes
      <3>1. queue = <<>> /\ accepting = TRUE /\ gracefulClose = FALSE /\ aborting = FALSE
            /\ ownerExited = FALSE /\ out = <<>> /\ accepted = <<>>
        BY DEF GrokInit, StreamInit
      <3>2. <<>> \in Seq(Events)
        OBVIOUS
      <3>3. QED
        BY <3>1, <3>2 DEF StreamTypes
    <2>2. alive = TRUE /\ reaped = FALSE /\ inputClosed = FALSE /\ lines = <<>>
      BY DEF GrokInit
    <2>3. lines \in Seq(Lines)
      BY <2>2
    <2>4. work = [i \in Ids |-> "none"] /\ spoken = [g \in Gens |-> 0] /\ notices = [g \in Gens |-> 0]
      BY DEF GrokInit
    <2>5. work \in [Ids -> {"none", "open", "ok", "error"}]
      BY <2>4
    <2>6. spoken \in [Gens -> Nat] /\ notices \in [Gens -> Nat]
      BY <2>4
    <2>7. QED
      BY <2>1, <2>2, <2>3, <2>5, <2>6 DEF ProcessTypes
  <1>2. SessionTypes
    <2>1. \A g \in Gens : turn[g] = NoTurn
      BY DEF GrokInit
    <2>2. NoTurn \in Turns
      BY DEF NoTurn, Turns
    <2>3. turn \in [Gens -> Turns]
      BY <2>2 DEF GrokInit
    <2>4. 0 \in 0 .. MaxGen
      BY DEF SessionBounds
    <2>5. generation = 0 /\ promptInFlight = FALSE /\ output = <<>> /\ pending = {} /\ readerExited = FALSE
          /\ shutdown = FALSE /\ ctxDone = FALSE /\ start = "call" /\ reader = "read" /\ term = "idle"
      BY DEF GrokInit
    <2>6. response \in [Ids -> {"none", "ok", "error"}]
      BY DEF GrokInit
    <2>7. prompt \in [Gens -> {"none", "write", "wait", "finalize", "record", "done", "failed"}]
      BY DEF GrokInit
    <2>8. pick \in [Gens -> {"none", "ok", "error", "stop"}]
      BY DEF GrokInit
    <2>9. output \in Seq(Gens)
      BY <2>5
    <2>10. QED
      BY <2>3, <2>4, <2>5, <2>6, <2>7, <2>8, <2>9 DEF SessionTypes
  <1>3. StreamInv
    <2>1. ProgressQueueLimit \in Nat
      BY StreamBounds
    <2>2. Cardinality(Hits(<<>>, Progress)) = 0
      BY HitsEmpty
    <2>3. <<>> \o <<>> = <<>>
      OBVIOUS
    <2>4. QED
      BY <2>1, <2>2, <2>3 DEF GrokInit, StreamInit, StreamInv
  <1>4. EndInv
    BY DEF GrokInit, StreamInit, EndInv
  <1>5. PromptInv
    <2>1. \A g \in Gens : g > 0
      BY DEF Gens
    <2>2. NoTurn.success = FALSE
      BY DEF NoTurn
    <2>3. QED
      BY <2>1, <2>2, GenFacts DEF GrokInit, PromptInv, PromptOK
  <1>6. BoundaryInv
    BY DEF GrokInit, StreamInit, BoundaryInv
  <1>7. ReplyInv
    <2>1. NoTurn.success = FALSE
      BY DEF NoTurn
    <2>2. QED
      BY <2>1, GenFacts DEF GrokInit, ReplyInv
  <1>8. TextInv
    <2>1. NoTurn.success = FALSE
      BY DEF NoTurn
    <2>2. QED
      BY <2>1, GenFacts DEF GrokInit, TextInv
  <1>9. QED
    BY <1>1, <1>2, <1>3, <1>4, <1>5, <1>6, <1>7, <1>8 DEF SessionInv

LEMMA NextInv == SessionBounds /\ SessionInv /\ [GrokNext]_grokVars => SessionInv'
  <1> SUFFICES ASSUME SessionBounds, SessionInv, [GrokNext]_grokVars PROVE SessionInv'
    OBVIOUS
  <1>1. CASE HarnessStep
    BY <1>1, HarnessInv
  <1>2. CASE Broker
    <2>1. ASSUME NEW g \in Gens, Waiter(g) PROVE SessionInv'
      BY <2>1, WritePromptInv, SelectInv, FinalizeInv, PublishBoundaryInv DEF Waiter
    <2>2. CASE readProcess
      BY <2>2, HandleLineInv, ReaderEndsInv, SignalInv DEF readProcess
    <2>3. QED
      BY <1>2, <2>1, <2>2, RequestInv, FirstPromptInv, AbortInv, ForwardInv DEF Broker
  <1>3. CASE \E g \in Gens : SendMessage(g)
    BY <1>3, SendMessageInv
  <1>4. CASE TerminateSession \/ CtxCancel
    BY <1>4, StopInv
  <1>5. CASE forward
    BY <1>5, ForwardInv
  <1>6. CASE UNCHANGED grokVars
    <2>1. UNCHANGED <<streamVars, processVars, promptVars, waiterVars, readerVars, startVars, term,
                      chanVars,
                      stopVars>>
      BY <1>6 DEF grokVars
    <2>2. StreamTypes' /\ StreamInv' /\ ProcessTypes'
      BY <2>1, StreamKept, ProcessKept DEF SessionInv
    <2>3. SessionTypes' /\ EndInv'
      BY <2>1 DEF SessionInv, SessionTypes, EndInv, producers, streamVars, processVars, promptVars,
         waiterVars,
         readerVars, startVars, chanVars, stopVars
    <2>4. PromptInv' /\ BoundaryInv' /\ ReplyInv' /\ TextInv'
      BY <2>1, SessionKept DEF SessionInv, streamVars, processVars, readerVars, stopVars, Undisturbed
    <2>5. QED
      BY <2>2, <2>3, <2>4 DEF SessionInv
  <1>7. QED
    BY <1>1, <1>2, <1>3, <1>4, <1>5, <1>6 DEF GrokNext

\* The strengthening that every step of the adapter, its harness and its consumer preserves:
\* which prompt is in flight, where its chunks and its reply are, and what the stream holds.
THEOREM AdapterInvariant == GrokSpec => []SessionInv
  <1>1. GrokInit => SessionInv
    BY SessionBounds, InitInv
  <1>2. SessionInv /\ [GrokNext]_grokVars => SessionInv'
    BY SessionBounds, NextInv
  <1>3. QED
    BY <1>1, <1>2, PTL DEF GrokSpec

LEMMA InvAcceptedInOrder == SessionInv => AcceptedInOrder
  <1> SUFFICES ASSUME SessionInv PROVE AcceptedInOrder
    OBVIOUS
  <1>1. queue \in Seq(Events) /\ out \in Seq(Events)
    BY DEF SessionInv, StreamTypes
  <1>2. Hits(queue, Progress) = {i \in DOMAIN queue : ~IsCriticalNativeEvent(queue[i])}
    BY <1>1 DEF Hits, Progress
  <1>3. GrokTypeOK
    BY <1>2 DEF SessionInv, SessionTypes, StreamInv, EndInv, PromptInv, PromptOK, GrokTypeOK
  <1>4. IsPrefix(out, accepted) /\ (~aborting => accepted = out \o queue)
    BY <1>1, PrefixOfConcat DEF SessionInv, StreamInv
  <1>5. QED
    BY <1>3, <1>4 DEF AcceptedInOrder, SessionInv, StreamInv

LEMMA InvBoundaryIsReady == SessionInv => BoundaryIsReady
  BY DEF SessionInv, BoundaryInv, BoundaryIsReady

LEMMA InvResultIsOwn == SessionInv => ResultIsOwn
  <1> SUFFICES ASSUME SessionInv, NEW g \in Gens, CollectFinalResult(g) = "envelope"
               PROVE  /\ work[g] = "ok"
                      /\ ~ctxDone /\ term = "idle" => turn[g].final = [i \in 1 .. spoken[g] |-> g]
    BY DEF ResultIsOwn
  <1>1. turn[g].success
    BY DEF CollectFinalResult
  <1>2. QED
    BY <1>1 DEF SessionInv, ReplyInv, TextInv, Undisturbed

\* What the consumer has been sent is a prefix of what the stream accepted, in that order,
\* the rest is still queued unless the stream is aborted, and Publish refuses no event before
\* that, the boundary of the last waiter included.
THEOREM GrokAcceptedInOrder == GrokSpec => []AcceptedInOrder
  BY AdapterInvariant, InvAcceptedInOrder, PTL

\* A waiter publishes its boundary event after finalizeGeneration has recorded the turn, it
\* says what the turn holds, and no turn has two.
THEOREM GrokBoundaryIsReady == GrokSpec => []BoundaryIsReady
  BY AdapterInvariant, InvBoundaryIsReady, PTL

\* What CollectFinalResult returns was answered with success, and its text is that prompt's
\* chunks, all of them and no other's, unless the context ended or the session was terminated.
THEOREM GrokResultIsOwn == GrokSpec => []ResultIsOwn
  BY AdapterInvariant, InvResultIsOwn, PTL
=============================================================================

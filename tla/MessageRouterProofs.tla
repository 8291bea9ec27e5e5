------------------------ MODULE MessageRouterProofs -------------------------
(***************************************************************************)
(* Proofs about MessageRouter for every set of messages, clients and       *)
(* resolutions: the journal's rules and the refinement as long as no fsync *)
(* has failed once a complete line was in the file, types, the order of    *)
(* journal and index and the durability of answers on any storage.  The    *)
(* second part is about InstructionOutbox, for every set of callers, crews *)
(* and capabilities.                                                       *)
(***************************************************************************)
EXTENDS MessageRouter, InstructionOutbox, FiniteSetTheorems, WellFoundedInduction, TLAPS

\* Appending a record makes it the last line and keeps the earlier ones.
LEMMA AppendFacts ==
    ASSUME NEW lines \in Seq(Message), NEW v \in Message
    PROVE  /\ Append(lines, v) \in Seq(Message)
           /\ Append(lines, v) # <<>>
           /\ Last(Append(lines, v)) = v
           /\ Len(Append(lines, v)) = Len(lines) + 1
           /\ \A i \in 1..Len(lines) : Append(lines, v)[i] = lines[i]
  BY DEF Last

\* The last line of a non-empty journal of messages is a message.
LEMMA LastInMessage ==
    ASSUME NEW lines \in Seq(Message), lines # <<>>
    PROVE  /\ Len(lines) \in Nat \ {0}
           /\ Last(lines) = lines[Len(lines)]
           /\ Last(lines) \in Message
  BY DEF Last

\* A legal step or the first record keeps the lines of a message acceptable to
\* ReplayDetailed, up to the one record failQueuedResumeInstructions writes.
LEMMA AppendReplayable ==
    ASSUME NEW lines \in Seq(Message), NEW v \in Message,
           Replayable(lines) \/ RefusedResume(lines),
           \/ lines = <<>> /\ FreshOK(v)
           \/ lines # <<>> /\ StepOK(Last(lines), v)
    PROVE  Replayable(Append(lines, v)) \/ RefusedResume(Append(lines, v))
<1> DEFINE new == Append(lines, v)
<1>0. /\ Len(new) = Len(lines) + 1 /\ Len(lines) \in Nat
      /\ new[Len(new)] = v
      /\ \A i \in 1..Len(lines) : new[i] = lines[i]
  BY AppendFacts DEF Last
<1> HIDE DEF new
<1>1. CASE lines = <<>>
  <2>1. Len(lines) = 0 /\ FirstRecordOK(v)
    BY <1>1, LastInMessage DEF FreshOK
  <2>2. Replayable(new)
    BY <1>0, <2>1 DEF Replayable
  <2> QED BY <2>2 DEF new
<1>2. CASE lines # <<>> /\ RefusedResume(lines)
  <2>1. RefusedResume(new)
    BY <1>0, <1>2 DEF RefusedResume
  <2> QED BY <2>1 DEF new
<1>3. CASE lines # <<>> /\ Replayable(lines)
  <2>0. Len(lines) \in Nat \ {0} /\ Last(lines) = lines[Len(lines)]
    BY <1>3, LastInMessage
  <2>1. StepOK(lines[Len(lines)], v)
    BY <1>3, <2>0
  <2>2. CASE LifecycleOK(lines[Len(lines)], v)
    <3>1. new # <<>> => FirstRecordOK(new[1])
      BY <1>0, <1>3, <2>0 DEF Replayable
    <3>2. ASSUME NEW i \in 2..Len(new)
          PROVE  LifecycleOK(new[i - 1], new[i])
      <4>1. CASE i = Len(new)
        BY <4>1, <1>0, <2>0, <2>2
      <4>2. CASE i # Len(new)
        <5>1. i \in 2..Len(lines) /\ i - 1 \in 1..Len(lines) /\ i \in 1..Len(lines)
          BY <4>2, <1>0, <2>0
        <5> QED BY <5>1, <1>0, <1>3 DEF Replayable
      <4> QED BY <4>1, <4>2
    <3> QED BY <3>1, <3>2 DEF Replayable, new
  <2>3. CASE lines[Len(lines)].mode = "resume" /\ v.mode = "unsupported"
    <3>1. RefusedResume(new)
      <4>1. Len(new) \in 2..Len(new) /\ Len(new) - 1 = Len(lines) /\ Len(lines) \in 1..Len(lines)
        BY <1>0, <2>0
      <4> QED BY <4>1, <1>0, <2>3 DEF RefusedResume
    <3> QED BY <3>1 DEF new
  <2> QED BY <2>1, <2>2, <2>3 DEF StepOK
<1> QED BY <1>1, <1>2, <1>3

\* Every Router mutation starts with a fresh record of an unused id, or with a
\* legal successor of the record in the index, under the message lock.
LEMMA MutateBegins ==
    ASSUME TypeOK,
           NEW c \in Clients, NEW m \in MessageIDs,
           index[m] # Absent => StatusFieldsOK(index[m]),
           Mutate(c, m)
    PROVE  \E v \in Message :
              \/ Enqueue(c, m, v) /\ FreshOK(v)
              \/ Begin(c, m, v) /\ index[m] # Absent /\ StepOK(index[m], v)
<1> USE MaxAttemptsIsNat, NoResolutionIsNone
<1> DEFINE Started(v) ==
              \/ Enqueue(c, m, v) /\ FreshOK(v)
              \/ Begin(c, m, v) /\ index[m] # Absent /\ StepOK(index[m], v)
<1>a. index[m] # Absent => index[m] \in Message
  BY DEF TypeOK
<1>1. ASSUME NEW mode \in DeliveryModes, EnqueueInstruction(c, m, mode)
      PROVE  \E v \in Message : Started(v)
  <2> DEFINE v == [type |-> "instruction", status |-> "queued", mode |-> mode,
                   attempts |-> 0, res |-> NoResolution]
  <2>1. v \in Message
    BY DEF Message, Types, Statuses
  <2>2. FreshOK(v)
    BY DEF FreshOK, FirstRecordOK, StatusFieldsOK, FirstModeOK, DeliveryModePresenceOK
  <2>3. Enqueue(c, m, v)
    BY <1>1 DEF EnqueueInstruction
  <2> QED BY <2>1, <2>2, <2>3
<1>2. ASSUME NEW t \in DecisionTypes, EnqueueDecision(c, m, t)
      PROVE  \E v \in Message : Started(v)
  <2> DEFINE v == [type |-> t, status |-> "queued", mode |-> NoMode,
                   attempts |-> 0, res |-> NoResolution]
  <2>1. v \in Message
    BY DEF Message, Types, Statuses
  <2>2. FreshOK(v)
    BY DEF FreshOK, FirstRecordOK, StatusFieldsOK, FirstModeOK, DeliveryModePresenceOK
  <2>3. Enqueue(c, m, v)
    BY <1>2 DEF EnqueueDecision
  <2> QED BY <2>1, <2>2, <2>3
<1>3. ASSUME NEW r \in Resolutions, FreezeResolution(c, m, r)
      PROVE  \E v \in Message : Started(v)
  <2> DEFINE v == [index[m] EXCEPT !.res = r]
  <2>1. v \in Message
    BY <1>3, <1>a DEF FreezeResolution, Message
  <2>2. StepOK(index[m], v)
    BY <1>3, <1>a DEF FreezeResolution, StepOK, StatusFieldsOK, LifecycleOK, ModeChangeOK,
       FirstModeOK, DeliveryModePresenceOK, ValidateTransition, Message
  <2>3. Begin(c, m, v) /\ index[m] # Absent
    BY <1>3 DEF FreezeResolution
  <2> QED BY <2>1, <2>2, <2>3
<1>4. ASSUME ReclassifyDelivery(c, m)
      PROVE  \E v \in Message : Started(v)
  <2> DEFINE v == [index[m] EXCEPT !.mode = "resume"]
  <2>1. v \in Message
    BY <1>4, <1>a DEF ReclassifyDelivery, Message, DeliveryModes
  <2>2. StepOK(index[m], v)
    BY <1>4, <1>a DEF ReclassifyDelivery, StepOK, StatusFieldsOK, LifecycleOK, ModeChangeOK,
       FirstModeOK, DeliveryModePresenceOK, ValidateTransition, Message, IsDecisionType, DecisionTypes
  <2>3. Begin(c, m, v) /\ index[m] # Absent
    BY <1>4 DEF ReclassifyDelivery
  <2> QED BY <2>1, <2>2, <2>3
<1>5. ASSUME NEW s \in {"delivered", "failed"}, RecordInstruction(c, m, s)
      PROVE  \E v \in Message : Started(v)
  <2> DEFINE v == [index[m] EXCEPT !.attempts = @ + 1, !.status = s]
  <2>0. index[m] \in Message
    BY <1>5, <1>a DEF RecordInstruction
  <2>a. index[m].attempts + 1 \in Nat /\ s \in Statuses
    BY <2>0 DEF Message, Statuses
  <2>1. v \in Message
    BY <2>0, <2>a DEF Message
  <2>2. ValidateTransition(index[m].status, s)
    BY <1>5 DEF RecordInstruction, RecordDeliveryAttempt
  <2>3. StepOK(index[m], v)
    <3>1. s = "delivered" => index[m].status \in {"queued", "delivered"}
      BY <2>2, <1>5, <1>a DEF ValidateTransition, StatusTransitions, RecordInstruction, Message,
         Statuses
    <3> QED
    BY <1>5, <1>a, <2>2, <3>1 DEF RecordInstruction, StepOK, StatusFieldsOK, LifecycleOK, ModeChangeOK,
       FirstModeOK, DeliveryModePresenceOK, Message, IsDecisionType, DecisionTypes, NoMode
  <2>4. Begin(c, m, v) /\ index[m] # Absent
    BY <1>5 DEF RecordInstruction, RecordDeliveryAttempt
  <2> QED BY <2>1, <2>3, <2>4
<1>6. ASSUME NEW s \in {"queued", "answered"}, RecordPermission(c, m, s)
      PROVE  \E v \in Message : Started(v)
  <2> DEFINE v == [index[m] EXCEPT !.attempts = @ + 1, !.status = s]
  <2>0. index[m] \in Message
    BY <1>6, <1>a DEF RecordPermission
  <2>a. index[m].attempts + 1 \in Nat /\ s \in Statuses
    BY <2>0 DEF Message, Statuses
  <2>1. v \in Message
    BY <2>0, <2>a DEF Message
  <2>2. ValidateTransition(index[m].status, s)
    BY <1>6 DEF RecordPermission, RecordDeliveryAttempt
  <2>3. StepOK(index[m], v)
    BY <1>6, <1>a, <2>2 DEF RecordPermission, StepOK, StatusFieldsOK, LifecycleOK, ModeChangeOK,
       FirstModeOK, DeliveryModePresenceOK, Message, IsDecisionType, DecisionTypes, NoMode
  <2>4. Begin(c, m, v) /\ index[m] # Absent
    BY <1>6 DEF RecordPermission, RecordDeliveryAttempt
  <2> QED BY <2>1, <2>3, <2>4
<1>7. ASSUME NEW next \in {"answered", "failed", "expired"},
             NEW mode \in DeliveryModes \cup {NoMode},
             NEW r \in {NoResolution, index[m].res},
             index[m] # Absent,
             Transition(c, m, next, mode, r),
             \/ mode \in {NoMode, index[m].mode}
             \/ index[m].type = "instruction" /\ index[m].mode = "resume" /\ mode = "unsupported",
             next = "answered" => index[m].res # NoResolution
      PROVE  \E v \in Message : Started(v)
  <2> DEFINE v == [index[m] EXCEPT !.status = next,
                                   !.mode = IF mode = NoMode THEN @ ELSE mode,
                                   !.res = IF r = NoResolution THEN @ ELSE r]
  <2>2. /\ v \in Message /\ v.res = index[m].res /\ v.status = next
        /\ v.attempts = index[m].attempts /\ v.type = index[m].type
        /\ \/ v.mode = index[m].mode
           \/ index[m].type = "instruction" /\ index[m].mode = "resume" /\ v.mode = "unsupported"
    BY <1>7, <1>a DEF Message, Statuses
  <2>3. ValidateTransition(index[m].status, next) /\ Begin(c, m, v)
    BY <1>7 DEF Transition
  <2> HIDE DEF v
  <2>4. StepOK(index[m], v)
    BY <1>7, <1>a, <2>2, <2>3 DEF StepOK, StatusFieldsOK, LifecycleOK, ModeChangeOK,
       FirstModeOK, DeliveryModePresenceOK, Message
  <2> QED BY <1>7, <2>2, <2>3, <2>4
<1>8. CASE AnswerFrozen(c, m)
  <2>1. /\ index[m] # Absent /\ index[m].res # NoResolution
        /\ Transition(c, m, "answered", NoMode, index[m].res)
    BY <1>8 DEF AnswerFrozen
  <2> QED BY <2>1, <1>7
<1>9. CASE FailDecision(c, m)
  <2>1. index[m] # Absent /\ Transition(c, m, "failed", NoMode, NoResolution)
    BY <1>9 DEF FailDecision
  <2> QED BY <2>1, <1>7
<1>10. CASE FailUndeliverable(c, m)
  <2>1. /\ index[m] # Absent /\ index[m].mode \in DeliveryModes
        /\ Transition(c, m, "failed", index[m].mode, NoResolution)
    BY <1>10 DEF FailUndeliverable, DeliveryModes
  <2> QED BY <2>1, <1>7
<1>11. CASE FailQueuedResume(c, m)
  <2>1. /\ index[m] # Absent /\ index[m].type = "instruction" /\ index[m].mode = "resume"
        /\ Transition(c, m, "failed", "unsupported", NoResolution)
        /\ "unsupported" \in DeliveryModes
    BY <1>11 DEF FailQueuedResume, DeliveryModes
  <2> QED BY <2>1, <1>7
<1>12. CASE ExpireMessage(c, m)
  <2>1. index[m] # Absent /\ Transition(c, m, "expired", NoMode, NoResolution)
    BY <1>12 DEF ExpireMessage
  <2> QED BY <2>1, <1>7
<1> QED BY <1>1, <1>2, <1>3, <1>4, <1>5, <1>6, <1>8, <1>9, <1>10, <1>11, <1>12 DEF Mutate

-----------------------------------------------------------------------------

\* A run without messages satisfies the invariant.
LEMMA InitEstablishes == Init => IInv
<1> SUFFICES ASSUME Init PROVE IInv
  OBVIOUS
<1>1. \A c \in Clients : op[c] = Idle /\ op[c].stage = "idle"
  BY DEF Init, Idle
<1>2. \A m \in MessageIDs : journal[m] = <<>> /\ Len(journal[m]) = 0
  BY DEF Init
<1>3. TypeOK
  <2>1. journal \in [MessageIDs -> Seq(Message)]
    BY DEF Init
  <2>2. told \in [MessageIDs -> SUBSET Resolutions] /\ syncFailures \in 0..MaxSyncFailures
    BY MaxSyncFailuresIsNat DEF Init
  <2> QED BY <2>1, <2>2 DEF Init, TypeOK, Op
<1>4. JournalSound
  BY <1>2 DEF JournalSound, Replayable
<1>5. Exclusion /\ CandidateOK
  BY <1>1 DEF Exclusion, Busy, CandidateOK, Init
<1>6. IndexCurrent /\ LastLineOK /\ DownIsEmpty /\ ToldIsDurable
  BY <1>2 DEF Init, IndexCurrent, LastLineOK, DownIsEmpty, ToldIsDurable
<1> QED BY <1>3, <1>4, <1>5, <1>6 DEF IInv

\* What an operation in progress looks like.
LEMMA OpFacts ==
    ASSUME TypeOK, NEW c \in Clients
    PROVE  /\ op[c] \in Op
           /\ Busy(c) => /\ op[c].stage \in {"append", "install"}
                         /\ op[c].msg \in MessageIDs
                         /\ op[c].cand \in Message
           /\ ~Busy(c) => op[c].stage = "idle" /\ op[c].msg = NoID
           /\ op[c].stage \in {"append", "install"} => Busy(c)
  BY DEF TypeOK, Op, Busy, Idle

\* Taking a message lock and building a candidate: nobody else works on the message.
LEMMA BeginFacts ==
    ASSUME TypeOK, Exclusion, NEW c \in Clients, NEW m \in MessageIDs, NEW v \in Message,
           Enqueue(c, m, v) \/ (Begin(c, m, v) /\ index[m] # Absent)
    PROVE  /\ UNCHANGED <<journal, torn, marker, up, index, told, syncFailures>>
           /\ op[c] = Idle /\ up
           /\ \A d \in Clients : Busy(d) => op[d].msg # m
           /\ \A d \in Clients :
                 op'[d] = IF d = c THEN [stage |-> "append", msg |-> m, cand |-> v] ELSE op[d]
           /\ TypeOK' /\ Exclusion'
<1> DEFINE o == [stage |-> "append", msg |-> m, cand |-> v]
<1>0. /\ UNCHANGED <<journal, torn, marker, up, index, told, syncFailures>>
      /\ op' = [op EXCEPT ![c] = o] /\ op[c] = Idle /\ up
      /\ lock' \in [MessageIDs -> Clients \cup {NoClient}]
      /\ lock' = lock \/ lock' = [lock EXCEPT ![m] = c]
  BY DEF Enqueue, Begin, TypeOK
<1>1. \A d \in Clients : Busy(d) => op[d].msg # m
  <2>1. CASE Enqueue(c, m, v)
    BY <2>1 DEF Enqueue
  <2>2. CASE Begin(c, m, v) /\ index[m] # Absent
    BY <2>2, NoClientIsNone DEF Begin, LockFree, Exclusion
  <2> QED BY <2>1, <2>2
<1>3. TypeOK'
  BY <1>0 DEF TypeOK, Op
<1>4. \A d \in Clients : op'[d] = IF d = c THEN o ELSE op[d]
  BY <1>0 DEF TypeOK
<1>5. Exclusion'
  <2>1. Busy(c)' /\ op'[c].msg = m
    BY <1>4 DEF Busy, Idle
  <2>2. \A d \in Clients : d # c => (Busy(d)' <=> Busy(d)) /\ op'[d].msg = op[d].msg
    BY <1>4 DEF Busy
  <2>3. lock'[m] = c \/ (lock'[m] = NoClient /\ index'[m] = Absent)
    <3>1. CASE Enqueue(c, m, v)
      <4>1. lock[m] = NoClient
        BY <3>1 DEF Enqueue, TypeOK, Exclusion
      <4> QED BY <4>1, <3>1 DEF Enqueue
    <3>2. CASE Begin(c, m, v)
      BY <3>2 DEF Begin, TypeOK
    <3> QED BY <3>1, <3>2
  <2>4. \A d \in Clients : d # c /\ Busy(d) => lock'[op[d].msg] = lock[op[d].msg]
    BY <1>0, <1>1, OpFacts DEF TypeOK
  <2>5. \A d \in Clients : Busy(d)' =>
          \/ lock'[op'[d].msg] = d
          \/ lock'[op'[d].msg] = NoClient /\ index'[op'[d].msg] = Absent
    BY <1>0, <2>1, <2>2, <2>3, <2>4 DEF Exclusion
  <2>6. \A d, e \in Clients : Busy(d)' /\ Busy(e)' /\ op'[d].msg = op'[e].msg => d = e
    BY <1>1, <2>1, <2>2 DEF Exclusion
  <2>7. ASSUME NEW n \in MessageIDs, lock'[n] # NoClient
        PROVE  op'[lock'[n]].msg = n
    <3>1. CASE lock'[n] = c /\ n = m
      BY <3>1, <2>1
    <3>2. CASE lock'[n] = lock[n]
      <4>1. op[lock[n]].msg = n /\ lock[n] \in Clients
        BY <3>2, <2>7 DEF Exclusion, TypeOK
      <4>2. lock[n] # c
        BY <4>1, <1>0, NoIDIsNone DEF Idle
      <4> QED BY <4>1, <4>2, <3>2, <2>2
    <3> QED BY <3>1, <3>2, <1>0 DEF TypeOK
  <2> QED BY <2>5, <2>6, <2>7 DEF Exclusion
<1> QED BY <1>0, <1>1, <1>3, <1>4, <1>5

\* The candidate continues the journal.
LEMMA BeginPreserves ==
    ASSUME IInv, NEW c \in Clients, NEW m \in MessageIDs, NEW v \in Message,
           \/ Enqueue(c, m, v) /\ FreshOK(v)
           \/ Begin(c, m, v) /\ index[m] # Absent /\ StepOK(index[m], v)
    PROVE  IInv'
<1> DEFINE o == [stage |-> "append", msg |-> m, cand |-> v]
<1>0. /\ UNCHANGED <<journal, torn, marker, up, index, told, syncFailures>> /\ op[c] = Idle /\ up
  BY DEF Enqueue, Begin
<1>1. /\ \A d \in Clients : Busy(d) => op[d].msg # m
      /\ \A d \in Clients : op'[d] = IF d = c THEN o ELSE op[d]
      /\ TypeOK' /\ Exclusion'
  BY BeginFacts DEF IInv
<1>2. \/ journal[m] = <<>> /\ FreshOK(v)
      \/ journal[m] # <<>> /\ StepOK(Last(journal[m]), v)
  <2>1. CASE Enqueue(c, m, v) /\ FreshOK(v)
    BY <2>1 DEF Enqueue
  <2>2. CASE Begin(c, m, v) /\ index[m] # Absent /\ StepOK(index[m], v)
    <3>1. \A d \in Clients : ~(op[d].stage = "install" /\ op[d].msg = m)
      BY <1>1, OpFacts DEF IInv
    <3> QED BY <2>2, <3>1 DEF IInv, IndexCurrent
  <2> QED BY <2>1, <2>2
<1>6. CandidateOK'
  BY <1>0, <1>2, <1>1 DEF IInv, CandidateOK
<1>7. IndexCurrent'
  <2>1. \A d \in Clients : op[d].stage = "install" => d # c
    BY <1>0 DEF Idle
  <2> QED BY <1>0, <1>1, <2>1 DEF IInv, IndexCurrent
<1>8. (LastLineOK /\ DownIsEmpty /\ ToldIsDurable /\ JournalSound)'
  BY <1>0 DEF IInv, LastLineOK, DownIsEmpty, ToldIsDurable, JournalSound
<1> QED BY <1>1, <1>6, <1>7, <1>8 DEF IInv

\* Ending a mutation frees its lock and leaves the others alone.
LEMMA ReturnFacts ==
    ASSUME TypeOK, Exclusion, NEW c \in Clients, Busy(c),
           Unlock(c, op[c].msg), Return(c),
           \A n \in MessageIDs : n # op[c].msg => index'[n] = index[n]
    PROVE  /\ \A d \in Clients : op'[d] = IF d = c THEN Idle ELSE op[d]
           /\ op' \in [Clients -> Op]
           /\ lock' \in [MessageIDs -> Clients \cup {NoClient}]
           /\ Exclusion'
<1>1. /\ \A d \in Clients : op'[d] = IF d = c THEN Idle ELSE op[d]
      /\ op' \in [Clients -> Op]
  BY DEF Return, TypeOK, Op
<1>2. /\ op[c].msg \in MessageIDs
      /\ lock' \in [MessageIDs -> Clients \cup {NoClient}]
      /\ \A n \in MessageIDs : n # op[c].msg => lock'[n] = lock[n]
      /\ lock'[op[c].msg] = IF lock[op[c].msg] = c THEN NoClient ELSE lock[op[c].msg]
  BY OpFacts DEF Unlock, TypeOK
<1>3. \A d \in Clients : Busy(d)' => d # c /\ Busy(d) /\ op'[d] = op[d]
                                      /\ op[d].msg # op[c].msg /\ op[d].msg \in MessageIDs
  BY <1>1, OpFacts DEF Busy, Exclusion
<1>4. \A d \in Clients : Busy(d)' =>
          \/ lock'[op'[d].msg] = d
          \/ lock'[op'[d].msg] = NoClient /\ index'[op'[d].msg] = Absent
  BY <1>2, <1>3 DEF Exclusion
<1>5. \A d, e \in Clients : Busy(d)' /\ Busy(e)' /\ op'[d].msg = op'[e].msg => d = e
  BY <1>3 DEF Exclusion
<1>6. ASSUME NEW n \in MessageIDs, lock'[n] # NoClient
      PROVE  op'[lock'[n]].msg = n
  <2>1. lock'[n] = lock[n] /\ lock[n] # c
    <3>1. CASE n = op[c].msg
      BY <3>1, <1>2, <1>6, NoClientIsNone DEF Exclusion
    <3>2. CASE n # op[c].msg
      BY <3>2, <1>2, <1>6 DEF Exclusion
    <3> QED BY <3>1, <3>2
  <2>2. lock[n] \in Clients /\ op[lock[n]].msg = n
    BY <2>1, <1>6 DEF Exclusion, TypeOK
  <2> QED BY <2>1, <2>2, <1>1
<1> QED BY <1>1, <1>2, <1>4, <1>5, <1>6 DEF Exclusion

\* A complete append: the journal gains the candidate, the index lags.
LEMMA AppendOKPreserves ==
    ASSUME IInv, NEW c \in Clients, AppendOK(c)
    PROVE  IInv'
<1> DEFINE m == op[c].msg
           v == op[c].cand
<1>0. /\ Busy(c) /\ m \in MessageIDs /\ v \in Message
      /\ op[c].stage = "append"
      /\ UNCHANGED <<torn, marker, up, index, lock, told, syncFailures>>
      /\ journal[m] \in Seq(Message)
  BY OpFacts DEF AppendOK, IInv, TypeOK
<1>1. /\ journal' \in [MessageIDs -> Seq(Message)]
      /\ journal'[m] = Append(journal[m], v)
      /\ \A n \in MessageIDs : n # m => journal'[n] = journal[n]
      /\ journal'[m] # <<>> /\ Last(journal'[m]) = v
  BY <1>0, AppendFacts DEF AppendOK, IInv, TypeOK
<1>2. /\ \A d \in Clients : op'[d] = IF d = c THEN [stage |-> "install", msg |-> m, cand |-> v] ELSE op[d]
      /\ op' \in [Clients -> Op]
  <2>1. op[c] \in [stage : {"append", "install"}, msg : MessageIDs, cand : Message]
    BY <1>0 DEF IInv, TypeOK, Op, Busy
  <2>2. [op[c] EXCEPT !.stage = "install"] = [stage |-> "install", msg |-> m, cand |-> v]
    BY <2>1
  <2>3. op' = [op EXCEPT ![c] = [op[c] EXCEPT !.stage = "install"]]
    BY DEF AppendOK
  <2>4. op' = [op EXCEPT ![c] = [stage |-> "install", msg |-> m, cand |-> v]]
    BY <2>2, <2>3
  <2> QED BY <2>4, <1>0 DEF IInv, TypeOK, Op
<1>3. \/ journal[m] = <<>> /\ FreshOK(v)
      \/ journal[m] # <<>> /\ StepOK(Last(journal[m]), v)
  BY <1>0 DEF IInv, CandidateOK
<1> HIDE DEF m, v
<1>4. TypeOK'
  BY <1>0, <1>1, <1>2 DEF IInv, TypeOK
<1>5. \A d \in Clients : (Busy(d)' <=> Busy(d)) /\ op'[d].msg = op[d].msg
  BY <1>0, <1>2 DEF Busy, Idle, m
<1>6. Exclusion'
  <2>1. \A n \in MessageIDs : lock[n] # NoClient => lock[n] \in Clients
    BY DEF IInv, TypeOK
  <2> QED BY <1>0, <1>5, <2>1 DEF IInv, Exclusion
<1>7. CandidateOK'
  <2>1. \A d \in Clients : d # c /\ Busy(d) => op[d].msg # m /\ op[d].msg \in MessageIDs
    BY <1>0, OpFacts DEF IInv, Exclusion, m
  <2>2. ASSUME NEW d \in Clients, d # c
        PROVE  /\ op'[d].stage = "append" =>
                     \/ journal'[op'[d].msg] = <<>> /\ FreshOK(op'[d].cand)
                     \/ journal'[op'[d].msg] # <<>> /\ StepOK(Last(journal'[op'[d].msg]), op'[d].cand)
               /\ op'[d].stage = "install" =>
                     /\ journal'[op'[d].msg] # <<>> /\ Last(journal'[op'[d].msg]) = op'[d].cand
                     /\ Replaces(index'[op'[d].msg], op'[d].cand)
    <3>1. op'[d] = op[d]
      BY <1>2, <2>2
    <3>2. op[d].stage \in {"append", "install"} => journal'[op[d].msg] = journal[op[d].msg]
      BY <2>1, <2>2, <1>1, OpFacts DEF IInv
    <3> QED BY <3>1, <3>2, <1>0 DEF IInv, CandidateOK
  <2>3. op'[c].stage = "install" /\ op'[c].msg = m /\ op'[c].cand = v
    BY <1>2
  <2>5. Replaces(index'[m], v)
    <3>1. \A d \in Clients : ~(op[d].stage = "install" /\ op[d].msg = m)
      BY <1>0, <2>1, OpFacts DEF IInv, m
    <3>2. index[m] = Absent \/ (journal[m] # <<>> /\ index[m] = Last(journal[m]))
      BY <1>0, <3>1 DEF IInv, IndexCurrent
    <3>3. index[m] # Absent => /\ ValidateTransition(index[m].status, v.status)
                               /\ index[m].status # "queued" => v.res = index[m].res
      BY <1>3, <3>2 DEF StepOK
    <3> QED BY <1>0, <3>3 DEF Replaces, MayInstall, ValidateTransition
  <2>4. ASSUME NEW d \in Clients
        PROVE  /\ op'[d].stage = "append" =>
                     \/ journal'[op'[d].msg] = <<>> /\ FreshOK(op'[d].cand)
                     \/ journal'[op'[d].msg] # <<>> /\ StepOK(Last(journal'[op'[d].msg]), op'[d].cand)
               /\ op'[d].stage = "install" =>
                     /\ journal'[op'[d].msg] # <<>> /\ Last(journal'[op'[d].msg]) = op'[d].cand
                     /\ Replaces(index'[op'[d].msg], op'[d].cand)
    BY <2>2, <2>3, <2>5, <1>1
  <2> QED BY <2>4 DEF CandidateOK
<1>8. IndexCurrent'
  <2>1. ASSUME NEW n \in MessageIDs
        PROVE  \/ index'[n] = Absent
               \/ journal'[n] # <<>> /\ index'[n] = Last(journal'[n])
               \/ \E d \in Clients : op'[d].stage = "install" /\ op'[d].msg = n
    <3>1. CASE n = m
      BY <3>1, <1>2
    <3>2. CASE n # m
      <4>1. \A d \in Clients : op[d].stage = "install" => op'[d] = op[d]
        BY <1>0, <1>2
      <4>2. \/ index[n] = Absent
            \/ journal[n] # <<>> /\ index[n] = Last(journal[n])
            \/ \E d \in Clients : op[d].stage = "install" /\ op[d].msg = n
        BY DEF IInv, IndexCurrent
      <4>3. index'[n] = index[n] /\ journal'[n] = journal[n]
        BY <3>2, <1>0, <1>1
      <4> QED BY <4>1, <4>2, <4>3
    <3> QED BY <3>1, <3>2
  <2> QED BY <2>1 DEF IndexCurrent
<1>9. LastLineOK'
  <2>1. StatusFieldsOK(v)
    BY <1>3 DEF FreshOK, FirstRecordOK, StepOK
  <2> QED BY <1>1, <2>1 DEF IInv, LastLineOK
<1>10. DownIsEmpty'
  BY <1>0 DEF IInv, DownIsEmpty, AppendOK
<1>11. ToldIsDurable'
  <2>1. ASSUME NEW r \in told[m]
        PROVE  v.status = "answered" /\ v.res = r
    <3>1. /\ journal[m] # <<>> /\ Last(journal[m]).status = "answered"
          /\ Last(journal[m]).res = r
      BY <1>0, <2>1 DEF IInv, ToldIsDurable
    <3>2. StepOK(Last(journal[m]), v)
      BY <3>1, <1>3
    <3> QED BY <3>1, <3>2 DEF StepOK, ValidateTransition, IsTerminal
  <2>2. ASSUME NEW n \in MessageIDs, NEW r \in told'[n]
        PROVE  /\ journal'[n] # <<>>
               /\ Last(journal'[n]).status = "answered"
               /\ Last(journal'[n]).res = r
    <3>1. CASE n = m
      BY <3>1, <2>1, <2>2, <1>0, <1>1
    <3>2. CASE n # m
      BY <3>2, <2>2, <1>0, <1>1 DEF IInv, ToldIsDurable
    <3> QED BY <3>1, <3>2
  <2> QED BY <2>2 DEF ToldIsDurable
<1>12. JournalSound'
  <2>1. Replayable(journal'[m]) \/ RefusedResume(journal'[m])
    BY <1>0, <1>1, <1>3, AppendReplayable DEF IInv, JournalSound
  <2> QED BY <2>1, <1>1 DEF IInv, JournalSound
<1> QED BY <1>4, <1>6, <1>7, <1>8, <1>9, <1>10, <1>11, <1>12 DEF IInv

\* A failed append gives up the mutation; journal and index stay.
LEMMA AppendErrorPreserves ==
    ASSUME IInv, NEW c \in Clients, AppendRefused(c) \/ AppendTorn(c)
    PROVE  IInv'
<1>0. /\ Busy(c) /\ op[c].stage = "append"
      /\ UNCHANGED <<journal, marker, up, index, told, syncFailures>>
      /\ torn' \in BOOLEAN /\ up
      /\ Unlock(c, op[c].msg) /\ Return(c)
  BY OpFacts DEF AppendRefused, AppendTorn, IInv, TypeOK
<1>1. /\ \A d \in Clients : op'[d] = IF d = c THEN Idle ELSE op[d]
      /\ op' \in [Clients -> Op]
      /\ lock' \in [MessageIDs -> Clients \cup {NoClient}]
      /\ Exclusion'
  BY <1>0, ReturnFacts DEF IInv
<1>2. TypeOK'
  BY <1>0, <1>1 DEF IInv, TypeOK
<1>3. CandidateOK'
  BY <1>0, <1>1 DEF IInv, CandidateOK, Idle
<1>4. IndexCurrent'
  <2>1. \A d \in Clients : op[d].stage = "install" => op'[d] = op[d]
    BY <1>0, <1>1
  <2> QED BY <1>0, <2>1 DEF IInv, IndexCurrent
<1>5. (LastLineOK /\ DownIsEmpty /\ ToldIsDurable /\ JournalSound)'
  BY <1>0 DEF IInv, LastLineOK, DownIsEmpty, ToldIsDurable, JournalSound
<1> QED BY <1>1, <1>2, <1>3, <1>4, <1>5 DEF IInv

\* The index catches up with the journal and the caller learns the outcome.
LEMMA InstallPreserves ==
    ASSUME IInv, NEW c \in Clients, Install(c)
    PROVE  IInv'
<1> DEFINE m == op[c].msg
           v == op[c].cand
<1>0. /\ Busy(c) /\ m \in MessageIDs /\ v \in Message
      /\ op[c].stage = "install" /\ up
      /\ UNCHANGED <<journal, torn, marker, up, syncFailures>>
      /\ Unlock(c, m) /\ Return(c)
      /\ journal[m] # <<>> /\ Last(journal[m]) = v
  BY OpFacts DEF Install, IInv, CandidateOK
<1>1. /\ index' \in [MessageIDs -> Message \cup {Absent}]
      /\ \A n \in MessageIDs : n # m => index'[n] = index[n]
      /\ index'[m] = index[m] \/ index'[m] = v
      /\ ~MayInstall(index[m], v) => index' = index
      /\ MayInstall(index[m], v) => index'[m] = v
  BY <1>0 DEF Install, IInv, TypeOK
<1>2. /\ \A d \in Clients : op'[d] = IF d = c THEN Idle ELSE op[d]
      /\ op' \in [Clients -> Op]
      /\ lock' \in [MessageIDs -> Clients \cup {NoClient}]
      /\ Exclusion'
  BY <1>0, <1>1, ReturnFacts DEF IInv
<1>3. /\ told' \in [MessageIDs -> SUBSET Resolutions]
      /\ \A n \in MessageIDs : n # m => told'[n] = told[n]
      /\ \A r \in told'[m] : r \in told[m] \/ (v.status = "answered" /\ r = v.res)
  <2>1. CASE told' = told
    BY <2>1 DEF IInv, TypeOK
  <2>2. CASE told' = [told EXCEPT ![m] = @ \cup {v.res}] /\ v.status = "answered"
    <3>1. v.res \in Resolutions
      BY <1>0, <2>2 DEF IInv, LastLineOK, StatusFieldsOK, Message
    <3> QED BY <2>2, <3>1, <1>0 DEF IInv, TypeOK
  <2> QED BY <2>1, <2>2 DEF Install
<1> HIDE DEF m, v
<1>5. TypeOK'
  BY <1>0, <1>1, <1>2, <1>3 DEF IInv, TypeOK
<1>6. CandidateOK'
  <2>1. \A d \in Clients : op'[d].stage \in {"append", "install"} =>
            op'[d] = op[d] /\ op[d].msg # m /\ op[d].msg \in MessageIDs
    BY <1>0, <1>2, OpFacts DEF IInv, Exclusion, Idle, m
  <2>2. \A d \in Clients : op'[d].stage \in {"append", "install"} =>
            index'[op[d].msg] = index[op[d].msg]
    BY <2>1, <1>1
  <2> QED BY <2>1, <2>2, <1>0 DEF IInv, CandidateOK
<1>7. ToldIsDurable'
  <2>1. ASSUME NEW n \in MessageIDs, NEW r \in told'[n]
        PROVE  /\ journal'[n] # <<>>
               /\ Last(journal'[n]).status = "answered"
               /\ Last(journal'[n]).res = r
    <3>1. CASE r \in told[n]
      BY <3>1, <1>0 DEF IInv, ToldIsDurable
    <3>2. CASE n = m /\ v.status = "answered" /\ r = v.res
      BY <3>2, <1>0
    <3> QED BY <3>1, <3>2, <2>1, <1>3
  <2> QED BY <2>1 DEF ToldIsDurable
<1>8. (LastLineOK /\ DownIsEmpty /\ JournalSound)'
  BY <1>0 DEF IInv, LastLineOK, DownIsEmpty, JournalSound
<1>9. MayInstall(index[m], v)
  BY <1>0 DEF IInv, CandidateOK, Replaces, m, v
<1>10. IndexCurrent'
  <2>1. ASSUME NEW n \in MessageIDs
        PROVE  \/ index'[n] = Absent
               \/ journal'[n] # <<>> /\ index'[n] = Last(journal'[n])
               \/ \E d \in Clients : op'[d].stage = "install" /\ op'[d].msg = n
    <3>1. CASE n = m
      BY <3>1, <1>0, <1>1, <1>9
    <3>2. CASE n # m
      <4>1. \/ index[n] = Absent
            \/ journal[n] # <<>> /\ index[n] = Last(journal[n])
            \/ \E d \in Clients : op[d].stage = "install" /\ op[d].msg = n
        BY DEF IInv, IndexCurrent
      <4>2. \A d \in Clients : op[d].msg = n => op'[d] = op[d]
        BY <3>2, <1>2 DEF m
      <4> QED BY <4>1, <4>2, <3>2, <1>0, <1>1
    <3> QED BY <3>1, <3>2
  <2> QED BY <2>1 DEF IndexCurrent
<1> QED BY <1>2, <1>5, <1>6, <1>7, <1>8, <1>10 DEF IInv

\* Telling a caller the answer it repeats: the index shows it, so it is durable.
LEMMA ResolveAgainPreserves ==
    ASSUME IInv, NEW m \in MessageIDs, NEW r \in Resolutions, ResolveAgain(m, r)
    PROVE  IInv'
<1>0. /\ UNCHANGED <<journal, torn, marker, up, index, lock, op, syncFailures>>
      /\ index[m] # Absent /\ index[m].status = "answered" /\ index[m].res = r
      /\ told' = [told EXCEPT ![m] = @ \cup {r}]
  BY DEF ResolveAgain
<1>1. TypeOK'
  BY <1>0 DEF IInv, TypeOK
<1>2. (Exclusion /\ CandidateOK /\ IndexCurrent /\ LastLineOK /\ DownIsEmpty)'
  BY <1>0 DEF IInv, Exclusion, Busy, CandidateOK, IndexCurrent, LastLineOK, DownIsEmpty
<1>3. JournalSound'
  BY <1>0 DEF IInv, JournalSound
<1>4. /\ journal[m] # <<>>
      /\ Last(journal[m]).status = "answered"
      /\ Last(journal[m]).res = r
  <2>1. CASE journal[m] # <<>> /\ index[m] = Last(journal[m])
    BY <2>1, <1>0
  <2>2. CASE \E c \in Clients : op[c].stage = "install" /\ op[c].msg = m
    <3>1. PICK c \in Clients : op[c].stage = "install" /\ op[c].msg = m
      BY <2>2
    <3>2. /\ journal[m] # <<>> /\ Last(journal[m]) = op[c].cand
          /\ Replaces(index[m], op[c].cand)
      BY <3>1 DEF IInv, CandidateOK
    <3> QED BY <3>2, <1>0 DEF Replaces, MayInstall, IsTerminal
  <2> QED BY <2>1, <2>2, <1>0 DEF IInv, IndexCurrent
<1>5. ToldIsDurable'
  <2>1. ASSUME NEW n \in MessageIDs, NEW q \in told'[n]
        PROVE  /\ journal'[n] # <<>>
               /\ Last(journal'[n]).status = "answered"
               /\ Last(journal'[n]).res = q
    <3>1. CASE q \in told[n]
      BY <3>1, <1>0 DEF IInv, ToldIsDurable
    <3>2. CASE n = m /\ q = r
      BY <3>2, <1>0, <1>4
    <3> QED BY <3>1, <3>2, <2>1, <1>0 DEF IInv, TypeOK
  <2> QED BY <2>1 DEF ToldIsDurable
<1> QED BY <1>1, <1>2, <1>3, <1>5 DEF IInv

\* Death of the process empties everything but the file.
LEMMA CrashPreserves ==
    ASSUME IInv, Crash
    PROVE  IInv'
<1>1. TypeOK'
  BY DEF Crash, IInv, TypeOK, Op
<1>2. \A c \in Clients : op'[c] = Idle
  BY DEF Crash
<1>3. \A m \in MessageIDs : index'[m] = Absent /\ lock'[m] = NoClient
  BY DEF Crash
<1>4. (Exclusion /\ CandidateOK /\ IndexCurrent /\ DownIsEmpty)'
  BY <1>2, <1>3 DEF Exclusion, Busy, CandidateOK, IndexCurrent, DownIsEmpty, Idle
<1>5. (LastLineOK /\ ToldIsDurable /\ JournalSound)'
  BY DEF Crash, IInv, LastLineOK, ToldIsDurable, JournalSound
<1> QED BY <1>1, <1>4, <1>5 DEF IInv

\* A restart reads the index from the journal, or leaves it empty when the
\* journal is corrupt.
LEMMA LoadPreserves ==
    ASSUME IInv, Load \/ LoadCorrupt
    PROVE  IInv'
<1>0. /\ UNCHANGED <<journal, lock, op, told, syncFailures>>
      /\ torn' \in BOOLEAN /\ marker' \in BOOLEAN /\ up' = TRUE /\ ~up
      /\ index' \in [MessageIDs -> Message \cup {Absent}]
      /\ \A m \in MessageIDs :
            index'[m] = Absent \/ (journal[m] # <<>> /\ index'[m] = Last(journal[m]))
  <2>1. \A m \in MessageIDs : journal[m] # <<>> => Last(journal[m]) \in Message
    BY LastInMessage DEF IInv, TypeOK
  <2>2. CASE Load
    BY <2>1, <2>2 DEF Load, IInv, TypeOK
  <2>3. CASE LoadCorrupt
    BY <2>3 DEF LoadCorrupt, IInv, TypeOK
  <2> QED BY <2>2, <2>3
<1>1. /\ \A c \in Clients : op'[c] = Idle
      /\ \A m \in MessageIDs : lock'[m] = NoClient
  BY <1>0 DEF IInv, DownIsEmpty
<1>2. TypeOK'
  BY <1>0 DEF IInv, TypeOK
<1>3. (Exclusion /\ CandidateOK /\ IndexCurrent /\ DownIsEmpty)'
  BY <1>0, <1>1 DEF Exclusion, Busy, CandidateOK, IndexCurrent, DownIsEmpty, Idle
<1>4. (LastLineOK /\ ToldIsDurable /\ JournalSound)'
  BY <1>0 DEF IInv, LastLineOK, ToldIsDurable, JournalSound
<1> QED BY <1>2, <1>3, <1>4 DEF IInv

\* A mutation starts only on a message nobody is mutating, so its index entry
\* satisfies the rules for a journal line.
LEMMA MutatePreserves ==
    ASSUME IInv, NEW c \in Clients, NEW m \in MessageIDs, Mutate(c, m)
    PROVE  IInv'
<1>1. LockFree(m) \/ index[m] = Absent
  BY DEF Mutate, EnqueueInstruction, EnqueueDecision, Enqueue, FreezeResolution,
         ReclassifyDelivery, RecordInstruction, RecordPermission, RecordDeliveryAttempt,
         AnswerFrozen, FailDecision, FailUndeliverable, FailQueuedResume,
         ExpireMessage, Transition, Begin
<1>2. ASSUME index[m] # Absent
      PROVE  StatusFieldsOK(index[m])
  <2>1. ASSUME NEW d \in Clients, op[d].stage = "install", op[d].msg = m
        PROVE  FALSE
    <3>1. Busy(d)
      BY <2>1, OpFacts DEF IInv
    <3>2. lock[m] = d
      BY <2>1, <3>1, <1>2 DEF IInv, Exclusion
    <3> QED BY <3>2, <1>1, <1>2, NoClientIsNone DEF LockFree
  <2>2. journal[m] # <<>> /\ index[m] = Last(journal[m])
    BY <1>2, <2>1 DEF IInv, IndexCurrent
  <2> QED BY <2>2 DEF IInv, LastLineOK
<1>3. PICK v \in Message :
         \/ Enqueue(c, m, v) /\ FreshOK(v)
         \/ Begin(c, m, v) /\ index[m] # Absent /\ StepOK(index[m], v)
  BY <1>2, MutateBegins DEF IInv
<1> QED BY <1>3, BeginPreserves

\* Every step of the Router and of its environment that is not an append with a
\* failing fsync keeps the invariant.
LEMMA NextPreserves ==
    ASSUME IInv, [Next]_vars, \A c \in Clients : ~AppendSyncFails(c)
    PROVE  IInv'
<1>1. ASSUME NEW c \in Clients, NEW m \in MessageIDs, Mutate(c, m)
      PROVE  IInv'
  BY <1>1, MutatePreserves
<1>2. ASSUME NEW m \in MessageIDs, NEW r \in Resolutions, ResolveAgain(m, r)
      PROVE  IInv'
  BY <1>2, ResolveAgainPreserves
<1>3. ASSUME NEW c \in Clients, AppendStep(c)
      PROVE  IInv'
  BY <1>3, AppendOKPreserves, AppendErrorPreserves, InstallPreserves DEF AppendStep
<1>4. CASE Crash
  BY <1>4, CrashPreserves
<1>5. CASE Load \/ LoadCorrupt
  BY <1>5, LoadPreserves
<1>6. CASE UNCHANGED vars
  BY <1>6 DEF vars, IInv, TypeOK, Exclusion, Busy, CandidateOK, IndexCurrent,
              LastLineOK, DownIsEmpty, ToldIsDurable, JournalSound
<1> QED BY <1>1, <1>2, <1>3, <1>4, <1>5, <1>6 DEF Next

\* The invariant as long as the storage has reported every append truthfully.
Sound == syncFailures \in Nat /\ (syncFailures = 0 => IInv)

\* A step counts at most one failing fsync, and only AppendSyncFails counts one.
LEMMA SyncFailuresGrow ==
    ASSUME [Next]_vars
    PROVE  /\ syncFailures' = syncFailures \/ syncFailures' = syncFailures + 1
           /\ \A c \in Clients : AppendSyncFails(c) => syncFailures' = syncFailures + 1
<1>1. ASSUME NEW c \in Clients, NEW m \in MessageIDs, Mutate(c, m)
      PROVE  syncFailures' = syncFailures
  BY <1>1 DEF Mutate, EnqueueInstruction, EnqueueDecision, Enqueue, FreezeResolution,
         ReclassifyDelivery, RecordInstruction, RecordPermission, RecordDeliveryAttempt,
         AnswerFrozen, FailDecision, FailUndeliverable, FailQueuedResume,
         ExpireMessage, Transition, Begin
<1>2. ASSUME NEW m \in MessageIDs, NEW r \in Resolutions, ResolveAgain(m, r)
      PROVE  syncFailures' = syncFailures
  BY <1>2 DEF ResolveAgain
<1>3. ASSUME NEW c \in Clients, AppendStep(c)
      PROVE  syncFailures' = syncFailures \/ syncFailures' = syncFailures + 1
  BY <1>3 DEF AppendStep, AppendOK, AppendRefused, AppendTorn, AppendSyncFails, Install
<1>4. ASSUME Crash \/ Load \/ LoadCorrupt \/ UNCHANGED vars
      PROVE  syncFailures' = syncFailures
  BY <1>4 DEF Crash, Load, LoadCorrupt, vars
<1>5. \A c \in Clients : AppendSyncFails(c) => syncFailures' = syncFailures + 1
  BY DEF AppendSyncFails
<1> QED BY <1>1, <1>2, <1>3, <1>4, <1>5 DEF Next

\* Sound is inductive: a step that leaves the count at zero is no failing fsync.
LEMMA SoundIsInductive == Sound /\ [Next]_vars => Sound'
<1> SUFFICES ASSUME Sound, [Next]_vars
             PROVE  Sound'
  OBVIOUS
<1>1. syncFailures' \in Nat
  BY SyncFailuresGrow DEF Sound
<1>2. ASSUME syncFailures' = 0
      PROVE  syncFailures = 0 /\ \A c \in Clients : ~AppendSyncFails(c)
  BY <1>2, SyncFailuresGrow DEF Sound
<1>3. ASSUME syncFailures' = 0
      PROVE  IInv'
  BY <1>2, <1>3, NextPreserves DEF Sound
<1> QED BY <1>1, <1>3 DEF Sound

\* The inductive invariant holds in every reachable state of the Router, for
\* any number of messages, goroutines and resolutions, as long as AppendJSONL
\* has not reported a failure after a complete write.
THEOREM InvariantHolds == Spec => []Sound
<1>1. Init => Sound
  BY InitEstablishes DEF Sound, Init
<1> QED BY <1>1, SoundIsInductive, PTL DEF Spec

\* Whatever goroutines interleave, appends fail and processes die, ReplayDetailed
\* accepts the lines of every message that failQueuedResumeInstructions has not
\* refused, until an append is misreported.
THEOREM JournalStaysReplayable == Spec => []ReplayableUnlessRefusedResume
<1>1. Sound => ReplayableUnlessRefusedResume
  BY DEF Sound, IInv, ReplayableUnlessRefusedResume
<1> QED BY <1>1, InvariantHolds, PTL

\* What one record more does to the abstract view of a message: it publishes
\* it, freezes, answers or closes it, or leaves the view alone.
LEMMA AppendImplements ==
    ASSUME IInv, NEW c \in Clients, AppendOK(c)
    PROVE  [Outcome!Next]_<<DurableStage, DurableIntent, syncFailures > 0>>
<1> DEFINE m == op[c].msg
           v == op[c].cand
           p == Last(journal[m])
<1> USE NoResolutionIsNone
<1>0. /\ m \in MessageIDs /\ v \in Message
      /\ journal[m] \in Seq(Message)
      /\ \/ journal[m] = <<>> /\ FreshOK(v)
         \/ journal[m] # <<>> /\ StepOK(p, v)
      /\ journal[m] # <<>> => StatusFieldsOK(p) /\ p \in Message
  BY OpFacts, LastInMessage DEF AppendOK, IInv, TypeOK, CandidateOK, LastLineOK
<1>1. /\ \A n \in MessageIDs : n # m => journal'[n] = journal[n]
      /\ journal'[m] # <<>> /\ Last(journal'[m]) = v
  BY <1>0, AppendFacts DEF AppendOK, IInv, TypeOK
<1> DEFINE StageOf(w) == IF w.status = "answered" THEN "answered"
                         ELSE IF IsTerminal(w.status) THEN "closed" ELSE "open"
<1>2. /\ DurableStage' = [DurableStage EXCEPT ![m] = StageOf(v)]
      /\ DurableIntent' = [DurableIntent EXCEPT ![m] = v.res]
  BY <1>0, <1>1 DEF DurableStage, DurableIntent
<1>3. /\ DurableStage[m] = IF journal[m] = <<>> THEN "unpublished" ELSE StageOf(p)
      /\ DurableIntent[m] = IF journal[m] = <<>> THEN NoResolution ELSE p.res
  BY <1>0 DEF DurableStage, DurableIntent
<1>4. /\ DurableStage = [n \in MessageIDs |-> DurableStage[n]]
      /\ DurableIntent = [n \in MessageIDs |-> DurableIntent[n]]
  BY DEF DurableStage, DurableIntent
<1>a. /\ v.res \in Resolutions \cup {NoResolution}
      /\ v.status = "answered" => v.res # NoResolution
  BY <1>0 DEF Message, StepOK, StatusFieldsOK, FreshOK
<1>b. syncFailures' = syncFailures
  BY DEF AppendOK
<1> HIDE DEF m, v, p
<1>5. CASE journal[m] = <<>>
  <2>1. StageOf(v) = "open" /\ v.res = NoResolution
    BY <1>0, <1>5 DEF FreshOK, IsTerminal
  <2>2. DurableIntent' = DurableIntent
    BY <1>2, <1>3, <1>4, <1>5, <2>1
  <2>3. Outcome!Publish(m)
    BY <1>b, <1>2, <1>3, <1>5, <2>1, <2>2 DEF Outcome!Publish
  <2> QED BY <2>3, <1>0 DEF Outcome!Next
<1>6. CASE journal[m] # <<>> /\ IsTerminal(p.status)
  <2>1. v.status = p.status /\ v.res = p.res
    BY <1>0, <1>6 DEF StepOK, ValidateTransition, IsTerminal
  <2> QED BY <2>1, <1>b, <1>2, <1>3, <1>4, <1>6
<1>7. CASE journal[m] # <<>> /\ ~IsTerminal(p.status)
  <2>1. DurableStage[m] = "open" /\ DurableIntent[m] = p.res
    BY <1>3, <1>7 DEF IsTerminal
  <2>2. CASE v.res # p.res
    <3>1. v.status = "queued" /\ p.res = NoResolution /\ v.res \in Resolutions
      BY <1>0, <1>7, <1>a, <2>2 DEF StepOK
    <3>2. StageOf(v) = "open"
      BY <3>1 DEF IsTerminal
    <3>3. DurableStage' = DurableStage
      BY <1>2, <1>4, <2>1, <3>2
    <3>4. Outcome!Freeze(m, v.res)
      BY <1>b, <1>2, <2>1, <3>1, <3>3 DEF Outcome!Freeze
    <3> QED BY <3>1, <3>4, <1>0 DEF Outcome!Next
  <2>3. CASE v.res = p.res
    <3>1. DurableIntent' = DurableIntent
      BY <1>2, <1>4, <2>1, <2>3
    <3>2. CASE v.status = "answered"
      <4>1. Outcome!Answer(m)
        BY <1>b, <1>2, <1>a, <2>1, <2>3, <3>1, <3>2 DEF Outcome!Answer
      <4> QED BY <4>1, <1>0 DEF Outcome!Next
    <3>3. CASE v.status # "answered" /\ IsTerminal(v.status)
      <4>1. Outcome!Close(m)
        BY <1>b, <1>2, <2>1, <3>1, <3>3 DEF Outcome!Close
      <4> QED BY <4>1, <1>0 DEF Outcome!Next
    <3>4. CASE ~IsTerminal(v.status)
      <4>1. StageOf(v) = "open"
        BY <3>4 DEF IsTerminal
      <4> QED BY <4>1, <1>b, <1>2, <1>4, <2>1, <3>1
    <3> QED BY <3>2, <3>3, <3>4
  <2> QED BY <2>2, <2>3
<1> QED BY <1>5, <1>6, <1>7

\* The Router implements MessageOutcome: every message is published once,
\* frozen at most once while open and closed at most once, answered only with
\* the frozen resolution, under every interleaving, append failure and restart,
\* until AppendJSONL misreports an append.
THEOREM RouterImplementsOutcome == Spec => ImplementsOutcome
<1>1. Init => Outcome!Init
  BY DEF Init, Outcome!Init, DurableStage, DurableIntent
<1>2. Sound /\ [Next]_vars => [Outcome!Next]_<<DurableStage, DurableIntent, syncFailures > 0>>
  <2> SUFFICES ASSUME Sound, [Next]_vars
               PROVE  [Outcome!Next]_<<DurableStage, DurableIntent, syncFailures > 0>>
    OBVIOUS
  <2>1. CASE syncFailures' > 0
    BY <2>1 DEF Outcome!Next, Outcome!Break
  <2>2. CASE ~(syncFailures' > 0)
    <3>1. /\ IInv /\ syncFailures' = syncFailures
          /\ \A c \in Clients : ~AppendSyncFails(c)
      BY <2>2, SyncFailuresGrow DEF Sound
    <3>2. CASE \E c \in Clients : AppendOK(c)
      BY <3>1, <3>2, AppendImplements
    <3>3. CASE journal' = journal
      <4>1. DurableStage' = DurableStage /\ DurableIntent' = DurableIntent
        BY <3>3 DEF DurableStage, DurableIntent
      <4> QED BY <3>1, <4>1
    <3>4. ASSUME NEW c \in Clients, NEW m \in MessageIDs, Mutate(c, m)
          PROVE  journal' = journal
      BY <3>4 DEF Mutate, EnqueueInstruction, EnqueueDecision, Enqueue, FreezeResolution,
           ReclassifyDelivery, RecordInstruction, RecordPermission, RecordDeliveryAttempt,
           AnswerFrozen, FailDecision, FailUndeliverable, FailQueuedResume,
           ExpireMessage, Transition, Begin
    <3>5. ASSUME NEW c \in Clients, AppendStep(c), ~AppendOK(c)
          PROVE  journal' = journal
      BY <3>1, <3>5 DEF AppendStep, AppendRefused, AppendTorn, Install
    <3> QED BY <3>2, <3>3, <3>4, <3>5
            DEF Next, ResolveAgain, Crash, Load, LoadCorrupt, vars
  <2> QED BY <2>1, <2>2
<1> QED BY <1>1, <1>2, InvariantHolds, PTL DEF Spec, Outcome!Spec, ImplementsOutcome

-----------------------------------------------------------------------------
(* What holds even where an fsync fails after a complete write. *)

\* What a client has in progress continues the index entry it read.
InProgress(c) ==
    LET m == op[c].msg
        v == op[c].cand
    IN  Busy(c) =>
          /\ StatusFieldsOK(v)
          /\ \/ index[m] = Absent /\ (op[c].stage = "append" => journal[m] = <<>>)
             \/ index[m] # Absent /\ StepOK(index[m], v)
          /\ op[c].stage = "install" => journal[m] # <<>> /\ Last(journal[m]) = v

\* The index of a message shows a line of the journal, its answer is the last one, and a
\* message whose answer was told shows no other outcome.
IndexWritten(m) ==
    /\ index[m] # Absent =>
          /\ StatusFieldsOK(index[m])
          /\ \E i \in 1 .. Len(journal[m]) : journal[m][i] = index[m]
    /\ index[m] # Absent /\ index[m].status = "answered" =>
          /\ journal[m] # <<>>
          /\ Last(journal[m]).status = "answered" /\ Last(journal[m]).res = index[m].res
    /\ told[m] # {} => index[m] = Absent \/ index[m].status = "answered"

DurableInv ==
    /\ TypeOK /\ Exclusion /\ DownIsEmpty /\ ToldIsDurable
    /\ \A c \in Clients : InProgress(c)
    /\ \A m \in MessageIDs : IndexWritten(m)

\* A client that is left alone keeps what it has in progress.
LEMMA InProgressStays ==
    ASSUME TypeOK, NEW d \in Clients, InProgress(d), op'[d] = op[d],
           Busy(d) => /\ index'[op[d].msg] = index[op[d].msg]
                      /\ journal'[op[d].msg] = journal[op[d].msg]
    PROVE  InProgress(d)'
<1>1. Busy(d)' <=> Busy(d)
  BY DEF Busy
<1> QED BY <1>1 DEF InProgress

\* A client that is done has nothing in progress.
LEMMA DoneIsFine == ASSUME NEW d \in Clients, op'[d] = Idle PROVE InProgress(d)'
  BY DEF InProgress, Busy

\* A message that is left alone keeps its part.
LEMMA IndexWrittenStays ==
    ASSUME NEW n \in MessageIDs, IndexWritten(n),
           index'[n] = index[n], journal'[n] = journal[n], told'[n] = told[n]
    PROVE  IndexWritten(n)'
  BY DEF IndexWritten

\* Only the answered record follows an answered record.
LEMMA AnswerIsFinal ==
    ASSUME NEW p, NEW v, StepOK(p, v), p.status = "answered"
    PROVE  v.status = "answered" /\ v.res = p.res
  BY DEF StepOK, ValidateTransition, IsTerminal

LEMMA MutateKeepsDurable ==
    ASSUME DurableInv, NEW c \in Clients, NEW m \in MessageIDs, Mutate(c, m)
    PROVE  DurableInv'
<1>1. PICK v \in Message :
         \/ Enqueue(c, m, v) /\ FreshOK(v)
         \/ Begin(c, m, v) /\ index[m] # Absent /\ StepOK(index[m], v)
  <2>1. index[m] # Absent => StatusFieldsOK(index[m])
    BY DEF DurableInv, IndexWritten
  <2> QED BY <2>1, MutateBegins DEF DurableInv
<1>2. /\ UNCHANGED <<journal, torn, marker, up, index, told, syncFailures>> /\ up
      /\ \A d \in Clients :
            op'[d] = IF d = c THEN [stage |-> "append", msg |-> m, cand |-> v] ELSE op[d]
      /\ TypeOK' /\ Exclusion'
  BY <1>1, BeginFacts DEF DurableInv
<1>3. InProgress(c)'
  <2>1. StatusFieldsOK(v)
    BY <1>1 DEF FreshOK, FirstRecordOK, StepOK
  <2>2. \/ index[m] = Absent /\ journal[m] = <<>>
        \/ index[m] # Absent /\ StepOK(index[m], v)
    BY <1>1 DEF Enqueue
  <2>3. op'[c].stage = "append" /\ op'[c].msg = m /\ op'[c].cand = v
    BY <1>2
  <2> QED BY <1>2, <2>1, <2>2, <2>3 DEF InProgress
<1>4. \A d \in Clients : InProgress(d)'
  BY <1>2, <1>3, InProgressStays DEF DurableInv
<1>5. \A n \in MessageIDs : IndexWritten(n)'
  BY <1>2, IndexWrittenStays DEF DurableInv
<1>6. DownIsEmpty' /\ ToldIsDurable'
  BY <1>2 DEF DurableInv, DownIsEmpty, ToldIsDurable
<1> QED BY <1>2, <1>4, <1>5, <1>6 DEF DurableInv

\* A complete line in the file, reported or not.
LEMMA LineKeepsDurable ==
    ASSUME DurableInv, NEW c \in Clients, op[c].stage = "append",
           journal' = [journal EXCEPT ![op[c].msg] = Append(@, op[c].cand)],
           UNCHANGED <<index, told>>
    PROVE  /\ journal' \in [MessageIDs -> Seq(Message)]
           /\ journal'[op[c].msg] # <<>> /\ Last(journal'[op[c].msg]) = op[c].cand
           /\ \A d \in Clients : d # c /\ op'[d] = op[d] => InProgress(d)'
           /\ \A n \in MessageIDs : IndexWritten(n)'
           /\ ToldIsDurable'
<1> DEFINE m == op[c].msg
           v == op[c].cand
<1>0. /\ TypeOK /\ Busy(c) /\ m \in MessageIDs /\ v \in Message /\ journal[m] \in Seq(Message)
      /\ InProgress(c) /\ IndexWritten(m)
  BY OpFacts DEF DurableInv, TypeOK
<1>1. /\ journal' \in [MessageIDs -> Seq(Message)]
      /\ journal'[m] = Append(journal[m], v)
      /\ \A n \in MessageIDs : n # m => journal'[n] = journal[n]
      /\ journal'[m] # <<>> /\ Last(journal'[m]) = v
  BY <1>0, AppendFacts DEF TypeOK
<1>2. \/ index[m] = Absent /\ journal[m] = <<>>
      \/ index[m] # Absent /\ StepOK(index[m], v)
  BY <1>0 DEF InProgress
<1>3. \A d \in Clients : d # c /\ Busy(d) => op[d].msg # m /\ op[d].msg \in MessageIDs
  BY <1>0, OpFacts DEF DurableInv, Exclusion
<1> HIDE DEF m, v
<1>4. ASSUME NEW d \in Clients, d # c, op'[d] = op[d] PROVE InProgress(d)'
  <2>1. Busy(d) => /\ index'[op[d].msg] = index[op[d].msg]
                   /\ journal'[op[d].msg] = journal[op[d].msg]
    BY <1>1, <1>3, <1>4
  <2> QED BY <1>0, <1>4, <2>1, InProgressStays DEF DurableInv
<1>5. ASSUME NEW n \in MessageIDs, n = m PROVE IndexWritten(n)'
  <2>1. ASSUME index[n] # Absent
        PROVE  \E i \in 1 .. Len(journal'[n]) : journal'[n][i] = index[n]
    <3>1. PICK i \in 1 .. Len(journal[n]) : journal[n][i] = index[n]
      BY <1>0, <1>5, <2>1 DEF IndexWritten
    <3>2. journal[n] \in Seq(Message) /\ journal'[n] = Append(journal[n], v)
      BY <1>0, <1>1, <1>5
    <3>3. /\ Len(journal'[n]) = Len(journal[n]) + 1 /\ Len(journal[n]) \in Nat
          /\ journal'[n][i] = journal[n][i]
      BY <1>0, <3>1, <3>2
    <3>4. i \in 1 .. Len(journal'[n])
      BY <3>1, <3>3
    <3> QED BY <3>1, <3>3, <3>4
  <2>2. index[n] # Absent /\ index[n].status = "answered" =>
           v.status = "answered" /\ v.res = index[n].res
    BY <1>2, <1>5, AnswerIsFinal
  <2>3. IndexWritten(n) /\ journal'[n] # <<>> /\ Last(journal'[n]) = v
    BY <1>0, <1>1, <1>5
  <2> QED BY <2>1, <2>2, <2>3 DEF IndexWritten
<1>6. \A n \in MessageIDs : IndexWritten(n)'
  <2>1. ASSUME NEW n \in MessageIDs, n # m PROVE IndexWritten(n)'
    <3>1. index'[n] = index[n] /\ journal'[n] = journal[n] /\ told'[n] = told[n]
      BY <1>1, <2>1
    <3> QED BY <3>1, IndexWrittenStays DEF DurableInv
  <2> QED BY <1>5, <2>1
<1>7. ToldIsDurable'
  <2>1. ASSUME NEW r \in told[m] PROVE v.status = "answered" /\ v.res = r
    <3>1. journal[m] # <<>> /\ Last(journal[m]).res = r
      BY <1>0, <2>1 DEF DurableInv, ToldIsDurable
    <3>2. index[m] # Absent /\ StepOK(index[m], v) /\ index[m].status = "answered"
      BY <1>0, <1>2, <2>1, <3>1 DEF IndexWritten
    <3>3. Last(journal[m]).res = index[m].res
      BY <1>0, <3>2 DEF IndexWritten
    <3> QED BY <3>1, <3>2, <3>3, AnswerIsFinal
  <2>2. ASSUME NEW n \in MessageIDs, NEW r \in told'[n]
        PROVE  /\ journal'[n] # <<>>
               /\ Last(journal'[n]).status = "answered" /\ Last(journal'[n]).res = r
    <3>1. CASE n = m
      BY <3>1, <2>1, <2>2, <1>1
    <3>2. CASE n # m
      BY <3>2, <2>2, <1>1 DEF DurableInv, ToldIsDurable
    <3> QED BY <3>1, <3>2
  <2> QED BY <2>2 DEF ToldIsDurable
<1> QED BY <1>1, <1>4, <1>6, <1>7 DEF m, v

LEMMA AppendOKKeepsDurable ==
    ASSUME DurableInv, NEW c \in Clients, AppendOK(c)
    PROVE  DurableInv'
<1> DEFINE m == op[c].msg
           v == op[c].cand
<1>0. /\ TypeOK /\ Busy(c) /\ m \in MessageIDs /\ v \in Message /\ op[c].stage = "append"
      /\ UNCHANGED <<torn, marker, up, index, lock, told, syncFailures>> /\ up
      /\ journal' = [journal EXCEPT ![op[c].msg] = Append(@, op[c].cand)]
      /\ InProgress(c)
  BY OpFacts DEF AppendOK, DurableInv
<1>1. /\ journal' \in [MessageIDs -> Seq(Message)]
      /\ journal'[m] # <<>> /\ Last(journal'[m]) = v
      /\ \A d \in Clients : d # c /\ op'[d] = op[d] => InProgress(d)'
      /\ \A n \in MessageIDs : IndexWritten(n)'
      /\ ToldIsDurable'
  BY <1>0, LineKeepsDurable
<1>2. /\ \A d \in Clients :
            op'[d] = IF d = c THEN [stage |-> "install", msg |-> m, cand |-> v] ELSE op[d]
      /\ op' \in [Clients -> Op]
  <2>1. op[c] \in [stage : {"append", "install"}, msg : MessageIDs, cand : Message]
    BY <1>0 DEF TypeOK, Op, Busy
  <2>2. [op[c] EXCEPT !.stage = "install"] = [stage |-> "install", msg |-> m, cand |-> v]
    BY <2>1
  <2>3. op' = [op EXCEPT ![c] = [op[c] EXCEPT !.stage = "install"]]
    BY DEF AppendOK
  <2>4. op' = [op EXCEPT ![c] = [stage |-> "install", msg |-> m, cand |-> v]]
    BY <2>2, <2>3
  <2> QED BY <2>4, <1>0 DEF TypeOK, Op
<1>3. TypeOK'
  BY <1>0, <1>1, <1>2 DEF TypeOK
<1>4. InProgress(c)'
  <2>1. op'[c].stage = "install" /\ op'[c].msg = m /\ op'[c].cand = v
    BY <1>2
  <2>2. /\ StatusFieldsOK(v)
        /\ index[m] = Absent \/ (index[m] # Absent /\ StepOK(index[m], v))
    BY <1>0 DEF InProgress
  <2> HIDE DEF m, v
  <2> QED BY <1>0, <1>1, <2>1, <2>2 DEF InProgress
<1> HIDE DEF m, v
<1>5. \A d \in Clients : InProgress(d)'
  BY <1>1, <1>2, <1>4
<1>6. \A d \in Clients : (Busy(d)' <=> Busy(d)) /\ op'[d].msg = op[d].msg
  BY <1>0, <1>2 DEF Busy, Idle, m
<1>7. Exclusion'
  <2>1. \A n \in MessageIDs : lock[n] # NoClient => lock[n] \in Clients
    BY DEF DurableInv, TypeOK
  <2> QED BY <1>0, <1>6, <2>1 DEF DurableInv, Exclusion
<1>8. DownIsEmpty'
  BY <1>0 DEF DownIsEmpty
<1> QED BY <1>1, <1>3, <1>5, <1>7, <1>8 DEF DurableInv

LEMMA AppendErrorKeepsDurable ==
    ASSUME DurableInv, NEW c \in Clients,
           AppendRefused(c) \/ AppendTorn(c) \/ AppendSyncFails(c)
    PROVE  DurableInv'
<1>0. /\ TypeOK /\ Busy(c) /\ op[c].stage = "append" /\ up
      /\ UNCHANGED <<marker, up, index, told>> /\ torn' \in BOOLEAN
      /\ Unlock(c, op[c].msg) /\ Return(c)
      /\ syncFailures' \in 0 .. MaxSyncFailures
  <2>1. /\ TypeOK /\ op[c].stage = "append" /\ up
        /\ UNCHANGED <<marker, up, index, told>> /\ torn' \in BOOLEAN
        /\ Unlock(c, op[c].msg) /\ Return(c)
    BY DEF AppendRefused, AppendTorn, AppendSyncFails, DurableInv, TypeOK
  <2>2. syncFailures' \in 0 .. MaxSyncFailures
    BY MaxSyncFailuresIsNat DEF AppendRefused, AppendTorn, AppendSyncFails, DurableInv, TypeOK
  <2> QED BY <2>1, <2>2, OpFacts
<1>1. /\ \A d \in Clients : op'[d] = IF d = c THEN Idle ELSE op[d]
      /\ op' \in [Clients -> Op]
      /\ lock' \in [MessageIDs -> Clients \cup {NoClient}]
      /\ Exclusion'
  BY <1>0, ReturnFacts DEF DurableInv
<1>2. /\ journal' \in [MessageIDs -> Seq(Message)]
      /\ \A d \in Clients : d # c /\ op'[d] = op[d] => InProgress(d)'
      /\ \A n \in MessageIDs : IndexWritten(n)'
      /\ ToldIsDurable'
  <2>1. CASE journal' = journal
    <3>1. \A d \in Clients : d # c /\ op'[d] = op[d] => InProgress(d)'
      BY <1>0, <2>1, InProgressStays DEF DurableInv
    <3>2. \A n \in MessageIDs : IndexWritten(n)'
      BY <1>0, <2>1, IndexWrittenStays DEF DurableInv
    <3>3. ToldIsDurable'
      BY <1>0, <2>1 DEF DurableInv, ToldIsDurable
    <3> QED BY <2>1, <3>1, <3>2, <3>3 DEF DurableInv, TypeOK
  <2>2. CASE journal' = [journal EXCEPT ![op[c].msg] = Append(@, op[c].cand)]
    BY <1>0, <2>2, LineKeepsDurable
  <2> QED BY <2>1, <2>2 DEF AppendRefused, AppendTorn, AppendSyncFails
<1>3. TypeOK'
  BY <1>0, <1>1, <1>2 DEF TypeOK
<1>4. \A d \in Clients : InProgress(d)'
  BY <1>1, <1>2, DoneIsFine
<1>5. DownIsEmpty'
  BY <1>0 DEF DownIsEmpty
<1> QED BY <1>1, <1>2, <1>3, <1>4, <1>5 DEF DurableInv

LEMMA InstallKeepsDurable ==
    ASSUME DurableInv, NEW c \in Clients, Install(c)
    PROVE  DurableInv'
<1> DEFINE m == op[c].msg
           v == op[c].cand
<1>0. /\ TypeOK /\ Busy(c) /\ m \in MessageIDs /\ v \in Message
      /\ op[c].stage = "install" /\ up
      /\ UNCHANGED <<journal, torn, marker, up, syncFailures>>
      /\ Unlock(c, m) /\ Return(c)
      /\ journal[m] # <<>> /\ Last(journal[m]) = v /\ StatusFieldsOK(v)
      /\ journal[m] \in Seq(Message)
  BY OpFacts DEF Install, DurableInv, InProgress, TypeOK
<1>1. /\ index' \in [MessageIDs -> Message \cup {Absent}]
      /\ \A n \in MessageIDs : n # m => index'[n] = index[n]
      /\ \/ index'[m] = index[m] /\ told' = told
         \/ index'[m] = v
  BY <1>0 DEF Install, TypeOK
<1>2. /\ \A d \in Clients : op'[d] = IF d = c THEN Idle ELSE op[d]
      /\ op' \in [Clients -> Op]
      /\ lock' \in [MessageIDs -> Clients \cup {NoClient}]
      /\ Exclusion'
  BY <1>0, <1>1, ReturnFacts DEF DurableInv
<1>3. /\ told' \in [MessageIDs -> SUBSET Resolutions]
      /\ \A n \in MessageIDs : n # m => told'[n] = told[n]
      /\ \A r \in told'[m] : r \in told[m] \/ (v.status = "answered" /\ r = v.res)
  <2>1. CASE told' = told
    BY <2>1 DEF DurableInv, TypeOK
  <2>2. CASE told' = [told EXCEPT ![m] = @ \cup {v.res}] /\ v.status = "answered"
    <3>1. v.res \in Resolutions
      BY <1>0, <2>2 DEF StatusFieldsOK, Message
    <3> QED BY <2>2, <3>1, <1>0 DEF TypeOK
  <2> QED BY <2>1, <2>2 DEF Install
<1>4. \A d \in Clients : d # c /\ Busy(d) => op[d].msg # m /\ op[d].msg \in MessageIDs
  BY <1>0, OpFacts DEF DurableInv, Exclusion
<1> HIDE DEF m, v
<1>5. TypeOK'
  BY <1>0, <1>1, <1>2, <1>3 DEF TypeOK
<1>6. \A d \in Clients : InProgress(d)'
  <2>1. ASSUME NEW d \in Clients, d # c PROVE InProgress(d)'
    <3>1. op'[d] = op[d] /\ (Busy(d) => /\ index'[op[d].msg] = index[op[d].msg]
                                        /\ journal'[op[d].msg] = journal[op[d].msg])
      BY <1>0, <1>1, <1>2, <1>4, <2>1
    <3> QED BY <1>0, <3>1, InProgressStays DEF DurableInv
  <2> QED BY <1>2, <2>1, DoneIsFine
<1>7. ToldIsDurable'
  <2>1. ASSUME NEW n \in MessageIDs, NEW r \in told'[n]
        PROVE  /\ journal'[n] # <<>>
               /\ Last(journal'[n]).status = "answered" /\ Last(journal'[n]).res = r
    <3>1. CASE r \in told[n]
      BY <3>1, <1>0 DEF DurableInv, ToldIsDurable
    <3>2. CASE n = m /\ v.status = "answered" /\ r = v.res
      BY <3>2, <1>0
    <3> QED BY <3>1, <3>2, <2>1, <1>3
  <2> QED BY <2>1 DEF ToldIsDurable
<1>8. ASSUME NEW n \in MessageIDs, n = m PROVE IndexWritten(n)'
  <2>1. CASE index'[n] = index[n] /\ told' = told
    BY <1>0, <2>1, IndexWrittenStays DEF DurableInv
  <2>2. CASE index'[n] = v
    <3>1. \E i \in 1 .. Len(journal[n]) : journal[n][i] = v
      BY <1>0, <1>8, LastInMessage
    <3>2. journal'[n] = journal[n] /\ journal[n] # <<>> /\ Last(journal[n]) = v
      BY <1>0, <1>8
    <3>3. told'[n] # {} => v.status = "answered"
      <4>1. \A r \in told'[n] : Last(journal'[n]).status = "answered"
        BY <1>7 DEF ToldIsDurable
      <4> QED BY <3>2, <4>1
    <3> QED BY <1>0, <2>2, <3>1, <3>2, <3>3 DEF IndexWritten
  <2> QED BY <1>1, <1>8, <2>1, <2>2
<1>9. \A n \in MessageIDs : IndexWritten(n)'
  <2>1. ASSUME NEW n \in MessageIDs, n # m PROVE IndexWritten(n)'
    <3>1. index'[n] = index[n] /\ journal'[n] = journal[n] /\ told'[n] = told[n]
      BY <1>0, <1>1, <1>3, <2>1
    <3> QED BY <3>1, IndexWrittenStays DEF DurableInv
  <2> QED BY <1>8, <2>1
<1>10. DownIsEmpty'
  BY <1>0 DEF DownIsEmpty
<1> QED BY <1>2, <1>5, <1>6, <1>7, <1>9, <1>10 DEF DurableInv

LEMMA ResolveAgainKeepsDurable ==
    ASSUME DurableInv, NEW m \in MessageIDs, NEW r \in Resolutions, ResolveAgain(m, r)
    PROVE  DurableInv'
<1>0. /\ UNCHANGED <<journal, torn, marker, up, index, lock, op, syncFailures>> /\ up
      /\ index[m] # Absent /\ index[m].status = "answered" /\ index[m].res = r
      /\ told' = [told EXCEPT ![m] = @ \cup {r}]
  BY DEF ResolveAgain
<1>1. TypeOK'
  BY <1>0 DEF DurableInv, TypeOK
<1>2. Exclusion' /\ DownIsEmpty'
  BY <1>0 DEF DurableInv, Exclusion, Busy, DownIsEmpty
<1>3. \A d \in Clients : InProgress(d)'
  BY <1>0, InProgressStays DEF DurableInv
<1>4. /\ \A n \in MessageIDs : n # m => told'[n] = told[n]
      /\ told'[m] = told[m] \cup {r}
  BY <1>0 DEF DurableInv, TypeOK
<1>5. IndexWritten(m)'
  BY <1>0 DEF DurableInv, IndexWritten
<1>6. \A n \in MessageIDs : IndexWritten(n)'
  BY <1>0, <1>4, <1>5, IndexWrittenStays DEF DurableInv
<1>7. ToldIsDurable'
  <2>1. ASSUME NEW n \in MessageIDs, NEW q \in told'[n]
        PROVE  /\ journal'[n] # <<>>
               /\ Last(journal'[n]).status = "answered" /\ Last(journal'[n]).res = q
    <3>1. CASE q \in told[n]
      BY <3>1, <1>0 DEF DurableInv, ToldIsDurable
    <3>2. CASE n = m /\ q = r
      BY <3>2, <1>0 DEF DurableInv, IndexWritten
    <3> QED BY <3>1, <3>2, <2>1, <1>4
  <2> QED BY <2>1 DEF ToldIsDurable
<1> QED BY <1>1, <1>2, <1>3, <1>6, <1>7 DEF DurableInv

LEMMA CrashKeepsDurable == ASSUME DurableInv, Crash PROVE DurableInv'
<1>1. TypeOK'
  BY DEF Crash, DurableInv, TypeOK, Op
<1>2. \A c \in Clients : op'[c] = Idle
  BY DEF Crash
<1>3. \A m \in MessageIDs : index'[m] = Absent /\ lock'[m] = NoClient
  BY DEF Crash
<1>4. Exclusion' /\ DownIsEmpty'
  BY <1>2, <1>3 DEF Exclusion, Busy, DownIsEmpty
<1>5. \A c \in Clients : InProgress(c)'
  BY <1>2, DoneIsFine
<1>6. \A m \in MessageIDs : IndexWritten(m)'
  BY <1>3 DEF IndexWritten
<1>7. ToldIsDurable'
  BY DEF Crash, DurableInv, ToldIsDurable
<1> QED BY <1>1, <1>4, <1>5, <1>6, <1>7 DEF DurableInv

LEMMA LoadKeepsDurable == ASSUME DurableInv, Load \/ LoadCorrupt PROVE DurableInv'
<1>0. /\ UNCHANGED <<journal, lock, op, told, syncFailures>>
      /\ torn' \in BOOLEAN /\ marker' \in BOOLEAN /\ up' = TRUE /\ ~up
      /\ index' \in [MessageIDs -> Message \cup {Absent}]
      /\ \A m \in MessageIDs : \/ index'[m] = Absent
                               \/ /\ journal[m] # <<>> /\ index'[m] = Last(journal[m])
                                  /\ Replayable(journal[m])
  <2>1. \A m \in MessageIDs : journal[m] # <<>> => Last(journal[m]) \in Message
    BY LastInMessage DEF DurableInv, TypeOK
  <2>2. CASE Load
    BY <2>1, <2>2 DEF Load, JournalOK, DurableInv, TypeOK
  <2>3. CASE LoadCorrupt
    BY <2>3 DEF LoadCorrupt, DurableInv, TypeOK
  <2> QED BY <2>2, <2>3
<1>1. /\ \A c \in Clients : op'[c] = Idle
      /\ \A m \in MessageIDs : lock'[m] = NoClient
  BY <1>0 DEF DurableInv, DownIsEmpty
<1>2. TypeOK'
  BY <1>0 DEF DurableInv, TypeOK
<1>3. Exclusion' /\ DownIsEmpty'
  BY <1>0, <1>1 DEF Exclusion, Busy, DownIsEmpty
<1>4. \A c \in Clients : InProgress(c)'
  BY <1>1, DoneIsFine
<1>5. ToldIsDurable'
  BY <1>0 DEF DurableInv, ToldIsDurable
<1>6. ASSUME NEW m \in MessageIDs PROVE IndexWritten(m)'
  <2>1. CASE index'[m] = Absent
    BY <2>1 DEF IndexWritten
  <2>2. CASE /\ journal[m] # <<>> /\ index'[m] = Last(journal[m])
             /\ Replayable(journal[m])
    <3>1. /\ Len(journal[m]) \in Nat \ {0} /\ Last(journal[m]) = journal[m][Len(journal[m])]
      BY <2>2, LastInMessage DEF DurableInv, TypeOK
    <3>2. StatusFieldsOK(Last(journal[m]))
      <4>1. CASE Len(journal[m]) = 1
        BY <2>2, <3>1, <4>1 DEF Replayable, FirstRecordOK
      <4>2. CASE Len(journal[m]) # 1
        <5>1. \A n \in Nat \ {0} : n # 1 => n \in 2 .. n
          OBVIOUS
        <5>2. Len(journal[m]) \in Nat \ {0}
          BY <3>1
        <5>3. Len(journal[m]) \in 2 .. Len(journal[m])
          BY <4>2, <5>1, <5>2
        <5> QED BY <2>2, <3>1, <5>3 DEF Replayable, LifecycleOK
      <4> QED BY <4>1, <4>2
    <3>3. \E i \in 1 .. Len(journal[m]) : journal[m][i] = Last(journal[m])
      BY <3>1
    <3>4. told[m] # {} => Last(journal[m]).status = "answered"
      BY DEF DurableInv, ToldIsDurable
    <3> QED BY <1>0, <2>2, <3>2, <3>3, <3>4 DEF IndexWritten
  <2> QED BY <1>0, <2>1, <2>2
<1> QED BY <1>2, <1>3, <1>4, <1>5, <1>6 DEF DurableInv

\* The second inductive invariant needs nothing of the storage: also where an append reports
\* an error for a line that is in the file, the index follows the journal (router.go
\* "Persistence always precedes in-memory index updates") and an answer that was told is final.
THEOREM DurableHolds == Spec => []DurableInv
<1>1. Init => DurableInv
  <2> SUFFICES ASSUME Init PROVE DurableInv
    OBVIOUS
  <2>1. TypeOK /\ Exclusion /\ DownIsEmpty /\ ToldIsDurable
    BY InitEstablishes DEF IInv
  <2>2. \A c \in Clients : InProgress(c)
    BY DEF Init, InProgress, Busy
  <2>3. \A m \in MessageIDs : IndexWritten(m)
    BY DEF Init, IndexWritten
  <2> QED BY <2>1, <2>2, <2>3 DEF DurableInv
<1>2. DurableInv /\ [Next]_vars => DurableInv'
  <2> SUFFICES ASSUME DurableInv, [Next]_vars PROVE DurableInv'
    OBVIOUS
  <2>1. ASSUME NEW c \in Clients, NEW m \in MessageIDs, Mutate(c, m) PROVE DurableInv'
    BY <2>1, MutateKeepsDurable
  <2>2. ASSUME NEW m \in MessageIDs, NEW r \in Resolutions, ResolveAgain(m, r) PROVE DurableInv'
    BY <2>2, ResolveAgainKeepsDurable
  <2>3. ASSUME NEW c \in Clients, AppendStep(c) PROVE DurableInv'
    BY <2>3, AppendOKKeepsDurable, AppendErrorKeepsDurable, InstallKeepsDurable DEF AppendStep
  <2>4. CASE Crash
    BY <2>4, CrashKeepsDurable
  <2>5. CASE Load \/ LoadCorrupt
    BY <2>5, LoadKeepsDurable
  <2>6. CASE UNCHANGED vars
    <3>1. UNCHANGED <<journal, torn, marker, up, index, lock, op, told, syncFailures>>
      BY <2>6 DEF vars
    <3>2. (TypeOK /\ Exclusion /\ DownIsEmpty /\ ToldIsDurable)'
      BY <3>1 DEF DurableInv, TypeOK, Exclusion, Busy, DownIsEmpty, ToldIsDurable
    <3>3. \A c \in Clients : InProgress(c)'
      BY <3>1, InProgressStays DEF DurableInv
    <3>4. \A m \in MessageIDs : IndexWritten(m)'
      BY <3>1, IndexWrittenStays DEF DurableInv
    <3> QED BY <3>2, <3>3, <3>4 DEF DurableInv
  <2> QED BY <2>1, <2>2, <2>3, <2>4, <2>5, <2>6 DEF Next
<1> QED BY <1>1, <1>2, PTL DEF Spec

\* The Router's variables keep their types: index entries are well-formed
\* records, locks name goroutines, and so on.
THEOREM TypeCorrect == Spec => []TypeOK
<1>1. DurableInv => TypeOK
  BY DEF DurableInv
<1> QED BY <1>1, DurableHolds, PTL

\* Persistence precedes the index (router.go): what the index shows of a message is a line of
\* the journal, also after failed and misreported appends and after restarts.
THEOREM IndexStaysBehind == Spec => []IndexNeverAhead
<1>1. DurableInv => IndexNeverAhead
  BY DEF DurableInv, IndexWritten, IndexNeverAhead
<1> QED BY <1>1, DurableHolds, PTL

\* An answer ResolveMessage has acknowledged is the journal's last word on the
\* message for ever, across crashes and restarts and on any storage.
THEOREM AnswersAreDurable == Spec => []ToldIsDurable
<1>1. DurableInv => ToldIsDurable
  BY DEF DurableInv
<1> QED BY <1>1, DurableHolds, PTL

-----------------------------------------------------------------------------
(***************************************************************************)
(* InstructionOutbox: the inductive invariant.  The slot of resumeInFlight *)
(* is held by the thread that has its release before it (SlotInv), what is *)
(* told of an instruction is true (LostInv), and a list a flush goes       *)
(* through leaves out nothing older that waits for the same way, unless it *)
(* is being sent or was laid aside (OrderInv).                             *)
(***************************************************************************)

Recs == [pc : Labels, todo : SUBSET Instructions, ses : Nat, ret : Seq(Frames), seen : Tasks,
         mode : Modes \cup {"none", "fresh", "recovery_resume"}, item : Instructions, tgt : Nat,
         kind : Kinds, ok : BOOLEAN, number : Nat]
Messages == [status : {"absent", "queued", "delivered", "failed", "expired"}, mode : Modes \cup {"none"}]

\* finishActiveAttempt has something to finish.
Counted(ts) == ts.current => ts.running > 0

ThreadTypes ==
    /\ th \in [Threads -> Recs]
    /\ \A p \in Threads :
          /\ Counted(th[p].seen)
          /\ th[p].pc \in {"enqueue", "deliver"} => th[p].mode \in Modes /\ p \in Callers

TaskTypes ==
    /\ task \in Tasks /\ Counted(task)
    /\ sessions \in Nat /\ active \in 0 .. sessions /\ alive \subseteq 1 .. sessions

MsgTypes ==
    /\ msg \in [Instructions -> Messages]
    /\ \A i \in Instructions : msg[i].status = "absent" <=> msg[i] = None

MadeTypes ==
    /\ clock \in Nat /\ created \in [Instructions -> 0 .. clock]
    /\ behind \in [Instructions -> SUBSET Instructions] /\ aside \subseteq Instructions

OutboxTypes ==
    /\ caps \in CapabilitySets /\ inFlight \in BOOLEAN
    /\ over \in BOOLEAN /\ late \subseteq Callers
    /\ sent \in [Instructions -> Nat]
    /\ TaskTypes /\ MsgTypes /\ MadeTypes /\ ThreadTypes

\* A thread holds the slot of resumeInFlight where it, or a call it will return to, is about
\* to release it; it does so once.
Holds(t) == t.pc = "release" \/ \E k \in DOMAIN t.ret : t.ret[k].pc = "release"
HoldsOnce(t) ==
    /\ t.pc = "release" => \A k \in DOMAIN t.ret : t.ret[k].pc # "release"
    /\ \A j, k \in DOMAIN t.ret : t.ret[j].pc = "release" /\ t.ret[k].pc = "release" => j = k

SlotInv ==
    /\ \A p \in Threads : HoldsOnce(th[p])
    /\ \A p, q \in Threads : Holds(th[p]) /\ Holds(th[q]) => p = q
    /\ inFlight <=> \E p \in Threads : Holds(th[p])

LostInv ==
    /\ \A i \in Instructions : msg[i].status = "delivered" => WasSent(i)
    /\ \A p \in Threads : th[p].pc = "record" /\ th[p].ok => WasSent(th[p].item)
    /\ over => \A i \in Instructions : IsDeliveryPending(i) => i \in late

\* The lists of a thread: the one it goes through and those of the flushes it will return to.
Lists(t) == {t.todo} \cup {t.ret[k].todo : k \in DOMAIN t.ret}

\* Nothing older than what is on a list waits for a resume, but for what is on the list too,
\* is being sent, or was laid aside.
Listed(is, sending) ==
    \A i \in is :
        /\ msg[i].mode = "resume"
        /\ \A k \in behind[i] : IsDeliveryPending(k) /\ msg[k].mode = "resume"
                                   => k \in is \cup aside \cup sending
Sending(t) == IF t.pc \in {"send", "record"} /\ t.kind = "flush" THEN {t.item} ELSE {}
NoOlderTurn(i) == \A k \in behind[i] : ~(IsDeliveryPending(k) /\ msg[k].mode = "next_turn")

ThreadOrder(t) ==
    /\ \A is \in Lists(t) : Listed(is, Sending(t))
    /\ t.pc = "send" /\ t.kind = "flush" => Listed({t.item}, {})
    /\ t.pc = "send" /\ t.kind = "boundary" => msg[t.item] # None /\ NoOlderTurn(t.item)

OrderInv ==
    /\ \A i \in Instructions : \A k \in behind[i] : msg[k] # None /\ created[k] < created[i]
    /\ \A p \in Callers : th[p].pc \in {"start", "enqueue"} => msg[p] = None
    /\ \A i \in Instructions : msg[i].mode = "resume" => NoOlderTurn(i)
    /\ \A p \in Callers : th[p].pc = "enqueue" /\ th[p].mode = "resume" =>
          \A k \in behind[p] : msg[k].mode = "resume"
    /\ \A p \in Threads : ThreadOrder(th[p])

OutboxInv == OutboxTypes /\ SlotInv /\ LostInv /\ OrderInv

-----------------------------------------------------------------------------
(* Constants, and the oldest of a set. *)

LEMMA LeftoverApart == Leftover \notin Callers
  <1> SUFFICES ASSUME Leftover \in Callers PROVE FALSE
    OBVIOUS
  <1>1. IsFiniteSet(Callers) /\ Cardinality(Callers) \in Nat
    BY OutboxAssumption, FS_CardinalityType
  <1>2. Callers \cup {Leftover, Wave} = Callers \cup {Wave}
    OBVIOUS
  <1>3. Cardinality(Callers \cup {Wave}) \in {Cardinality(Callers), Cardinality(Callers) + 1}
    BY <1>1, FS_AddElement
  <1>4. Cardinality(Callers \cup {Leftover, Wave}) = Cardinality(Callers) + 2
    BY OutboxAssumption
  <1>5. Cardinality(Callers \cup {Wave}) = Cardinality(Callers) + 2
    BY <1>2, <1>4
  <1> QED
    BY <1>1, <1>3, <1>5

LEMMA LeastOf ==
    ASSUME NEW S \in SUBSET Nat, S # {}
    PROVE  \E i \in S : \A j \in S : i <= j
  <1>1. PICK i \in S : \A j \in S : ~ (<<j, i>> \in OpToRel(<, Nat))
    BY WFMin, NatLessThanWellFounded, Zenon
  <1>2. \A j \in S : ~ (j < i)
    BY <1>1 DEF OpToRel
  <1>3. QED
    BY <1>2

LEMMA OldestFacts ==
    ASSUME created \in [Instructions -> 0 .. clock], clock \in Nat, NEW is \in SUBSET Instructions, is # {}
    PROVE  Oldest(is) \in is /\ \A j \in is : created[Oldest(is)] <= created[j]
  <1> DEFINE S == {created[j] : j \in is}
  <1>1. S \in SUBSET Nat /\ S # {}
    OBVIOUS
  <1>2. \E n \in S : \A m \in S : n <= m
    <2> HIDE DEF S
    <2> QED BY <1>1, LeastOf
  <1>3. \E i \in is : \A j \in is : created[i] <= created[j]
    BY <1>2
  <1>4. QED
    BY <1>3 DEF Oldest

-----------------------------------------------------------------------------
(* Threads. *)

LEMMA StackPush ==
    ASSUME NEW f \in Frames, NEW r \in Seq(Frames)
    PROVE  /\ <<f>> \o r \in Seq(Frames)
           /\ DOMAIN (<<f>> \o r) = 1 .. (Len(r) + 1) /\ Len(r) \in Nat /\ DOMAIN r = 1 .. Len(r)
           /\ (<<f>> \o r)[1] = f
           /\ \A k \in DOMAIN r : (<<f>> \o r)[k + 1] = r[k]
           /\ \A k \in DOMAIN (<<f>> \o r) : k = 1 \/ (k - 1 \in DOMAIN r /\ (<<f>> \o r)[k] = r[k - 1])
  OBVIOUS

LEMMA StackPop ==
    ASSUME NEW r \in Seq(Frames), r # <<>>
    PROVE  /\ Head(r) \in Frames /\ Tail(r) \in Seq(Frames)
           /\ 1 \in DOMAIN r /\ r[1] = Head(r)
           /\ \A k \in DOMAIN Tail(r) : k + 1 \in DOMAIN r /\ k + 1 # 1 /\ Tail(r)[k] = r[k + 1]
           /\ \A k \in DOMAIN r : k = 1 \/ (k - 1 \in DOMAIN Tail(r) /\ Tail(r)[k - 1] = r[k])
  OBVIOUS

LEMMA CalledFacts ==
    ASSUME NEW t \in Recs, NEW entry \in Labels, NEW back \in {"flush", "session", "closing", "release"}
    PROVE  LET c == Called(t, entry, back) IN
           /\ c \in Recs /\ c.pc = entry /\ c.seen = t.seen /\ c.todo = t.todo
           /\ Lists(c) \subseteq Lists(t)
           /\ entry # "release" /\ back # "release" /\ t.pc # "release" => (Holds(c) <=> Holds(t))
           /\ entry # "release" /\ back = "release" => Holds(c)
           /\ entry # "release" /\ t.pc # "release" /\ HoldsOnce(t) /\ (back = "release" => ~Holds(t))
                 => HoldsOnce(c)
  <1> DEFINE f == [pc |-> back, todo |-> t.todo, ses |-> t.ses]
             c == Called(t, entry, back)
  <1>1. f \in Frames /\ t.ret \in Seq(Frames)
    BY DEF Frames, Recs
  <1>2. c = [t EXCEPT !.pc = entry, !.ret = <<f>> \o t.ret]
    BY DEF Called, Recs
  <1>3. c \in Recs /\ c.pc = entry /\ c.seen = t.seen /\ c.todo = t.todo /\ c.ret = <<f>> \o t.ret
    <2>1. <<f>> \o t.ret \in Seq(Frames)
      BY <1>1
    <2> HIDE DEF f, c
    <2>2. QED
      BY <1>2, <2>1 DEF Recs
  <1>4. /\ DOMAIN c.ret = 1 .. (Len(t.ret) + 1) /\ Len(t.ret) \in Nat /\ DOMAIN t.ret = 1 .. Len(t.ret)
        /\ c.ret[1] = f
        /\ \A k \in DOMAIN t.ret : c.ret[k + 1] = t.ret[k]
        /\ \A k \in DOMAIN c.ret : k = 1 \/ (k - 1 \in DOMAIN t.ret /\ c.ret[k] = t.ret[k - 1])
    <2> HIDE DEF f, c
    <2> QED BY <1>1, <1>3, StackPush
  <1>5. f.pc = back /\ f.todo = t.todo
    OBVIOUS
  <1> HIDE DEF f, c
  <1>6. Lists(c) \subseteq Lists(t)
    BY <1>3, <1>4, <1>5 DEF Lists
  <1>7. \A k \in DOMAIN t.ret : k + 1 \in DOMAIN c.ret /\ k + 1 # 1 /\ k \in Int
    BY <1>4
  <1>8. 1 \in DOMAIN c.ret
    BY <1>4
  <1>9. entry # "release" /\ back # "release" /\ t.pc # "release" => (Holds(c) <=> Holds(t))
    BY <1>3, <1>4, <1>5, <1>7 DEF Holds
  <1>10. entry # "release" /\ back = "release" => Holds(c)
    BY <1>4, <1>5, <1>8 DEF Holds
  <1>11. ASSUME entry # "release", t.pc # "release", HoldsOnce(t), back = "release" => ~Holds(t)
         PROVE  HoldsOnce(c)
    <2>1. ASSUME NEW j \in DOMAIN c.ret, NEW k \in DOMAIN c.ret,
                 c.ret[j].pc = "release", c.ret[k].pc = "release"
          PROVE  j = k
      <3>1. CASE j = 1 /\ k = 1
        BY <3>1
      <3>2. CASE j # 1 /\ k # 1
        <4>1. j - 1 \in DOMAIN t.ret /\ t.ret[j - 1].pc = "release"
              /\ k - 1 \in DOMAIN t.ret /\ t.ret[k - 1].pc = "release"
          BY <1>4, <2>1, <3>2
        <4>2. j - 1 = k - 1
          BY <1>11, <4>1 DEF HoldsOnce
        <4>3. QED
          BY <1>4, <4>2
      <3>3. CASE j = 1 /\ k # 1
        BY <1>4, <1>5, <1>11, <2>1, <3>3 DEF Holds
      <3>4. CASE j # 1 /\ k = 1
        BY <1>4, <1>5, <1>11, <2>1, <3>4 DEF Holds
      <3>5. QED
        BY <3>1, <3>2, <3>3, <3>4
    <2>2. QED
      BY <1>3, <1>11, <2>1 DEF HoldsOnce
  <1>12. QED
    BY <1>3, <1>6, <1>9, <1>10, <1>11 DEF c

LEMMA ReturnedFacts ==
    ASSUME NEW t \in Recs
    PROVE  LET r == Returned(t) IN
           /\ r \in Recs /\ r.seen = t.seen
           /\ r.pc \in {"done", "flush", "session", "closing", "release"}
           /\ Lists(r) \subseteq Lists(t)
           /\ t.pc # "release" => (Holds(r) <=> Holds(t)) /\ (HoldsOnce(t) => HoldsOnce(r))
           /\ t.pc = "release" /\ HoldsOnce(t) => ~Holds(r) /\ HoldsOnce(r)
  <1> DEFINE r == Returned(t)
  <1>0. t.ret \in Seq(Frames) /\ t.pc \in Labels
    BY DEF Recs
  <1>1. CASE t.ret = <<>>
    <2>1. r = [t EXCEPT !.pc = "done"]
      BY <1>1 DEF Returned
    <2>2. r \in Recs /\ r.seen = t.seen /\ r.pc = "done" /\ r.ret = t.ret /\ r.todo = t.todo
      BY <2>1 DEF Recs, Labels
    <2>3. \A k \in DOMAIN t.ret : FALSE
      BY <1>1
    <2> HIDE DEF r
    <2>4. Lists(r) \subseteq Lists(t)
      BY <2>2 DEF Lists
    <2>5. ~Holds(r) /\ HoldsOnce(r) /\ (t.pc # "release" => ~Holds(t))
      BY <2>2, <2>3 DEF Holds, HoldsOnce
    <2>6. QED
      BY <2>2, <2>4, <2>5 DEF r
  <1>2. CASE t.ret # <<>>
    <2>1. /\ Head(t.ret) \in Frames /\ Tail(t.ret) \in Seq(Frames)
          /\ 1 \in DOMAIN t.ret /\ t.ret[1] = Head(t.ret)
          /\ \A k \in DOMAIN Tail(t.ret) : 
                 k + 1 \in DOMAIN t.ret /\ k + 1 # 1 /\ Tail(t.ret)[k] = t.ret[k + 1]
          /\ \A k \in DOMAIN t.ret : k = 1 \/ (k - 1 \in DOMAIN Tail(t.ret) /\ Tail(t.ret)[k - 1] = t.ret[k])
      BY <1>0, <1>2, StackPop
    <2>a. \A k \in DOMAIN Tail(t.ret) : k \in Int
      BY <1>0, <1>2
    <2>2. r = [t EXCEPT !.pc = Head(t.ret).pc, !.todo = Head(t.ret).todo, !.ses = Head(t.ret).ses,
                        !.ret = Tail(t.ret)]
      BY <1>2 DEF Returned, Recs
    <2>3. Head(t.ret).pc \in {"flush", "session", "closing", "release"} /\ Head(t.ret).ses \in Nat
          /\ Head(t.ret).todo \in SUBSET Instructions
      BY <2>1 DEF Frames
    <2>4. r \in Recs /\ r.seen = t.seen /\ r.pc = t.ret[1].pc /\ r.ret = Tail(t.ret)
          /\ r.todo = t.ret[1].todo
      <3> DEFINE h == Head(t.ret)
                 l == Tail(t.ret)
      <3>1. r = [t EXCEPT !.pc = h.pc, !.todo = h.todo, !.ses = h.ses, !.ret = l]
        BY <2>2
      <3>2. h.pc \in Labels /\ h.ses \in Nat /\ h.todo \in SUBSET Instructions /\ l \in Seq(Frames)
            /\ t.ret[1] = h
        BY <2>1, <2>3 DEF Labels
      <3>3. l = Tail(t.ret)
        OBVIOUS
      <3> HIDE DEF h, l, r
      <3>4. r \in Recs /\ r.seen = t.seen /\ r.pc = h.pc /\ r.ret = l /\ r.todo = h.todo
        BY <3>1, <3>2 DEF Recs
      <3>5. QED
        BY <3>2, <3>3, <3>4
    <2>5. r.pc \in {"done", "flush", "session", "closing", "release"}
      BY <2>1, <2>3, <2>4
    <2> HIDE DEF r
    <2>6. Lists(r) \subseteq Lists(t)
      BY <2>1, <2>4 DEF Lists
    <2>7. ASSUME t.pc # "release" PROVE Holds(r) <=> Holds(t)
      <3>1. Holds(r) => Holds(t)
        BY <2>1, <2>4 DEF Holds
      <3>2. ASSUME NEW k \in DOMAIN t.ret, t.ret[k].pc = "release" PROVE Holds(r)
        <4>1. CASE k = 1
          BY <2>4, <3>2, <4>1 DEF Holds
        <4>2. CASE k # 1
          <5>1. k - 1 \in DOMAIN Tail(t.ret) /\ Tail(t.ret)[k - 1] = t.ret[k]
            BY <2>1, <4>2
          <5>2. k - 1 \in DOMAIN r.ret /\ r.ret[k - 1].pc = "release"
            BY <2>4, <3>2, <5>1
          <5>3. QED
            BY <5>2 DEF Holds
        <4>3. QED
          BY <4>1, <4>2
      <3>3. QED
        BY <2>7, <3>1, <3>2 DEF Holds
    <2>8. ASSUME HoldsOnce(t) PROVE HoldsOnce(r)
      <3>1. r.pc = "release" => \A k \in DOMAIN r.ret : r.ret[k].pc # "release"
        BY <2>1, <2>4, <2>8 DEF HoldsOnce
      <3>2. ASSUME NEW j \in DOMAIN r.ret, NEW k \in DOMAIN r.ret,
                   r.ret[j].pc = "release", r.ret[k].pc = "release"
            PROVE  j = k
        <4>1. j + 1 = k + 1
          BY <2>1, <2>4, <2>8, <3>2 DEF HoldsOnce
        <4>2. QED
          BY <2>a, <2>4, <4>1
      <3>3. QED
        BY <3>1, <3>2 DEF HoldsOnce
    <2>9. t.pc = "release" /\ HoldsOnce(t) => ~Holds(r)
      BY <2>1, <2>4 DEF Holds, HoldsOnce
    <2>10. QED
      BY <2>4, <2>5, <2>6, <2>7, <2>8, <2>9 DEF r
  <1>3. QED
    BY <1>1, <1>2

-----------------------------------------------------------------------------
(* The Router. *)

\* What may happen to an instruction that was made: it leaves the queue for good, and its next
\* turn may become a resume where no older one waits for its turn.
Moves(i) ==
    /\ msg[i] = None => msg'[i] = None
    /\ msg[i] # None =>
          /\ msg'[i] # None
          /\ msg'[i].status = "queued" => msg[i].status = "queued"
          /\ msg'[i].mode # msg[i].mode =>
                msg[i].mode = "next_turn" /\ msg'[i].mode = "resume" /\ NoOlderTurn(i)
    /\ msg'[i].status = "delivered" => msg[i].status = "delivered" \/ sent'[i] > 0

LEMMA Transitions ==
    /\ \A s : Rules!ValidateTransition("queued", s) <=>
                 s \in {"queued", "delivered", "answered", "expired", "failed"}
    /\ \A s : Rules!ValidateTransition("absent", s) <=> s = "absent"
  BY DEF Rules!ValidateTransition, Rules!IsTerminal, Rules!StatusTransitions

LEMMA SettleFacts ==
    ASSUME MsgTypes, NEW is \in SUBSET Instructions, NEW next \in {"delivered", "failed", "expired"},
           Settle(is, next)
    PROVE  /\ MsgTypes'
           /\ \A i \in Instructions : /\ msg[i] = None => msg'[i] = None
                                      /\ msg[i] # None => msg'[i] # None
                                      /\ msg'[i].mode = msg[i].mode
                                      /\ msg'[i].status \in {msg[i].status, next}
                                      /\ i \notin is => msg'[i] = msg[i]
                                      /\ i \in is /\ msg[i].status = "queued" => msg'[i].status = next
  <1> SUFFICES ASSUME NEW i \in Instructions
               PROVE  /\ msg'[i] \in Messages
                      /\ msg'[i].status = "absent" <=> msg'[i] = None
                      /\ msg[i] = None => msg'[i] = None
                      /\ msg[i] # None => msg'[i] # None
                      /\ msg'[i].mode = msg[i].mode
                      /\ msg'[i].status \in {msg[i].status, next}
                      /\ i \notin is => msg'[i] = msg[i]
                      /\ i \in is /\ msg[i].status = "queued" => msg'[i].status = next
    <2>1. msg' = [j \in Instructions |->
                    IF j \in is THEN [msg[j] EXCEPT !.status = After(j, next)] ELSE msg[j]]
      BY DEF Settle
    <2>2. QED
      BY <2>1 DEF MsgTypes
  <1>1. msg'[i] = IF i \in is THEN [msg[i] EXCEPT !.status = After(i, next)] ELSE msg[i]
    BY DEF Settle
  <1>2. msg[i] \in Messages /\ (msg[i].status = "absent" <=> msg[i] = None)
    BY DEF MsgTypes
  <1>3. After(i, next) \in {msg[i].status, next}
    BY DEF After
  <1>4. msg[i].status = "absent" => After(i, next) = "absent"
    BY Transitions DEF After
  <1>5. msg[i].status = "queued" => After(i, next) = next
    BY Transitions DEF After
  <1>6. msg'[i] \in Messages /\ msg'[i].mode = msg[i].mode /\ msg'[i].status \in {msg[i].status, next}
    BY <1>1, <1>2, <1>3 DEF Messages
  <1>7. i \in is => msg'[i].status = After(i, next)
    BY <1>1, <1>2 DEF Messages
  <1>8. msg[i].status = "absent" => msg'[i] = msg[i]
    <2>1. CASE i \in is /\ msg[i].status = "absent"
      <3>1. msg'[i] = [msg[i] EXCEPT !.status = "absent"]
        BY <1>1, <1>4, <2>1
      <3>2. QED
        BY <1>2, <2>1, <3>1 DEF Messages
    <2>2. QED
      BY <1>1, <2>1
  <1>9. msg'[i].status = "absent" => msg[i].status = "absent"
    BY <1>6
  <1>10. None.status = "absent"
    BY DEF None
  <1>11. QED
    BY <1>1, <1>2, <1>5, <1>6, <1>7, <1>8, <1>9, <1>10

-----------------------------------------------------------------------------
(* What a step leaves alone. *)

Others(p) == \A q \in Threads : q # p => th'[q] = th[q]

\* The Router and the history of the threads move on as they may.
RouterMoves ==
    /\ \A i \in Instructions : Moves(i)
    /\ UNCHANGED madeVars
    /\ aside \subseteq aside' /\ aside' \subseteq Instructions

LEMMA ThreadUpdate ==
    ASSUME ThreadTypes, NEW p \in Threads, NEW t \in Recs, Counted(t.seen),
           t.pc \in {"enqueue", "deliver"} => t.mode \in Modes /\ p \in Callers,
           th' = [th EXCEPT ![p] = t]
    PROVE  ThreadTypes' /\ th'[p] = t /\ Others(p)
  <1>1. th \in [Threads -> Recs]
    BY DEF ThreadTypes
  <1>2. th' \in [Threads -> Recs] /\ th'[p] = t /\ Others(p)
    BY <1>1 DEF Others
  <1>3. \A q \in Threads : Counted(th'[q].seen)
    BY <1>2 DEF Others, ThreadTypes
  <1>4. \A q \in Threads : th'[q].pc \in {"enqueue", "deliver"} => th'[q].mode \in Modes /\ q \in Callers
    BY <1>2 DEF Others, ThreadTypes
  <1>5. QED
    BY <1>2, <1>3, <1>4 DEF ThreadTypes

LEMMA SlotKept ==
    ASSUME SlotInv, NEW p \in Threads, Others(p), HoldsOnce(th'[p]), Holds(th'[p]) <=> Holds(th[p]),
           inFlight' = inFlight
    PROVE  SlotInv'
  <1>1. \A q \in Threads : HoldsOnce(th'[q]) /\ (Holds(th'[q]) <=> Holds(th[q]))
    BY DEF Others, SlotInv
  <1>2. QED
    BY <1>1 DEF SlotInv

LEMMA NoneFacts ==
    ASSUME MsgTypes
    PROVE  \A i \in Instructions : msg[i].mode \in Modes \/ msg[i].status = "queued" => msg[i] # None
  BY DEF None, Modes

LEMMA LostKept ==
    ASSUME OutboxTypes, LostInv, \A i \in Instructions : Moves(i),
           \A i \in Instructions : sent'[i] >= sent[i] /\ sent'[i] \in Nat,
           over' = over, late' = late, NEW p \in Threads, Others(p), ThreadTypes', MsgTypes',
           th'[p].pc = "record" /\ th'[p].ok => sent'[th'[p].item] > 0
    PROVE  LostInv'
  <1>0. \A i \in Instructions : sent[i] \in Nat /\ (sent[i] > 0 => sent'[i] > 0)
    BY DEF OutboxTypes
  <1>1. \A i \in Instructions : msg'[i].status = "delivered" => sent'[i] > 0
    BY <1>0 DEF LostInv, Moves, WasSent
  <1>2. \A q \in Threads : th'[q].pc = "record" /\ th'[q].ok => sent'[th'[q].item] > 0
    <2>1. \A q \in Threads : th[q].item \in Instructions
      BY DEF OutboxTypes, ThreadTypes, Recs
    <2>2. QED
      BY <1>0, <2>1 DEF LostInv, WasSent, Others
  <1>3. \A i \in Instructions : msg'[i].status = "queued" => msg[i].status = "queued"
    BY NoneFacts DEF Moves, None
  <1>4. QED
    BY <1>1, <1>2, <1>3 DEF LostInv, WasSent, IsDeliveryPending

\* NoOlderTurn, Listed and ThreadOrder of the next state.
NoOlderTurnNext(i) == \A k \in behind'[i] : ~(msg'[k].status = "queued" /\ msg'[k].mode = "next_turn")
ListedNext(is, sending) ==
    \A i \in is :
        /\ msg'[i].mode = "resume"
        /\ \A k \in behind'[i] : msg'[k].status = "queued" /\ msg'[k].mode = "resume"
                                    => k \in is \cup aside' \cup sending
ThreadOrderNext(t) ==
    /\ \A is \in Lists(t) : ListedNext(is, Sending(t))
    /\ t.pc = "send" /\ t.kind = "flush" => ListedNext({t.item}, {})
    /\ t.pc = "send" /\ t.kind = "boundary" => msg'[t.item] # None /\ NoOlderTurnNext(t.item)

LEMMA TurnKept ==
    ASSUME OutboxTypes, OrderInv, RouterMoves, NEW i \in Instructions, NoOlderTurn(i)
    PROVE  NoOlderTurnNext(i)
  <1>1. behind'[i] = behind[i] /\ behind[i] \subseteq Instructions
    BY DEF RouterMoves, madeVars, OutboxTypes, MadeTypes
  <1>2. \A k \in behind[i] : msg[k] # None /\ Moves(k)
    BY <1>1 DEF OrderInv, RouterMoves
  <1>3. \A k \in behind[i] : ~(msg'[k].status = "queued" /\ msg'[k].mode = "next_turn")
    BY <1>2 DEF Moves, NoOlderTurn, IsDeliveryPending
  <1>4. QED
    BY <1>1, <1>3 DEF NoOlderTurnNext

LEMMA ListedKept ==
    ASSUME OutboxTypes, OrderInv, RouterMoves, NEW is \in SUBSET Instructions, NEW x, Listed(is, x)
    PROVE  ListedNext(is, x)
  <1> SUFFICES ASSUME NEW i \in is
               PROVE  /\ msg'[i].mode = "resume"
                      /\ \A k \in behind'[i] : msg'[k].status = "queued" /\ msg'[k].mode = "resume"
                                                  => k \in is \cup aside' \cup x
    BY DEF ListedNext
  <1>1. behind'[i] = behind[i] /\ behind[i] \subseteq Instructions /\ i \in Instructions
    BY DEF RouterMoves, madeVars, OutboxTypes, MadeTypes
  <1>2. msg[i].mode = "resume" /\ msg[i] # None /\ Moves(i) /\ NoOlderTurn(i)
    BY <1>1, NoneFacts DEF Listed, OutboxTypes, RouterMoves, OrderInv, Modes
  <1>3. msg'[i].mode = "resume"
    BY <1>2 DEF Moves
  <1>4. \A k \in behind[i] : msg[k] # None /\ Moves(k)
    BY <1>1 DEF OrderInv, RouterMoves
  <1>5. \A k \in behind[i] : msg'[k].status = "queued" /\ msg'[k].mode = "resume" =>
                               IsDeliveryPending(k) /\ msg[k].mode = "resume"
    BY <1>2, <1>4 DEF Moves, NoOlderTurn, IsDeliveryPending
  <1>6. QED
    BY <1>1, <1>3, <1>5 DEF Listed, RouterMoves

LEMMA ListsTyped == ASSUME NEW t \in Recs PROVE \A is \in Lists(t) : is \in SUBSET Instructions
  <1>1. t.todo \in SUBSET Instructions /\ t.ret \in Seq(Frames)
    BY DEF Recs
  <1>2. \A k \in DOMAIN t.ret : t.ret[k] \in Frames
    BY <1>1
  <1>3. \A k \in DOMAIN t.ret : t.ret[k].todo \in SUBSET Instructions
    BY <1>2 DEF Frames
  <1>4. QED
    BY <1>1, <1>3 DEF Lists

\* The order of a thread whose record stays as it is.
LEMMA ThreadOrderKept ==
    ASSUME OutboxTypes, OrderInv, RouterMoves, NEW q \in Threads
    PROVE  ThreadOrderNext(th[q])
  <1>1. th[q] \in Recs /\ th[q].item \in Instructions /\ ThreadOrder(th[q])
    BY DEF OutboxTypes, ThreadTypes, Recs, OrderInv
  <1>2. \A is \in Lists(th[q]) : ListedNext(is, Sending(th[q]))
    BY <1>1, ListsTyped, ListedKept DEF ThreadOrder
  <1>3. th[q].pc = "send" /\ th[q].kind = "flush" => ListedNext({th[q].item}, {})
    BY <1>1, ListedKept DEF ThreadOrder
  <1>4. th[q].pc = "send" /\ th[q].kind = "boundary" =>
            msg'[th[q].item] # None /\ NoOlderTurnNext(th[q].item)
    BY <1>1, TurnKept DEF ThreadOrder, RouterMoves, Moves
  <1>5. QED
    BY <1>2, <1>3, <1>4 DEF ThreadOrderNext

LEMMA OrderKept ==
    ASSUME OutboxTypes, OrderInv, RouterMoves, NEW p \in Threads, Others(p),
           th'[p].pc \notin {"start", "enqueue"}, ThreadOrderNext(th'[p])
    PROVE  OrderInv'
  <1>1. UNCHANGED <<clock, created, behind>>
    BY DEF RouterMoves, madeVars
  <1>2. \A i \in Instructions : Moves(i) /\ behind[i] \subseteq Instructions
    BY DEF RouterMoves, OutboxTypes, MadeTypes
  <1>3. \A i \in Instructions : \A k \in behind'[i] : msg'[k] # None /\ created'[k] < created'[i]
    BY <1>1, <1>2 DEF OrderInv, Moves
  <1>4. \A q \in Callers : q \in Threads /\ q \in Instructions
    BY DEF Threads, Instructions
  <1>5. \A q \in Callers : th'[q].pc \in {"start", "enqueue"} => msg'[q] = None
    BY <1>2, <1>4 DEF Others, OrderInv, Moves
  <1>6. \A i \in Instructions : msg'[i].mode = "resume" => NoOlderTurnNext(i)
    <2> SUFFICES ASSUME NEW i \in Instructions, msg'[i].mode = "resume" PROVE NoOlderTurnNext(i)
      OBVIOUS
    <2>1. msg[i] # None
      BY <1>2 DEF Moves, None
    <2>2. NoOlderTurn(i)
      BY <1>2, <2>1 DEF Moves, OrderInv
    <2>3. QED
      BY <2>2, TurnKept
  <1>7. \A q \in Callers : th'[q].pc = "enqueue" /\ th'[q].mode = "resume" =>
            \A k \in behind'[q] : msg'[k].mode = "resume"
    <2> SUFFICES ASSUME NEW q \in Callers, th'[q].pc = "enqueue", th'[q].mode = "resume",
                        NEW k \in behind[q]
                 PROVE  msg'[k].mode = "resume"
      BY <1>1
    <2>1. th[q].pc = "enqueue" /\ th[q].mode = "resume"
      BY <1>4 DEF Others
    <2>2. msg[k].mode = "resume" /\ msg[k] # None /\ Moves(k)
      BY <1>2, <1>4, <2>1 DEF OrderInv
    <2>3. QED
      BY <2>2 DEF Moves
  <1>8. \A q \in Threads : ThreadOrderNext(th'[q])
    BY ThreadOrderKept DEF Others
  <1>9. \A q \in Threads : ThreadOrder(th[q])'
    BY <1>8 DEF ThreadOrder, ThreadOrderNext, Listed, ListedNext, NoOlderTurn, NoOlderTurnNext,
       IsDeliveryPending
  <1>10. QED
    BY <1>3, <1>5, <1>6, <1>7, <1>9 DEF OrderInv, NoOlderTurn, NoOlderTurnNext, IsDeliveryPending

\* The order of a thread that sends nothing and takes no list but the latest one.
LEMMA QuietOrder ==
    ASSUME OutboxTypes, OrderInv, RouterMoves, NEW p \in Threads,
           th[p].pc \notin {"send", "record"} \/ th[p].kind # "flush", NEW t, t.pc \notin {"send", "record"},
           \A is \in Lists(t) : is \in Lists(th[p]) \/ (is = PendingInstructions("resume") /\ msg' = msg)
    PROVE  ThreadOrderNext(t)
  <1>1. Sending(th[p]) = {} /\ Sending(t) = {}
    BY DEF Sending
  <1>2. \A is \in Lists(th[p]) : ListedNext(is, {})
    BY <1>1, ThreadOrderKept DEF ThreadOrderNext
  <1>3. msg' = msg => ListedNext(PendingInstructions("resume"), {})
    BY DEF ListedNext, PendingInstructions, IsDeliveryPending, RouterMoves, madeVars, OutboxTypes,
       MadeTypes
  <1>4. QED
    BY <1>1, <1>2, <1>3 DEF ThreadOrderNext

-----------------------------------------------------------------------------
(* Steps that send nothing and leave the slot alone. *)

Silent(p, t) ==
    /\ t \in Recs /\ Counted(t.seen)
    /\ t.pc \notin {"start", "enqueue", "deliver", "send", "record"}
    /\ (Holds(t) <=> Holds(th[p])) /\ HoldsOnce(t)
    /\ \A is \in Lists(t) : is \in Lists(th[p]) \/ (is = PendingInstructions("resume") /\ msg' = msg)

LEMMA RecFacts ==
    ASSUME OutboxInv
    PROVE  \A p \in Threads : th[p] \in Recs /\ Counted(th[p].seen) /\ HoldsOnce(th[p])
  BY DEF OutboxInv, OutboxTypes, ThreadTypes, SlotInv

LEMMA SameStack ==
    ASSUME OutboxInv, NEW p \in Threads, NEW t \in Recs, Counted(t.seen),
           t.pc \notin {"start", "enqueue", "deliver", "send", "record", "release"}, th[p].pc # "release",
           t.ret = th[p].ret, t.todo = th[p].todo \/ (t.todo = PendingInstructions("resume") /\ msg' = msg)
    PROVE  Silent(p, t)
  <1>1. Holds(t) <=> Holds(th[p])
    BY DEF Holds
  <1>2. HoldsOnce(t)
    BY RecFacts DEF HoldsOnce
  <1>3. QED
    BY <1>1, <1>2 DEF Silent, Lists

LEMMA ReturnQuiet ==
    ASSUME OutboxInv, NEW p \in Threads, th[p].pc # "release",
           NEW t \in Recs, Counted(t.seen), t.pc = th[p].pc, t.ret = th[p].ret, t.todo = th[p].todo
    PROVE  Silent(p, Returned(t))
  <1>1. HoldsOnce(t) /\ (Holds(t) <=> Holds(th[p])) /\ Lists(t) = Lists(th[p])
    BY RecFacts DEF HoldsOnce, Holds, Lists
  <1>2. /\ Returned(t) \in Recs /\ Returned(t).seen = t.seen
        /\ Returned(t).pc \in {"done", "flush", "session", "closing", "release"}
        /\ Lists(Returned(t)) \subseteq Lists(t)
        /\ (Holds(Returned(t)) <=> Holds(t)) /\ (HoldsOnce(t) => HoldsOnce(Returned(t)))
    BY ReturnedFacts
  <1>3. QED
    BY <1>1, <1>2 DEF Silent

LEMMA CallQuiet ==
    ASSUME OutboxInv, NEW p \in Threads, th[p].pc # "release",
           NEW t \in Recs, Counted(t.seen), t.pc = th[p].pc, t.ret = th[p].ret, t.todo = th[p].todo,
           NEW entry \in {"ensure", "exec", "flush"}, NEW back \in {"flush", "session", "closing"}
    PROVE  Silent(p, Called(t, entry, back))
  <1>1. HoldsOnce(t) /\ (Holds(t) <=> Holds(th[p])) /\ Lists(t) = Lists(th[p])
    BY RecFacts DEF HoldsOnce, Holds, Lists
  <1>2. /\ entry \in Labels /\ entry # "release" /\ t.pc # "release"
        /\ back \in {"flush", "session", "closing", "release"} /\ back # "release"
    BY DEF Labels
  <1>3. /\ Called(t, entry, back) \in Recs /\ Called(t, entry, back).pc = entry
        /\ Called(t, entry, back).seen = t.seen /\ Lists(Called(t, entry, back)) \subseteq Lists(t)
        /\ (Holds(Called(t, entry, back)) <=> Holds(t))
        /\ (HoldsOnce(t) => HoldsOnce(Called(t, entry, back)))
    BY <1>2, CalledFacts
  <1>4. QED
    BY <1>1, <1>3 DEF Silent

LEMMA MsgSame ==
    ASSUME OutboxInv, UNCHANGED <<msg, madeVars, aside>>, sent' = sent
    PROVE  RouterMoves /\ MsgTypes'
  BY DEF OutboxInv, OutboxTypes, MadeTypes, MsgTypes, RouterMoves, Moves, madeVars

LEMMA MsgSettled ==
    ASSUME OutboxInv, UNCHANGED <<madeVars, aside>>, sent' = sent, NEW is \in SUBSET Instructions,
           NEW next \in {"failed", "expired"}, Settle(is, next)
    PROVE  RouterMoves /\ MsgTypes'
  <1>1. /\ MsgTypes'
        /\ \A i \in Instructions : /\ msg[i] = None => msg'[i] = None
                                   /\ msg[i] # None => msg'[i] # None
                                   /\ msg'[i].mode = msg[i].mode
                                   /\ msg'[i].status \in {msg[i].status, next}
    BY SettleFacts DEF OutboxInv, OutboxTypes
  <1>2. QED
    BY <1>1 DEF OutboxInv, OutboxTypes, MadeTypes, RouterMoves, Moves, madeVars

LEMMA QuietStep ==
    ASSUME OutboxInv, NEW p \in Threads, th[p].pc \notin {"send", "record"} \/ th[p].kind # "flush",
           NEW t, Silent(p, t), th' = [th EXCEPT ![p] = t],
           RouterMoves, MsgTypes', TaskTypes', UNCHANGED <<caps, inFlight, sent, over, late>>
    PROVE  OutboxInv'
  <1>1. ThreadTypes' /\ th'[p] = t /\ Others(p)
    BY ThreadUpdate DEF Silent, OutboxInv, OutboxTypes
  <1>2. OutboxTypes'
    BY <1>1 DEF OutboxInv, OutboxTypes, MadeTypes, RouterMoves, madeVars
  <1>3. SlotInv'
    BY <1>1, SlotKept DEF Silent, OutboxInv
  <1>4. LostInv'
    <2>1. \A i \in Instructions : sent'[i] >= sent[i] /\ sent'[i] \in Nat
      BY DEF OutboxInv, OutboxTypes
    <2>2. QED
      BY <1>1, <1>2, <2>1, LostKept DEF Silent, OutboxInv, RouterMoves
  <1>5. OrderInv'
    <2>1. ThreadOrderNext(t)
      BY QuietOrder DEF Silent, OutboxInv
    <2>2. QED
      BY <1>1, <2>1, OrderKept DEF Silent, OutboxInv
  <1>6. QED
    BY <1>2, <1>3, <1>4, <1>5 DEF OutboxInv

-----------------------------------------------------------------------------
(* The steps of a thread. *)

LEMMA TaskSame ==
    ASSUME OutboxInv, UNCHANGED <<task, sessions, active, alive>> PROVE TaskTypes'
  BY DEF OutboxInv, OutboxTypes, TaskTypes

LEMMA SessionEndsInv == ASSUME OutboxInv, NEW p \in Threads, SessionEnds(p) PROVE OutboxInv'
  <1> DEFINE t == [th[p] EXCEPT !.pc = "closing"]
  <1>1. th' = [th EXCEPT ![p] = t] /\ th[p].pc = "session"
    BY DEF SessionEnds, Goto, At
  <1>2. t \in Recs /\ Counted(t.seen) /\ t.pc = "closing" /\ t.ret = th[p].ret /\ t.todo = th[p].todo
    BY RecFacts DEF Recs, Labels
  <1> HIDE DEF t
  <1>3. Silent(p, t)
    BY <1>1, <1>2, SameStack
  <1>4. RouterMoves /\ MsgTypes' /\ TaskTypes'
    BY MsgSame, TaskSame DEF SessionEnds, routerVars
  <1>5. QED
    BY <1>1, <1>3, <1>4, QuietStep DEF SessionEnds

LEMMA FlushEndsInv == ASSUME OutboxInv, NEW p \in Threads, FlushEnds(p) PROVE OutboxInv'
  <1>1. th' = [th EXCEPT ![p] = Returned(th[p])] /\ th[p].pc = "flush"
    BY DEF FlushEnds, Returns, At
  <1>2. Silent(p, Returned(th[p]))
    BY <1>1, RecFacts, ReturnQuiet
  <1>3. RouterMoves /\ MsgTypes' /\ TaskTypes'
    BY MsgSame, TaskSame DEF FlushEnds, routerVars
  <1>4. QED
    BY <1>1, <1>2, <1>3, QuietStep DEF FlushEnds

LEMMA EnsureResumeInv ==
    ASSUME OutboxInv, NEW p \in Threads, EnsureResumeAndFlushOutbox(p) PROVE OutboxInv'
  <1>0. th[p].pc = "ensure" /\ UNCHANGED <<madeVars, aside, sent>>
    BY DEF EnsureResumeAndFlushOutbox, At
  <1>1. TaskTypes' /\ UNCHANGED <<caps, inFlight, sent, over, late>>
    BY TaskSame DEF EnsureResumeAndFlushOutbox
  <1>2. CASE Returns(p) /\ (msg' = msg \/ expireTaskMessages)
    <2>1. th' = [th EXCEPT ![p] = Returned(th[p])]
      BY <1>2 DEF Returns
    <2>2. Silent(p, Returned(th[p]))
      BY <1>0, RecFacts, ReturnQuiet
    <2>3. RouterMoves /\ MsgTypes'
      <3>1. CASE msg' = msg
        BY <1>0, <3>1, MsgSame
      <3>2. CASE expireTaskMessages
        BY <1>0, <3>2, MsgSettled DEF expireTaskMessages
      <3>3. QED
        BY <1>2, <3>1, <3>2
    <2>4. QED
      BY <1>0, <1>1, <2>1, <2>2, <2>3, QuietStep
  <1>3. CASE flushResumeOnActive(p) /\ msg' = msg
    <2> DEFINE t == [th[p] EXCEPT !.pc = "flush", !.todo = PendingInstructions("resume")]
    <2>1. th' = [th EXCEPT ![p] = t]
      BY <1>3 DEF flushResumeOnActive
    <2>2. t \in Recs /\ Counted(t.seen) /\ t.pc = "flush"
          /\ t.ret = th[p].ret /\ t.todo = PendingInstructions("resume")
      BY RecFacts DEF Recs, Labels, PendingInstructions
    <2> HIDE DEF t
    <2>3. Silent(p, t)
      BY <1>0, <1>3, <2>2, SameStack
    <2>4. RouterMoves /\ MsgTypes'
      BY <1>0, <1>3, MsgSame
    <2>5. QED
      BY <1>0, <1>1, <2>1, <2>3, <2>4, QuietStep
  <1>4. CASE th' = [th EXCEPT ![p].pc = "claim", ![p].seen = task] /\ msg' = msg
    <2> DEFINE t == [th[p] EXCEPT !.pc = "claim", !.seen = task]
    <2>0. task \in Tasks /\ Counted(task)
      BY DEF OutboxInv, OutboxTypes, TaskTypes
    <2>1. th' = [th EXCEPT ![p] = t]
      BY <1>4
    <2>2. t \in Recs /\ Counted(t.seen) /\ t.pc = "claim" /\ t.ret = th[p].ret /\ t.todo = th[p].todo
      BY <2>0, RecFacts DEF Recs, Labels
    <2> HIDE DEF t
    <2>3. Silent(p, t)
      BY <1>0, <2>2, SameStack
    <2>4. RouterMoves /\ MsgTypes'
      BY <1>0, <1>4, MsgSame
    <2>5. QED
      BY <1>0, <1>1, <2>1, <2>3, <2>4, QuietStep
  <1>5. QED
    BY <1>2, <1>3, <1>4 DEF EnsureResumeAndFlushOutbox

LEMMA WaitForResumeInv == ASSUME OutboxInv, NEW p \in Threads, WaitForResume(p) PROVE OutboxInv'
  <1>0. th[p].pc = "wait" /\ UNCHANGED <<msg, madeVars, aside, sent>>
    BY DEF WaitForResume, At, routerVars
  <1>1. TaskTypes' /\ RouterMoves /\ MsgTypes' /\ UNCHANGED <<caps, inFlight, sent, over, late>>
    BY <1>0, TaskSame, MsgSame DEF WaitForResume
  <1>2. CASE flushResumeOnActive(p)
    <2> DEFINE t == [th[p] EXCEPT !.pc = "flush", !.todo = PendingInstructions("resume")]
    <2>1. th' = [th EXCEPT ![p] = t]
      BY <1>2 DEF flushResumeOnActive
    <2>2. t \in Recs /\ Counted(t.seen) /\ t.pc = "flush"
          /\ t.ret = th[p].ret /\ t.todo = PendingInstructions("resume")
      BY RecFacts DEF Recs, Labels, PendingInstructions
    <2> HIDE DEF t
    <2>3. Silent(p, t)
      BY <1>0, <2>2, SameStack
    <2>4. QED
      BY <1>0, <1>1, <2>1, <2>3, QuietStep
  <1>3. CASE Goto(p, "ensure")
    <2> DEFINE t == [th[p] EXCEPT !.pc = "ensure"]
    <2>1. th' = [th EXCEPT ![p] = t]
      BY <1>3 DEF Goto
    <2>2. t \in Recs /\ Counted(t.seen) /\ t.pc = "ensure" /\ t.ret = th[p].ret /\ t.todo = th[p].todo
      BY RecFacts DEF Recs, Labels
    <2> HIDE DEF t
    <2>3. Silent(p, t)
      BY <1>0, <2>2, SameStack
    <2>4. QED
      BY <1>0, <1>1, <2>1, <2>3, QuietStep
  <1>4. CASE Returns(p)
    <2>1. th' = [th EXCEPT ![p] = Returned(th[p])] /\ Silent(p, Returned(th[p]))
      BY <1>0, <1>4, RecFacts, ReturnQuiet DEF Returns
    <2>2. QED
      BY <1>0, <1>1, <2>1, QuietStep
  <1>5. QED
    BY <1>2, <1>3, <1>4 DEF WaitForResume

LEMMA StartWaveInv == ASSUME OutboxInv, NEW p \in Threads, StartWave(p) PROVE OutboxInv'
  <1> DEFINE l == IF task.term \/ task.proc = "unknown" THEN "done" ELSE "exec"
             t == [th[p] EXCEPT !.pc = l, !.seen = task]
  <1>0. th[p].pc = "start" /\ th' = [th EXCEPT ![p] = t]
    BY DEF StartWave, At
  <1>1. task \in Tasks /\ Counted(task) /\ l \in {"done", "exec"}
    BY DEF OutboxInv, OutboxTypes, TaskTypes
  <1> HIDE DEF l
  <1>2. t \in Recs /\ Counted(t.seen) /\ t.pc = l /\ t.ret = th[p].ret /\ t.todo = th[p].todo
    BY <1>1, RecFacts DEF Recs, Labels
  <1> HIDE DEF t
  <1>3. Silent(p, t)
    BY <1>0, <1>1, <1>2, SameStack
  <1>4. RouterMoves /\ MsgTypes' /\ TaskTypes'
    BY MsgSame, TaskSame DEF StartWave, routerVars
  <1>5. QED
    BY <1>0, <1>3, <1>4, QuietStep DEF StartWave

LEMMA NewTaskFacts == NewTask \in Tasks /\ Counted(NewTask)
  BY DEF NewTask, Tasks, Counted

LEMMA executeTaskInv == ASSUME OutboxInv, NEW p \in Threads, executeTask(p) PROVE OutboxInv'
  <1>0. th[p].pc = "exec" /\ task \in Tasks /\ th \in [Threads -> Recs]
    BY DEF executeTask, At, OutboxInv, OutboxTypes, TaskTypes, ThreadTypes
  <1>1. RouterMoves /\ MsgTypes' /\ TaskTypes' /\ UNCHANGED <<caps, inFlight, sent, over, late>>
    BY MsgSame, TaskSame DEF executeTask, routerVars
  <1> DEFINE u == [th[p] EXCEPT !.seen = NewTask]
             t == [th[p] EXCEPT !.pc = "begun", !.seen = NewTask, !.mode = chooseMode(task),
                                !.number = task.attempts + 1]
  <1>2. th' = [th EXCEPT ![p] = Returned(u)] \/ (chooseMode(task) # "refused" /\ th' = [th EXCEPT ![p] = t])
    BY <1>0 DEF executeTask
  <1>3. CASE th' = [th EXCEPT ![p] = Returned(u)]
    <2>1. u \in Recs /\ Counted(u.seen) /\ u.pc = th[p].pc /\ u.ret = th[p].ret /\ u.todo = th[p].todo
      BY RecFacts, NewTaskFacts DEF Recs
    <2> HIDE DEF u
    <2>2. Silent(p, Returned(u))
      BY <1>0, <2>1, ReturnQuiet
    <2>3. QED
      BY <1>0, <1>1, <1>3, <2>2, QuietStep
  <1>4. CASE chooseMode(task) # "refused" /\ th' = [th EXCEPT ![p] = t]
    <2>1. chooseMode(task) \in {"fresh", "recovery_resume"} /\ task.attempts + 1 \in Nat
      BY <1>0, <1>4 DEF chooseMode, Tasks
    <2>2. t \in Recs /\ Counted(t.seen) /\ t.pc = "begun" /\ t.ret = th[p].ret /\ t.todo = th[p].todo
      BY <2>1, RecFacts, NewTaskFacts DEF Recs, Labels
    <2> HIDE DEF t
    <2>3. Silent(p, t)
      BY <1>0, <2>2, SameStack
    <2>4. QED
      BY <1>0, <1>1, <1>4, <2>3, QuietStep
  <1>5. QED
    BY <1>2, <1>3, <1>4

LEMMA FinishAttemptFacts ==
    ASSUME NEW ts \in Tasks, Counted(ts)
    PROVE  finishActiveAttempt(ts) \in Tasks /\ Counted(finishActiveAttempt(ts))
  <1>1. CASE ~ts.current
    BY <1>1 DEF finishActiveAttempt
  <1>2. CASE ts.current
    <2> DEFINE n == ts.running - 1
    <2>1. n \in Nat
      BY <1>2 DEF Counted, Tasks
    <2>2. finishActiveAttempt(ts) = [ts EXCEPT !.running = n, !.current = FALSE]
      BY <1>2 DEF finishActiveAttempt, Tasks
    <2> HIDE DEF n
    <2>3. QED
      BY <2>1, <2>2 DEF Tasks, Counted
  <1>3. QED
    BY <1>1, <1>2

LEMMA StartAttemptInv == ASSUME OutboxInv, NEW p \in Threads, StartAttempt(p) PROVE OutboxInv'
  <1>0. th[p].pc = "begun" /\ UNCHANGED <<caps, inFlight, sent, over, late, sessions, active, alive>>
    BY DEF StartAttempt, At
  <1>1. RouterMoves /\ MsgTypes'
    BY MsgSame DEF StartAttempt, routerVars
  <1>2. TaskTypes'
    <2>1. task \in Tasks /\ TaskTypes
      BY DEF OutboxInv, OutboxTypes, TaskTypes
    <2>2. th[p].number \in Nat
      BY RecFacts DEF Recs
    <2> DEFINE n == th[p].number
               b == th[p].mode = "recovery_resume"
               r == task.running + 1
    <2>3. task' = [task EXCEPT !.attempts = n, !.running = r, !.current = TRUE,
                               !.proc = "starting", !.native = b]
      BY <2>1 DEF StartAttempt, Tasks
    <2>4. n \in Nat /\ b \in BOOLEAN /\ r \in Nat /\ r > 0
      BY <2>1, <2>2 DEF Tasks
    <2> HIDE DEF n, b, r
    <2>5. task' \in Tasks /\ task'.running > 0
      BY <2>1, <2>3, <2>4 DEF Tasks
    <2>6. QED
      BY <1>0, <2>1, <2>5 DEF TaskTypes, Counted
  <1> DEFINE u == [th[p] EXCEPT !.number = 0, !.mode = "none"]
             t == [th[p] EXCEPT !.pc = "spawn", !.number = 0]
  <1>3. th' = [th EXCEPT ![p] = Returned(u)] \/ th' = [th EXCEPT ![p] = t]
    BY DEF StartAttempt
  <1>4. CASE th' = [th EXCEPT ![p] = Returned(u)]
    <2>1. u \in Recs /\ Counted(u.seen) /\ u.pc = th[p].pc /\ u.ret = th[p].ret /\ u.todo = th[p].todo
      BY RecFacts DEF Recs
    <2> HIDE DEF u
    <2>2. Silent(p, Returned(u))
      BY <1>0, <2>1, ReturnQuiet
    <2>3. QED
      BY <1>0, <1>1, <1>2, <1>4, <2>2, QuietStep
  <1>5. CASE th' = [th EXCEPT ![p] = t]
    <2>1. t \in Recs /\ Counted(t.seen) /\ t.pc = "spawn" /\ t.ret = th[p].ret /\ t.todo = th[p].todo
      BY RecFacts DEF Recs, Labels
    <2> HIDE DEF t
    <2>2. Silent(p, t)
      BY <1>0, <2>1, SameStack
    <2>3. QED
      BY <1>0, <1>1, <1>2, <1>5, <2>2, QuietStep
  <1>6. QED
    BY <1>3, <1>4, <1>5

LEMMA SpawnSessionInv == ASSUME OutboxInv, NEW p \in Threads, SpawnSession(p) PROVE OutboxInv'
  <1>0. th[p].pc = "spawn" /\ UNCHANGED <<caps, inFlight, sent, over, late>>
    BY DEF SpawnSession, At
  <1>1. RouterMoves /\ MsgTypes'
    BY MsgSame DEF SpawnSession, routerVars
  <1>2. TaskTypes' /\ sessions' \in Nat
    BY DEF SpawnSession, OutboxInv, OutboxTypes, TaskTypes
  <1> DEFINE t == [th[p] EXCEPT !.pc = "spawned", !.ses = sessions']
  <1>3. th' = [th EXCEPT ![p] = t]
    BY DEF SpawnSession
  <1>4. t \in Recs /\ Counted(t.seen) /\ t.pc = "spawned" /\ t.ret = th[p].ret /\ t.todo = th[p].todo
    BY <1>2, RecFacts DEF Recs, Labels
  <1> HIDE DEF t
  <1>5. Silent(p, t)
    BY <1>0, <1>4, SameStack
  <1>6. QED
    BY <1>0, <1>1, <1>2, <1>3, <1>5, QuietStep

LEMMA SpawnFailsInv == ASSUME OutboxInv, NEW p \in Threads, SpawnFails(p) PROVE OutboxInv'
  <1>0. th[p].pc = "spawn" /\ UNCHANGED <<caps, inFlight, sent, over, late>>
    BY DEF SpawnFails, At
  <1>1. RouterMoves /\ MsgTypes'
    BY MsgSame DEF SpawnFails, routerVars
  <1>2. TaskTypes'
    BY FinishAttemptFacts DEF SpawnFails, OutboxInv, OutboxTypes, TaskTypes
  <1> DEFINE t == [th[p] EXCEPT !.pc = "finish", !.ses = 0]
  <1>3. th' = [th EXCEPT ![p] = t]
    BY DEF SpawnFails
  <1>4. t \in Recs /\ Counted(t.seen) /\ t.pc = "finish" /\ t.ret = th[p].ret /\ t.todo = th[p].todo
    BY RecFacts DEF Recs, Labels
  <1> HIDE DEF t
  <1>5. Silent(p, t)
    BY <1>0, <1>4, SameStack
  <1>6. QED
    BY <1>0, <1>1, <1>2, <1>3, <1>5, QuietStep

LEMMA RecordSpawnInv == ASSUME OutboxInv, NEW p \in Threads, RecordSpawn(p) PROVE OutboxInv'
  <1>0. th[p].pc = "spawned" /\ UNCHANGED <<madeVars, aside, caps, inFlight, sent, over, late>>
    BY DEF RecordSpawn, At
  <1>1. TaskTypes'
    BY DEF RecordSpawn, OutboxInv, OutboxTypes, TaskTypes, Tasks, Counted
  <1> DEFINE u == [th[p] EXCEPT !.mode = "none"]
             t == [u EXCEPT !.pc = "session"]
             pending == PendingInstructions("resume")
             f == [Called(u, "flush", "session") EXCEPT !.todo = pending]
  <1>2. u \in Recs /\ Counted(u.seen) /\ u.pc = th[p].pc /\ u.ret = th[p].ret /\ u.todo = th[p].todo
    BY RecFacts DEF Recs
  <1>3. \/ th' = [th EXCEPT ![p] = t] /\ (msg' = msg \/ expireTaskMessages)
        \/ th' = [th EXCEPT ![p] = Called(u, "ensure", "session")] /\ msg' = msg
        \/ th' = [th EXCEPT ![p] = f] /\ msg' = msg
    BY DEF RecordSpawn
  <1>4. RouterMoves /\ MsgTypes'
    <2>1. CASE msg' = msg
      BY <1>0, <2>1, MsgSame
    <2>2. CASE expireTaskMessages
      BY <1>0, <2>2, MsgSettled DEF expireTaskMessages
    <2>3. QED
      BY <1>3, <2>1, <2>2
  <1>5. CASE th' = [th EXCEPT ![p] = t]
    <2> HIDE DEF u
    <2>1. t \in Recs /\ Counted(t.seen) /\ t.pc = "session" /\ t.ret = th[p].ret /\ t.todo = th[p].todo
      BY <1>2 DEF Recs, Labels
    <2> HIDE DEF t
    <2>2. Silent(p, t)
      BY <1>0, <2>1, SameStack
    <2>3. QED
      BY <1>0, <1>1, <1>4, <1>5, <2>2, QuietStep
  <1>6. CASE th' = [th EXCEPT ![p] = Called(u, "ensure", "session")]
    <2> HIDE DEF u
    <2>1. Silent(p, Called(u, "ensure", "session"))
      BY <1>0, <1>2, CallQuiet
    <2>2. QED
      BY <1>0, <1>1, <1>4, <1>6, <2>1, QuietStep
  <1>7. CASE th' = [th EXCEPT ![p] = f] /\ msg' = msg
    <2> HIDE DEF u
    <2> DEFINE c == Called(u, "flush", "session")
    <2>1. Silent(p, c)
      BY <1>0, <1>2, CallQuiet
    <2>2. c.pc = "flush"
      BY <1>2, CalledFacts DEF Labels
    <2>3. f = [c EXCEPT !.todo = pending] /\ pending \in SUBSET Instructions
      BY DEF PendingInstructions
    <2> HIDE DEF c, f
    <2>4. f \in Recs /\ Counted(f.seen) /\ f.pc = "flush" /\ f.ret = c.ret /\ f.todo = pending
      BY <2>1, <2>2, <2>3 DEF Recs, Silent
    <2>5. (Holds(f) <=> Holds(c)) /\ (HoldsOnce(c) => HoldsOnce(f))
      BY <2>2, <2>4 DEF Holds, HoldsOnce
    <2>6. Lists(f) \subseteq Lists(c) \cup {pending}
      BY <2>4 DEF Lists
    <2>7. Silent(p, f)
      BY <1>7, <2>1, <2>4, <2>5, <2>6 DEF Silent
    <2>8. QED
      BY <1>0, <1>1, <1>4, <1>7, <2>7, QuietStep
  <1>8. QED
    BY <1>3, <1>5, <1>6, <1>7

LEMMA ResolveExitInv == ASSUME OutboxInv, NEW p \in Threads, ResolveExit(p) PROVE OutboxInv'
  <1> DEFINE t == [th[p] EXCEPT !.pc = "finish"]
  <1>0. th[p].pc = "closing" /\ th' = [th EXCEPT ![p] = t] /\ UNCHANGED <<caps, inFlight, sent, over, late>>
    BY DEF ResolveExit, At, Goto
  <1>1. RouterMoves /\ MsgTypes'
    BY MsgSame DEF ResolveExit, routerVars
  <1>2. TaskTypes'
    BY DEF ResolveExit, OutboxInv, OutboxTypes, TaskTypes, Tasks, Counted
  <1>3. t \in Recs /\ Counted(t.seen) /\ t.pc = "finish" /\ t.ret = th[p].ret /\ t.todo = th[p].todo
    BY RecFacts DEF Recs, Labels
  <1> HIDE DEF t
  <1>4. Silent(p, t)
    BY <1>0, <1>3, SameStack
  <1>5. QED
    BY <1>0, <1>1, <1>2, <1>4, QuietStep

LEMMA FinishTaskInv == ASSUME OutboxInv, NEW p \in Threads, FinishTask(p) PROVE OutboxInv'
  <1>0. th[p].pc = "finish" /\ UNCHANGED <<caps, inFlight, sent, over, late, sessions, active, alive>>
    BY DEF FinishTask, At
  <1>1. RouterMoves /\ MsgTypes'
    BY MsgSame DEF FinishTask, routerVars
  <1>2. TaskTypes'
    <2>1. task \in Tasks /\ Counted(task) /\ TaskTypes
      BY DEF OutboxInv, OutboxTypes, TaskTypes
    <2>2. \A ts \in {task, finishActiveAttempt(task)} : ts \in Tasks /\ Counted(ts)
      BY <2>1, FinishAttemptFacts
    <2>3. \A ts \in {task, finishActiveAttempt(task)} :
            [ts EXCEPT !.term = TRUE] \in Tasks /\ Counted([ts EXCEPT !.term = TRUE])
      BY <2>2 DEF Tasks, Counted
    <2>4. task' \in Tasks /\ Counted(task')
      BY <2>1, <2>3 DEF FinishTask
    <2>5. QED
      BY <1>0, <2>1, <2>4 DEF TaskTypes
  <1>3. PICK l \in {"expire", "unregister"} : th' = [th EXCEPT ![p].pc = l]
    BY DEF FinishTask, Goto
  <1> DEFINE t == [th[p] EXCEPT !.pc = l]
  <1>4. th' = [th EXCEPT ![p] = t]
    BY <1>3
  <1>5. t \in Recs /\ Counted(t.seen) /\ t.pc = l /\ t.ret = th[p].ret /\ t.todo = th[p].todo
    BY RecFacts DEF Recs, Labels
  <1> HIDE DEF t
  <1>6. Silent(p, t)
    BY <1>0, <1>5, SameStack
  <1>7. QED
    BY <1>0, <1>1, <1>2, <1>4, <1>6, QuietStep

LEMMA ExpireTaskInv == ASSUME OutboxInv, NEW p \in Threads, ExpireTask(p) PROVE OutboxInv'
  <1> DEFINE t == [th[p] EXCEPT !.pc = "unregister"]
  <1>0. th[p].pc = "expire" /\ th' = [th EXCEPT ![p] = t] /\ UNCHANGED <<caps, inFlight, sent, over, late>>
    BY DEF ExpireTask, At, Goto
  <1>1. RouterMoves /\ MsgTypes'
    BY MsgSettled DEF ExpireTask, expireTaskMessages
  <1>2. TaskTypes'
    BY TaskSame DEF ExpireTask
  <1>3. t \in Recs /\ Counted(t.seen) /\ t.pc = "unregister" /\ t.ret = th[p].ret /\ t.todo = th[p].todo
    BY RecFacts DEF Recs, Labels
  <1> HIDE DEF t
  <1>4. Silent(p, t)
    BY <1>0, <1>3, SameStack
  <1>5. QED
    BY <1>0, <1>1, <1>2, <1>4, QuietStep

LEMMA UnregisterInv == ASSUME OutboxInv, NEW p \in Threads, Unregister(p) PROVE OutboxInv'
  <1>0. th[p].pc = "unregister" /\ UNCHANGED <<caps, inFlight, sent, over, late>>
    BY DEF Unregister, At
  <1>1. RouterMoves /\ MsgTypes'
    BY MsgSame DEF Unregister, routerVars
  <1>2. TaskTypes'
    BY DEF Unregister, OutboxInv, OutboxTypes, TaskTypes
  <1>3. th' = [th EXCEPT ![p] = Returned(th[p])] /\ Silent(p, Returned(th[p]))
    BY <1>0, RecFacts, ReturnQuiet DEF Unregister, Returns
  <1>4. QED
    BY <1>0, <1>1, <1>2, <1>3, QuietStep

-----------------------------------------------------------------------------
(* Steps that send, take up a list or move the slot. *)

LEMMA StepInv ==
    ASSUME OutboxInv, NEW p \in Threads, NEW t \in Recs, th' = [th EXCEPT ![p] = t], Counted(t.seen),
           t.pc \notin {"start", "enqueue", "deliver"}, RouterMoves, MsgTypes', TaskTypes',
           inFlight' \in BOOLEAN, th'[p] = t /\ Others(p) => SlotInv',
           sent' \in [Instructions -> Nat], \A i \in Instructions : sent'[i] >= sent[i],
           t.pc = "record" /\ t.ok => sent'[t.item] > 0,
           ThreadOrderNext(t), UNCHANGED <<caps, over, late>>
    PROVE  OutboxInv'
  <1>1. ThreadTypes' /\ th'[p] = t /\ Others(p)
    BY ThreadUpdate DEF OutboxInv, OutboxTypes
  <1>2. OutboxTypes'
    BY <1>1 DEF OutboxInv, OutboxTypes, MadeTypes, RouterMoves, madeVars
  <1>3. LostInv'
    BY <1>1, <1>2, LostKept DEF OutboxInv, OutboxTypes, RouterMoves
  <1>4. OrderInv'
    BY <1>1, OrderKept DEF OutboxInv
  <1>5. QED
    BY <1>1, <1>2, <1>3, <1>4 DEF OutboxInv

LEMMA SlotTaken ==
    ASSUME SlotInv, ~inFlight, inFlight', NEW p \in Threads, Others(p), Holds(th'[p]), HoldsOnce(th'[p])
    PROVE  SlotInv'
  <1>1. \A q \in Threads : ~Holds(th[q]) /\ HoldsOnce(th[q])
    BY DEF SlotInv
  <1>2. \A q \in Threads : HoldsOnce(th'[q]) /\ (Holds(th'[q]) => q = p)
    BY <1>1 DEF Others
  <1>3. QED
    BY <1>2 DEF SlotInv

LEMMA SlotReleased ==
    ASSUME SlotInv, ~inFlight', NEW p \in Threads, Holds(th[p]), Others(p), ~Holds(th'[p]), HoldsOnce(th'[p])
    PROVE  SlotInv'
  <1>1. \A q \in Threads : HoldsOnce(th'[q]) /\ ~Holds(th'[q])
    BY DEF Others, SlotInv
  <1>2. QED
    BY <1>1 DEF SlotInv

LEMMA ClaimResumeInv == ASSUME OutboxInv, NEW p \in Threads, ClaimResume(p) PROVE OutboxInv'
  <1> DEFINE w == [th[p] EXCEPT !.pc = "wait", !.seen = NewTask]
             r == [th[p] EXCEPT !.pc = "release", !.seen = NewTask]
             c == Called(th[p], "exec", "release")
  <1>0. th[p].pc = "claim" /\ inFlight' = TRUE /\ UNCHANGED <<madeVars, aside, caps, sent, over, late,
                                                              sessions, active, alive>>
    BY DEF ClaimResume, At
  <1>1. \/ inFlight /\ th' = [th EXCEPT ![p] = w] /\ UNCHANGED <<task, msg>>
        \/ ~inFlight /\ th' = [th EXCEPT ![p] = c] /\ task' = th[p].seen /\ msg' = msg
        \/ ~inFlight /\ th' = [th EXCEPT ![p] = r] /\ task' = task
           /\ Settle(PendingInstructions("resume"), "failed")
    BY DEF ClaimResume, Call
  <1>2. TaskTypes'
    <2>1. th[p].seen \in Tasks /\ Counted(th[p].seen)
      BY RecFacts DEF Recs
    <2>2. QED
      BY <1>0, <1>1, <2>1 DEF OutboxInv, OutboxTypes, TaskTypes
  <1>3. RouterMoves /\ MsgTypes'
    <2>1. CASE msg' = msg
      BY <1>0, <2>1, MsgSame
    <2>2. CASE Settle(PendingInstructions("resume"), "failed")
      BY <1>0, <2>2, MsgSettled DEF PendingInstructions
    <2>3. QED
      BY <1>1, <2>1, <2>2
  <1>4. w \in Recs /\ Counted(w.seen) /\ w.pc = "wait" /\ w.ret = th[p].ret /\ w.todo = th[p].todo
        /\ r \in Recs /\ Counted(r.seen) /\ r.pc = "release" /\ r.ret = th[p].ret /\ r.todo = th[p].todo
    BY RecFacts, NewTaskFacts DEF Recs, Labels
  <1> HIDE DEF w, r
  <1>5. CASE inFlight /\ th' = [th EXCEPT ![p] = w]
    <2>1. Silent(p, w)
      BY <1>0, <1>4, SameStack
    <2>2. QED
      BY <1>0, <1>2, <1>3, <1>5, <2>1, QuietStep
  <1>6. ~inFlight => ~Holds(th[p])
    BY DEF OutboxInv, SlotInv
  <1>7. sent' \in [Instructions -> Nat] /\ \A i \in Instructions : sent'[i] >= sent[i]
    BY <1>0 DEF OutboxInv, OutboxTypes
  <1>8. CASE ~inFlight /\ th' = [th EXCEPT ![p] = c]
    <2>1. /\ c \in Recs /\ c.pc = "exec" /\ c.seen = th[p].seen /\ Lists(c) \subseteq Lists(th[p])
          /\ Holds(c) /\ HoldsOnce(c) /\ Counted(c.seen)
      BY <1>0, <1>6, <1>8, RecFacts, CalledFacts DEF Labels
    <2> HIDE DEF c
    <2>2. ThreadOrderNext(c)
      BY <1>0, <1>3, <2>1, QuietOrder DEF OutboxInv
    <2>3. th'[p] = c /\ Others(p) => SlotInv'
      BY <1>0, <1>8, <2>1, SlotTaken DEF OutboxInv
    <2>4. QED
      BY <1>0, <1>2, <1>3, <1>7, <1>8, <2>1, <2>2, <2>3, StepInv
  <1>9. CASE ~inFlight /\ th' = [th EXCEPT ![p] = r]
    <2>1. Holds(r) /\ HoldsOnce(r)
      BY <1>4, <1>6, <1>9, RecFacts DEF Holds, HoldsOnce
    <2>2. ThreadOrderNext(r)
      BY <1>0, <1>3, <1>4, QuietOrder DEF OutboxInv, Lists
    <2>3. th'[p] = r /\ Others(p) => SlotInv'
      BY <1>0, <1>9, <2>1, SlotTaken DEF OutboxInv
    <2>4. QED
      BY <1>0, <1>2, <1>3, <1>4, <1>7, <1>9, <2>2, <2>3, StepInv
  <1>10. QED
    BY <1>1, <1>5, <1>8, <1>9

LEMMA ReleaseResumeInv == ASSUME OutboxInv, NEW p \in Threads, ReleaseResume(p) PROVE OutboxInv'
  <1> DEFINE r == Returned(th[p])
  <1>0. th[p].pc = "release" /\ inFlight' = FALSE /\ th' = [th EXCEPT ![p] = r]
        /\ UNCHANGED <<caps, sent, over, late>>
    BY DEF ReleaseResume, At, Returns
  <1>1. RouterMoves /\ MsgTypes' /\ TaskTypes'
    BY MsgSame, TaskSame DEF ReleaseResume, routerVars
  <1>2. /\ r \in Recs /\ r.seen = th[p].seen /\ Counted(r.seen) /\ Lists(r) \subseteq Lists(th[p])
        /\ r.pc \in {"done", "flush", "session", "closing", "release"} /\ ~Holds(r) /\ HoldsOnce(r)
    BY <1>0, RecFacts, ReturnedFacts
  <1>3. Holds(th[p])
    BY <1>0 DEF Holds
  <1> HIDE DEF r
  <1>4. ThreadOrderNext(r)
    BY <1>0, <1>1, <1>2, QuietOrder DEF OutboxInv
  <1>5. th'[p] = r /\ Others(p) => SlotInv'
    BY <1>0, <1>2, <1>3, SlotReleased DEF OutboxInv
  <1>6. sent' \in [Instructions -> Nat] /\ \A i \in Instructions : sent'[i] >= sent[i]
    BY <1>0 DEF OutboxInv, OutboxTypes
  <1>7. QED
    BY <1>0, <1>1, <1>2, <1>4, <1>5, <1>6, StepInv

LEMMA OldestTurn ==
    ASSUME OutboxInv, PendingInstructions("next_turn") # {}
    PROVE  LET i == Oldest(PendingInstructions("next_turn")) IN
           i \in Instructions /\ msg[i].status = "queued" /\ msg[i].mode = "next_turn" /\ NoOlderTurn(i)
  <1> DEFINE is == PendingInstructions("next_turn")
             i == Oldest(is)
  <1>1. is \in SUBSET Instructions /\ is # {}
    BY DEF PendingInstructions
  <1>2. created \in [Instructions -> 0 .. clock] /\ clock \in Nat
        /\ behind \in [Instructions -> SUBSET Instructions]
    BY DEF OutboxInv, OutboxTypes, MadeTypes
  <1>3. i \in is /\ \A j \in is : created[i] <= created[j]
    <2> HIDE DEF is
    <2> QED BY <1>1, <1>2, OldestFacts
  <1>4. i \in Instructions /\ msg[i].status = "queued" /\ msg[i].mode = "next_turn"
    BY <1>3 DEF PendingInstructions, IsDeliveryPending
  <1>5. ASSUME NEW k \in behind[i], IsDeliveryPending(k), msg[k].mode = "next_turn" PROVE FALSE
    <2>1. k \in is
      BY <1>2, <1>4, <1>5 DEF PendingInstructions
    <2>2. created[i] <= created[k] /\ created[k] < created[i] /\ created[i] \in Int /\ created[k] \in Int
      <3> HIDE DEF is, i
      <3> QED BY <1>1, <1>2, <1>3, <1>4, <1>5, <2>1 DEF OutboxInv, OrderInv
    <2>3. QED
      BY <2>2
  <1>6. NoOlderTurn(i)
    BY <1>5 DEF NoOlderTurn
  <1>7. QED
    BY <1>4, <1>6

LEMMA startNextTurnInv == ASSUME OutboxInv, NEW p \in Threads, startNextTurnAtBoundary(p) PROVE OutboxInv'
  <1> DEFINE i == Oldest(PendingInstructions("next_turn"))
             c == [th[p] EXCEPT !.pc = "closing"]
             s == [th[p] EXCEPT !.pc = "send", !.item = i, !.tgt = active, !.kind = "boundary"]
  <1>0. th[p].pc = "session" /\ UNCHANGED <<madeVars, aside, caps, inFlight, sent, over, late>>
    BY DEF startNextTurnAtBoundary, At
  <1>1. TaskTypes' /\ MsgTypes
    BY TaskSame DEF startNextTurnAtBoundary, OutboxInv, OutboxTypes
  <1>2. \/ th' = [th EXCEPT ![p] = c] /\ msg' = msg
        \/ PendingInstructions("next_turn") # {} /\ th' = [th EXCEPT ![p] = c] /\ Settle({i}, "failed")
        \/ PendingInstructions("next_turn") # {} /\ th' = [th EXCEPT ![p] = s] /\ msg' = msg
        \/ /\ PendingInstructions("next_turn") # {}
           /\ th' = [th EXCEPT ![p] = Called(th[p], "ensure", "closing")]
           /\ msg' = [msg EXCEPT ![i].mode = "resume"]
    BY DEF startNextTurnAtBoundary, handleInactiveQueuedInstruction, Goto, Call
  <1>3. PendingInstructions("next_turn") # {} =>
            i \in Instructions /\ msg[i].status = "queued" /\ msg[i].mode = "next_turn" /\ NoOlderTurn(i)
    BY OldestTurn
  <1>4. c \in Recs /\ Counted(c.seen) /\ c.pc = "closing" /\ c.ret = th[p].ret /\ c.todo = th[p].todo
    BY RecFacts DEF Recs, Labels
  <1> HIDE DEF i, c
  <1>5. CASE th' = [th EXCEPT ![p] = c] /\ msg' = msg
    BY <1>0, <1>1, <1>4, <1>5, MsgSame, SameStack, QuietStep
  <1>6. CASE PendingInstructions("next_turn") # {} /\ th' = [th EXCEPT ![p] = c] /\ Settle({i}, "failed")
    <2>1. RouterMoves /\ MsgTypes'
      BY <1>0, <1>3, <1>6, MsgSettled
    <2>2. QED
      BY <1>0, <1>1, <1>4, <1>6, <2>1, SameStack, QuietStep
  <1>7. CASE PendingInstructions("next_turn") # {} /\ th' = [th EXCEPT ![p] = s] /\ msg' = msg
    <2>0. active \in Nat /\ th[p].ret \in Seq(Frames)
      BY RecFacts DEF OutboxInv, OutboxTypes, TaskTypes, Recs
    <2>1. s \in Recs /\ Counted(s.seen) /\ s.pc = "send" /\ s.ret = th[p].ret /\ s.todo = th[p].todo
          /\ s.item = i /\ s.kind = "boundary"
      BY <1>3, <1>7, <2>0, RecFacts DEF Recs, Labels, Kinds
    <2> HIDE DEF s
    <2>2. RouterMoves /\ MsgTypes'
      BY <1>0, <1>7, MsgSame
    <2>3. ThreadOrderNext(s)
      <3>1. Sending(s) = {} /\ Sending(th[p]) = {} /\ Lists(s) = Lists(th[p])
        BY <1>0, <2>1 DEF Sending, Lists
      <3>2. ThreadOrderNext(th[p])
        BY <2>2, ThreadOrderKept DEF OutboxInv
      <3>3. NoOlderTurnNext(i) /\ msg'[i] # None
        BY <1>3, <1>7, <2>2, TurnKept DEF OutboxInv, None
      <3>4. QED
        BY <2>1, <3>1, <3>2, <3>3 DEF ThreadOrderNext
    <2>4. (Holds(s) <=> Holds(th[p])) /\ HoldsOnce(s)
      BY <1>0, <2>1, RecFacts DEF Holds, HoldsOnce
    <2>5. th'[p] = s /\ Others(p) => SlotInv'
      BY <1>0, <2>4, SlotKept DEF OutboxInv
    <2>6. inFlight' \in BOOLEAN /\ sent' \in [Instructions -> Nat]
          /\ \A j \in Instructions : sent'[j] >= sent[j]
      BY <1>0 DEF OutboxInv, OutboxTypes
    <2>7. QED
      BY <1>0, <1>1, <1>7, <2>1, <2>2, <2>3, <2>5, <2>6, StepInv
  <1>8. CASE /\ PendingInstructions("next_turn") # {}
             /\ th' = [th EXCEPT ![p] = Called(th[p], "ensure", "closing")]
             /\ msg' = [msg EXCEPT ![i].mode = "resume"]
    <2>1. msg[i] \in Messages /\ msg \in [Instructions -> Messages]
      BY <1>1, <1>3, <1>8 DEF MsgTypes
    <2>2. msg'[i] = [msg[i] EXCEPT !.mode = "resume"] /\ \A j \in Instructions : j # i => msg'[j] = msg[j]
      BY <1>3, <1>8, <2>1
    <2>3. msg'[i] \in Messages /\ msg'[i].status = "queued" /\ msg'[i].mode = "resume"
      BY <1>3, <1>8, <2>1, <2>2 DEF Messages, Modes
    <2>4. MsgTypes'
      <3>1. msg' \in [Instructions -> Messages]
        BY <1>3, <1>8, <2>1, <2>2, <2>3
      <3>2. \A j \in Instructions : msg'[j].status = "absent" <=> msg'[j] = None
        <4>1. None.status = "absent"
          BY DEF None
        <4>2. \A j \in Instructions : j # i => (msg'[j].status = "absent" <=> msg'[j] = None)
          BY <1>1, <2>2 DEF MsgTypes
        <4>3. QED
          BY <2>3, <4>1, <4>2
      <3>3. QED
        BY <3>1, <3>2 DEF MsgTypes
    <2>5. RouterMoves
      <3>1. \A j \in Instructions : Moves(j)
        BY <1>3, <1>8, <2>2, <2>3 DEF Moves, None
      <3>2. QED
        BY <1>0, <3>1 DEF RouterMoves, OutboxInv, OutboxTypes, MadeTypes
    <2>6. Silent(p, Called(th[p], "ensure", "closing"))
      BY <1>0, RecFacts, CallQuiet
    <2>7. QED
      BY <1>0, <1>1, <1>8, <2>4, <2>5, <2>6, QuietStep
  <1>9. QED
    BY <1>2, <1>5, <1>6, <1>7, <1>8

LEMMA ModeFree ==
    ASSUME NEW t \in Recs
    PROVE  LET u == [t EXCEPT !.mode = "none"] IN
           u \in Recs /\ u.pc = t.pc /\ u.seen = t.seen /\ u.ret = t.ret /\ u.todo = t.todo
  BY DEF Recs

LEMMA deliverInstructionInv == ASSUME OutboxInv, NEW p \in Threads, deliverInstruction(p) PROVE OutboxInv'
  <1> DEFINE u == [th[p] EXCEPT !.mode = "none"]
             e == [u EXCEPT !.pc = "ensure"]
             s == [u EXCEPT !.pc = "send", !.item = p, !.tgt = active, !.kind = "steer"]
  <1>0. th[p].pc = "deliver" /\ UNCHANGED <<madeVars, aside, caps, inFlight, sent, over, late>>
    BY DEF deliverInstruction, At
  <1>1. TaskTypes'
    BY TaskSame DEF deliverInstruction
  <1>2. th[p].mode \in Modes /\ p \in Callers /\ p \in Instructions /\ active \in Nat
    BY <1>0 DEF OutboxInv, OutboxTypes, ThreadTypes, TaskTypes, Instructions
  <1>3. \/ th' = [th EXCEPT ![p] = s] /\ msg' = msg
        \/ th' = [th EXCEPT ![p] = Returned(u)] /\ (msg' = msg \/ Settle({p}, "failed"))
        \/ th' = [th EXCEPT ![p] = e] /\ msg' = msg
    BY <1>2 DEF deliverInstruction, Modes
  <1>4. u \in Recs /\ Counted(u.seen) /\ u.pc = th[p].pc /\ u.ret = th[p].ret /\ u.todo = th[p].todo
    BY RecFacts, ModeFree
  <1> HIDE DEF u
  <1>5. RouterMoves /\ MsgTypes'
    <2>1. CASE msg' = msg
      BY <1>0, <2>1, MsgSame
    <2>2. CASE Settle({p}, "failed")
      BY <1>0, <1>2, <2>2, MsgSettled
    <2>3. QED
      BY <1>3, <2>1, <2>2
  <1>6. CASE th' = [th EXCEPT ![p] = s]
    <2>1. s \in Recs /\ Counted(s.seen) /\ s.pc = "send" /\ s.ret = th[p].ret /\ s.todo = th[p].todo
          /\ s.kind = "steer"
      BY <1>2, <1>4 DEF Recs, Labels, Kinds
    <2> HIDE DEF s
    <2>2. ThreadOrderNext(s)
      <3>1. Sending(s) = {} /\ Sending(th[p]) = {} /\ Lists(s) = Lists(th[p])
        BY <1>0, <2>1 DEF Sending, Lists
      <3>2. ThreadOrderNext(th[p])
        BY <1>5, ThreadOrderKept DEF OutboxInv
      <3>3. QED
        BY <2>1, <3>1, <3>2 DEF ThreadOrderNext
    <2>3. (Holds(s) <=> Holds(th[p])) /\ HoldsOnce(s)
      BY <1>0, <2>1, RecFacts DEF Holds, HoldsOnce
    <2>4. th'[p] = s /\ Others(p) => SlotInv'
      BY <1>0, <2>3, SlotKept DEF OutboxInv
    <2>5. inFlight' \in BOOLEAN /\ sent' \in [Instructions -> Nat]
          /\ \A j \in Instructions : sent'[j] >= sent[j]
      BY <1>0 DEF OutboxInv, OutboxTypes
    <2>6. QED
      BY <1>0, <1>1, <1>5, <1>6, <2>1, <2>2, <2>4, <2>5, StepInv
  <1>7. CASE th' = [th EXCEPT ![p] = Returned(u)]
    <2>1. Silent(p, Returned(u))
      BY <1>0, <1>4, ReturnQuiet
    <2>2. QED
      BY <1>0, <1>1, <1>5, <1>7, <2>1, QuietStep
  <1>8. CASE th' = [th EXCEPT ![p] = e]
    <2>1. e \in Recs /\ Counted(e.seen) /\ e.pc = "ensure" /\ e.ret = th[p].ret /\ e.todo = th[p].todo
      BY <1>4 DEF Recs, Labels
    <2> HIDE DEF e
    <2>2. Silent(p, e)
      BY <1>0, <2>1, SameStack
    <2>3. QED
      BY <1>0, <1>1, <1>5, <1>8, <2>2, QuietStep
  <1>9. QED
    BY <1>3, <1>6, <1>7, <1>8

LEMMA SendInv == ASSUME OutboxInv, NEW p \in Threads, Send(p) PROVE OutboxInv'
  <1>0. PICK ok \in BOOLEAN :
          /\ sent' = IF ok THEN [sent EXCEPT ![th[p].item] = @ + 1] ELSE sent
          /\ th' = [th EXCEPT ![p].pc = "record", ![p].ok = ok]
    BY DEF Send
  <1> DEFINE t == [th[p] EXCEPT !.pc = "record", !.ok = ok]
             i == th[p].item
  <1>1. th[p].pc = "send" /\ UNCHANGED <<caps, inFlight, msg, madeVars, aside, over, late>>
    BY DEF Send, At, routerVars
  <1>2. th' = [th EXCEPT ![p] = t]
    BY <1>0
  <1>3. t \in Recs /\ Counted(t.seen) /\ t.pc = "record" /\ t.ret = th[p].ret /\ t.todo = th[p].todo
        /\ t.kind = th[p].kind /\ t.item = i /\ t.ok = ok /\ i \in Instructions
    BY RecFacts DEF Recs, Labels
  <1>4. sent \in [Instructions -> Nat]
    BY DEF OutboxInv, OutboxTypes
  <1> HIDE DEF t, i
  <1>5. /\ sent' \in [Instructions -> Nat] /\ \A j \in Instructions : sent'[j] >= sent[j]
        /\ ok => sent'[i] > 0
    BY <1>0, <1>3, <1>4 DEF i
  <1>6. RouterMoves /\ MsgTypes' /\ TaskTypes' /\ inFlight' \in BOOLEAN
    <2>1. TaskTypes'
      BY TaskSame DEF Send
    <2>2. QED
      BY <1>1, <2>1 DEF OutboxInv, OutboxTypes, MadeTypes, MsgTypes, RouterMoves, Moves, madeVars
  <1>7. ThreadOrderNext(t)
    <2>1. Sending(t) = Sending(th[p]) /\ Lists(t) = Lists(th[p])
      BY <1>1, <1>3 DEF Sending, Lists, i
    <2>2. ThreadOrderNext(th[p])
      BY <1>6, ThreadOrderKept DEF OutboxInv
    <2>3. QED
      BY <1>3, <2>1, <2>2 DEF ThreadOrderNext
  <1>8. (Holds(t) <=> Holds(th[p])) /\ HoldsOnce(t)
    BY <1>1, <1>3, RecFacts DEF Holds, HoldsOnce
  <1>9. th'[p] = t /\ Others(p) => SlotInv'
    BY <1>1, <1>8, SlotKept DEF OutboxInv
  <1>10. QED
    BY <1>1, <1>2, <1>3, <1>5, <1>6, <1>7, <1>9, StepInv

LEMMA RecordAttemptInv == ASSUME OutboxInv, NEW p \in Threads, RecordAttempt(p) PROVE OutboxInv'
  <1> DEFINE i == th[p].item
             next == IF th[p].ok THEN "delivered" ELSE "failed"
             u == [th[p] EXCEPT !.item = Leftover, !.tgt = 0, !.kind = "flush", !.ok = FALSE]
  <1>0. th[p].pc = "record" /\ Settle({i}, next)
        /\ UNCHANGED <<caps, inFlight, madeVars, aside, sent, over, late>>
    BY DEF RecordAttempt, At
  <1>1. th[p] \in Recs /\ i \in Instructions /\ th[p].kind \in Kinds /\ th[p].ok \in BOOLEAN
    BY RecFacts DEF Recs
  <1>2. u \in Recs /\ Counted(u.seen) /\ u.pc = "record" /\ u.ret = th[p].ret /\ u.todo = th[p].todo
    BY <1>0, RecFacts DEF Recs, Kinds, Instructions
  <1>3. PICK t : /\ th' = [th EXCEPT ![p] = t]
                 /\ \/ t = Returned(u)
                    \/ \E l \in {"flush", "session", "closing"} : t = [u EXCEPT !.pc = l]
    <2>1. PICK t : t = CASE th[p].kind = "steer" -> Returned(u)
                         [] th[p].kind = "flush" -> [u EXCEPT !.pc = "flush"]
                         [] th[p].kind = "boundary" ->
                              [u EXCEPT !.pc = IF th[p].ok /\ Rules!ValidateTransition(msg[i].status, next)
                                               THEN "session" ELSE "closing"]
      OBVIOUS
    <2>2. th \in [Threads -> Recs]
      BY DEF OutboxInv, OutboxTypes, ThreadTypes
    <2>3. th' = [th EXCEPT ![p] = t]
      BY <2>1, <2>2 DEF RecordAttempt, Sent
    <2>4. t = Returned(u) \/ \E l \in {"flush", "session", "closing"} : t = [u EXCEPT !.pc = l]
      BY <1>1, <2>1 DEF Kinds
    <2>5. QED
      BY <2>3, <2>4
  <1>4. /\ MsgTypes'
        /\ \A j \in Instructions : /\ msg[j] = None => msg'[j] = None
                                   /\ msg[j] # None => msg'[j] # None
                                   /\ msg'[j].mode = msg[j].mode
                                   /\ msg'[j].status \in {msg[j].status, next}
                                   /\ j \notin {i} => msg'[j] = msg[j]
                                   /\ j \in {i} /\ msg[j].status = "queued" => msg'[j].status = next
    <2> HIDE DEF i
    <2> QED BY <1>0, <1>1, SettleFacts DEF OutboxInv, OutboxTypes
  <1>5. th[p].ok => sent[i] > 0
    BY <1>0 DEF OutboxInv, LostInv, WasSent
  <1> HIDE DEF u, i
  <1>6. RouterMoves /\ TaskTypes'
    <2>1. TaskTypes'
      BY TaskSame DEF RecordAttempt
    <2>2. \A j \in Instructions : Moves(j)
      BY <1>0, <1>4, <1>5 DEF Moves
    <2>3. QED
      BY <1>0, <2>1, <2>2 DEF RouterMoves, OutboxInv, OutboxTypes, MadeTypes
  <1>7. msg'[i].status # "queued"
    BY <1>1, <1>4
  <1>8. /\ t \in Recs /\ Counted(t.seen) /\ t.pc \in {"done", "flush", "session", "closing", "release"}
        /\ Lists(t) \subseteq Lists(th[p]) /\ (Holds(t) <=> Holds(th[p])) /\ HoldsOnce(t)
    <2>1. HoldsOnce(u) /\ (Holds(u) <=> Holds(th[p])) /\ Lists(u) = Lists(th[p])
      BY <1>0, <1>2, RecFacts DEF HoldsOnce, Holds, Lists
    <2>2. CASE t = Returned(u)
      <3>1. /\ t \in Recs /\ t.seen = u.seen
            /\ t.pc \in {"done", "flush", "session", "closing", "release"}
            /\ Lists(t) \subseteq Lists(u) /\ (Holds(t) <=> Holds(u)) /\ (HoldsOnce(u) => HoldsOnce(t))
        BY <1>2, <2>2, ReturnedFacts
      <3>2. QED
        BY <1>2, <2>1, <3>1
    <2>3. ASSUME NEW l \in {"flush", "session", "closing"}, t = [u EXCEPT !.pc = l]
          PROVE  /\ t \in Recs /\ Counted(t.seen)
                 /\ t.pc \in {"done", "flush", "session", "closing", "release"}
                 /\ Lists(t) \subseteq Lists(th[p]) /\ (Holds(t) <=> Holds(th[p])) /\ HoldsOnce(t)
      <3>1. t \in Recs /\ t.seen = u.seen /\ t.pc = l /\ t.ret = u.ret /\ t.todo = u.todo
        BY <1>2, <2>3 DEF Recs, Labels
      <3>2. Lists(t) = Lists(u) /\ (Holds(t) <=> Holds(u)) /\ (HoldsOnce(u) => HoldsOnce(t))
        BY <1>2, <3>1 DEF Lists, Holds, HoldsOnce
      <3>3. QED
        BY <1>2, <2>1, <3>1, <3>2
    <2>4. QED
      BY <1>3, <2>2, <2>3
  <1>9. ThreadOrderNext(t)
    <2>1. Sending(th[p]) \subseteq {i} /\ Sending(t) = {}
      BY <1>8 DEF Sending, i
    <2>2. \A is \in Lists(th[p]) : ListedNext(is, Sending(th[p]))
      BY <1>6, ThreadOrderKept DEF OutboxInv, ThreadOrderNext
    <2>3. \A is \in Lists(th[p]) : ListedNext(is, {})
      BY <1>7, <2>1, <2>2 DEF ListedNext
    <2>4. QED
      BY <1>8, <2>1, <2>3 DEF ThreadOrderNext
  <1>10. th'[p] = t /\ Others(p) => SlotInv'
    BY <1>0, <1>8, SlotKept DEF OutboxInv
  <1>11. inFlight' \in BOOLEAN /\ sent' \in [Instructions -> Nat]
         /\ \A j \in Instructions : sent'[j] >= sent[j]
    BY <1>0 DEF OutboxInv, OutboxTypes
  <1>12. QED
    BY <1>0, <1>3, <1>4, <1>6, <1>8, <1>9, <1>10, <1>11, StepInv

LEMMA deliverQueuedInv ==
    ASSUME OutboxInv, NEW p \in Threads, deliverQueuedToActiveSession(p) PROVE OutboxInv'
  <1> DEFINE todo == th[p].todo
             i == Oldest(todo)
             rest == todo \ {i}
             n == [th[p] EXCEPT !.todo = rest]
             s == [n EXCEPT !.pc = "send", !.item = i, !.tgt = active, !.kind = "flush"]
  <1>0. th[p].pc = "flush" /\ todo # {} /\ UNCHANGED <<caps, inFlight, msg, madeVars, sent, over, late>>
    BY DEF deliverQueuedToActiveSession, At
  <1>1. \/ th' = [th EXCEPT ![p] = n] /\ ~IsDeliveryPending(i) /\ aside' = aside
        \/ th' = [th EXCEPT ![p] = s] /\ aside' = aside
        \/ th' = [th EXCEPT ![p] = Called(n, "ensure", "flush")] /\ aside' = aside \cup {i}
    <2>1. th \in [Threads -> Recs]
      BY DEF OutboxInv, OutboxTypes, ThreadTypes
    <2>2. th[p] \in Recs
      BY RecFacts
    <2>3. n = [th[p] EXCEPT !.todo = @ \ {i}]
      BY <2>2 DEF Recs
    <2> HIDE DEF n
    <2>4. QED
      BY <2>3 DEF deliverQueuedToActiveSession
  <1>2. /\ created \in [Instructions -> 0 .. clock] /\ clock \in Nat
        /\ behind \in [Instructions -> SUBSET Instructions] /\ aside \subseteq Instructions
    BY DEF OutboxInv, OutboxTypes, MadeTypes
  <1>3. todo \in SUBSET Instructions /\ todo \in Lists(th[p]) /\ active \in Nat
    BY RecFacts DEF Recs, Lists, OutboxInv, OutboxTypes, TaskTypes
  <1>4. i \in todo /\ \A j \in todo : created[i] <= created[j]
    <2> HIDE DEF todo
    <2> QED BY <1>0, <1>2, <1>3, OldestFacts
  <1>5. Sending(th[p]) = {} /\ \A is \in Lists(th[p]) : Listed(is, {})
    <2>1. Sending(th[p]) = {}
      BY <1>0 DEF Sending
    <2>2. QED
      BY <2>1 DEF OutboxInv, OrderInv, ThreadOrder
  <1>6. \A k \in behind[i] : k \notin todo
    <2> SUFFICES ASSUME NEW k \in behind[i], k \in todo PROVE FALSE
      OBVIOUS
    <2>1. i \in Instructions /\ k \in Instructions
      BY <1>3, <1>4
    <2>2. created[i] <= created[k] /\ created[k] < created[i] /\ created[i] \in Int /\ created[k] \in Int
      <3> HIDE DEF i, todo
      <3> QED BY <1>2, <1>4, <2>1 DEF OutboxInv, OrderInv
    <2>3. QED
      BY <2>2
  <1>7. n \in Recs /\ Counted(n.seen) /\ n.pc = "flush" /\ n.ret = th[p].ret /\ n.todo = rest
        /\ n.seen = th[p].seen
    BY <1>0, <1>3, RecFacts DEF Recs
  <1>8. Listed(todo, {})
    BY <1>3, <1>5
  <1> HIDE DEF n, i, todo
  <1>9. RouterMoves /\ MsgTypes' /\ TaskTypes'
    <2>1. TaskTypes'
      BY TaskSame DEF deliverQueuedToActiveSession
    <2>2. i \in Instructions
      BY <1>3, <1>4
    <2>3. QED
      BY <1>0, <1>1, <2>1, <2>2 DEF OutboxInv, OutboxTypes, MadeTypes, MsgTypes, RouterMoves, Moves,
         madeVars
  <1>10. inFlight' \in BOOLEAN /\ sent' \in [Instructions -> Nat]
         /\ \A j \in Instructions : sent'[j] >= sent[j]
    BY <1>0 DEF OutboxInv, OutboxTypes
  <1>11. Lists(n) \subseteq Lists(th[p]) \cup {rest} /\ (Holds(n) <=> Holds(th[p])) /\ HoldsOnce(n)
    BY <1>0, <1>7, RecFacts DEF Lists, Holds, HoldsOnce
  <1>12. \A is \in Lists(th[p]) : ListedNext(is, {})
    <2>1. ThreadOrderNext(th[p])
      BY <1>9, ThreadOrderKept DEF OutboxInv
    <2>2. QED
      BY <1>5, <2>1 DEF ThreadOrderNext
  <1>13. ListedNext(todo, {})
    BY <1>3, <1>12
  <1>14. CASE th' = [th EXCEPT ![p] = n] /\ ~IsDeliveryPending(i)
    <2>1. msg'[i].status # "queued"
      BY <1>0, <1>14 DEF IsDeliveryPending
    <2>2. ListedNext(rest, {})
      BY <1>13, <2>1 DEF ListedNext
    <2>3. Sending(n) = {}
      BY <1>7 DEF Sending
    <2>4. ThreadOrderNext(n)
      BY <1>7, <1>11, <1>12, <2>2, <2>3 DEF ThreadOrderNext
    <2>5. th'[p] = n /\ Others(p) => SlotInv'
      BY <1>0, <1>11, SlotKept DEF OutboxInv
    <2>6. QED
      BY <1>0, <1>7, <1>9, <1>10, <1>14, <2>4, <2>5, StepInv
  <1>15. CASE th' = [th EXCEPT ![p] = s]
    <2>1. s \in Recs /\ Counted(s.seen) /\ s.pc = "send" /\ s.ret = n.ret /\ s.todo = rest
          /\ s.kind = "flush" /\ s.item = i
      BY <1>3, <1>4, <1>7 DEF Recs, Labels, Kinds
    <2> HIDE DEF s
    <2>2. Sending(s) = {i} /\ Lists(s) = Lists(n) /\ (Holds(s) <=> Holds(n)) /\ HoldsOnce(s)
      BY <1>7, <1>11, <2>1 DEF Sending, Lists, Holds, HoldsOnce
    <2>3. ListedNext(rest, {i}) /\ \A is \in Lists(th[p]) : ListedNext(is, {i})
      BY <1>12, <1>13 DEF ListedNext
    <2>4. ListedNext({i}, {})
      <3>1. behind'[i] = behind[i]
        BY <1>0 DEF madeVars
      <3>2. QED
        BY <1>4, <1>6, <1>13, <3>1 DEF ListedNext
    <2>5. ThreadOrderNext(s)
      BY <1>11, <2>1, <2>2, <2>3, <2>4 DEF ThreadOrderNext
    <2>6. th'[p] = s /\ Others(p) => SlotInv'
      BY <1>0, <1>11, <2>2, SlotKept DEF OutboxInv
    <2>7. QED
      BY <1>0, <1>9, <1>10, <1>15, <2>1, <2>5, <2>6, StepInv
  <1>16. CASE th' = [th EXCEPT ![p] = Called(n, "ensure", "flush")] /\ aside' = aside \cup {i}
    <2> DEFINE c == Called(n, "ensure", "flush")
    <2>1. /\ c \in Recs /\ c.pc = "ensure" /\ c.seen = n.seen /\ Lists(c) \subseteq Lists(n)
          /\ (Holds(c) <=> Holds(n)) /\ HoldsOnce(c)
      BY <1>7, <1>11, CalledFacts DEF Labels
    <2> HIDE DEF c
    <2>2. ListedNext(rest, {})
      BY <1>13, <1>16 DEF ListedNext
    <2>3. Sending(c) = {}
      BY <2>1 DEF Sending
    <2>4. ThreadOrderNext(c)
      BY <1>11, <1>12, <2>1, <2>2, <2>3 DEF ThreadOrderNext
    <2>5. th'[p] = c /\ Others(p) => SlotInv'
      BY <1>0, <1>11, <2>1, SlotKept DEF OutboxInv
    <2>6. QED
      BY <1>0, <1>7, <1>9, <1>10, <1>16, <2>1, <2>4, <2>5, StepInv DEF c
  <1>17. QED
    BY <1>1, <1>14, <1>15, <1>16

-----------------------------------------------------------------------------
(* A new instruction, and the end of the run. *)

\* The order of a thread that keeps its lists while an instruction is made or enqueued.
LEMMA MadeOrder ==
    ASSUME OutboxInv, aside' = aside,
           \A i \in Instructions : msg[i] # None => msg'[i] = msg[i] /\ behind'[i] = behind[i],
           NEW q \in Threads
    PROVE  ThreadOrderNext(th[q])
  <1>1. th[q] \in Recs /\ th[q].item \in Instructions /\ ThreadOrder(th[q])
    BY DEF OutboxInv, OutboxTypes, ThreadTypes, Recs, OrderInv
  <1>2. ASSUME NEW i \in Instructions, msg[i] # None
        PROVE  behind'[i] = behind[i] /\ \A k \in behind[i] : msg'[k] = msg[k]
    BY <1>2 DEF OutboxInv, OutboxTypes, MadeTypes, OrderInv
  <1>3. ASSUME NEW is \in SUBSET Instructions, NEW x, Listed(is, x) PROVE ListedNext(is, x)
    <2> SUFFICES ASSUME NEW i \in is
                 PROVE  /\ msg'[i].mode = "resume"
                        /\ \A k \in behind'[i] : msg'[k].status = "queued" /\ msg'[k].mode = "resume"
                                                    => k \in is \cup aside' \cup x
      BY DEF ListedNext
    <2>1. msg[i].mode = "resume" /\ msg[i] # None
      BY <1>3, NoneFacts DEF Listed, OutboxInv, OutboxTypes, Modes
    <2>2. QED
      BY <1>2, <1>3, <2>1 DEF Listed, IsDeliveryPending
  <1>4. \A is \in Lists(th[q]) : ListedNext(is, Sending(th[q]))
    BY <1>1, <1>3, ListsTyped DEF ThreadOrder
  <1>5. th[q].pc = "send" /\ th[q].kind = "flush" => ListedNext({th[q].item}, {})
    BY <1>1, <1>3 DEF ThreadOrder
  <1>6. th[q].pc = "send" /\ th[q].kind = "boundary" =>
            msg'[th[q].item] # None /\ NoOlderTurnNext(th[q].item)
    BY <1>1, <1>2 DEF ThreadOrder, NoOlderTurn, NoOlderTurnNext, IsDeliveryPending
  <1>7. QED
    BY <1>4, <1>5, <1>6 DEF ThreadOrderNext

LEMMA NewOrder ==
    ASSUME OutboxInv, NEW p \in Threads, Others(p), NEW t, th'[p] = t, t.pc \in {"enqueue", "deliver"},
           t.todo = th[p].todo, t.ret = th[p].ret, th[p].pc \notin {"send", "record"}, aside' = aside,
           \A i \in Instructions : msg[i] # None => msg'[i] = msg[i] /\ behind'[i] = behind[i]
    PROVE  \A q \in Threads : ThreadOrder(th[q])'
  <1>1. \A q \in Threads : ThreadOrderNext(th[q])
    BY MadeOrder
  <1>2. Lists(t) = Lists(th[p]) /\ Sending(t) = {} /\ Sending(th[p]) = {}
    BY DEF Lists, Sending
  <1>3. ThreadOrderNext(t)
    BY <1>1, <1>2 DEF ThreadOrderNext
  <1>4. \A q \in Threads : ThreadOrderNext(th'[q])
    BY <1>1, <1>3 DEF Others
  <1>5. QED
    BY <1>4 DEF ThreadOrder, ThreadOrderNext, Listed, ListedNext, NoOlderTurn, NoOlderTurnNext,
       IsDeliveryPending

LEMMA SendInstructionInv == ASSUME OutboxInv, NEW p \in Threads, SendInstruction(p) PROVE OutboxInv'
  <1>0. /\ p \in Callers /\ p \in Instructions /\ th[p].pc = "start"
        /\ UNCHANGED <<caps, inFlight, msg, sent, over, late, aside>>
    BY DEF SendInstruction, At, Instructions
  <1>1. TaskTypes'
    BY TaskSame DEF SendInstruction
  <1>2. CASE Returns(p) /\ UNCHANGED madeVars
    <2>1. th' = [th EXCEPT ![p] = Returned(th[p])] /\ Silent(p, Returned(th[p]))
      BY <1>0, <1>2, RecFacts, ReturnQuiet DEF Returns
    <2>2. QED
      BY <1>0, <1>1, <1>2, <2>1, MsgSame, QuietStep
  <1>3. CASE /\ clock' = clock + 1
             /\ created' = [created EXCEPT ![p] = clock']
             /\ behind' = [behind EXCEPT ![p] = PendingInstructions(selectInstructionRoute)]
             /\ th' = [th EXCEPT ![p].pc = "enqueue", ![p].mode = selectInstructionRoute]
    <2> DEFINE m == selectInstructionRoute
               t == [th[p] EXCEPT !.pc = "enqueue", !.mode = m]
    <2>1. m \in Modes
      BY DEF selectInstructionRoute, Modes
    <2>2. th' = [th EXCEPT ![p] = t]
      BY <1>3
    <2>3. behind' = [behind EXCEPT ![p] = PendingInstructions(m)]
      BY <1>3
    <2> HIDE DEF m
    <2>4. t \in Recs /\ Counted(t.seen) /\ t.pc = "enqueue" /\ t.ret = th[p].ret /\ t.todo = th[p].todo
          /\ t.mode = m
      BY <2>1, RecFacts DEF Recs, Labels
    <2> HIDE DEF t
    <2>5. ThreadTypes' /\ th'[p] = t /\ Others(p)
      BY <1>0, <2>1, <2>2, <2>4, ThreadUpdate DEF OutboxInv, OutboxTypes
    <2>6. msg[p] = None
      BY <1>0 DEF OutboxInv, OrderInv
    <2>7. /\ created \in [Instructions -> 0 .. clock] /\ clock \in Nat
          /\ behind \in [Instructions -> SUBSET Instructions] /\ aside \subseteq Instructions
      BY DEF OutboxInv, OutboxTypes, MadeTypes
    <2>8. PendingInstructions(m) \in SUBSET Instructions
      BY DEF PendingInstructions
    <2>9. /\ created'[p] = clock + 1 /\ behind'[p] = PendingInstructions(m)
          /\ \A i \in Instructions : i # p => created'[i] = created[i] /\ behind'[i] = behind[i]
      BY <1>0, <1>3, <2>3, <2>7
    <2>10. MadeTypes'
      BY <1>0, <1>3, <2>3, <2>7, <2>8 DEF MadeTypes
    <2>11. OutboxTypes'
      BY <1>0, <1>1, <2>5, <2>10 DEF OutboxInv, OutboxTypes, MsgTypes
    <2>12. SlotInv'
      <3>1. (Holds(t) <=> Holds(th[p])) /\ HoldsOnce(t)
        BY <1>0, <2>4, RecFacts DEF Holds, HoldsOnce
      <3>2. QED
        BY <1>0, <2>5, <3>1, SlotKept DEF OutboxInv
    <2>13. LostInv'
      <3>1. \A i \in Instructions : Moves(i) /\ sent'[i] >= sent[i] /\ sent'[i] \in Nat
        BY <1>0 DEF Moves, OutboxInv, OutboxTypes
      <3>2. QED
        BY <1>0, <2>4, <2>5, <2>11, <3>1, LostKept DEF OutboxInv, OutboxTypes
    <2>14. ASSUME NEW i \in Instructions, NEW k \in behind'[i]
           PROVE  msg'[k] # None /\ created'[k] < created'[i]
      <3>1. CASE i = p
        <4>1. k \in Instructions /\ msg[k].status = "queued"
          BY <2>9, <2>14, <3>1 DEF PendingInstructions, IsDeliveryPending
        <4>2. msg[k] # None /\ k # p
          BY <2>6, <4>1 DEF None
        <4>3. created'[k] = created[k] /\ created[k] \in 0 .. clock
          BY <2>7, <2>9, <4>1, <4>2
        <4>4. QED
          BY <1>0, <2>7, <2>9, <3>1, <4>2, <4>3
      <3>2. CASE i # p
        <4>1. k \in Instructions /\ msg[k] # None /\ created[k] < created[i] /\ created'[i] = created[i]
          BY <2>7, <2>9, <2>14, <3>2 DEF OutboxInv, OrderInv
        <4>2. k # p
          BY <2>6, <4>1
        <4>3. QED
          BY <1>0, <2>9, <4>1, <4>2
      <3>3. QED
        BY <3>1, <3>2
    <2>15. \A i \in Instructions : msg[i] # None => msg'[i] = msg[i] /\ behind'[i] = behind[i]
      BY <1>0, <2>6, <2>9
    <2>16. \A q \in Callers : th'[q].pc \in {"start", "enqueue"} => msg'[q] = None
      BY <1>0, <2>5, <2>6 DEF Others, OutboxInv, OrderInv, Threads
    <2>17. \A i \in Instructions : msg'[i].mode = "resume" => NoOlderTurnNext(i)
      <3> SUFFICES ASSUME NEW i \in Instructions, msg'[i].mode = "resume" PROVE NoOlderTurnNext(i)
        OBVIOUS
      <3>1. msg[i].mode = "resume" /\ msg[i] # None
        BY <1>0 DEF None
      <3>2. QED
        BY <1>0, <2>15, <3>1 DEF OutboxInv, OrderInv, NoOlderTurn, NoOlderTurnNext, IsDeliveryPending
    <2>18. \A q \in Callers : th'[q].pc = "enqueue" /\ th'[q].mode = "resume" =>
              \A k \in behind'[q] : msg'[k].mode = "resume"
      <3> SUFFICES ASSUME NEW q \in Callers, th'[q].pc = "enqueue", th'[q].mode = "resume",
                          NEW k \in behind'[q]
                   PROVE  msg'[k].mode = "resume"
        OBVIOUS
      <3>1. CASE q = p
        BY <1>0, <2>4, <2>5, <2>9, <3>1 DEF PendingInstructions
      <3>2. CASE q # p
        <4>1. q \in Threads /\ q \in Instructions
          BY DEF Threads, Instructions
        <4>2. th[q].pc = "enqueue" /\ th[q].mode = "resume" /\ k \in behind[q]
          BY <2>5, <2>9, <3>2, <4>1 DEF Others
        <4>3. QED
          BY <1>0, <4>2 DEF OutboxInv, OrderInv
      <3>3. QED
        BY <3>1, <3>2
    <2>19. \A q \in Threads : ThreadOrder(th[q])'
      BY <1>0, <2>4, <2>5, <2>15, NewOrder
    <2>20. OrderInv'
      BY <2>14, <2>16, <2>17, <2>18, <2>19 DEF OrderInv, NoOlderTurn, NoOlderTurnNext, IsDeliveryPending
    <2>21. QED
      BY <2>11, <2>12, <2>13, <2>20 DEF OutboxInv
  <1>4. QED
    BY <1>2, <1>3 DEF SendInstruction

LEMMA QueueInstructionInv == ASSUME OutboxInv, NEW p \in Threads, QueueInstruction(p) PROVE OutboxInv'
  <1> DEFINE m == th[p].mode
             t == [th[p] EXCEPT !.pc = "deliver"]
             n == [status |-> "queued", mode |-> m]
  <1>0. /\ th[p].pc = "enqueue" /\ th' = [th EXCEPT ![p] = t]
        /\ msg' = [msg EXCEPT ![p] = n]
        /\ late' = IF over THEN late \cup {p} ELSE late
        /\ UNCHANGED <<caps, inFlight, madeVars, sent, over, aside>>
    BY DEF QueueInstruction, At, Goto
  <1>1. TaskTypes'
    BY TaskSame DEF QueueInstruction
  <1>2. m \in Modes /\ p \in Callers /\ p \in Instructions
    BY <1>0 DEF OutboxInv, OutboxTypes, ThreadTypes, Instructions
  <1>3. msg[p] = None /\ MsgTypes
    BY <1>0, <1>2 DEF OutboxInv, OutboxTypes, OrderInv
  <1> HIDE DEF m
  <1>4. n \in Messages /\ n.status = "queued" /\ n.mode = m /\ n # None
    BY <1>2 DEF Messages, None
  <1>5. t \in Recs /\ Counted(t.seen) /\ t.pc = "deliver" /\ t.ret = th[p].ret /\ t.todo = th[p].todo
        /\ t.mode = m
    BY <1>2, RecFacts DEF Recs, Labels, m
  <1> HIDE DEF n, t
  <1>6. msg'[p] = n /\ (\A i \in Instructions : i # p => msg'[i] = msg[i])
        /\ msg' \in [Instructions -> Messages]
    BY <1>0, <1>2, <1>3, <1>4 DEF MsgTypes
  <1>7. MsgTypes'
    <2>1. \A i \in Instructions : msg'[i].status = "absent" <=> msg'[i] = None
      BY <1>3, <1>4, <1>6 DEF MsgTypes
    <2>2. QED
      BY <1>6, <2>1 DEF MsgTypes
  <1>8. ThreadTypes' /\ th'[p] = t /\ Others(p)
    BY <1>0, <1>2, <1>5, ThreadUpdate DEF OutboxInv, OutboxTypes
  <1>9. clock' = clock /\ created' = created /\ behind' = behind
    BY <1>0 DEF madeVars
  <1>10. OutboxTypes'
    BY <1>0, <1>1, <1>2, <1>7, <1>8, <1>9 DEF OutboxInv, OutboxTypes, MadeTypes
  <1>11. SlotInv'
    <2>1. (Holds(t) <=> Holds(th[p])) /\ HoldsOnce(t)
      BY <1>0, <1>5, RecFacts DEF Holds, HoldsOnce
    <2>2. QED
      BY <1>0, <1>8, <2>1, SlotKept DEF OutboxInv
  <1>12. LostInv'
    <2>1. \A i \in Instructions : msg'[i].status = "delivered" => sent'[i] > 0
      BY <1>0, <1>4, <1>6 DEF OutboxInv, LostInv, WasSent
    <2>2. \A q \in Threads : th'[q].pc = "record" /\ th'[q].ok => sent'[th'[q].item] > 0
      BY <1>0, <1>5, <1>8 DEF Others, OutboxInv, LostInv, WasSent
    <2>3. over' => \A i \in Instructions : msg'[i].status = "queued" => i \in late'
      BY <1>0, <1>6 DEF OutboxInv, LostInv, IsDeliveryPending
    <2>4. QED
      BY <2>1, <2>2, <2>3 DEF LostInv, WasSent, IsDeliveryPending
  <1>13. \A i \in Instructions : \A k \in behind[i] :
             k \in Instructions /\ msg[k] # None /\ k # p /\ msg'[k] = msg[k] /\ created[k] < created[i]
    BY <1>3, <1>6 DEF OutboxInv, OrderInv, OutboxTypes, MadeTypes
  <1>14. OrderInv'
    <2>1. \A i \in Instructions : \A k \in behind'[i] : msg'[k] # None /\ created'[k] < created'[i]
      BY <1>9, <1>13
    <2>2. \A q \in Callers : th'[q].pc \in {"start", "enqueue"} => msg'[q] = None
      BY <1>5, <1>6, <1>8 DEF Others, OutboxInv, OrderInv, Threads, Instructions
    <2>3. \A i \in Instructions : msg'[i].mode = "resume" => NoOlderTurnNext(i)
      <3> SUFFICES ASSUME NEW i \in Instructions, msg'[i].mode = "resume" PROVE NoOlderTurnNext(i)
        OBVIOUS
      <3>1. CASE i = p
        <4>1. th[p].mode = "resume"
          BY <1>4, <1>6, <3>1 DEF m
        <4>2. \A k \in behind[p] : msg[k].mode = "resume"
          BY <1>0, <1>2, <4>1 DEF OutboxInv, OrderInv
        <4>3. QED
          BY <1>2, <1>9, <1>13, <3>1, <4>2 DEF NoOlderTurnNext
      <3>2. CASE i # p
        <4>1. NoOlderTurn(i)
          BY <1>6, <3>2 DEF OutboxInv, OrderInv
        <4>2. QED
          BY <1>9, <1>13, <4>1 DEF NoOlderTurn, NoOlderTurnNext, IsDeliveryPending
      <3>3. QED
        BY <3>1, <3>2
    <2>4. \A q \in Callers : th'[q].pc = "enqueue" /\ th'[q].mode = "resume" =>
              \A k \in behind'[q] : msg'[k].mode = "resume"
      <3> SUFFICES ASSUME NEW q \in Callers, th'[q].pc = "enqueue", th'[q].mode = "resume",
                          NEW k \in behind[q]
                   PROVE  msg'[k].mode = "resume"
        BY <1>9
      <3>1. q \in Threads /\ q \in Instructions /\ q # p
        BY <1>5, <1>8 DEF Threads, Instructions
      <3>2. th[q].pc = "enqueue" /\ th[q].mode = "resume"
        BY <1>8, <3>1 DEF Others
      <3>3. QED
        BY <1>13, <3>1, <3>2 DEF OutboxInv, OrderInv
    <2>5. \A q \in Threads : ThreadOrder(th[q])'
      BY <1>0, <1>3, <1>5, <1>6, <1>8, <1>9, NewOrder
    <2>6. QED
      BY <2>1, <2>2, <2>3, <2>4, <2>5 DEF OrderInv, NoOlderTurn, NoOlderTurnNext, IsDeliveryPending
  <1>15. QED
    BY <1>10, <1>11, <1>12, <1>14 DEF OutboxInv

LEMMA FinishRunInv == ASSUME OutboxInv, FinishRun PROVE OutboxInv'
  <1>0. /\ th[Wave].pc = "done" /\ Wave \in Threads /\ over' = TRUE /\ th' = th
        /\ UNCHANGED <<caps, inFlight, madeVars, aside, sent, late>>
    BY DEF FinishRun, At, Threads
  <1> DEFINE is == {i \in Instructions : msg[i] # None}
  <1>1. Settle(is, "expired") /\ is \in SUBSET Instructions
    BY DEF FinishRun, expireTaskMessages
  <1>2. RouterMoves /\ MsgTypes'
    <2> HIDE DEF is
    <2> QED BY <1>0, <1>1, MsgSettled
  <1>3. ThreadTypes' /\ Others(Wave) /\ TaskTypes'
    BY <1>0, TaskSame DEF Others, FinishRun, OutboxInv, OutboxTypes, ThreadTypes
  <1>4. OutboxTypes'
    BY <1>0, <1>2, <1>3 DEF OutboxInv, OutboxTypes, MadeTypes, RouterMoves, madeVars
  <1>5. SlotInv'
    BY <1>0 DEF OutboxInv, SlotInv
  <1>6. \A i \in Instructions : msg'[i].status # "queued"
    <2>1. \A i \in Instructions : /\ msg[i] = None => msg'[i] = None
                                  /\ i \in is /\ msg[i].status = "queued" => msg'[i].status = "expired"
                                  /\ msg'[i].status \in {msg[i].status, "expired"}
      <3> HIDE DEF is
      <3> QED BY <1>1, SettleFacts DEF OutboxInv, OutboxTypes
    <2>2. QED
      BY <2>1 DEF None
  <1>7. LostInv'
    <2>1. \A i \in Instructions : msg'[i].status = "delivered" => sent'[i] > 0
      BY <1>0, <1>2 DEF RouterMoves, Moves, OutboxInv, LostInv, WasSent
    <2>2. QED
      BY <1>0, <1>6, <2>1 DEF OutboxInv, LostInv, WasSent, IsDeliveryPending
  <1>8. OrderInv'
    <2>1. ThreadOrderNext(th'[Wave])
      BY <1>0, <1>2, ThreadOrderKept DEF OutboxInv
    <2>2. QED
      BY <1>0, <1>2, <1>3, <2>1, OrderKept DEF OutboxInv
  <1>9. QED
    BY <1>4, <1>5, <1>7, <1>8 DEF OutboxInv

-----------------------------------------------------------------------------
(* The theorems. *)

LEMMA OutboxInitInv == ASSUME OutboxInit PROVE OutboxInv
  <1>0. /\ caps \in CapabilitySets /\ task \in {NewTask, ExitedResumable}
        /\ active = 0 /\ sessions = 0 /\ alive = {} /\ inFlight = FALSE
        /\ created = [i \in Instructions |-> IF msg[i] = None THEN 0 ELSE 1] /\ clock = 1
        /\ sent = [i \in Instructions |-> 0] /\ over = FALSE /\ late = {}
        /\ behind = [i \in Instructions |-> {}] /\ aside = {}
    BY DEF OutboxInit
  <1>1. PICK left \in {None} \cup [status : {"queued"}, mode : LeftoverModes] :
             msg = [i \in Instructions |-> IF i = Leftover THEN left ELSE None]
    BY DEF OutboxInit
  <1>2. PICK crew \in Crews :
             th = [p \in Threads |-> IF p \in crew THEN Resting ELSE [Resting EXCEPT !.pc = "away"]]
    BY DEF OutboxInit
  <1>3. task \in Tasks /\ Counted(task)
    <2>1. ExitedResumable \in Tasks /\ ~ExitedResumable.current
      <3>1. NewTask \in Tasks /\ ~NewTask.current
        BY NewTaskFacts DEF NewTask
      <3>2. QED
        BY <3>1 DEF ExitedResumable, Tasks
    <2>2. QED
      BY <1>0, <2>1, NewTaskFacts DEF Counted
  <1>4. TaskTypes /\ MadeTypes
    BY <1>0, <1>3 DEF TaskTypes, MadeTypes
  <1>5. None \in Messages /\ None.status = "absent"
    BY DEF None, Messages
  <1>6. left = None \/ (left \in Messages /\ left.status = "queued")
    BY <1>1 DEF LeftoverModes, Messages, Modes
  <1>7. MsgTypes /\ \A i \in Instructions : msg[i].status \in {"absent", "queued"}
    BY <1>1, <1>5, <1>6 DEF MsgTypes
  <1>8. /\ Resting \in Recs /\ Resting.pc = "start" /\ Resting.seen = NewTask
        /\ Resting.ret = <<>> /\ Resting.todo = {}
    <2>1. <<>> \in Seq(Frames) /\ Leftover \in Instructions
      BY DEF Instructions
    <2>2. QED
      BY <2>1, NewTaskFacts DEF Resting, Recs, Labels, Kinds
  <1>a. LET r == [Resting EXCEPT !.pc = "away"] IN
        r \in Recs /\ r.pc = "away" /\ r.seen = NewTask /\ r.ret = <<>> /\ r.todo = {}
    BY <1>8 DEF Recs, Labels
  <1>9. \A p \in Threads : th[p].pc \in {"start", "away"}
    BY <1>2, <1>8, <1>a
  <1>10. \A p \in Threads : th[p] \in Recs /\ th[p].seen = NewTask /\ th[p].ret = <<>> /\ th[p].todo = {}
    BY <1>2, <1>8, <1>a
  <1>11. th \in [Threads -> Recs]
    <2>1. th = [p \in Threads |-> th[p]]
      BY <1>2
    <2>2. QED
      BY <1>10, <2>1
  <1>12. ThreadTypes
    BY <1>9, <1>10, <1>11, NewTaskFacts DEF ThreadTypes
  <1>13. OutboxTypes
    BY <1>0, <1>4, <1>7, <1>12 DEF OutboxTypes
  <1>14. \A p \in Threads : ~Holds(th[p]) /\ HoldsOnce(th[p])
    BY <1>9, <1>10 DEF Holds, HoldsOnce
  <1>15. SlotInv
    BY <1>0, <1>14 DEF SlotInv
  <1>16. LostInv
    BY <1>0, <1>7, <1>9 DEF LostInv
  <1>17. \A p \in Threads : \A is \in Lists(th[p]) : is = {}
    BY <1>10 DEF Lists
  <1>18. \A p \in Threads : ThreadOrder(th[p])
    BY <1>9, <1>17 DEF ThreadOrder, Listed
  <1>19. \A p \in Callers : msg[p] = None
    BY <1>1, LeftoverApart DEF Instructions
  <1>20. OrderInv
    BY <1>0, <1>9, <1>18, <1>19 DEF OrderInv, NoOlderTurn, Threads
  <1>21. QED
    BY <1>13, <1>15, <1>16, <1>20 DEF OutboxInv

LEMMA ThreadInv == ASSUME OutboxInv, NEW p \in Threads, Thread(p) PROVE OutboxInv'
  <1>1. CASE SendInstruction(p) \/ QueueInstruction(p) \/ deliverInstruction(p)
             \/ Send(p) \/ RecordAttempt(p) \/ deliverQueuedToActiveSession(p) \/ FlushEnds(p)
    BY <1>1, SendInstructionInv, QueueInstructionInv, deliverInstructionInv, SendInv,
       RecordAttemptInv, deliverQueuedInv, FlushEndsInv
  <1>2. CASE EnsureResumeAndFlushOutbox(p) \/ ClaimResume(p) \/ WaitForResume(p) \/ ReleaseResume(p)
    BY <1>2, EnsureResumeInv, ClaimResumeInv, WaitForResumeInv, ReleaseResumeInv
  <1>3. CASE StartWave(p) \/ executeTask(p) \/ StartAttempt(p)
             \/ SpawnSession(p) \/ SpawnFails(p) \/ RecordSpawn(p)
    BY <1>3, StartWaveInv, executeTaskInv, StartAttemptInv, SpawnSessionInv, SpawnFailsInv,
       RecordSpawnInv
  <1>4. CASE SessionEnds(p) \/ startNextTurnAtBoundary(p) \/ ResolveExit(p) \/ FinishTask(p)
             \/ ExpireTask(p) \/ Unregister(p)
    BY <1>4, SessionEndsInv, startNextTurnInv, ResolveExitInv, FinishTaskInv, ExpireTaskInv,
       UnregisterInv
  <1>5. QED
    BY <1>1, <1>2, <1>3, <1>4 DEF Thread

LEMMA OutboxNextInv == ASSUME OutboxInv, [OutboxNext]_outboxVars PROVE OutboxInv'
  <1>1. CASE UNCHANGED outboxVars
    BY <1>1 DEF outboxVars, routerVars, madeVars, OutboxInv, OutboxTypes, TaskTypes, MsgTypes,
       MadeTypes,
       ThreadTypes, SlotInv, LostInv, WasSent, IsDeliveryPending, OrderInv, NoOlderTurn, ThreadOrder, Listed
  <1>2. QED
    BY <1>1, ThreadInv, FinishRunInv DEF OutboxNext

\* In every reachable state the slot of resumeInFlight has one holder, what is told of an
\* instruction is true, and nothing older waits behind what a flush or a boundary is to send.
THEOREM OutboxInvariant == OutboxSpec => []OutboxInv
  <1>1. QED
    BY OutboxInitInv, OutboxNextInv, PTL DEF OutboxSpec

LEMMA TypesOfInv == ASSUME OutboxInv PROVE OutboxTypeOK
  <1>1. \A i \in Instructions : msg[i] \in Messages
    BY DEF OutboxInv, OutboxTypes, MsgTypes
  <1>2. \A p \in Threads : th[p].pc \in Labels /\ th[p].kind \in Kinds /\ th[p].ret \in Seq(Frames)
            /\ th[p].todo \subseteq Instructions /\ th[p].seen \in Tasks
    BY RecFacts DEF Recs
  <1>3. QED
    BY <1>2 DEF OutboxTypeOK, OutboxInv, OutboxTypes, TaskTypes, MsgTypes, MadeTypes, Messages

\* Of the callers that ask for a resume at once only one starts an attempt, and none leaves
\* the slot of resumeInFlight taken (EnsureResumeAndFlushOutbox).
THEOREM OutboxOneResume == OutboxSpec => []OneResume
  <1>1. ASSUME OutboxInv PROVE OneResume
    <2>1. \A p \in Threads : Resuming(p) <=> Holds(th[p])
      BY DEF Resuming, Holds
    <2>2. QED
      BY <1>1, <2>1, TypesOfInv DEF OneResume, OutboxInv, SlotInv
  <1>2. QED
    BY <1>1, OutboxInvariant, PTL

\* No flush and no boundary sends an instruction before an older one that waits for the same
\* way, unless a flush laid that one aside (deliverQueuedToActiveSession, startNextTurnAtBoundary).
THEOREM OutboxInOrder == OutboxSpec => []InOrder
  <1>1. ASSUME OutboxInv PROVE InOrder
    <2> SUFFICES ASSUME NEW p \in Threads, th[p].pc = "send", th[p].kind # "steer",
                        NEW k \in behind[th[p].item], IsDeliveryPending(k),
                        msg[k].mode = (IF th[p].kind = "boundary" THEN "next_turn" ELSE "resume")
                 PROVE  k \in aside
      BY DEF InOrder, At
    <2>1. th[p].item \in Instructions /\ th[p].kind \in Kinds /\ ThreadOrder(th[p])
      BY <1>1, RecFacts DEF Recs, OutboxInv, OrderInv
    <2>2. CASE th[p].kind = "boundary"
      BY <2>1, <2>2 DEF ThreadOrder, NoOlderTurn
    <2>3. CASE th[p].kind = "flush"
      <3>1. Listed({th[p].item}, {})
        BY <2>1, <2>3 DEF ThreadOrder
      <3>2. k \in {th[p].item} \cup aside
        BY <2>3, <3>1 DEF Listed
      <3>3. k # th[p].item
        <4>1. k \in Instructions /\ created[k] < created[th[p].item]
          BY <1>1, <2>1 DEF OutboxInv, OrderInv, OutboxTypes, MadeTypes
        <4>2. created[k] \in Int
          BY <1>1, <4>1 DEF OutboxInv, OutboxTypes, MadeTypes
        <4>3. QED
          BY <4>1, <4>2
      <3>4. QED
        BY <3>2, <3>3
    <2>4. QED
      BY <2>1, <2>2, <2>3 DEF Kinds
  <1>2. QED
    BY <1>1, OutboxInvariant, PTL

\* A delivery that is recorded was accepted by a harness, and when the run is over and all have
\* returned nothing is queued but what was enqueued behind its end (finishRun expires the rest).
THEOREM OutboxNeverSilentlyLost == OutboxSpec => []NeverSilentlyLost
  <1>1. ASSUME OutboxInv PROVE NeverSilentlyLost
    BY <1>1 DEF NeverSilentlyLost, OutboxInv, LostInv
  <1>2. QED
    BY <1>1, OutboxInvariant, PTL

\* What a step may do to an instruction: it is made once, leaves the queue for good, and is not
\* sent another way than it was queued for, save as a resume when no older one waits its turn.
MovesOn(i) ==
    \/ Moves(i)
    \/ msg[i] = None /\ i \in Callers /\ At(i, "enqueue") /\ msg'[i].status = "queued"

LEMMA StepMovesOn ==
    ASSUME OutboxInv, [OutboxNext]_outboxVars
    PROVE  \A i \in Instructions : MovesOn(i)
  <1>0. MsgTypes
    BY DEF OutboxInv, OutboxTypes
  <1>1. CASE msg' = msg
    BY <1>0, <1>1, OutboxNextInv DEF MovesOn, Moves, OutboxInv, LostInv, WasSent
  <1>2. ASSUME NEW is \in SUBSET Instructions, NEW next \in {"failed", "expired"}, Settle(is, next)
        PROVE  \A i \in Instructions : Moves(i)
    BY <1>0, <1>2, SettleFacts DEF Moves
  <1>3. CASE expireTaskMessages
    BY <1>2, <1>3 DEF expireTaskMessages, MovesOn
  <1>4. ASSUME NEW p \in Threads, Thread(p), msg' # msg, ~expireTaskMessages
        PROVE  \A i \in Instructions : MovesOn(i)
    <2>1. CASE QueueInstruction(p)
      <3>1. p \in Callers /\ p \in Instructions /\ msg[p] = None /\ msg \in [Instructions -> Messages]
        BY <2>1 DEF QueueInstruction, At, OutboxInv, OutboxTypes, ThreadTypes, OrderInv, MsgTypes, Instructions
      <3>2. msg'[p].status = "queued" /\ \A i \in Instructions : i # p => msg'[i] = msg[i]
        BY <2>1, <3>1 DEF QueueInstruction
      <3>3. \A i \in Instructions : i # p => Moves(i)
        BY <3>2 DEF Moves
      <3>4. MovesOn(p)
        BY <2>1, <3>1, <3>2 DEF MovesOn, QueueInstruction
      <3>5. QED
        BY <3>3, <3>4 DEF MovesOn
    <2>2. CASE deliverInstruction(p)
      <3>1. p \in Instructions /\ Settle({p}, "failed")
        BY <1>4, <2>2 DEF deliverInstruction, At, OutboxInv, OutboxTypes, ThreadTypes, Instructions, Modes
      <3>2. QED
        BY <1>2, <3>1 DEF MovesOn
    <2>3. CASE RecordAttempt(p)
      <3> DEFINE i == th[p].item
                 next == IF th[p].ok THEN "delivered" ELSE "failed"
      <3>1. Settle({i}, next) /\ sent' = sent /\ i \in Instructions
        BY <2>3, RecFacts DEF RecordAttempt, Recs
      <3>2. th[p].ok => sent[i] > 0
        BY <2>3 DEF RecordAttempt, At, OutboxInv, LostInv, WasSent
      <3> HIDE DEF i
      <3>3. \A j \in Instructions : /\ msg[j] = None => msg'[j] = None
                                    /\ msg[j] # None => msg'[j] # None
                                    /\ msg'[j].mode = msg[j].mode
                                    /\ msg'[j].status \in {msg[j].status, next}
                                    /\ j \notin {i} => msg'[j] = msg[j]
        BY <1>0, <3>1, SettleFacts
      <3>4. QED
        BY <3>1, <3>2, <3>3 DEF Moves, MovesOn
    <2>4. CASE ClaimResume(p)
      <3>1. Settle(PendingInstructions("resume"), "failed")
        BY <1>4, <2>4 DEF ClaimResume
      <3>2. QED
        BY <1>2, <3>1 DEF MovesOn, PendingInstructions
    <2>5. CASE startNextTurnAtBoundary(p)
      <3> DEFINE i == Oldest(PendingInstructions("next_turn"))
      <3>1. /\ PendingInstructions("next_turn") # {}
            /\ Settle({i}, "failed") \/ msg' = [msg EXCEPT ![i].mode = "resume"]
        BY <1>4, <2>5 DEF startNextTurnAtBoundary, handleInactiveQueuedInstruction
      <3>2. i \in Instructions /\ msg[i].status = "queued" /\ msg[i].mode = "next_turn" /\ NoOlderTurn(i)
        BY <3>1, OldestTurn
      <3> HIDE DEF i
      <3>3. CASE Settle({i}, "failed")
        BY <1>2, <3>2, <3>3 DEF MovesOn
      <3>4. CASE msg' = [msg EXCEPT ![i].mode = "resume"]
        <4>1. msg'[i] = [msg[i] EXCEPT !.mode = "resume"] /\ msg[i] \in Messages
              /\ \A j \in Instructions : j # i => msg'[j] = msg[j]
          BY <1>0, <3>2, <3>4 DEF MsgTypes
        <4>2. msg'[i].status = "queued" /\ msg'[i].mode = "resume"
          BY <3>2, <4>1 DEF Messages
        <4>3. QED
          <5>1. None.status = "absent"
            BY DEF None
          <5>2. Moves(i)
            BY <3>2, <4>2, <5>1 DEF Moves
          <5>3. \A j \in Instructions : j # i => Moves(j)
            BY <4>1 DEF Moves
          <5>4. QED
            BY <5>2, <5>3 DEF MovesOn
      <3>5. QED
        BY <3>1, <3>3, <3>4
    <2>6. CASE SendInstruction(p) \/ Send(p) \/ deliverQueuedToActiveSession(p) \/ FlushEnds(p)
               \/ WaitForResume(p) \/ ReleaseResume(p) \/ StartWave(p) \/ executeTask(p) \/ StartAttempt(p)
      BY <1>4, <2>6 DEF SendInstruction, Send, deliverQueuedToActiveSession, FlushEnds, WaitForResume,
         ReleaseResume, StartWave, executeTask, StartAttempt, routerVars
    <2>7. CASE SpawnSession(p) \/ SpawnFails(p) \/ SessionEnds(p) \/ ResolveExit(p) \/ FinishTask(p)
               \/ Unregister(p)
      BY <1>4, <2>7 DEF SpawnSession, SpawnFails, SessionEnds, ResolveExit, FinishTask, Unregister, routerVars
    <2>8. CASE EnsureResumeAndFlushOutbox(p) \/ RecordSpawn(p) \/ ExpireTask(p)
      BY <1>4, <2>8 DEF EnsureResumeAndFlushOutbox, RecordSpawn, ExpireTask
    <2>9. QED
      BY <1>4, <2>1, <2>2, <2>3, <2>4, <2>5, <2>6, <2>7, <2>8 DEF Thread
  <1>5. msg' = msg \/ expireTaskMessages \/ \E p \in Threads : Thread(p)
    BY DEF OutboxNext, FinishRun, outboxVars, routerVars
  <1>6. QED
    BY <1>1, <1>3, <1>4, <1>5

\* No step puts an instruction back into the queue, changes its way but from a next turn to a
\* resume that overtakes no older one, or calls it delivered before a harness accepted it, whichever
\* threads act (RecordDeliveryAttempt, Transition, ReclassifyDeliveryMode).
THEOREM OutboxMovesOn == OutboxSpec => [][\A i \in Instructions : MovesOn(i)]_outboxVars
  <1>1. OutboxInv /\ [OutboxNext]_outboxVars => [\A i \in Instructions : MovesOn(i)]_outboxVars
    BY StepMovesOn
  <1>2. QED
    BY <1>1, OutboxInvariant, PTL DEF OutboxSpec
=============================================================================

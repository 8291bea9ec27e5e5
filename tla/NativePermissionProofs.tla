----------------------- MODULE NativePermissionProofs -----------------------
(***************************************************************************)
(* Proofs about NativePermission, for any number of resolvers, requests,   *)
(* attempts and crashes: what the journal says of a permission is what the *)
(* harness that asked for it has heard.                                    *)
(***************************************************************************)
EXTENDS NativePermission, FiniteSetTheorems, TLAPS

(* The inductive invariant. *)

Deciding == {"bind", "reread", "respond", "record"}
Holding == Deciding \cup {"recompute", "settle"}

\* TypeOK, and the records that the threads keep.
PermTypes ==
    /\ TypeOK
    /\ drv \in [pc : DriverPC, k : Nat, todo : SUBSET Nat]
    /\ res \in [Resolvers -> [pc : ResolverPC, k : Nat, decision : Decisions, ok : BOOLEAN]]

\* Who is past the lock of a message holds it; nobody works while the Supervisor is down.
LockInv ==
    /\ \A c \in Resolvers : res[c].pc # "idle" => res[c].k \in DOMAIN msg
    /\ \A c \in Resolvers : res[c].pc \in Holding => lock[res[c].k] = c
    /\ drv.pc \in {"bridge", "recompute"} => drv.k \in DOMAIN msg
    /\ drv.pc \notin {"bridge", "recompute", "settle"} => drv.k = 0
    /\ drv.pc \in {"recompute", "settle"} /\ drv.k # 0 => lock[drv.k] = Driver
    /\ drv.pc = "down" => active = 0 /\ \A c \in Resolvers : res[c].pc = "idle"

\* A resolver that has frozen its decision works on a pending message with that decision, for
\* the attempt that asked or for none, and takes a response for heard only if it was.
FlowInv ==
    \A c \in Resolvers :
       LET m == msg[res[c].k] IN
       /\ res[c].pc \in Deciding => m.status = "queued" /\ m.res = res[c].decision
       /\ res[c].pc \in {"reread", "respond"} => active \in {0, m.att}
       /\ res[c].pc = "record" /\ res[c].ok => res[c].decision \in got[m.att][m.req]

\* A request of an attempt has one message, and its harness has heard what is frozen there.
HeardInv ==
    /\ \A j, k \in DOMAIN msg : msg[j].att = msg[k].att /\ msg[j].req = msg[k].req => j = k
    /\ \A k \in DOMAIN msg : got[msg[k].att][msg[k].req] \subseteq {msg[k].res}
    /\ \A a \in Attempts, r \in Requests :
          got[a][r] # {} => \E k \in DOMAIN msg : msg[k].att = a /\ msg[k].req = r
    /\ \A k \in DOMAIN msg :
          /\ msg[k].status = "answered" => msg[k].res \in got[msg[k].att][msg[k].req]
          /\ msg[k].status = "expired" => msg[k].res = "none"

PermissionInv == PermTypes /\ LockInv /\ FlowInv /\ HeardInv

-----------------------------------------------------------------------------
(* Facts about the two sequences. *)

LEMMA MessageUpdate ==
    ASSUME NEW s \in Seq(Messages), NEW k \in DOMAIN s, NEW m \in Messages
    PROVE  /\ [s EXCEPT ![k] = m] \in Seq(Messages)
           /\ Len([s EXCEPT ![k] = m]) = Len(s)
           /\ DOMAIN [s EXCEPT ![k] = m] = DOMAIN s
  OBVIOUS

LEMMA ElementAdded ==
    ASSUME NEW S, NEW s \in Seq(S), NEW m \in S
    PROVE  /\ Append(s, m) \in Seq(S)
           /\ Len(Append(s, m)) = Len(s) + 1
           /\ DOMAIN Append(s, m) = DOMAIN s \cup {Len(s) + 1}
           /\ Len(s) + 1 \notin DOMAIN s
           /\ \A i \in DOMAIN s : Append(s, m)[i] = s[i]
           /\ Append(s, m)[Len(s) + 1] = m
  OBVIOUS

LEMMA LockAdded ==
    ASSUME TypeOK
    PROVE  /\ Append(lock, NoOne) \in [DOMAIN msg \cup {Len(msg) + 1} -> Threads \cup {NoOne}]
           /\ \A i \in DOMAIN msg : Append(lock, NoOne)[i] = lock[i]
           /\ Append(lock, NoOne)[Len(msg) + 1] = NoOne
  <1> DEFINE holders == Threads \cup {NoOne}
             n == Len(msg)
  <1>1. DOMAIN msg = 1 .. n /\ n \in Nat
    BY DEF TypeOK
  <1>2. lock \in [1 .. n -> holders] /\ NoOne \in holders
    BY <1>1 DEF TypeOK
  <1> HIDE DEF holders, n
  <1>3. lock \in Seq(holders) /\ Len(lock) = n
    BY <1>1, <1>2
  <1>4. /\ Append(lock, NoOne) \in Seq(holders)
        /\ DOMAIN Append(lock, NoOne) = DOMAIN lock \cup {n + 1}
        /\ \A i \in DOMAIN lock : Append(lock, NoOne)[i] = lock[i]
        /\ Append(lock, NoOne)[n + 1] = NoOne
    BY <1>2, <1>3, ElementAdded
  <1>5. \A q \in Seq(holders) : q \in [DOMAIN q -> holders]
    OBVIOUS
  <1>6. DOMAIN lock = DOMAIN msg
    BY <1>1, <1>2
  <1>7. QED
    BY <1>4, <1>5, <1>6 DEF holders, n

LEMMA ResUpdate ==
    ASSUME NEW m \in Messages, NEW d \in Decisions
    PROVE  /\ [m EXCEPT !.res = d] \in Messages
           /\ [m EXCEPT !.res = d].att = m.att /\ [m EXCEPT !.res = d].req = m.req
           /\ [m EXCEPT !.res = d].status = m.status /\ [m EXCEPT !.res = d].res = d
  BY DEF Messages

LEMMA StatusUpdate ==
    ASSUME NEW m \in Messages, NEW s \in {"answered", "expired"}
    PROVE  /\ [m EXCEPT !.status = s] \in Messages
           /\ [m EXCEPT !.status = s].att = m.att /\ [m EXCEPT !.status = s].req = m.req
           /\ [m EXCEPT !.status = s].res = m.res /\ [m EXCEPT !.status = s].status = s
  BY DEF Messages

\* Only the field changes that a step names.
LEMMA Frozen ==
    ASSUME TypeOK, NEW k \in DOMAIN msg, NEW d \in Decisions,
           msg' = [msg EXCEPT ![k].res = d]
    PROVE  /\ msg' \in Seq(Messages) /\ Len(msg') = Len(msg) /\ DOMAIN msg' = DOMAIN msg
           /\ \A i \in DOMAIN msg :
                 /\ msg'[i].att = msg[i].att /\ msg'[i].req = msg[i].req
                 /\ msg'[i].status = msg[i].status
                 /\ msg'[i].res = IF i = k THEN d ELSE msg[i].res
  <1> DEFINE m == [msg[k] EXCEPT !.res = d]
  <1>0. msg \in Seq(Messages) /\ msg[k] \in Messages
    BY DEF TypeOK
  <1>1. /\ m \in Messages /\ m.att = msg[k].att /\ m.req = msg[k].req
        /\ m.status = msg[k].status /\ m.res = d
    BY <1>0, ResUpdate
  <1>2. msg' = [msg EXCEPT ![k] = m]
    OBVIOUS
  <1> HIDE DEF m
  <1>3. QED
    BY <1>0, <1>1, <1>2, MessageUpdate

LEMMA Ended ==
    ASSUME TypeOK, NEW k \in DOMAIN msg, NEW s \in {"answered", "expired"},
           msg' = [msg EXCEPT ![k].status = s]
    PROVE  /\ msg' \in Seq(Messages) /\ Len(msg') = Len(msg) /\ DOMAIN msg' = DOMAIN msg
           /\ \A i \in DOMAIN msg :
                 /\ msg'[i].att = msg[i].att /\ msg'[i].req = msg[i].req
                 /\ msg'[i].res = msg[i].res
                 /\ msg'[i].status = IF i = k THEN s ELSE msg[i].status
  <1> DEFINE m == [msg[k] EXCEPT !.status = s]
  <1>0. msg \in Seq(Messages) /\ msg[k] \in Messages
    BY DEF TypeOK
  <1>1. /\ m \in Messages /\ m.att = msg[k].att /\ m.req = msg[k].req
        /\ m.res = msg[k].res /\ m.status = s
    BY <1>0, StatusUpdate
  <1>2. msg' = [msg EXCEPT ![k] = m]
    OBVIOUS
  <1> HIDE DEF m
  <1>3. msg' \in Seq(Messages) /\ Len(msg') = Len(msg) /\ DOMAIN msg' = DOMAIN msg
    BY <1>0, <1>1, <1>2, MessageUpdate
  <1>4. \A i \in DOMAIN msg : msg'[i] = IF i = k THEN m ELSE msg[i]
    BY <1>2
  <1>5. QED
    BY <1>1, <1>3, <1>4

-----------------------------------------------------------------------------
(* Facts about the threads. *)

ResolverRecord == [pc : ResolverPC, k : Nat, decision : Decisions, ok : BOOLEAN]

LEMMA GotoFacts ==
    ASSUME PermTypes, NEW c \in Resolvers, NEW label \in ResolverPC, Goto(c, label)
    PROVE  /\ res' \in [Resolvers -> ResolverRecord]
           /\ \A d \in Resolvers :
                 /\ res'[d].k = res[d].k /\ res'[d].decision = res[d].decision
                 /\ res'[d].ok = res[d].ok
                 /\ res'[d].pc = IF d = c THEN label ELSE res[d].pc
  BY DEF Goto, PermTypes, ResolverRecord

LEMMA IdleFacts ==
    /\ IdleResolver \in ResolverRecord
    /\ IdleResolver.pc = "idle" /\ IdleResolver.k = 0
    /\ IdleDriver \in [pc : DriverPC, k : Nat, todo : SUBSET Nat]
    /\ IdleDriver.pc = "session" /\ IdleDriver.k = 0 /\ IdleDriver.todo = {}
  BY DEF IdleResolver, IdleDriver, ResolverRecord, ResolverPC, DriverPC, Decisions

\* A resolver that goes back to rest.
LEMMA RestFacts ==
    ASSUME PermTypes, NEW c \in Resolvers, res' = [res EXCEPT ![c] = IdleResolver]
    PROVE  /\ res' \in [Resolvers -> ResolverRecord]
           /\ \A d \in Resolvers : d # c => res'[d] = res[d]
           /\ res'[c].pc = "idle" /\ res'[c].k = 0
  BY IdleFacts DEF PermTypes, ResolverRecord

\* PermTypes by its parts.
LEMMA TypesFrom ==
    ASSUME msg' \in Seq(Messages),
           asked' \in [Attempts -> SUBSET Requests],
           got' \in [Attempts -> [Requests -> SUBSET Decisions]],
           attempt' \in Attempts, active' \in {0, attempt'},
           lock' \in [DOMAIN msg' -> Threads \cup {NoOne}],
           blocked' \in BOOLEAN, term' \in BOOLEAN,
           drv' \in [pc : DriverPC, k : Nat, todo : SUBSET Nat],
           drv'.k \in 0 .. Len(msg'), drv'.todo \subseteq DOMAIN msg',
           res' \in [Resolvers -> ResolverRecord],
           \A c \in Resolvers : res'[c].k \in 0 .. Len(msg'),
           seen' \in [Threads -> BOOLEAN],
           crashes' \in 0 .. MaxCrashes, calls' \in 0 .. MaxCalls
    PROVE  PermTypes'
  <1>1. drv'.pc \in DriverPC /\ \A c \in Resolvers : res'[c].pc \in ResolverPC
    BY DEF ResolverRecord
  <1>2. TypeOK'
    BY <1>1 DEF TypeOK
  <1>3. QED
    BY <1>2 DEF PermTypes, ResolverRecord

\* The parts of PermTypes.
LEMMA TypesGive ==
    ASSUME PermTypes
    PROVE  /\ msg \in Seq(Messages) /\ Len(msg) \in Nat /\ DOMAIN msg = 1 .. Len(msg)
           /\ asked \in [Attempts -> SUBSET Requests]
           /\ got \in [Attempts -> [Requests -> SUBSET Decisions]]
           /\ attempt \in Attempts /\ active \in {0, attempt}
           /\ lock \in [DOMAIN msg -> Threads \cup {NoOne}]
           /\ blocked \in BOOLEAN /\ term \in BOOLEAN
           /\ drv \in [pc : DriverPC, k : Nat, todo : SUBSET Nat]
           /\ drv.k \in 0 .. Len(msg) /\ drv.todo \subseteq DOMAIN msg
           /\ res \in [Resolvers -> ResolverRecord]
           /\ \A c \in Resolvers : res[c].k \in 0 .. Len(msg)
           /\ seen \in [Threads -> BOOLEAN]
           /\ crashes \in 0 .. MaxCrashes /\ calls \in 0 .. MaxCalls
  BY DEF PermTypes, TypeOK, ResolverRecord

LEMMA MessageParts ==
    ASSUME PermTypes
    PROVE  \A i \in DOMAIN msg : msg[i].att \in Attempts /\ msg[i].req \in Requests
  <1>1. \A i \in DOMAIN msg : msg[i] \in Messages
    BY TypesGive
  <1>2. QED
    BY <1>1 DEF Messages

\* A step that leaves messages and responses alone keeps HeardInv.
LEMMA HeardKept == HeardInv /\ UNCHANGED <<msg, got>> => HeardInv'
  BY DEF HeardInv

LEMMA InitPermission == Init => PermissionInv
  <1> SUFFICES ASSUME Init PROVE PermissionInv
    OBVIOUS
  <1>1. msg = <<>> /\ lock = <<>> /\ DOMAIN msg = {} /\ Len(msg) = 0
    BY DEF Init
  <1>2. lock \in [DOMAIN msg -> Threads \cup {NoOne}]
    BY <1>1
  <1>3. res = [c \in Resolvers |-> IdleResolver] /\ drv = IdleDriver
    BY DEF Init
  <1>4. TypeOK
    <2>1. attempt \in Attempts /\ crashes \in 0 .. MaxCrashes /\ calls \in 0 .. MaxCalls
      BY PermissionAssumption DEF Init, Attempts
    <2>2. /\ drv.pc \in DriverPC /\ drv.k \in 0 .. Len(msg) /\ drv.todo \subseteq DOMAIN msg
          /\ \A c \in Resolvers : res[c].pc \in ResolverPC /\ res[c].k \in 0 .. Len(msg)
      BY <1>1, <1>3, IdleFacts DEF ResolverPC, DriverPC
    <2>3. msg \in Seq(Messages) /\ active \in {0, attempt}
      BY <1>1 DEF Init
    <2>4. QED
      BY <1>2, <2>1, <2>2, <2>3 DEF Init, TypeOK
  <1>5. PermTypes
    BY <1>3, <1>4, IdleFacts DEF PermTypes, ResolverRecord
  <1>6. LockInv
    BY <1>3, IdleFacts DEF LockInv, Holding, Deciding
  <1>7. FlowInv
    BY <1>3, IdleFacts DEF FlowInv, Deciding
  <1>8. HeardInv
    BY <1>1 DEF HeardInv, Init
  <1>9. QED
    BY <1>5, <1>6, <1>7, <1>8 DEF PermissionInv

-----------------------------------------------------------------------------
(* One lemma per group of actions. *)

LEMMA AskStep ==
    ASSUME PermissionInv, NEW r \in Requests, Ask(r)
    PROVE  PermissionInv'
  <1> USE DEF PermissionInv
  <1>1. /\ asked' = [asked EXCEPT ![active] = @ \cup {r}]
        /\ UNCHANGED <<msg, got, sessionVars, lock, blocked, drv, res, seen, boundVars>>
    BY DEF Ask
  <1>2. PermTypes'
    <2>1. asked' \in [Attempts -> SUBSET Requests]
      BY <1>1, TypesGive
    <2>2. QED
      BY <1>1, <2>1, TypesGive, TypesFrom DEF sessionVars, boundVars
  <1>3. LockInv' /\ FlowInv' /\ HeardInv'
    BY <1>1, HeardKept DEF LockInv, FlowInv, sessionVars
  <1>4. QED
    BY <1>2, <1>3

LEMMA BridgeEnqueueStep ==
    ASSUME PermissionInv, NEW r \in Requests, BridgeEnqueue(r)
    PROVE  PermissionInv'
  <1> USE DEF PermissionInv
  <1> DEFINE m == [att |-> attempt, req |-> r, status |-> "queued", res |-> "none"]
             n == Len(msg) + 1
  <1>1. /\ drv.pc = "session" /\ ~findPermissionByIdentity(r)
        /\ msg' = Append(msg, m) /\ lock' = Append(lock, NoOne)
        /\ drv' = [drv EXCEPT !.pc = "bridge", !.k = Len(msg')]
        /\ UNCHANGED <<harnessVars, sessionVars, blocked, res, seen, boundVars>>
    BY DEF BridgeEnqueue, DriverAt
  <1>2. m \in Messages /\ m.att = attempt /\ m.req = r /\ m.status = "queued" /\ m.res = "none"
    BY TypesGive DEF Messages
  <1> HIDE DEF m
  <1>3. /\ msg' \in Seq(Messages) /\ Len(msg') = n /\ DOMAIN msg' = DOMAIN msg \cup {n}
        /\ n \notin DOMAIN msg /\ n \in Nat \ {0}
        /\ \A i \in DOMAIN msg : msg'[i] = msg[i]
        /\ msg'[n] = m
    BY <1>1, <1>2, TypesGive, ElementAdded
  <1>4. /\ lock' \in [DOMAIN msg' -> Threads \cup {NoOne}]
        /\ \A i \in DOMAIN msg : lock'[i] = lock[i]
    BY <1>1, <1>3, LockAdded DEF PermTypes
  <1>5. /\ drv' \in [pc : DriverPC, k : Nat, todo : SUBSET Nat]
        /\ drv'.pc = "bridge" /\ drv'.k = n /\ drv'.todo = drv.todo
    BY <1>1, <1>3, TypesGive DEF DriverPC
  <1> HIDE DEF n
  <1>6. PermTypes'
    <2>1. Len(msg') \in Nat /\ \A c \in Resolvers : res[c].k \in 0 .. Len(msg')
      BY <1>3, TypesGive DEF n
    <2>2. drv'.k \in 0 .. Len(msg') /\ drv'.todo \subseteq DOMAIN msg'
      BY <1>3, <1>5, TypesGive
    <2>3. QED
      BY <1>1, <1>3, <1>4, <1>5, <2>1, <2>2, TypesGive, TypesFrom
         DEF harnessVars, sessionVars, boundVars
  <1>7. LockInv'
    BY <1>1, <1>3, <1>4, <1>5 DEF LockInv, sessionVars, Holding, Deciding
  <1>8. FlowInv'
    BY <1>1, <1>3 DEF LockInv, FlowInv, sessionVars, harnessVars, Deciding
  <1>9. HeardInv'
    <2>1. got' = got /\ attempt \in Attempts
      BY <1>1, TypesGive DEF harnessVars
    <2>2. \A i \in DOMAIN msg : ~(msg[i].att = attempt /\ msg[i].req = r)
      BY <1>1 DEF findPermissionByIdentity
    <2>3. got[attempt][r] = {}
      BY <2>1, <2>2 DEF HeardInv
    <2>4. QED
      BY <1>2, <1>3, <2>1, <2>2, <2>3 DEF HeardInv
  <1>10. QED
    BY <1>6, <1>7, <1>8, <1>9

\* The driver's steps outside the sweep.
LEMMA DriverStep ==
    ASSUME PermissionInv,
           \/ BridgePublish \/ DriverRecompute \/ DriverSettle
           \/ SessionEnds \/ Unregister \/ FinishRun \/ SweepEnds
    PROVE  PermissionInv'
  <1> USE DEF PermissionInv
  <1>1. /\ msg' = msg /\ harnessVars' = harnessVars /\ res' = res /\ boundVars' = boundVars
        /\ attempt' = attempt
    BY DEF BridgePublish, DriverRecompute, DriverSettle, SessionEnds, Unregister, FinishRun,
       SweepEnds, sessionVars
  <1>2. CASE BridgePublish
    <2>1. /\ drv.pc = "bridge" /\ drv.k \in DOMAIN msg /\ lock[drv.k] = NoOne
          /\ UNCHANGED <<sessionVars, seen>>
      BY <1>2 DEF BridgePublish, DriverAt, LockInv
    <2>2. CASE blocked' = TRUE /\ drv' = IdleDriver /\ UNCHANGED lock
      <3>1. PermTypes'
        BY <1>1, <2>1, <2>2, IdleFacts, TypesGive, TypesFrom
           DEF harnessVars, sessionVars, boundVars
      <3>2. LockInv' /\ FlowInv' /\ HeardInv'
        BY <1>1, <2>1, <2>2, IdleFacts, HeardKept
           DEF LockInv, FlowInv, sessionVars, harnessVars
      <3>3. QED
        BY <3>1, <3>2
    <2>3. CASE /\ lock' = [lock EXCEPT ![drv.k] = Driver]
               /\ drv' = [drv EXCEPT !.pc = "recompute"]
               /\ UNCHANGED blocked
      <3>1. /\ lock' \in [DOMAIN msg -> Threads \cup {NoOne}]
            /\ \A i \in DOMAIN msg : lock'[i] = IF i = drv.k THEN Driver ELSE lock[i]
        BY <2>1, <2>3, TypesGive DEF Threads
      <3>2. /\ drv' \in [pc : DriverPC, k : Nat, todo : SUBSET Nat]
            /\ drv'.pc = "recompute" /\ drv'.k = drv.k /\ drv'.todo = drv.todo
        BY <2>3, TypesGive DEF DriverPC
      <3>3. PermTypes'
        BY <1>1, <2>1, <2>3, <3>1, <3>2, TypesGive, TypesFrom
           DEF harnessVars, sessionVars, boundVars
      <3>4. LockInv'
        <4>1. \A c \in Resolvers : res[c].pc \in Holding => res[c].k # drv.k
          BY <2>1, PermissionAssumption DEF LockInv, NoOne
        <4>2. \A c \in Resolvers : res[c].pc \in Holding => res[c].pc # "idle"
          BY DEF Holding, Deciding
        <4>3. QED
          BY <1>1, <2>1, <3>1, <3>2, <4>1, <4>2 DEF LockInv, sessionVars
      <3>5. FlowInv' /\ HeardInv'
        BY <1>1, <2>1, HeardKept DEF FlowInv, sessionVars, harnessVars
      <3>6. QED
        BY <3>3, <3>4, <3>5
    <2>4. QED
      BY <1>2, <2>2, <2>3 DEF BridgePublish
  <1>3. CASE DriverRecompute
    <2>1. /\ drv.pc \in {"recompute", "swept"}
          /\ seen' = [seen EXCEPT ![Driver] = HasPendingDecisions]
          /\ drv' = [drv EXCEPT !.pc = "settle"]
          /\ UNCHANGED <<sessionVars, lock, blocked>>
      BY <1>3 DEF DriverRecompute, DriverAt
    <2>2. /\ drv' \in [pc : DriverPC, k : Nat, todo : SUBSET Nat]
          /\ drv'.pc = "settle" /\ drv'.k = drv.k /\ drv'.todo = drv.todo
      BY <2>1, TypesGive DEF DriverPC
    <2>3. seen' \in [Threads -> BOOLEAN]
      <3>1. HasPendingDecisions \in BOOLEAN
        BY DEF HasPendingDecisions
      <3>2. QED
        BY <2>1, <3>1, TypesGive
    <2>4. PermTypes'
      BY <1>1, <2>1, <2>2, <2>3, TypesGive, TypesFrom DEF harnessVars, sessionVars, boundVars
    <2>5. LockInv' /\ FlowInv' /\ HeardInv'
      BY <1>1, <2>1, <2>2, HeardKept DEF LockInv, FlowInv, sessionVars, harnessVars
    <2>6. QED
      BY <2>4, <2>5
  <1>4. CASE DriverSettle
    <2>1. /\ drv.pc = "settle"
          /\ blocked' = WaitingTask(seen[Driver])
          /\ lock' = IF drv.k = 0 THEN lock ELSE [lock EXCEPT ![drv.k] = NoOne]
          /\ drv' = [IdleDriver EXCEPT !.pc = CASE ~term -> "session"
                                          [] term /\ active # 0 -> "unregister"
                                          [] term /\ active = 0 -> "over"]
          /\ UNCHANGED <<sessionVars, seen>>
      BY <1>4 DEF DriverSettle, DriverAt
    <2>2. /\ drv' \in [pc : DriverPC, k : Nat, todo : SUBSET Nat]
          /\ drv'.pc \in {"session", "unregister", "over"} /\ drv'.k = 0 /\ drv'.todo = {}
      BY <2>1, TypesGive DEF DriverPC, IdleDriver
    <2>3. blocked' \in BOOLEAN
      BY <2>1, TypesGive DEF WaitingTask, HasPendingDecisions
    <2>4. /\ lock' \in [DOMAIN msg -> Threads \cup {NoOne}]
          /\ \A i \in DOMAIN msg : i # drv.k => lock'[i] = lock[i]
      BY <2>1, TypesGive
    <2>5. PermTypes'
      <3>1. UNCHANGED <<attempt, active, term, seen>>
        BY <2>1 DEF sessionVars
      <3>2. QED
        BY <1>1, <2>2, <2>3, <2>4, <3>1, TypesGive, TypesFrom DEF harnessVars, boundVars
    <2>6. \A c \in Resolvers : res[c].pc \in Holding => res[c].k \in DOMAIN msg /\ res[c].k # drv.k
      <3>1. \A c \in Resolvers : res[c].pc \in Holding =>
               /\ res[c].k \in DOMAIN msg /\ res[c].k # 0 /\ lock[res[c].k] = c
        BY TypesGive DEF LockInv, Holding, Deciding
      <3>2. drv.k # 0 => lock[drv.k] = Driver
        BY <2>1 DEF LockInv
      <3>3. QED
        BY <3>1, <3>2, PermissionAssumption
    <2>7. LockInv'
      BY <1>1, <2>1, <2>2, <2>4, <2>6 DEF LockInv, sessionVars
    <2>8. FlowInv' /\ HeardInv'
      BY <1>1, <2>1, HeardKept DEF FlowInv, sessionVars, harnessVars
    <2>9. QED
      BY <2>5, <2>7, <2>8
  <1>5. CASE SessionEnds \/ FinishRun
    <2>1. /\ drv.pc \in {"session", "ended"} /\ active' = active /\ term' \in BOOLEAN
          /\ UNCHANGED <<lock, blocked, seen>>
      BY <1>5, TypesGive DEF SessionEnds, FinishRun, DriverAt, sessionVars
    <2>2. {k \in DOMAIN msg : Pending(k)} \in SUBSET Nat
      BY TypesGive
    <2>3. /\ drv' \in [pc : DriverPC, k : Nat, todo : SUBSET Nat]
          /\ drv'.pc \in {"unregister", "expire"} /\ drv'.k = drv.k
          /\ drv'.todo \subseteq DOMAIN msg
      <3>1. CASE drv' = [drv EXCEPT !.pc = "unregister"]
        BY <3>1, TypesGive DEF DriverPC
      <3>2. CASE drv' = [drv EXCEPT !.pc = "expire", !.todo = {k \in DOMAIN msg : Pending(k)}]
        <4> DEFINE todo == {k \in DOMAIN msg : Pending(k)}
        <4>1. todo \in SUBSET Nat /\ todo \subseteq DOMAIN msg
          BY <2>2
        <4>2. drv' = [drv EXCEPT !.pc = "expire", !.todo = todo]
          BY <3>2
        <4> HIDE DEF todo
        <4>3. QED
          BY <4>1, <4>2, TypesGive DEF DriverPC
      <3>3. QED
        BY <1>5, <3>1, <3>2 DEF SessionEnds, FinishRun
    <2>4. PermTypes'
      BY <1>1, <2>1, <2>3, TypesGive, TypesFrom DEF harnessVars, boundVars
    <2>5. LockInv' /\ FlowInv' /\ HeardInv'
      BY <1>1, <2>1, <2>3, HeardKept DEF LockInv, FlowInv, harnessVars
    <2>6. QED
      BY <2>4, <2>5
  <1>6. CASE Unregister
    <2>1. /\ drv.pc = "unregister" /\ active' = 0 /\ drv' = [drv EXCEPT !.pc = "ended"]
          /\ UNCHANGED <<term, lock, blocked, seen>>
      BY <1>6 DEF Unregister, DriverAt
    <2>2. /\ drv' \in [pc : DriverPC, k : Nat, todo : SUBSET Nat]
          /\ drv'.pc = "ended" /\ drv'.k = drv.k /\ drv'.todo = drv.todo
      BY <2>1, TypesGive DEF DriverPC
    <2>3. PermTypes'
      BY <1>1, <2>1, <2>2, TypesGive, TypesFrom DEF harnessVars, boundVars
    <2>4. LockInv' /\ FlowInv' /\ HeardInv'
      BY <1>1, <2>1, <2>2, HeardKept DEF LockInv, FlowInv, harnessVars
    <2>5. QED
      BY <2>3, <2>4
  <1>7. CASE SweepEnds
    <2>1. /\ drv.pc = "expire" /\ drv' = [drv EXCEPT !.pc = "swept"]
          /\ UNCHANGED <<sessionVars, lock, blocked, seen>>
      BY <1>7 DEF SweepEnds, DriverAt
    <2>2. /\ drv' \in [pc : DriverPC, k : Nat, todo : SUBSET Nat]
          /\ drv'.pc = "swept" /\ drv'.k = drv.k /\ drv'.todo = drv.todo
      BY <2>1, TypesGive DEF DriverPC
    <2>3. PermTypes'
      BY <1>1, <2>1, <2>2, TypesGive, TypesFrom DEF harnessVars, sessionVars, boundVars
    <2>4. LockInv' /\ FlowInv' /\ HeardInv'
      BY <1>1, <2>1, <2>2, HeardKept DEF LockInv, FlowInv, harnessVars, sessionVars
    <2>5. QED
      BY <2>3, <2>4
  <1>8. QED
    BY <1>2, <1>3, <1>4, <1>5, <1>6, <1>7

LEMMA ExpireStep ==
    ASSUME PermissionInv, NEW k \in DOMAIN msg, expireOneMessage(k)
    PROVE  PermissionInv'
  <1> USE DEF PermissionInv
  <1>1. /\ drv.pc = "expire" /\ lock[k] = NoOne
        /\ drv' = [drv EXCEPT !.todo = @ \ {k}]
        /\ UNCHANGED <<harnessVars, sessionVars, lock, blocked, res, seen, boundVars>>
    BY DEF expireOneMessage, DriverAt
  <1>2. /\ drv' \in [pc : DriverPC, k : Nat, todo : SUBSET Nat]
        /\ drv'.pc = drv.pc /\ drv'.k = drv.k /\ drv'.todo \subseteq drv.todo
    BY <1>1, TypesGive
  <1>3. CASE msg' = msg
    <2>1. PermTypes'
      BY <1>1, <1>2, <1>3, TypesGive, TypesFrom DEF harnessVars, sessionVars, boundVars
    <2>2. LockInv' /\ FlowInv' /\ HeardInv'
      BY <1>1, <1>2, <1>3, HeardKept DEF LockInv, FlowInv, harnessVars, sessionVars
    <2>3. QED
      BY <2>1, <2>2
  <1>4. CASE Pending(k) /\ msg[k].res = "none" /\ msg' = [msg EXCEPT ![k].status = "expired"]
    <2>1. /\ msg' \in Seq(Messages) /\ Len(msg') = Len(msg) /\ DOMAIN msg' = DOMAIN msg
          /\ \A i \in DOMAIN msg :
                 /\ msg'[i].att = msg[i].att /\ msg'[i].req = msg[i].req
                 /\ msg'[i].res = msg[i].res
                 /\ msg'[i].status = IF i = k THEN "expired" ELSE msg[i].status
      BY <1>4, Ended DEF PermTypes
    <2>2. PermTypes'
      BY <1>1, <1>2, <2>1, TypesGive, TypesFrom DEF harnessVars, sessionVars, boundVars
    <2>3. LockInv'
      BY <1>1, <1>2, <2>1 DEF LockInv, sessionVars
    <2>4. FlowInv'
      <3>1. \A c \in Resolvers : res[c].pc \in Deciding => res[c].k \in DOMAIN msg /\ res[c].k # k
        <4>1. \A c \in Resolvers : res[c].pc \in Deciding =>
                 res[c].k \in DOMAIN msg /\ lock[res[c].k] = c
          BY DEF LockInv, Holding, Deciding
        <4>2. QED
          BY <1>1, <4>1, PermissionAssumption DEF NoOne
      <3>2. QED
        BY <1>1, <2>1, <3>1 DEF FlowInv, harnessVars, sessionVars, Deciding
    <2>5. HeardInv'
      <3>1. got' = got
        BY <1>1 DEF harnessVars
      <3>2. QED
        BY <1>4, <2>1, <3>1 DEF HeardInv, Pending
    <2>6. QED
      BY <2>2, <2>3, <2>4, <2>5
  <1>5. QED
    BY <1>3, <1>4 DEF expireOneMessage

\* The steps of a resolver that change neither messages nor responses.
LEMMA ResolverStep ==
    ASSUME PermissionInv, NEW c \in Resolvers,
           \/ Recompute(c) \/ Settle(c) \/ validatePermissionBinding(c) \/ RereadActive(c)
           \/ \E k \in DOMAIN msg, d \in Decisions : ResolveMessage(c, k, d)
    PROVE  PermissionInv'
  <1> USE DEF PermissionInv
  <1>1. /\ msg' = msg /\ harnessVars' = harnessVars /\ sessionVars' = sessionVars /\ drv' = drv
        /\ crashes' = crashes
    BY DEF Recompute, Settle, validatePermissionBinding, RereadActive, ResolveMessage, boundVars
  <1>2. HeardInv'
    BY <1>1, HeardKept DEF harnessVars
  <1>3. ASSUME NEW label \in {"settle", "reread", "recompute", "respond"}, Goto(c, label),
               res[c].pc \in Holding,
               UNCHANGED <<lock, blocked, calls>>, seen' \in [Threads -> BOOLEAN],
               label = "reread" => res[c].pc = "bind" /\ active = msg[res[c].k].att,
               label = "respond" => res[c].pc = "reread"
        PROVE  PermissionInv'
    <2>0. label \in ResolverPC
      BY DEF ResolverPC
    <2>1. /\ res' \in [Resolvers -> ResolverRecord]
          /\ \A d \in Resolvers :
                 /\ res'[d].k = res[d].k /\ res'[d].decision = res[d].decision
                 /\ res'[d].ok = res[d].ok
                 /\ res'[d].pc = IF d = c THEN label ELSE res[d].pc
      BY <1>3, <2>0, GotoFacts
    <2>2. PermTypes'
      BY <1>1, <1>3, <2>1, TypesGive, TypesFrom DEF harnessVars, sessionVars
    <2>3. res[c].pc # "idle" /\ label \in Holding /\ label # "record" /\ label # "bind"
      BY <1>3 DEF Holding, Deciding
    <2>4. LockInv'
      BY <1>1, <1>3, <2>1, <2>3 DEF LockInv, sessionVars
    <2>5. FlowInv'
      BY <1>1, <1>3, <2>1, <2>3 DEF FlowInv, harnessVars, sessionVars, Deciding
    <2>6. QED
      BY <1>2, <2>2, <2>4, <2>5
  <1>4. CASE Recompute(c)
    <2>1. seen' \in [Threads -> BOOLEAN]
      <3>1. HasPendingDecisions \in BOOLEAN
        BY DEF HasPendingDecisions
      <3>2. QED
        BY <1>4, <3>1, TypesGive DEF Recompute
    <2>2. QED
      BY <1>3, <1>4, <2>1 DEF Recompute, At, boundVars, Holding
  <1>5. CASE validatePermissionBinding(c)
    <2>1. /\ res[c].pc = "bind" /\ UNCHANGED <<lock, blocked, seen, calls>>
          /\ \/ Goto(c, "reread") /\ active = msg[res[c].k].att
             \/ Goto(c, "recompute")
      BY <1>5 DEF validatePermissionBinding, At, boundVars
    <2>2. seen' \in [Threads -> BOOLEAN] /\ res[c].pc \in Holding
      BY <2>1, TypesGive DEF Holding, Deciding
    <2>3. QED
      BY <1>3, <2>1, <2>2
  <1>6. CASE RereadActive(c)
    <2>1. /\ res[c].pc = "reread" /\ UNCHANGED <<lock, blocked, seen, calls>>
          /\ Goto(c, "respond")
      BY <1>6 DEF RereadActive, At, boundVars
    <2>2. seen' \in [Threads -> BOOLEAN] /\ res[c].pc \in Holding
      BY <2>1, TypesGive DEF Holding, Deciding
    <2>3. QED
      BY <1>3, <2>1, <2>2
  <1>7. CASE Settle(c)
    <2>1. /\ res[c].pc = "settle" /\ blocked' = WaitingTask(seen[c])
          /\ lock' = [lock EXCEPT ![res[c].k] = NoOne]
          /\ res' = [res EXCEPT ![c] = IdleResolver]
          /\ UNCHANGED <<seen, calls>>
      BY <1>7 DEF Settle, At, boundVars
    <2>2. /\ res' \in [Resolvers -> ResolverRecord]
          /\ \A d \in Resolvers : d # c => res'[d] = res[d]
          /\ res'[c].pc = "idle" /\ res'[c].k = 0
      BY <2>1, RestFacts
    <2>3. blocked' \in BOOLEAN
      BY <2>1, TypesGive DEF WaitingTask, HasPendingDecisions, Threads
    <2>4. res[c].k \in DOMAIN msg /\ lock[res[c].k] = c
      BY <2>1 DEF LockInv, Holding
    <2>5. /\ lock' \in [DOMAIN msg -> Threads \cup {NoOne}]
          /\ \A i \in DOMAIN msg : i # res[c].k => lock'[i] = lock[i]
      BY <2>1, <2>4, TypesGive
    <2>6. PermTypes'
      <3>1. \A d \in Resolvers : res'[d].k \in 0 .. Len(msg)
        BY <2>2, TypesGive
      <3>2. UNCHANGED <<seen, calls>>
        BY <2>1
      <3>3. QED
        BY <1>1, <2>2, <2>3, <2>5, <3>1, <3>2, TypesGive, TypesFrom DEF harnessVars, sessionVars
    <2>7. \A d \in Resolvers : d # c /\ res[d].pc \in Holding =>
             res[d].k \in DOMAIN msg /\ res[d].k # res[c].k
      BY <2>4 DEF LockInv, Holding, Deciding
    <2>8. drv.pc \in {"recompute", "settle"} /\ drv.k # 0 => drv.k # res[c].k
      BY <2>4, PermissionAssumption DEF LockInv
    <2>9. drv.pc \in {"recompute", "settle"} /\ drv.k # 0 => drv.k \in DOMAIN msg
      BY TypesGive
    <2>10. LockInv'
      <3>1. "idle" \notin Holding
        BY DEF Holding, Deciding
      <3>2. QED
        BY <1>1, <2>2, <2>5, <2>7, <2>8, <2>9, <3>1 DEF LockInv, sessionVars
    <2>11. FlowInv'
      BY <1>1, <2>2 DEF FlowInv, harnessVars, sessionVars, Deciding
    <2>12. QED
      BY <1>2, <2>6, <2>10, <2>11
  <1>8. ASSUME NEW k \in DOMAIN msg, NEW d \in Decisions, ResolveMessage(c, k, d)
        PROVE  PermissionInv'
    <2>1. /\ drv.pc # "down" /\ calls < MaxCalls /\ calls' = calls + 1
          /\ res' = [res EXCEPT ![c] =
                        [IdleResolver EXCEPT !.pc = "lock", !.k = k, !.decision = d]]
          /\ UNCHANGED <<lock, blocked, seen>>
      BY <1>8 DEF ResolveMessage, Up
    <2>2. /\ res' \in [Resolvers -> ResolverRecord]
          /\ \A e \in Resolvers : e # c => res'[e] = res[e]
          /\ res'[c].pc = "lock" /\ res'[c].k = k
      <3> DEFINE new == [IdleResolver EXCEPT !.pc = "lock", !.k = k, !.decision = d]
      <3>0. k \in Nat /\ d \in Decisions /\ "lock" \in ResolverPC
        BY TypesGive DEF ResolverPC
      <3>1. new \in ResolverRecord /\ new.pc = "lock" /\ new.k = k
        BY <3>0 DEF IdleResolver, ResolverRecord
      <3>2. res' = [res EXCEPT ![c] = new]
        BY <2>1
      <3> HIDE DEF new
      <3>3. QED
        BY <3>1, <3>2, TypesGive
    <2>3. PermTypes'
      <3>1. calls' \in 0 .. MaxCalls
        BY <2>1, TypesGive, PermissionAssumption
      <3>0. k \in 0 .. Len(msg) /\ \A e \in Resolvers : res[e].k \in 0 .. Len(msg)
        BY TypesGive
      <3>2. \A e \in Resolvers : res'[e].k \in 0 .. Len(msg)
        BY <2>2, <3>0
      <3>3. UNCHANGED <<lock, blocked, seen>>
        BY <2>1
      <3>4. QED
        BY <1>1, <2>2, <3>1, <3>2, <3>3, TypesGive, TypesFrom DEF harnessVars, sessionVars
    <2>4. LockInv'
      <3>1. "lock" \notin Holding
        BY DEF Holding, Deciding
      <3>2. UNCHANGED lock /\ drv.pc # "down"
        BY <2>1
      <3>3. QED
        BY <1>1, <2>2, <3>1, <3>2 DEF LockInv, sessionVars
    <2>5. FlowInv'
      BY <1>1, <2>2 DEF FlowInv, harnessVars, sessionVars, Deciding
    <2>6. QED
      BY <1>2, <2>3, <2>4, <2>5
  <1>9. QED
    BY <1>4, <1>5, <1>6, <1>7, <1>8

LEMMA FreezeStep ==
    ASSUME PermissionInv, NEW c \in Resolvers, Freeze(c)
    PROVE  PermissionInv'
  <1> USE DEF PermissionInv
  <1>0. PICK k, d : k = res[c].k /\ d = res[c].decision
    OBVIOUS
  <1>1. /\ res[c].pc = "lock" /\ lock[k] = NoOne
        /\ UNCHANGED <<harnessVars, sessionVars, blocked, drv, seen, boundVars>>
    BY <1>0 DEF Freeze, At
  <1>2. k \in DOMAIN msg /\ d \in Decisions /\ res[c].pc # "idle"
    BY <1>0, <1>1, TypesGive DEF LockInv, ResolverRecord
  <1>3. CASE UNCHANGED <<msg, lock>> /\ res' = [res EXCEPT ![c] = IdleResolver]
    <2>1. /\ res' \in [Resolvers -> ResolverRecord]
          /\ \A e \in Resolvers : e # c => res'[e] = res[e]
          /\ res'[c].pc = "idle" /\ res'[c].k = 0
      BY <1>3, RestFacts
    <2>2. PermTypes'
      <3>1. \A e \in Resolvers : res'[e].k \in 0 .. Len(msg)
        BY <2>1, TypesGive
      <3>2. QED
        BY <1>1, <1>3, <2>1, <3>1, TypesGive, TypesFrom DEF harnessVars, sessionVars, boundVars
    <2>3. LockInv' /\ FlowInv' /\ HeardInv'
      BY <1>1, <1>3, <2>1, HeardKept
         DEF LockInv, FlowInv, harnessVars, sessionVars, Holding, Deciding
    <2>4. QED
      BY <2>2, <2>3
  <1>4. CASE /\ Pending(k) /\ msg[k].res \in {"none", d}
             /\ lock' = [lock EXCEPT ![k] = c]
             /\ msg' = [msg EXCEPT ![k].res = d]
             /\ Goto(c, "bind")
    <2>1. /\ msg' \in Seq(Messages) /\ Len(msg') = Len(msg) /\ DOMAIN msg' = DOMAIN msg
          /\ \A i \in DOMAIN msg :
                /\ msg'[i].att = msg[i].att /\ msg'[i].req = msg[i].req
                /\ msg'[i].status = msg[i].status
                /\ msg'[i].res = IF i = k THEN d ELSE msg[i].res
      BY <1>2, <1>4, Frozen DEF PermTypes
    <2>2. /\ res' \in [Resolvers -> ResolverRecord]
          /\ \A e \in Resolvers :
                 /\ res'[e].k = res[e].k /\ res'[e].decision = res[e].decision
                 /\ res'[e].ok = res[e].ok
                 /\ res'[e].pc = IF e = c THEN "bind" ELSE res[e].pc
      <3>1. "bind" \in ResolverPC
        BY DEF ResolverPC
      <3>2. QED
        BY <1>4, <3>1, GotoFacts
    <2>3. /\ lock' \in [DOMAIN msg -> Threads \cup {NoOne}]
          /\ \A i \in DOMAIN msg : lock'[i] = IF i = k THEN c ELSE lock[i]
      BY <1>2, <1>4, TypesGive DEF Threads
    <2>4. PermTypes'
      <3>1. \A e \in Resolvers : res'[e].k \in 0 .. Len(msg)
        BY <2>2, TypesGive
      <3>2. QED
        BY <1>1, <2>1, <2>2, <2>3, <3>1, TypesGive, TypesFrom
           DEF harnessVars, sessionVars, boundVars
    <2>5. \A e \in Resolvers : e # c /\ res[e].pc \in Holding =>
             res[e].k \in DOMAIN msg /\ res[e].k # k
      <3>1. \A e \in Resolvers : res[e].pc \in Holding =>
               res[e].k \in DOMAIN msg /\ lock[res[e].k] = e
        BY DEF LockInv, Holding, Deciding
      <3>2. QED
        BY <1>1, <3>1, PermissionAssumption DEF NoOne
    <2>6. LockInv'
      <3>1. drv.pc \in {"recompute", "settle"} /\ drv.k # 0 => drv.k \in DOMAIN msg /\ drv.k # k
        BY <1>1, TypesGive, PermissionAssumption DEF LockInv, NoOne
      <3>2. drv.pc # "down"
        BY <1>2 DEF LockInv
      <3>3. \A e \in Resolvers : res'[e].pc # "idle" => res'[e].k \in DOMAIN msg
        BY <1>0, <1>2, <2>2 DEF LockInv
      <3>4. \A e \in Resolvers : res'[e].pc \in Holding => lock'[res'[e].k] = e
        BY <1>0, <1>2, <2>2, <2>3, <2>5 DEF LockInv
      <3>5. QED
        BY <1>1, <2>1, <2>3, <3>1, <3>2, <3>3, <3>4 DEF LockInv
    <2>7. FlowInv'
      <3>1. \A e \in Resolvers : e # c /\ res[e].pc \in Deciding =>
               res[e].k \in DOMAIN msg /\ res[e].k # k
        BY <2>5 DEF Holding
      <3>2. UNCHANGED <<got, active>>
        BY <1>1 DEF harnessVars, sessionVars
      <3>3. QED
        BY <1>0, <1>2, <1>4, <2>1, <2>2, <3>1, <3>2 DEF FlowInv, Pending, Deciding
    <2>8. HeardInv'
      <3>1. got' = got
        BY <1>1 DEF harnessVars
      <3>2. got[msg[k].att][msg[k].req] \subseteq {d}
        <4>1. msg[k] \in Messages
          BY <1>2, TypesGive
        <4>2. got[msg[k].att][msg[k].req] \subseteq Decisions
          BY <4>1, TypesGive DEF Messages
        <4>3. QED
          BY <1>2, <1>4, <4>2 DEF HeardInv, Decisions
      <3>3. \A i \in DOMAIN msg : got'[msg'[i].att][msg'[i].req] \subseteq {msg'[i].res}
        BY <2>1, <3>1, <3>2 DEF HeardInv
      <3>4. \A i, j \in DOMAIN msg :
               msg'[i].att = msg'[j].att /\ msg'[i].req = msg'[j].req => i = j
        BY <2>1 DEF HeardInv
      <3>5. \A i \in DOMAIN msg :
               /\ msg'[i].status = "answered" => msg'[i].res \in got'[msg'[i].att][msg'[i].req]
               /\ msg'[i].status = "expired" => msg'[i].res = "none"
        BY <1>4, <2>1, <3>1 DEF HeardInv, Pending
      <3>6. \A a \in Attempts, r \in Requests : got'[a][r] # {} =>
               \E i \in DOMAIN msg : msg'[i].att = a /\ msg'[i].req = r
        BY <2>1, <3>1 DEF HeardInv
      <3>7. QED
        BY <2>1, <3>3, <3>4, <3>5, <3>6 DEF HeardInv
    <2>9. QED
      BY <2>4, <2>6, <2>7, <2>8
  <1>5. QED
    BY <1>0, <1>3, <1>4 DEF Freeze

\* The harness may hear the decision whether or not the call succeeds.
LEMMA RespondStep ==
    ASSUME PermissionInv, NEW c \in Resolvers, Respond(c)
    PROVE  PermissionInv'
  <1> USE DEF PermissionInv
  <1> DEFINE k == res[c].k
             d == res[c].decision
             a == msg[k].att
             r == msg[k].req
  <1>1. /\ res[c].pc = "respond"
        /\ UNCHANGED <<msg, asked, sessionVars, lock, blocked, drv, seen, boundVars>>
    BY DEF Respond, At
  <1>2. PICK heard \in BOOLEAN, ok \in BOOLEAN :
          /\ ok => heard
          /\ heard => active # 0
          /\ got' = IF heard THEN [got EXCEPT ![active][r] = @ \cup {d}] ELSE got
          /\ res' = [res EXCEPT ![c].pc = "record", ![c].ok = ok]
    BY DEF Respond
  <1>3. /\ k \in DOMAIN msg /\ msg[k].status = "queued" /\ msg[k].res = d
        /\ active \in {0, a} /\ lock[k] = c
    BY <1>1 DEF LockInv, FlowInv, Holding, Deciding
  <1>4. a \in Attempts /\ r \in Requests /\ d \in Decisions
    <2>1. msg[k] \in Messages
      BY <1>3, TypesGive
    <2>2. QED
      BY <2>1, TypesGive DEF Messages, ResolverRecord
  <1>5. /\ res' \in [Resolvers -> ResolverRecord]
        /\ \A e \in Resolvers : e # c => res'[e] = res[e]
        /\ res'[c].pc = "record" /\ res'[c].ok = ok /\ res'[c].k = k /\ res'[c].decision = d
    <2> DEFINE new == [res[c] EXCEPT !.pc = "record", !.ok = ok]
    <2>1. /\ new \in ResolverRecord /\ new.pc = "record" /\ new.ok = ok
          /\ new.k = k /\ new.decision = d
      BY TypesGive DEF ResolverRecord, ResolverPC
    <2>2. res' = [res EXCEPT ![c] = new]
      BY <1>2
    <2> HIDE DEF new
    <2>3. QED
      BY <2>1, <2>2, TypesGive
  <1>6. /\ got' \in [Attempts -> [Requests -> SUBSET Decisions]]
        /\ \A b \in Attempts, q \in Requests :
              /\ got[b][q] \subseteq got'[b][q]
              /\ ~(b = a /\ q = r) => got'[b][q] = got[b][q]
        /\ got'[a][r] \subseteq got[a][r] \cup {d}
        /\ ok => d \in got'[a][r]
    <2>1. CASE heard
      <3>1. got' = [got EXCEPT ![a][r] = @ \cup {d}]
        BY <1>2, <1>3, <2>1
      <3>2. QED
        BY <1>4, <2>1, <3>1, TypesGive
    <2>2. CASE ~heard
      <3>1. got' = got /\ ~ok
        BY <1>2, <2>2
      <3>2. QED
        BY <3>1, TypesGive
    <2>3. QED
      BY <2>1, <2>2
  <1> HIDE DEF k, d, a, r
  <1>7. PermTypes'
    <2>1. \A e \in Resolvers : res'[e].k \in 0 .. Len(msg)
      BY <1>5, TypesGive DEF k
    <2>2. QED
      BY <1>1, <1>5, <1>6, <2>1, TypesGive, TypesFrom DEF sessionVars, boundVars
  <1>8. LockInv'
    BY <1>1, <1>3, <1>5 DEF LockInv, sessionVars, k
  <1>9. FlowInv'
    <2>1. \A e \in Resolvers : res[e].pc = "record" =>
             msg[res[e].k].att \in Attempts /\ msg[res[e].k].req \in Requests
      <3>1. \A i \in DOMAIN msg : msg[i].att \in Attempts /\ msg[i].req \in Requests
        BY MessageParts
      <3>2. QED
        BY <3>1 DEF LockInv
    <2>2. ok => d \in got'[a][r]
      BY <1>6
    <2>3. UNCHANGED <<msg, active>>
      BY <1>1 DEF sessionVars
    <2>4. \A e \in Resolvers : e # c =>
             /\ res'[e] = res[e]
             /\ res[e].pc = "record" /\ res[e].ok =>
                   res[e].decision \in got'[msg[res[e].k].att][msg[res[e].k].req]
      BY <1>5, <1>6, <2>1 DEF FlowInv
    <2>5. /\ res'[c].pc = "record" /\ res'[c].k = k /\ res'[c].decision = d
          /\ res'[c].ok => d \in got'[msg[k].att][msg[k].req]
      BY <1>5, <2>2 DEF a, r
    <2>6. \A e \in Resolvers : e # c =>
             /\ res[e].pc \in Deciding =>
                   msg[res[e].k].status = "queued" /\ msg[res[e].k].res = res[e].decision
             /\ res[e].pc \in {"reread", "respond"} => active \in {0, msg[res[e].k].att}
      BY DEF FlowInv
    <2>7. QED
      BY <1>3, <2>3, <2>4, <2>5, <2>6 DEF FlowInv
  <1>10. HeardInv'
    <2>1. \A i \in DOMAIN msg : msg[i].att \in Attempts /\ msg[i].req \in Requests
      BY MessageParts
    <2>2. msg' = msg
      BY <1>1
    <2>3. \A i \in DOMAIN msg : msg[i].att = a /\ msg[i].req = r => i = k
      BY <1>3 DEF HeardInv, a, r
    <2>4. \A i \in DOMAIN msg : got'[msg[i].att][msg[i].req] \subseteq {msg[i].res}
      <3>1. \A i \in DOMAIN msg : got[msg[i].att][msg[i].req] \subseteq {msg[i].res}
        BY DEF HeardInv
      <3>2. msg[k].res = d
        BY <1>3
      <3>3. got'[a][r] \subseteq {d} /\ a = msg[k].att /\ r = msg[k].req
        BY <1>3, <1>6, <3>1, <3>2 DEF a, r
      <3>4. \A i \in DOMAIN msg : i # k =>
               got'[msg[i].att][msg[i].req] = got[msg[i].att][msg[i].req]
        BY <1>6, <2>1, <2>3
      <3>5. QED
        BY <3>1, <3>2, <3>3, <3>4
    <2>5. \A b \in Attempts, q \in Requests :
             got'[b][q] # {} => \E i \in DOMAIN msg : msg[i].att = b /\ msg[i].req = q
      <3>1. \A b \in Attempts, q \in Requests :
               got[b][q] # {} => \E i \in DOMAIN msg : msg[i].att = b /\ msg[i].req = q
        BY DEF HeardInv
      <3>2. k \in DOMAIN msg /\ msg[k].att = a /\ msg[k].req = r
        BY <1>3 DEF a, r
      <3>3. QED
        BY <1>4, <1>6, <3>1, <3>2
    <2>6. \A i \in DOMAIN msg :
             /\ msg[i].status = "answered" => msg[i].res \in got'[msg[i].att][msg[i].req]
             /\ msg[i].status = "expired" => msg[i].res = "none"
      <3>1. \A i \in DOMAIN msg :
               /\ msg[i].status = "answered" => msg[i].res \in got[msg[i].att][msg[i].req]
               /\ msg[i].status = "expired" => msg[i].res = "none"
        BY DEF HeardInv
      <3>2. QED
        BY <1>6, <2>1, <3>1
    <2>7. QED
      BY <2>2, <2>4, <2>5, <2>6 DEF HeardInv
  <1>11. QED
    BY <1>7, <1>8, <1>9, <1>10

LEMMA RecordStep ==
    ASSUME PermissionInv, NEW c \in Resolvers, RecordDeliveryAttempt(c)
    PROVE  PermissionInv'
  <1> USE DEF PermissionInv
  <1>0. PICK k : k = res[c].k
    OBVIOUS
  <1>1. /\ res[c].pc = "record" /\ Goto(c, "recompute")
        /\ UNCHANGED <<harnessVars, sessionVars, lock, blocked, drv, seen, boundVars>>
    BY DEF RecordDeliveryAttempt, At
  <1>2. /\ k \in DOMAIN msg /\ lock[k] = c /\ msg[k].res = res[c].decision
        /\ res[c].ok => res[c].decision \in got[msg[k].att][msg[k].req]
    BY <1>0, <1>1 DEF LockInv, FlowInv, Holding, Deciding
  <1>3. /\ msg' \in Seq(Messages) /\ Len(msg') = Len(msg) /\ DOMAIN msg' = DOMAIN msg
        /\ \A i \in DOMAIN msg :
              /\ msg'[i].att = msg[i].att /\ msg'[i].req = msg[i].req
              /\ msg'[i].res = msg[i].res
              /\ \/ msg'[i].status = msg[i].status
                 \/ i = k /\ res[c].ok /\ msg'[i].status = "answered"
    <2>1. CASE res[c].ok
      <3>1. msg' = [msg EXCEPT ![k].status = "answered"]
        BY <1>0, <2>1 DEF RecordDeliveryAttempt
      <3>2. /\ msg' \in Seq(Messages) /\ Len(msg') = Len(msg) /\ DOMAIN msg' = DOMAIN msg
            /\ \A i \in DOMAIN msg :
                  /\ msg'[i].att = msg[i].att /\ msg'[i].req = msg[i].req
                  /\ msg'[i].res = msg[i].res
                  /\ msg'[i].status = IF i = k THEN "answered" ELSE msg[i].status
        BY <1>2, <3>1, Ended DEF PermTypes
      <3>3. QED
        BY <2>1, <3>2
    <2>2. CASE ~res[c].ok
      BY <2>2, TypesGive DEF RecordDeliveryAttempt
    <2>3. QED
      BY <2>1, <2>2
  <1>4. /\ res' \in [Resolvers -> ResolverRecord]
        /\ \A e \in Resolvers :
               /\ res'[e].k = res[e].k /\ res'[e].decision = res[e].decision
               /\ res'[e].ok = res[e].ok
               /\ res'[e].pc = IF e = c THEN "recompute" ELSE res[e].pc
    <2>1. "recompute" \in ResolverPC
      BY DEF ResolverPC
    <2>2. QED
      BY <1>1, <2>1, GotoFacts
  <1>5. PermTypes'
    <2>1. \A e \in Resolvers : res'[e].k \in 0 .. Len(msg)
      BY <1>4, TypesGive
    <2>2. QED
      BY <1>1, <1>3, <1>4, <2>1, TypesGive, TypesFrom DEF harnessVars, sessionVars, boundVars
  <1>6. LockInv'
    BY <1>1, <1>3, <1>4 DEF LockInv, sessionVars, Holding, Deciding
  <1>7. FlowInv'
    <2>1. \A e \in Resolvers : e # c /\ res[e].pc \in Deciding =>
             res[e].k \in DOMAIN msg /\ res[e].k # k
      <3>1. \A e \in Resolvers : res[e].pc \in Deciding =>
               res[e].k \in DOMAIN msg /\ lock[res[e].k] = e
        BY DEF LockInv, Holding, Deciding
      <3>2. QED
        BY <1>2, <3>1
    <2>2. UNCHANGED <<got, active>>
      BY <1>1 DEF harnessVars, sessionVars
    <2>3. QED
      BY <1>3, <1>4, <2>1, <2>2 DEF FlowInv, Deciding
  <1>8. HeardInv'
    <2>1. got' = got
      BY <1>1 DEF harnessVars
    <2>2. \A i \in DOMAIN msg : got'[msg'[i].att][msg'[i].req] \subseteq {msg'[i].res}
      BY <1>3, <2>1 DEF HeardInv
    <2>3. \A i, j \in DOMAIN msg :
             msg'[i].att = msg'[j].att /\ msg'[i].req = msg'[j].req => i = j
      BY <1>3 DEF HeardInv
    <2>4. \A i \in DOMAIN msg :
             /\ msg'[i].status = "answered" => msg'[i].res \in got'[msg'[i].att][msg'[i].req]
             /\ msg'[i].status = "expired" => msg'[i].res = "none"
      BY <1>2, <1>3, <2>1 DEF HeardInv
    <2>5. \A a \in Attempts, r \in Requests : got'[a][r] # {} =>
             \E i \in DOMAIN msg : msg'[i].att = a /\ msg'[i].req = r
      BY <1>3, <2>1 DEF HeardInv
    <2>6. QED
      BY <1>3, <2>2, <2>3, <2>4, <2>5 DEF HeardInv
  <1>9. QED
    BY <1>5, <1>6, <1>7, <1>8

LEMMA DownStep ==
    ASSUME PermissionInv, Crash \/ \E c \in Resolvers : Panic(c)
    PROVE  PermissionInv'
  <1> USE DEF PermissionInv
  <1>1. /\ active' = 0 /\ lock' = [k \in DOMAIN msg |-> NoOne]
        /\ drv' = [IdleDriver EXCEPT !.pc = "down"]
        /\ res' = [c \in Resolvers |-> IdleResolver]
        /\ seen' = [p \in Threads |-> FALSE]
        /\ UNCHANGED <<msg, harnessVars, attempt, term, blocked, calls>>
    BY DEF Crash, Panic, Down
  <1>2. crashes' \in 0 .. MaxCrashes
    BY TypesGive, PermissionAssumption DEF Crash, Panic
  <1>3. /\ drv' \in [pc : DriverPC, k : Nat, todo : SUBSET Nat]
        /\ drv'.pc = "down" /\ drv'.k = 0 /\ drv'.todo = {}
    BY <1>1 DEF IdleDriver, DriverPC
  <1>4. /\ res' \in [Resolvers -> ResolverRecord]
        /\ \A c \in Resolvers : res'[c].pc = "idle" /\ res'[c].k = 0
    BY <1>1, IdleFacts
  <1>5. lock' \in [DOMAIN msg -> Threads \cup {NoOne}] /\ seen' \in [Threads -> BOOLEAN]
    BY <1>1
  <1>6. PermTypes'
    <2>1. \A c \in Resolvers : res'[c].k \in 0 .. Len(msg)
      BY <1>4, TypesGive
    <2>2. UNCHANGED <<msg, harnessVars, attempt, term, blocked, calls>> /\ active' = 0
      BY <1>1
    <2>3. drv'.k \in 0 .. Len(msg) /\ drv'.todo \subseteq DOMAIN msg
      BY <1>3, TypesGive
    <2>4. QED
      BY <1>2, <1>3, <1>4, <1>5, <2>1, <2>2, <2>3, TypesGive, TypesFrom DEF harnessVars
  <1>7. LockInv' /\ FlowInv' /\ HeardInv'
    BY <1>1, <1>3, <1>4, HeardKept DEF LockInv, FlowInv, harnessVars, Holding, Deciding
  <1>8. QED
    BY <1>6, <1>7

LEMMA RecoverStep ==
    ASSUME PermissionInv, Recover
    PROVE  PermissionInv'
  <1> USE DEF PermissionInv
  <1>1. drv.pc = "down" /\ UNCHANGED <<msg, harnessVars, lock, term, res, seen, boundVars>>
    BY DEF Recover, DriverAt
  <1>2. active = 0 /\ \A c \in Resolvers : res[c].pc = "idle"
    BY <1>1 DEF LockInv
  <1>3. /\ drv' \in [pc : DriverPC, k : Nat, todo : SUBSET Nat]
        /\ drv'.pc \in {"session", "ended"} /\ drv'.k = 0 /\ drv'.todo = {}
    BY DEF Recover, IdleDriver, DriverPC
  <1>4. attempt' \in Attempts /\ active' \in {0, attempt'} /\ blocked' \in BOOLEAN
    <2>1. attempt \in 1 .. MaxAttempts /\ MaxAttempts \in Nat /\ blocked \in BOOLEAN
      BY TypesGive, PermissionAssumption DEF Attempts
    <2>2. \/ attempt < MaxAttempts /\ attempt' = attempt + 1 /\ active' = attempt' /\ blocked' = FALSE
          \/ UNCHANGED <<attempt, active, blocked>>
      BY DEF Recover
    <2>3. CASE attempt < MaxAttempts /\ attempt' = attempt + 1 /\ active' = attempt' /\ blocked' = FALSE
      <3>1. attempt' \in Attempts
        BY <2>1, <2>3 DEF Attempts
      <3>2. active' = attempt' /\ blocked' = FALSE
        BY <2>3
      <3>3. QED
        BY <3>1, <3>2
    <2>4. CASE UNCHANGED <<attempt, active, blocked>>
      BY <2>4, TypesGive
    <2>5. QED
      BY <2>2, <2>3, <2>4
  <1>5. PermTypes'
    <2>1. drv'.k \in 0 .. Len(msg) /\ drv'.todo \subseteq DOMAIN msg
      BY <1>3, TypesGive
    <2>2. QED
      BY <1>1, <1>3, <1>4, <2>1, TypesGive, TypesFrom DEF harnessVars, boundVars
  <1>6. LockInv' /\ FlowInv' /\ HeardInv'
    BY <1>1, <1>2, <1>3, HeardKept DEF LockInv, FlowInv, harnessVars, Holding, Deciding
  <1>7. QED
    BY <1>5, <1>6

LEMMA NextPermission == PermissionInv /\ [Next]_vars => PermissionInv'
  <1> SUFFICES ASSUME PermissionInv, [Next]_vars PROVE PermissionInv'
    OBVIOUS
  <1>1. CASE UNCHANGED vars
    BY <1>1, HeardKept DEF vars, PermissionInv, PermTypes, TypeOK, LockInv, FlowInv
  <1>2. CASE \E r \in Requests : Ask(r)
    BY <1>2, AskStep
  <1>3. ASSUME NEW c \in Resolvers, Resolve(c) PROVE PermissionInv'
    BY <1>3, FreezeStep, RespondStep, RecordStep, ResolverStep, DownStep DEF Resolve
  <1>4. ASSUME NEW c \in Resolvers, NEW k \in DOMAIN msg, NEW d \in Decisions,
               ResolveMessage(c, k, d)
        PROVE  PermissionInv'
    BY <1>4, ResolverStep
  <1>5. CASE Drive \/ SessionEnds
    BY <1>5, BridgeEnqueueStep, DriverStep, ExpireStep DEF Drive, Bridge
  <1>6. CASE Crash
    BY <1>6, DownStep
  <1>7. CASE Recover
    BY <1>7, RecoverStep
  <1>8. QED
    BY <1>1, <1>2, <1>3, <1>4, <1>5, <1>6, <1>7 DEF Next

-----------------------------------------------------------------------------

\* The inductive invariant of the permission protocol: whoever is past a message's operation
\* lock holds it, a frozen decision is what is delivered, to the attempt that asked, and what
\* a harness has heard is what its message has frozen (resolveNativePermission, messages.go).
THEOREM PermissionInvariant == Spec => []PermissionInv
  <1>1. QED
    BY InitPermission, NextPermission, PTL DEF Spec

\* A harness never hears two answers to one request, and the journal says answered or expired
\* only where the harness heard the frozen decision or nothing, for every number of resolvers,
\* attempts and crashes (resolveNativePermission, expireOneMessage).
THEOREM OutcomeStaysTrue == Spec => []OutcomeIsTrue
  <1>1. PermissionInv => OutcomeIsTrue
    <2> SUFFICES ASSUME PermissionInv PROVE OutcomeIsTrue
      OBVIOUS
    <2>1. HeardInv /\ TypeOK
      BY DEF PermissionInv, PermTypes
    <2>2. \A k \in DOMAIN msg : /\ msg[k].att \in Attempts /\ msg[k].req \in Requests
                                /\ got[msg[k].att][msg[k].req] \subseteq Decisions
      <3>1. \A k \in DOMAIN msg : msg[k].att \in Attempts /\ msg[k].req \in Requests
        BY MessageParts DEF PermissionInv
      <3>2. QED
        BY <2>1, <3>1 DEF TypeOK
    <2>3. ASSUME NEW a \in Attempts, NEW r \in Requests
          PROVE  Cardinality(got[a][r]) <= 1
      <3>1. CASE got[a][r] = {}
        BY <3>1, FS_EmptySet
      <3>2. CASE got[a][r] # {}
        <4>1. PICK k \in DOMAIN msg : msg[k].att = a /\ msg[k].req = r
          BY <2>1, <3>2 DEF HeardInv
        <4>2. got[a][r] = {msg[k].res}
          BY <2>1, <3>2, <4>1 DEF HeardInv
        <4>3. Cardinality({msg[k].res}) = 1
          BY FS_Singleton
        <4>4. QED
          BY <4>2, <4>3
      <3>3. QED
        BY <3>1, <3>2
    <2>4. ASSUME NEW k \in DOMAIN msg
          PROVE  /\ msg[k].status = "answered" => got[msg[k].att][msg[k].req] = {msg[k].res}
                 /\ msg[k].status = "expired" => got[msg[k].att][msg[k].req] = {}
      BY <2>1, <2>2 DEF HeardInv, Decisions
    <2>5. QED
      BY <2>1, <2>3, <2>4 DEF OutcomeIsTrue
  <1>2. QED
    BY <1>1, PermissionInvariant, PTL

\* What a harness hears was decided for a request of its own attempt, also when a resumed
\* session asks under an id that a former one has used (validatePermissionBinding).
THEOREM AnsweredByItsOwn == Spec => []OnlyToTheAsker
  <1>1. PermissionInv => OnlyToTheAsker
    <2> SUFFICES ASSUME HeardInv, NEW a \in Attempts, NEW r \in Requests, got[a][r] # {}
                 PROVE  \E k \in DOMAIN msg : msg[k].att = a /\ msg[k].req = r
                                                /\ msg[k].res \in got[a][r]
      BY DEF PermissionInv, OnlyToTheAsker
    <2>1. PICK k \in DOMAIN msg : msg[k].att = a /\ msg[k].req = r
      BY DEF HeardInv
    <2>2. got[a][r] \subseteq {msg[k].res}
      BY <2>1 DEF HeardInv
    <2>3. QED
      BY <2>1, <2>2
  <1>2. QED
    BY <1>1, PermissionInvariant, PTL
=============================================================================

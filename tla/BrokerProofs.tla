---------------------------- MODULE BrokerProofs ----------------------------
(***************************************************************************)
(* The broker around the router, for any number of sessions: it calls the  *)
(* router as Router's specification allows, so what is proved of Router    *)
(* holds in the broker, and the registry, the sessions and the lock queue  *)
(* stay in step.                                                           *)
(***************************************************************************)
EXTENDS Broker, RouterProofs, SequenceTheorems

-----------------------------------------------------------------------------
(***************************************************************************)
(* The lock queue of the router.                                           *)
(***************************************************************************)
Waiting == {"subscribe", "restore", "unsubscribe", "unsubscribe_all", "remove", "get", "route"}

\* Whoever is queued waits for the lock, and is queued once.
QueueInv ==
    /\ \A i \in 1..Len(lockq) : pc[lockq[i]] \in Waiting
    /\ \A i, j \in 1..Len(lockq) : lockq[i] = lockq[j] => i = j

LEMMA EnqueueKeeps ==
    ASSUME TypeOK, QueueInv, NEW s \in Sessions, NEW c \in Waiting, Enqueue(s, c)
    PROVE  QueueInv'
<1> DEFINE n == Len(lockq)
<1>1. lockq \in Seq(Sessions) /\ n \in Nat /\ pc[s] = "idle"
      /\ \A i \in 1..n : lockq[i] \in Sessions
  BY DEF TypeOK, Enqueue
<1>2. /\ Len(lockq') = n + 1 /\ lockq'[n + 1] = s
      /\ \A i \in 1..n : lockq'[i] = lockq[i]
  BY <1>1, AppendProperties DEF Enqueue
<1>3. \A i \in 1..n : lockq[i] # s
  BY <1>1 DEF QueueInv, Waiting
<1>4. pc'[s] = c /\ \A t \in Sessions \ {s} : pc'[t] = pc[t]
  BY DEF Enqueue, TypeOK
<1>5. \A i \in 1..(n + 1) : i \in 1..n \/ i = n + 1
  BY <1>1
<1>6. \A i \in 1..Len(lockq') : pc'[lockq'[i]] \in Waiting
  BY <1>1, <1>2, <1>3, <1>4, <1>5 DEF QueueInv
<1>7. \A i, j \in 1..Len(lockq') : lockq'[i] = lockq'[j] => i = j
  BY <1>2, <1>3, <1>5 DEF QueueInv
<1> QED BY <1>6, <1>7 DEF QueueInv

LEMMA GrantKeeps ==
    ASSUME TypeOK, QueueInv, NEW s \in Sessions, NEW c, GrantRead(s, c),
           \A t \in Sessions \ {s} : pc'[t] = pc[t]
    PROVE  QueueInv'
<1> DEFINE n == Len(lockq)
<1>1. lockq \in Seq(Sessions) /\ lockq # <<>> /\ n \in Nat \ {0} /\ lockq[1] = s
      /\ \A i \in 1..n : lockq[i] \in Sessions
  BY EmptySeq, HeadTailProperties DEF TypeOK, GrantRead
<1>2. Len(lockq') = n - 1 /\ \A i \in 1..(n - 1) : lockq'[i] = lockq[i + 1]
  BY <1>1, HeadTailProperties DEF GrantRead
<1>3. \A i \in 1..(n - 1) : i + 1 \in 1..n /\ i + 1 # 1 /\ 1 \in 1..n
  BY <1>1
<1>4. \A i \in 1..(n - 1) : lockq[i + 1] \in Sessions \ {s}
  BY <1>1, <1>3 DEF QueueInv
<1>5. \A i \in 1..Len(lockq') : pc'[lockq'[i]] \in Waiting
  BY <1>2, <1>3, <1>4 DEF QueueInv
<1>6. \A i, j \in 1..Len(lockq') : lockq'[i] = lockq'[j] => i = j
  <2> SUFFICES ASSUME NEW i \in 1..(n - 1), NEW j \in 1..(n - 1), lockq[i + 1] = lockq[j + 1]
               PROVE  i = j
    BY <1>2
  <2>1. i + 1 = j + 1
    BY <1>3 DEF QueueInv
  <2> QED BY <2>1, <1>1
<1> QED BY <1>5, <1>6 DEF QueueInv

\* A step that takes no lock leaves its session outside the queue.
LEMMA NoGrantKeeps ==
    ASSUME TypeOK, QueueInv, NEW s \in Sessions, pc[s] \notin Waiting, UNCHANGED lockq,
           \A t \in Sessions \ {s} : pc'[t] = pc[t]
    PROVE  QueueInv'
<1>1. \A i \in 1..Len(lockq) : lockq[i] \in Sessions \ {s}
  BY DEF TypeOK, QueueInv
<1> QED BY <1>1 DEF QueueInv

\* Of the point a session has reached, a router step changes its own only.
LEMMA StepTouchesOwn ==
    ASSUME TypeOK, NEW s \in Sessions, Step(s)
    PROVE  /\ \A t \in Sessions \ {s} : pc'[t] = pc[t]
           /\ pc'[s] # "subscribe" /\ (pc'[s] = "suback" => pc[s] = "subscribe")
           /\ dropped \subseteq dropped'
<1> USE DEF TypeOK, GrantWrite, GrantRead
<1>1. CASE Route(s) \/ Deliver(s)
  BY <1>1 DEF Route, Deliver, Continue
<1>2. CASE \E x \in replay[s] : QueueRetained(s, x)
  BY <1>2 DEF QueueRetained
<1> QED BY <1>1, <1>2 DEF Step, Subscribe, SendSubAck, SubAckFails, SubscribeReturns, Resubscribe, Unsubscribe,
           UnsubscribeAll, Remove, GetSubscriptions

LEMMA StepQueue ==
    ASSUME TypeOK, QueueInv, NEW s \in Sessions, Step(s)
    PROVE  QueueInv'
<1>1. CASE \E c : GrantRead(s, c)
  BY <1>1, StepTouchesOwn, GrantKeeps
<1>2. CASE pc[s] \notin Waiting /\ UNCHANGED lockq
  BY <1>2, StepTouchesOwn, NoGrantKeeps
<1>3. (\E c : GrantRead(s, c)) \/ (pc[s] \notin Waiting /\ UNCHANGED lockq)
  BY DEF Step, Subscribe, SendSubAck, SubAckFails, QueueRetained, SubscribeReturns, Resubscribe, Unsubscribe,
         UnsubscribeAll, Remove, GetSubscriptions, Route, Deliver, GrantWrite, Waiting
<1> QED BY <1>1, <1>2, <1>3

LEMMA CallQueue ==
    ASSUME TypeOK, QueueInv, NEW s \in Sessions, Call(s)
    PROVE  QueueInv'
<1>1. PICK c \in Waiting : Enqueue(s, c)
  BY DEF Call, CallSubscribe, CallRestore, CallUnsubscribe, CallUnsubscribeAll, CallGetSubscriptions, CallRoute, Waiting
<1> QED BY <1>1, EnqueueKeeps

LEMMA QueueInvHolds == Spec => []QueueInv
<1>1. Init => QueueInv
  BY DEF Init, QueueInv
<1>2. TypeOK /\ QueueInv /\ [Next]_vars => QueueInv'
  <2> SUFFICES ASSUME TypeOK, QueueInv, [Next]_vars PROVE QueueInv'
    OBVIOUS
  <2>1. CASE UNCHANGED <<lockq, pc>>
    BY <2>1 DEF QueueInv
  <2>2. CASE Next /\ ~UNCHANGED <<lockq, pc>>
    BY <2>2, CallQueue, StepQueue DEF Next, Receive, calls
  <2> QED BY <2>1, <2>2 DEF vars, calls
<1> QED BY <1>1, <1>2, TypeCorrect, PTL DEF Spec

-----------------------------------------------------------------------------
(***************************************************************************)
(* The broker's steps are steps of the router, or leave it alone.          *)
(***************************************************************************)
LEMMA SessionCallsRouter ==
    ASSUME NEW s \in Sessions, Progress(s) \/ Environment(s)
    PROVE  Call(s) \/ Step(s) \/ Receive(s) \/ UNCHANGED vars
<1>1. CASE RouterStep(s)
  BY <1>1 DEF RouterStep, Step
<1>2. CASE ServePacket(s)
  BY <1>2 DEF ServePacket, Call
<1>3. CASE Cleanup(s)
  BY <1>3 DEF Cleanup, Call
<1>4. CASE \E c \in BOOLEAN : Connect(s, c) \/ Takeover(s, c) \/ TakeoverFails(s, c)
  BY <1>4 DEF Connect, Takeover, TakeoverFails, Call
<1>5. CASE ServeMessage(s) \/ Save(s) \/ Cancel(s) \/ LockRegistry(s) \/ RemoveSession(s)
  BY <1>5 DEF ServeMessage, Save, Cancel, LockRegistry, RemoveSession, Call, Step
<1>6. CASE LoseConnection(s) \/ WriteFails(s) \/ ConnAck(s) \/ GiveUp(s)
  BY <1>6 DEF LoseConnection, WriteFails, ConnAck, GiveUp, Step
<1> QED BY <1>1, <1>2, <1>3, <1>4, <1>5, <1>6 DEF Progress, Environment

\* The broker implements the router's specification: the serve loop and the
\* sessions make no call the router does not allow for.
THEOREM BrokerUsesRouter == BrokerSpec => Spec
<1>1. BrokerInit => Init
  BY DEF BrokerInit
<1>2. [BrokerNext]_allVars => [Next]_vars
  <2>1. ASSUME NEW s \in Sessions, Progress(s) \/ Environment(s) PROVE [Next]_vars
    BY <2>1, SessionCallsRouter DEF Next
  <2>2. ASSUME Serve PROVE UNCHANGED vars
    BY <2>2 DEF Serve, Accept, AddClient, StopListening, CancelAll, Stopped
  <2>3. UNCHANGED allVars => UNCHANGED vars
    BY DEF allVars
  <2> QED BY <2>1, <2>2, <2>3 DEF BrokerNext
<1> QED BY <1>1, <1>2, PTL DEF BrokerSpec, Spec

\* So what the router promises it promises in the broker too, whatever the
\* takeovers, failed writes and removals of the sessions around it.
THEOREM BrokerKeepsPromises ==
    BrokerSpec => [](TablesAgree /\ RouteTargetsLive /\ NoRetainedGap /\ RetainedBounded)
BY BrokerUsesRouter, TablesCorrect, RoutingCorrect, RetainedGapFree, RetainedWithinLimit, PTL

-----------------------------------------------------------------------------
(***************************************************************************)
(* The registry and the sessions.                                          *)
(***************************************************************************)
Listening == {"waiting", "connecting", "processing", "pending", "parked"}

\* Only do_processing subscribes: a SUBACK that cannot be written finds its
\* session there.
Subscribing == \A s \in Sessions : pc[s] \in {"subscribe", "suback"} => state[s] = "processing"

\* A session is registered from add_client to remove_session, until shutdown
\* empties the registry; then those that still wait for events have a Cancel.
Registered ==
    /\ server \in {"loop", "add_client", "cancel_all"} =>
        \A s \in Sessions : state[s] \notin {"none", "exited"} => s \in registry
    /\ server \in {"drain", "stopped"} =>
        \A s \in Sessions : state[s] \in Listening => s \in cancelled

\* What remove_session has done for a session that has ended.
Exited ==
    \A s \in Sessions : state[s] = "exited" => s \in dropped /\ s \notin registry /\ holder # s

RegistryTypeOK ==
    /\ server \in ServerState /\ registry \subseteq Sessions /\ holder \in Sessions \cup {NoSession}
    /\ state \in [Sessions -> SessionState] /\ clean \in [Sessions -> BOOLEAN]
    /\ cancelled \subseteq Sessions /\ packets \in 0..MaxPackets

BrokerInv == RegistryTypeOK /\ Subscribing /\ Registered /\ Exited

LEMMA BrokerInitInv == BrokerInit => BrokerInv
<1> SUFFICES ASSUME BrokerInit PROVE BrokerInv
  OBVIOUS
<1>1. RegistryTypeOK
  BY RegistryAssumption DEF BrokerInit, RegistryTypeOK, ServerState, SessionState
<1>2. Subscribing /\ Registered /\ Exited
  BY DEF BrokerInit, Init, Subscribing, Registered, Exited
<1> QED BY <1>1, <1>2 DEF BrokerInv

\* A session that runs moves on without leaving its place in the registry.
LEMMA MoveKeeps ==
    ASSUME TypeOK, BrokerInv, NEW s \in Sessions, NEW st \in SessionState \ {"none", "exited"},
           state[s] \notin {"none", "exited"}, state' = [state EXCEPT ![s] = st],
           st \in Listening => state[s] \in Listening,
           UNCHANGED <<server, registry, cancelled>>, holder' \in {holder, s},
           clean' \in [Sessions -> BOOLEAN], packets' \in 0..MaxPackets, dropped \subseteq dropped',
           \A t \in Sessions \ {s} : pc'[t] = pc[t],
           pc'[s] \in {"subscribe", "suback"} => st = "processing"
    PROVE  BrokerInv'
<1>1. state'[s] = st /\ \A t \in Sessions \ {s} : state'[t] = state[t]
  BY DEF BrokerInv, RegistryTypeOK
<1>2. RegistryTypeOK'
  BY DEF BrokerInv, RegistryTypeOK
<1>3. Subscribing'
  BY <1>1 DEF BrokerInv, Subscribing
<1>4. Registered'
  BY <1>1 DEF BrokerInv, Registered, Listening
<1>5. Exited'
  BY <1>1 DEF BrokerInv, Exited
<1> QED BY <1>2, <1>3, <1>4, <1>5 DEF BrokerInv

\* The same, for a step that does not change the state.
LEMMA StayKeeps ==
    ASSUME TypeOK, BrokerInv, NEW s \in Sessions, state[s] \notin {"none", "exited"},
           UNCHANGED <<state, clean, server, registry, cancelled>>, holder' \in {holder, s},
           packets' \in 0..MaxPackets, dropped \subseteq dropped',
           \A t \in Sessions \ {s} : pc'[t] = pc[t],
           pc'[s] \in {"subscribe", "suback"} => state[s] = "processing"
    PROVE  BrokerInv'
<1>1. state' = [state EXCEPT ![s] = state[s]] /\ state[s] \in SessionState \ {"none", "exited"}
      /\ clean' \in [Sessions -> BOOLEAN]
  BY DEF BrokerInv, RegistryTypeOK
<1> QED BY <1>1, MoveKeeps

LEMMA CallTouchesOwn ==
    ASSUME TypeOK, NEW s \in Sessions, NEW c, Enqueue(s, c)
    PROVE  pc'[s] = c /\ \A t \in Sessions \ {s} : pc'[t] = pc[t]
BY DEF Enqueue, TypeOK

LEMMA CountType ==
    ASSUME BrokerInv, Count
    PROVE  packets' \in 0..MaxPackets
BY RegistryAssumption DEF BrokerInv, RegistryTypeOK, Count

LEMMA ServeKeeps ==
    ASSUME TypeOK, BrokerInv, Serve
    PROVE  BrokerInv'
<1> USE DEF RegistryTypeOK, ServerState
<1>0. UNCHANGED <<pc, dropped>>
  BY DEF Serve, Accept, AddClient, StopListening, CancelAll, Stopped, vars, calls
<1>1. CASE Accept \/ StopListening
  BY <1>0, <1>1 DEF BrokerInv, Subscribing, Registered, Exited, Accept, StopListening, sessionVars
<1>2. ASSUME NEW s \in Sessions, AddClient(s) PROVE BrokerInv'
  <2>1. /\ state' \in [Sessions -> SessionState]
        /\ state'[s] = "waiting" /\ \A t \in Sessions \ {s} : state'[t] = state[t]
        /\ registry' = registry \cup {s} /\ server' = "loop" /\ server = "add_client" /\ state[s] = "none"
    BY <1>2 DEF BrokerInv, AddClient, SessionState
  <2>2. UNCHANGED <<holder, clean, cancelled, packets>>
    BY <1>2 DEF AddClient
  <2> QED BY <1>0, <2>1, <2>2 DEF BrokerInv, Subscribing, Registered, Exited
<1>3. CASE CancelAll
  <2>1. /\ cancelled' = cancelled \cup registry /\ registry' = {} /\ server' = "drain"
        /\ server = "cancel_all" /\ UNCHANGED <<holder, state, clean, packets>>
    BY <1>3 DEF CancelAll
  <2> QED BY <1>0, <2>1 DEF BrokerInv, Subscribing, Registered, Exited, Listening
<1>4. CASE Stopped
  BY <1>0, <1>4 DEF BrokerInv, Subscribing, Registered, Exited, Stopped, sessionVars
<1> QED BY <1>1, <1>2, <1>3, <1>4 DEF Serve

LEMMA SessionKeeps ==
    ASSUME TypeOK, BrokerInv, NEW s \in Sessions, Progress(s) \/ Environment(s)
    PROVE  BrokerInv'
<1> USE DEF Polled, Ready, GoTo, registryVars, sessionVars, SessionState, Listening
<1>0. packets \in 0..MaxPackets /\ clean[s] \in BOOLEAN /\ clean \in [Sessions -> BOOLEAN]
  BY DEF BrokerInv, RegistryTypeOK
<1>1. CASE RouterStep(s)
  <2>1. Step(s) /\ UNCHANGED <<registryVars, sessionVars>> /\ state[s] \notin {"none", "exited"}
    BY <1>1 DEF RouterStep, Step
  <2>2. pc'[s] \in {"subscribe", "suback"} => state[s] = "processing"
    BY <2>1, StepTouchesOwn DEF BrokerInv, Subscribing
  <2> QED BY <1>0, <2>1, <2>2, StepTouchesOwn, StayKeeps
<1>2. CASE ServePacket(s)
  <2>1. PICK c : Enqueue(s, c) /\ UNCHANGED dropped
    BY <1>2 DEF ServePacket, CallSubscribe, CallUnsubscribe, CallRoute
  <2>2. /\ Count /\ state[s] = "processing" /\ UNCHANGED <<registryVars, state, clean, cancelled>>
    BY <1>2 DEF ServePacket
  <2> QED BY <2>1, <2>2, CallTouchesOwn, CountType, StayKeeps
<1>3. CASE ServeMessage(s)
  BY <1>0, <1>3, StayKeeps DEF ServeMessage, Receive, calls
<1>4. CASE Save(s)
  <2>1. Enqueue(s, "get") /\ UNCHANGED <<dropped, packets>> /\ state[s] = "pending"
        /\ GoTo(s, "parked")
    BY <1>4 DEF Save, CallGetSubscriptions
  <2>2. pc'[s] = "get" /\ \A t \in Sessions \ {s} : pc'[t] = pc[t]
    BY <2>1, CallTouchesOwn
  <2> QED BY <1>0, <2>1, <2>2, MoveKeeps
<1>5. CASE Cancel(s)
  BY <1>0, <1>5, MoveKeeps DEF Cancel, vars, calls
<1>6. CASE Cleanup(s)
  <2>1. state[s] = "cleanup" /\ GoTo(s, "leaving") /\ pc[s] = "idle"
    BY <1>6 DEF Cleanup
  <2>2. CASE UNCHANGED <<vars, packets>>
    BY <1>0, <2>1, <2>2, MoveKeeps DEF vars, calls
  <2>3. CASE Count /\ \E p \in Published : CallRoute(s, p)
    <3>1. Enqueue(s, "route") /\ UNCHANGED dropped
      BY <2>3 DEF CallRoute
    <3>2. pc'[s] = "route" /\ \A t \in Sessions \ {s} : pc'[t] = pc[t]
      BY <3>1, CallTouchesOwn
    <3> QED BY <1>0, <2>1, <2>3, <3>1, <3>2, CountType, MoveKeeps
  <2> QED BY <1>6, <2>2, <2>3 DEF Cleanup
<1>7. CASE LockRegistry(s)
  <2>1. Enqueue(s, "remove") /\ UNCHANGED <<dropped, server, registry, sessionVars>>
        /\ state[s] = "leaving" /\ holder' = s
    BY <1>7 DEF LockRegistry, CallUnsubscribeAll
  <2> QED BY <1>0, <2>1, CallTouchesOwn, StayKeeps
<1>8. CASE RemoveSession(s)
  <2>1. Step(s) /\ s \in dropped' /\ pc'[s] = "idle"
    BY <1>8 DEF RemoveSession, Remove, Step, TypeOK
  <2>2. /\ state' \in [Sessions -> SessionState]
        /\ state'[s] = "exited" /\ \A t \in Sessions \ {s} : state'[t] = state[t]
        /\ registry' = registry \ {s} /\ holder' = NoSession /\ state[s] # "none"
        /\ UNCHANGED <<server, clean, cancelled, packets>>
    BY <1>8 DEF RemoveSession, BrokerInv, RegistryTypeOK
  <2>3. RegistryTypeOK' /\ Registered'
    BY <2>2 DEF BrokerInv, RegistryTypeOK, Registered
  <2>4. Subscribing'
    BY <2>1, <2>2, StepTouchesOwn DEF BrokerInv, Subscribing
  <2>5. Exited'
    BY <2>1, <2>2, StepTouchesOwn, RegistryAssumption DEF BrokerInv, Exited
  <2> QED BY <2>3, <2>4, <2>5 DEF BrokerInv
<1>9. CASE LoseConnection(s) \/ ConnAck(s) \/ GiveUp(s)
  BY <1>0, <1>9, MoveKeeps DEF LoseConnection, ConnAck, GiveUp, AfterLoss, vars, calls
<1>10. CASE WriteFails(s)
  <2>1. pc[s] = "suback" /\ pc' = [pc EXCEPT ![s] = "idle"] /\ UNCHANGED <<dropped, packets>>
        /\ GoTo(s, AfterLoss(s))
    BY <1>10 DEF WriteFails, SubAckFails
  <2>2. state[s] = "processing"
    BY <2>1 DEF BrokerInv, Subscribing
  <2>3. AfterLoss(s) \in {"cleanup", "pending"}
    BY DEF AfterLoss
  <2>4. pc'[s] = "idle" /\ \A t \in Sessions \ {s} : pc'[t] = pc[t]
    BY <2>1 DEF TypeOK
  <2> QED BY <1>0, <2>1, <2>2, <2>3, <2>4, MoveKeeps
<1>11. ASSUME NEW c \in BOOLEAN, Connect(s, c) \/ TakeoverFails(s, c) PROVE BrokerInv'
  <2>1. CASE Connect(s, c)
    <3>1. /\ state[s] = "waiting" /\ pc[s] = "idle"
          /\ state' = [state EXCEPT ![s] = "connecting"] /\ clean' \in [Sessions -> BOOLEAN]
          /\ UNCHANGED <<registryVars, cancelled, packets>>
      BY <1>0, <2>1 DEF Connect
    <3>2. CASE UNCHANGED vars
      BY <1>0, <3>1, <3>2, MoveKeeps DEF vars, calls
    <3>3. ASSUME NEW F \in Requests, CallRestore(s, F) PROVE BrokerInv'
      <4>1. Enqueue(s, "restore") /\ UNCHANGED dropped
        BY <3>3 DEF CallRestore
      <4>2. pc'[s] = "restore" /\ \A t \in Sessions \ {s} : pc'[t] = pc[t]
        BY <4>1, CallTouchesOwn
      <4> QED BY <1>0, <3>1, <4>1, <4>2, MoveKeeps
    <3> QED BY <2>1, <3>2, <3>3 DEF Connect
  <2>2. CASE TakeoverFails(s, c)
    BY <1>0, <2>2, MoveKeeps DEF TakeoverFails, vars, calls
  <2> QED BY <1>11, <2>1, <2>2
<1>12. ASSUME NEW c \in BOOLEAN, Takeover(s, c) PROVE BrokerInv'
  <2>1. /\ state[s] \in {"processing", "parked"} /\ pc[s] = "idle"
        /\ state' = [state EXCEPT ![s] = "processing"] /\ clean' \in [Sessions -> BOOLEAN]
        /\ UNCHANGED <<registryVars, cancelled, packets>>
    BY <1>0, <1>12 DEF Takeover
  <2>2. CASE UNCHANGED vars
    BY <1>0, <2>1, <2>2, MoveKeeps DEF vars, calls
  <2>3. CASE CallUnsubscribeAll(s, "unsubscribe_all")
    <3>1. Enqueue(s, "unsubscribe_all") /\ UNCHANGED dropped
      BY <2>3 DEF CallUnsubscribeAll
    <3> QED BY <1>0, <2>1, <3>1, CallTouchesOwn, MoveKeeps
  <2> QED BY <1>12, <2>2, <2>3 DEF Takeover
<1> QED BY <1>1, <1>2, <1>3, <1>4, <1>5, <1>6, <1>7, <1>8, <1>9, <1>10, <1>11, <1>12
        DEF Progress, Environment

LEMMA BrokerInvHolds == BrokerSpec => [](TypeOK /\ RoutingInv /\ QueueInv /\ BrokerInv)
<1>1. TypeOK /\ BrokerInv /\ [BrokerNext]_allVars => BrokerInv'
  <2> SUFFICES ASSUME TypeOK, BrokerInv, [BrokerNext]_allVars PROVE BrokerInv'
    OBVIOUS
  <2>1. CASE UNCHANGED allVars
    BY <2>1 DEF BrokerInv, RegistryTypeOK, Subscribing, Registered, Exited,
                allVars, vars, calls, registryVars, sessionVars
  <2> QED BY <2>1, ServeKeeps, SessionKeeps DEF BrokerNext
<1>2. BrokerSpec => [](TypeOK /\ RoutingInv) /\ []QueueInv
  BY BrokerUsesRouter, RoutingInvHolds, QueueInvHolds, PTL
<1> QED BY <1>1, <1>2, BrokerInitInv, PTL DEF BrokerSpec

\* The types of the serve loop, the registry, the sessions and the router.
THEOREM BrokerTypes == BrokerSpec => []BrokerTypeOK
<1>1. TypeOK /\ BrokerInv => BrokerTypeOK
  BY DEF BrokerInv, RegistryTypeOK, BrokerTypeOK
<1> QED BY <1>1, BrokerInvHolds, PTL

\* remove_session cleans up: a session that has ended is in neither of the
\* router's tables, not in the registry and in no queue.
THEOREM NothingIsLeft == BrokerSpec => []ExitedLeavesNothing
<1>1. TypeOK /\ RoutingInv /\ QueueInv /\ BrokerInv => ExitedLeavesNothing
  <2> SUFFICES ASSUME TypeOK, RoutingInv, QueueInv, BrokerInv, NEW s \in Sessions, state[s] = "exited"
               PROVE  /\ s \notin registry /\ holder # s
                      /\ \A f \in Filters : s \notin filters[f]
                      /\ \A i \in 1..Len(lockq) : lockq[i] # s
    BY DEF ExitedLeavesNothing
  <2>1. s \in dropped /\ s \notin registry /\ holder # s
    BY DEF BrokerInv, Exited
  <2>2. pc[s] = "idle" /\ \A f \in Filters : s \notin filters[f]
    BY <2>1 DEF RoutingInv, RemovedIsOut, TablesAgree
  <2>3. \A i \in 1..Len(lockq) : lockq[i] # s
    BY <2>2 DEF QueueInv, Waiting
  <2> QED BY <2>1, <2>2, <2>3
<1> QED BY <1>1, BrokerInvHolds, PTL

\* cancel_all_sessions overlooks nobody who still waits for events.
THEOREM EverybodyIsCancelled == BrokerSpec => []CancelReachesAll
<1>1. BrokerInv => CancelReachesAll
  BY DEF BrokerInv, Registered, Listening, CancelReachesAll
<1> QED BY <1>1, BrokerInvHolds, PTL
=============================================================================

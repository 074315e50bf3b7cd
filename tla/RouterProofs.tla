---------------------------- MODULE RouterProofs ----------------------------
(***************************************************************************)
(* Proofs about Router for any number of sessions, filters and topics, any *)
(* matching relation and any capacity and limit.                           *)
(***************************************************************************)
EXTENDS Router, FiniteSetTheorems, TLAPS

USE DEF PC

(***************************************************************************)
(* Type correctness.                                                       *)
(***************************************************************************)
LEMMA NoPacketType == NoPacket \in Packet
BY EmptyAssumption, TopicsAssumption DEF NoPacket, Packet

LEMMA InitType == Init => TypeOK
BY NoPacketType, CapAssumption DEF Init, TypeOK, StoredTopics

\* What Continue leaves in the variables of the call.
LEMMA ContinueType ==
    ASSUME TypeOK, NEW s \in Sessions, NEW rest \in SUBSET Target, Continue(s, rest)
    PROVE  /\ pc'     \in [Sessions -> PC]
           /\ packet' \in [Sessions -> Packet]
           /\ todo'   \in [Sessions -> SUBSET Target]
           /\ at'     \in [Sessions -> Target \cup {NoTarget}]
<1>1. CASE rest = {} /\ pc' = [pc EXCEPT ![s] = "idle"]
                      /\ packet' = [packet EXCEPT ![s] = NoPacket]
                      /\ todo' = [todo EXCEPT ![s] = {}]
                      /\ at' = [at EXCEPT ![s] = NoTarget]
  <2>1. pc' \in [Sessions -> PC]
    BY <1>1 DEF TypeOK
  <2>2. packet' \in [Sessions -> Packet]
    BY <1>1, NoPacketType DEF TypeOK
  <2>3. todo' \in [Sessions -> SUBSET Target]
    BY <1>1 DEF TypeOK
  <2>4. at' \in [Sessions -> Target \cup {NoTarget}]
    BY <1>1 DEF TypeOK
  <2> QED BY <2>1, <2>2, <2>3, <2>4
<1>2. ASSUME NEW x \in rest,
             pc'   = [pc EXCEPT ![s] = "deliver"],
             todo' = [todo EXCEPT ![s] = rest],
             at'   = [at EXCEPT ![s] = x],
             UNCHANGED packet
      PROVE  /\ pc'     \in [Sessions -> PC]
             /\ packet' \in [Sessions -> Packet]
             /\ todo'   \in [Sessions -> SUBSET Target]
             /\ at'     \in [Sessions -> Target \cup {NoTarget}]
  <2>1. x \in Target \cup {NoTarget}
    OBVIOUS
  <2>2. at' \in [Sessions -> Target \cup {NoTarget}]
    BY <1>2, <2>1 DEF TypeOK
  <2>3. todo' \in [Sessions -> SUBSET Target]
    BY <1>2 DEF TypeOK
  <2> QED BY <1>2, <2>2, <2>3 DEF TypeOK
<1> QED BY <1>1, <1>2 DEF Continue

LEMMA SawType ==
    ASSUME TypeOK, NEW s \in Sessions, NEW m \in Message, Saw(s, m)
    PROVE  settled' \in [Sessions -> SUBSET Topics]
BY DEF TypeOK, Saw, Message

LEMMA ForgetType ==
    ASSUME TypeOK, NEW s \in Sessions, NEW F \in SUBSET Filters, Forget(s, F)
    PROVE  /\ acked' \in [Sessions -> SUBSET Filters]
           /\ settled'  \in [Sessions -> SUBSET Topics]
BY DEF TypeOK, Forget

LEMMA QueueType ==
    ASSUME NEW q \in Seq(Sessions)
    PROVE  /\ \A s \in Sessions : Append(q, s) \in Seq(Sessions)
           /\ q # <<>> => Tail(q) \in Seq(Sessions) /\ Head(q) \in Sessions
OBVIOUS

LEMMA CallType ==
    ASSUME TypeOK, NEW s \in Sessions, Call(s)
    PROVE  TypeOK'
<1>1. ASSUME NEW F \in Requests, CallSubscribe(s, F)
      PROVE  TypeOK'
  BY <1>1, InputsAssumption, QueueType DEF TypeOK, CallSubscribe, Enqueue, tables, marks
<1>2. ASSUME NEW F \in Requests, CallUnsubscribe(s, F)
      PROVE  TypeOK'
  BY <1>2, InputsAssumption, QueueType DEF TypeOK, CallUnsubscribe, Enqueue, tables, marks
<1>6. ASSUME NEW F \in Requests, CallRestore(s, F)
      PROVE  TypeOK'
  BY <1>6, InputsAssumption, QueueType DEF TypeOK, CallRestore, Enqueue, tables, marks
<1>3. ASSUME NEW c \in {"unsubscribe_all", "remove"}, CallUnsubscribeAll(s, c)
      PROVE  TypeOK'
  <2>1. c \in PC
    OBVIOUS
  <2> QED BY <1>3, <2>1, QueueType DEF TypeOK, CallUnsubscribeAll, Enqueue, tables, marks
<1>4. CASE CallGetSubscriptions(s)
  BY <1>4, QueueType DEF TypeOK, CallGetSubscriptions, Enqueue, tables, marks
<1>5. ASSUME NEW p \in Published, CallRoute(s, p)
      PROVE  TypeOK'
  <2>1. p \in Packet /\ p.topic \in Topics /\ p.payload \in Payloads
    BY InputsAssumption DEF Packet
  <2>2. /\ retained' \in [Topics -> Payloads] /\ settled' \in [Sessions -> SUBSET Topics]
        /\ unchecked' \subseteq Topics
    <3>1. CASE UNCHANGED <<retained, settled, unchecked>>
      BY <3>1 DEF TypeOK
    <3>2. CASE Store(p) /\ unchecked' \in {unchecked, unchecked \cup {p.topic}, unchecked \ {p.topic}}
      BY <3>2, <2>1 DEF TypeOK, Store
    <3> QED BY <1>5, <3>1, <3>2 DEF CallRoute, HandleRetained
  <2> QED
    BY <1>5, <2>1, <2>2, QueueType DEF TypeOK, CallRoute, Enqueue, tables, marks
<1> QED BY <1>1, <1>2, <1>3, <1>4, <1>5, <1>6 DEF Call

LEMMA StepType ==
    ASSUME TypeOK, NEW s \in Sessions, Step(s)
    PROVE  TypeOK'
<1> USE DEF TypeOK, tables, marks, GrantWrite, GrantRead
<1>1. CASE Subscribe(s)
  <2> DEFINE F == request[s] \ InvalidFilters
  <2>1. PICK B \in SUBSET F :
          /\ replay'  = [replay EXCEPT ![s] = RetainedFor(F \ B)]
          /\ settled' = [settled EXCEPT ![s] = @ \cup {x.msg.topic : x \in RetainedFor(B)}]
    BY <1>1 DEF Subscribe, Unreadable
  <2>2. /\ RetainedFor(F \ B) \in SUBSET Replay /\ RetainedFor(B) \in SUBSET Replay
        /\ \A x \in Replay : x.msg.topic \in Topics
    BY DEF RetainedFor, Replay, Message
  <2>3. replay' \in [Sessions -> SUBSET Replay]
    BY <2>1, <2>2
  <2>4. settled' \in [Sessions -> SUBSET Topics]
    <3>1. {x.msg.topic : x \in RetainedFor(B)} \in SUBSET Topics
      BY <2>2
    <3> QED BY <2>1, <3>1
  <2>5. filters' \in [Filters -> SUBSET Sessions] /\ sessions' \in [Sessions -> SUBSET Filters]
    BY <1>1 DEF Subscribe, Insert
  <2>6. pc' \in [Sessions -> PC] /\ lockq' \in Seq(Sessions)
    BY <1>1, QueueType DEF Subscribe
  <2> QED BY <1>1, <2>3, <2>4, <2>5, <2>6 DEF Subscribe
<1>2. CASE SendSubAck(s)
  BY <1>2 DEF SendSubAck
<1>3. CASE SubAckFails(s)
  BY <1>3 DEF SubAckFails
<1>4. ASSUME NEW x \in replay[s], QueueRetained(s, x)
      PROVE  TypeOK'
  <2>1. x.msg \in Message
    BY DEF Replay
  <2>2. settled' \in [Sessions -> SUBSET Topics]
    BY <1>4, <2>1, SawType DEF QueueRetained
  <2>3. mailbox' \in [Sessions -> 0..MailboxCap]
    BY <1>4, CapAssumption DEF QueueRetained
  <2> QED BY <1>4, <2>2, <2>3 DEF QueueRetained
<1>5. CASE SubscribeReturns(s)
  BY <1>5 DEF SubscribeReturns
<1>6. CASE Unsubscribe(s)
  BY <1>6, QueueType, ForgetType DEF Unsubscribe
<1>7. CASE UnsubscribeAll(s)
  BY <1>7, QueueType, ForgetType DEF UnsubscribeAll, DropSubscriptions
<1>8. CASE Remove(s)
  BY <1>8, QueueType, ForgetType, CapAssumption DEF Remove, DropSubscriptions
<1>9. CASE GetSubscriptions(s)
  BY <1>9, QueueType DEF GetSubscriptions
<1>10. CASE Route(s)
  <2>1. Targets(packet[s].topic) \in SUBSET Target
    BY DEF Targets
  <2> QED BY <1>10, <2>1, QueueType, ContinueType DEF Route
<1>11. CASE Deliver(s)
  <2> DEFINE d == at[s].session
             m == [topic |-> packet[s].topic, payload |-> packet[s].payload]
  <2>1. m \in Message
    BY DEF Message, Packet
  <2>2. todo[s] \ {at[s]} \in SUBSET Target
    OBVIOUS
  <2>3. settled' \in [Sessions -> SUBSET Topics]
    <3>1. CASE d \in dropped
      BY <1>11, <3>1 DEF Deliver
    <3>2. CASE d \notin dropped
      <4>1. Saw(d, m)
        BY <1>11, <3>2 DEF Deliver
      <4> QED BY <4>1, <2>1 DEF Saw, Message
    <3> QED BY <3>1, <3>2
  <2>4. mailbox' \in [Sessions -> 0..MailboxCap]
    <3>1. CASE d \in dropped
      BY <1>11, <3>1 DEF Deliver
    <3>2. CASE d \notin dropped
      <4>1. mailbox[d] < MailboxCap /\ mailbox' = [mailbox EXCEPT ![d] = @ + 1]
        BY <1>11, <3>2 DEF Deliver
      <4>2. d \in Sessions => mailbox[d] + 1 \in 0..MailboxCap
        BY <4>1, CapAssumption
      <4> QED BY <4>1, <4>2
    <3> QED BY <3>1, <3>2
  <2> QED BY <1>11, <2>2, <2>3, <2>4, ContinueType DEF Deliver
<1>12. CASE Resubscribe(s)
  <2>1. filters' \in [Filters -> SUBSET Sessions] /\ sessions' \in [Sessions -> SUBSET Filters]
    BY <1>12 DEF Resubscribe, Insert
  <2> QED BY <1>12, <2>1, QueueType DEF Resubscribe
<1> QED BY <1>1, <1>2, <1>3, <1>4, <1>5, <1>6, <1>7, <1>8, <1>9, <1>10, <1>11, <1>12 DEF Step

LEMMA ReceiveType ==
    ASSUME TypeOK, NEW s \in Sessions, Receive(s)
    PROVE  TypeOK'
BY CapAssumption DEF TypeOK, Receive, tables, marks, calls

\* Type correctness: every variable keeps its type and no mailbox ever holds
\* more messages than its channel has room for.
THEOREM TypeCorrect == Spec => []TypeOK
<1>1. TypeOK /\ [Next]_vars => TypeOK'
  <2> SUFFICES ASSUME TypeOK, [Next]_vars PROVE TypeOK'
    OBVIOUS
  <2>1. CASE UNCHANGED vars
    BY <2>1 DEF TypeOK, vars, tables, marks, calls
  <2>2. CASE Next
    BY <2>2, CallType, StepType, ReceiveType DEF Next
  <2> QED BY <2>1, <2>2
<1> QED BY InitType, <1>1, PTL DEF Spec

-----------------------------------------------------------------------------
(***************************************************************************)
(* The inductive invariant.  TablesAgree and RouteTargetsLive need to know *)
(* that a removed session has left the tables.  NoRetainedGap needs more:  *)
(* an acknowledged filter is in the tables, and while a SUBACK is still to *)
(* be written the replay already covers the filters it will acknowledge,   *)
(* but must not be counted on for the ones acknowledged before, because a  *)
(* failed SUBACK throws the replay away.                                   *)
(***************************************************************************)
RemovedIsOut ==
    \A s \in dropped : pc[s] = "idle" /\ sessions[s] = {} /\ acked[s] = {}

AckedIsSubscribed ==
    \A s \in Sessions :
        /\ acked[s] \subseteq sessions[s]
        /\ pc[s] = "suback" => request[s] \ InvalidFilters \subseteq sessions[s]

Stored(t) == [topic |-> t, payload |-> retained[t]]

Covered(s, t)  == t \in settled[s] \/ InRoute(Stored(t), s)
Replayed(s, t) == \E x \in replay[s] : x.msg = Stored(t)

AckedIsCovered ==
    \A s \in Sessions, t \in Topics, f \in Filters :
        retained[t] # Empty /\ <<t, f>> \in Matches /\ f \in acked[s]
        => Covered(s, t) \/ (pc[s] = "replay" /\ Replayed(s, t))

PendingIsCovered ==
    \A s \in Sessions, t \in Topics, f \in Filters :
        /\ retained[t] # Empty /\ <<t, f>> \in Matches
        /\ pc[s] = "suback" /\ f \in request[s] \ InvalidFilters
        => Covered(s, t) \/ Replayed(s, t)

RoutingInv == TablesAgree /\ RouteTargetsLive /\ RemovedIsOut
GapInv     == AckedIsSubscribed /\ AckedIsCovered /\ PendingIsCovered

LEMMA InitInv == Init => RoutingInv /\ GapInv
BY DEF Init, RoutingInv, GapInv, TablesAgree, RouteTargetsLive, Readers, RemovedIsOut,
       AckedIsSubscribed, AckedIsCovered, PendingIsCovered

(***************************************************************************)
(* Calls leave the tables alone and touch only their own session, which    *)
(* was idle and alive.                                                     *)
(***************************************************************************)
LEMMA CallRouting ==
    ASSUME TypeOK, RoutingInv, NEW s \in Sessions, Call(s)
    PROVE  RoutingInv'
<1>1. /\ pc[s] = "idle" /\ s \notin dropped
      /\ \E c \in {"subscribe", "restore", "unsubscribe", "unsubscribe_all", "remove", "get", "route"} :
            pc' = [pc EXCEPT ![s] = c]
      /\ UNCHANGED <<filters, sessions, dropped, todo, at, acked>>
      /\ \A r \in Sessions \ {s} : packet'[r] = packet[r]
  BY DEF Call, CallSubscribe, CallUnsubscribe, CallUnsubscribeAll, CallGetSubscriptions,
         CallRestore, CallRoute, Enqueue, tables, marks, TypeOK
<1>2. Readers' = Readers /\ s \notin Readers
  BY <1>1 DEF Readers, TypeOK
<1>3. TablesAgree'
  BY <1>1 DEF RoutingInv, TablesAgree
<1>4. RouteTargetsLive'
  BY <1>1, <1>2 DEF RoutingInv, RouteTargetsLive, Readers
<1>5. RemovedIsOut'
  BY <1>1 DEF RoutingInv, RemovedIsOut, TypeOK
<1> QED BY <1>3, <1>4, <1>5 DEF RoutingInv

\* A writer runs when no route is in progress, so RouteTargetsLive is vacuous
\* before and after it.
LEMMA WriteRouting ==
    ASSUME TypeOK, RoutingInv, NEW s \in Sessions, Readers = {},
           NEW c \in PC \ {"deliver"}, pc' = [pc EXCEPT ![s] = c]
    PROVE  RouteTargetsLive'
BY DEF RouteTargetsLive, Readers, TypeOK

\* What Continue keeps of a set of live targets.
LEMMA ContinueRouting ==
    ASSUME TypeOK, RoutingInv, NEW s \in Sessions, NEW rest \in SUBSET Target,
           Continue(s, rest), UNCHANGED <<filters, dropped>>, s \notin dropped,
           \A x \in rest : /\ x.session \in filters[x.filter] \ dropped
                           /\ <<packet[s].topic, x.filter>> \in Matches
    PROVE  RouteTargetsLive'
<1> SUFFICES ASSUME NEW r \in Readers'
             PROVE  /\ at'[r] \in todo'[r]
                    /\ \A x \in todo'[r] :
                        /\ x.session \in filters[x.filter] \ dropped
                        /\ <<packet'[r].topic, x.filter>> \in Matches
  BY DEF RouteTargetsLive
<1>1. CASE r = s
  BY <1>1 DEF Continue, Readers, TypeOK
<1>2. CASE r # s
  BY <1>2 DEF Continue, Readers, TypeOK, RoutingInv, RouteTargetsLive
<1> QED BY <1>1, <1>2

LEMMA StepRouting ==
    ASSUME TypeOK, RoutingInv, NEW s \in Sessions, Step(s)
    PROVE  RoutingInv'
<1>0. s \in dropped => pc[s] = "idle"
  BY DEF RoutingInv, RemovedIsOut
<1>1. CASE Subscribe(s) \/ Resubscribe(s)
  <2> DEFINE F == request[s] \ InvalidFilters
  <2>1. /\ filters'  = [f \in Filters |-> IF f \in F THEN filters[f] \cup {s} ELSE filters[f]]
        /\ sessions' = [sessions EXCEPT ![s] = @ \cup F]
        /\ \E c \in {"suback", "idle"} : pc' = [pc EXCEPT ![s] = c]
        /\ UNCHANGED <<dropped, acked>>
        /\ Readers = {} /\ s \notin dropped
    BY <1>0, <1>1 DEF Subscribe, Resubscribe, Insert, GrantWrite, GrantRead, marks
  <2>2. TablesAgree'
    BY <2>1 DEF RoutingInv, TablesAgree, TypeOK
  <2>3. RouteTargetsLive'
    BY <2>1, WriteRouting
  <2>4. RemovedIsOut'
    BY <2>1 DEF RoutingInv, RemovedIsOut, TypeOK
  <2> QED BY <2>2, <2>3, <2>4 DEF RoutingInv
<1>2. CASE \/ SendSubAck(s) \/ SubAckFails(s) \/ SubscribeReturns(s)
           \/ \E x \in replay[s] : QueueRetained(s, x)
  <2>1. /\ pc[s] \in {"suback", "replay"}
        /\ \E c \in {"replay", "idle"} : pc' = [pc EXCEPT ![s] = c]
        /\ UNCHANGED <<filters, sessions, dropped, todo, at, packet>>
        /\ \A r \in Sessions \ {s} : acked'[r] = acked[r]
    BY <1>2 DEF SendSubAck, SubAckFails, SubscribeReturns, QueueRetained, tables, marks, TypeOK
  <2>2. Readers' = Readers
    BY <2>1 DEF Readers, TypeOK
  <2>3. s \notin dropped
    BY <2>1, <1>0
  <2>4. RemovedIsOut'
    BY <2>1, <2>3 DEF RoutingInv, RemovedIsOut, TypeOK
  <2> QED BY <2>1, <2>2, <2>4 DEF RoutingInv, TablesAgree, RouteTargetsLive
<1>3. CASE Unsubscribe(s)
  <2>1. /\ filters'  = [f \in Filters |-> IF f \in request[s] THEN filters[f] \ {s} ELSE filters[f]]
        /\ sessions' = [sessions EXCEPT ![s] = @ \ request[s]]
        /\ pc' = [pc EXCEPT ![s] = "idle"] /\ UNCHANGED dropped
        /\ Readers = {} /\ s \notin dropped
    BY <1>0, <1>3 DEF Unsubscribe, GrantWrite, GrantRead
  <2>2. TablesAgree'
    BY <2>1 DEF RoutingInv, TablesAgree, TypeOK
  <2>3. RouteTargetsLive'
    BY <2>1, WriteRouting
  <2>4. RemovedIsOut'
    BY <1>3, <2>1 DEF RoutingInv, RemovedIsOut, TypeOK, Unsubscribe, Forget
  <2> QED BY <2>2, <2>3, <2>4 DEF RoutingInv
<1>4. CASE UnsubscribeAll(s) \/ Remove(s)
  <2>1. /\ filters'  = [f \in Filters |-> IF f \in sessions[s] THEN filters[f] \ {s} ELSE filters[f]]
        /\ sessions' = [sessions EXCEPT ![s] = {}]
        /\ acked' = [acked EXCEPT ![s] = @ \cap {}]
        /\ pc' = [pc EXCEPT ![s] = "idle"] /\ dropped' \in {dropped, dropped \cup {s}}
        /\ Readers = {} /\ s \notin dropped
    BY <1>0, <1>4 DEF UnsubscribeAll, Remove, DropSubscriptions, Forget, GrantWrite, GrantRead
  <2>2. TablesAgree'
    BY <2>1 DEF RoutingInv, TablesAgree, TypeOK
  <2>3. RouteTargetsLive'
    BY <2>1, WriteRouting
  <2>4. RemovedIsOut'
    BY <2>1 DEF RoutingInv, RemovedIsOut, TypeOK
  <2> QED BY <2>2, <2>3, <2>4 DEF RoutingInv
<1>5. CASE GetSubscriptions(s)
  <2>1. /\ pc[s] = "get" /\ pc' = [pc EXCEPT ![s] = "idle"]
        /\ UNCHANGED <<filters, sessions, dropped, todo, at, packet, acked>>
    BY <1>5 DEF GetSubscriptions, GrantRead, tables, marks
  <2>2. Readers' = Readers
    BY <2>1 DEF Readers, TypeOK
  <2> QED BY <2>1, <2>2 DEF RoutingInv, TablesAgree, RouteTargetsLive, RemovedIsOut, TypeOK
<1>6. CASE Route(s)
  <2> DEFINE T == Targets(packet[s].topic)
  <2>1. /\ Continue(s, T) /\ UNCHANGED <<filters, sessions, dropped, acked>>
        /\ pc[s] = "route" /\ s \notin dropped
    BY <1>0, <1>6 DEF Route, GrantRead, tables, marks
  <2>2. T \in SUBSET Target
    BY DEF Targets
  <2>3. \A x \in T : /\ x.session \in filters[x.filter] \ dropped
                     /\ <<packet[s].topic, x.filter>> \in Matches
    <3> SUFFICES ASSUME NEW x \in T
                 PROVE  /\ x.session \in filters[x.filter] \ dropped
                        /\ <<packet[s].topic, x.filter>> \in Matches
      OBVIOUS
    <3>1. /\ x.session \in filters[x.filter] /\ <<packet[s].topic, x.filter>> \in Matches
          /\ x.session \in Sessions /\ x.filter \in Filters
      BY DEF Targets, Target
    <3>2. x.filter \in sessions[x.session]
      BY <3>1 DEF RoutingInv, TablesAgree
    <3> QED BY <3>1, <3>2 DEF RoutingInv, RemovedIsOut
  <2>4. RouteTargetsLive'
    BY <2>1, <2>2, <2>3, ContinueRouting
  <2>5. RemovedIsOut'
    BY <2>1 DEF RoutingInv, RemovedIsOut, TypeOK, Continue
  <2> QED BY <2>1, <2>4, <2>5 DEF RoutingInv, TablesAgree
<1>7. CASE Deliver(s)
  <2> DEFINE rest == todo[s] \ {at[s]}
  <2>1. /\ Continue(s, rest) /\ UNCHANGED <<filters, sessions, dropped, acked>>
        /\ pc[s] = "deliver" /\ s \notin dropped
    BY <1>0, <1>7 DEF Deliver, tables, marks
  <2>2. rest \in SUBSET Target
    BY DEF TypeOK
  <2>3. \A x \in rest : /\ x.session \in filters[x.filter] \ dropped
                        /\ <<packet[s].topic, x.filter>> \in Matches
    BY <2>1 DEF RoutingInv, RouteTargetsLive, Readers
  <2>4. RouteTargetsLive'
    BY <2>1, <2>2, <2>3, ContinueRouting
  <2>5. RemovedIsOut'
    BY <2>1 DEF RoutingInv, RemovedIsOut, TypeOK, Continue
  <2> QED BY <2>1, <2>4, <2>5 DEF RoutingInv, TablesAgree
<1> QED BY <1>1, <1>2, <1>3, <1>4, <1>5, <1>6, <1>7 DEF Step

LEMMA ReceiveRouting ==
    ASSUME RoutingInv, NEW s \in Sessions, Receive(s)
    PROVE  RoutingInv'
BY DEF RoutingInv, TablesAgree, RouteTargetsLive, RemovedIsOut, Readers, Receive, tables, marks, calls

LEMMA RoutingInvHolds == Spec => [](TypeOK /\ RoutingInv)
<1>1. TypeOK /\ RoutingInv /\ [Next]_vars => RoutingInv'
  <2> SUFFICES ASSUME TypeOK, RoutingInv, [Next]_vars PROVE RoutingInv'
    OBVIOUS
  <2>1. CASE UNCHANGED vars
    BY <2>1 DEF RoutingInv, TablesAgree, RouteTargetsLive, RemovedIsOut, Readers,
                vars, tables, marks, calls
  <2>2. CASE Next
    BY <2>2, CallRouting, StepRouting, ReceiveRouting DEF Next
  <2> QED BY <2>1, <2>2
<1> QED BY InitInv, <1>1, TypeCorrect, PTL DEF Spec

\* The two subscription tables agree in every reachable state.
THEOREM TablesCorrect == Spec => []TablesAgree
<1>1. RoutingInv => TablesAgree
  BY DEF RoutingInv
<1> QED BY <1>1, RoutingInvHolds, PTL

\* A route in progress only ever has live subscriptions left to serve.
THEOREM RoutingCorrect == Spec => []RouteTargetsLive
<1>1. RoutingInv => RouteTargetsLive
  BY DEF RoutingInv
<1> QED BY <1>1, RoutingInvHolds, PTL

-----------------------------------------------------------------------------
(***************************************************************************)
(* The retained store and live routing leave no gap.                       *)
(***************************************************************************)

\* A session stays covered while no route loses its place.
LEMMA CoveredStable ==
    ASSUME NEW r \in Sessions, NEW t \in Topics, Covered(r, t),
           retained'[t] = retained[t],
           t \in settled[r] => t \in settled'[r],
           \A p \in Sessions : pc[p] \in {"route", "deliver"} =>
               pc'[p] = pc[p] /\ packet'[p] = packet[p] /\ todo'[p] = todo[p]
    PROVE  Covered(r, t)'
<1>1. CASE t \in settled[r]
  BY <1>1 DEF Covered
<1>2. CASE InRoute(Stored(t), r)
  BY <1>2 DEF Covered, InRoute, Stored
<1> QED BY <1>1, <1>2 DEF Covered

\* Steps that leave the history, the store and every route alone, and keep
\* the filters and the replay of each session.
LEMMA QuietGap ==
    ASSUME GapInv, UNCHANGED <<retained, settled, acked, replay>>,
           \A p \in Sessions : sessions[p] \subseteq sessions'[p],
           \A p \in Sessions : pc[p] \in {"route", "deliver"} =>
               pc'[p] = pc[p] /\ packet'[p] = packet[p] /\ todo'[p] = todo[p],
           \A p \in Sessions : pc[p] = "replay" => pc'[p] = "replay" \/ replay[p] = {},
           \A p \in Sessions : pc'[p] = "suback" =>
               pc[p] = "suback" /\ request'[p] = request[p]
    PROVE  GapInv'
<1>1. \A r \in Sessions, t \in Topics : Covered(r, t) => Covered(r, t)'
  BY CoveredStable
<1>2. \A r \in Sessions, t \in Topics : Replayed(r, t) => Replayed(r, t)' /\ replay[r] # {}
  BY DEF Replayed, Stored
<1>3. AckedIsSubscribed'
  BY DEF GapInv, AckedIsSubscribed
<1>4. AckedIsCovered'
  BY <1>1, <1>2 DEF GapInv, AckedIsCovered
<1>5. PendingIsCovered'
  BY <1>1, <1>2 DEF GapInv, PendingIsCovered
<1> QED BY <1>3, <1>4, <1>5 DEF GapInv

LEMMA CallRouteGap ==
    ASSUME TypeOK, GapInv, NEW s \in Sessions, NEW p \in Published, CallRoute(s, p)
    PROVE  GapInv'
<1>1. /\ pc[s] = "idle" /\ pc' = [pc EXCEPT ![s] = "route"]
      /\ packet' = [packet EXCEPT ![s] = p]
      /\ UNCHANGED <<sessions, request, todo, replay, acked>>
      /\ \/ UNCHANGED <<retained, settled>>
         \/ /\ retained' = [retained EXCEPT ![p.topic] = p.payload]
            /\ settled'  = [r \in Sessions |-> settled[r] \ {p.topic}]
  BY DEF CallRoute, Enqueue, HandleRetained, Store, tables, marks
<1>2. CASE UNCHANGED <<retained, settled>>
  BY <1>1, <1>2, QuietGap DEF TypeOK
<1>3. CASE /\ retained' = [retained EXCEPT ![p.topic] = p.payload]
           /\ settled'  = [r \in Sessions |-> settled[r] \ {p.topic}]
  <2>1. \A r \in Sessions : Covered(r, p.topic)'
    <3>1. p.topic \in Topics
      BY InputsAssumption DEF Packet
    <3>2. retained'[p.topic] = p.payload /\ pc'[s] = "route" /\ packet'[s] = p
      BY <1>1, <1>3, <3>1 DEF TypeOK
    <3> QED BY <3>2 DEF Covered, InRoute, Stored
  <2>2. ASSUME NEW r \in Sessions, NEW t \in Topics, t # p.topic
        PROVE  /\ retained'[t] = retained[t]
               /\ Covered(r, t) => Covered(r, t)'
               /\ Replayed(r, t) => Replayed(r, t)'
    <3>1. retained'[t] = retained[t]
      BY <1>3, <2>2 DEF TypeOK
    <3>2. t \in settled[r] => t \in settled'[r]
      BY <1>3, <2>2
    <3>3. \A q \in Sessions : pc[q] \in {"route", "deliver"} =>
               pc'[q] = pc[q] /\ packet'[q] = packet[q] /\ todo'[q] = todo[q]
      BY <1>1 DEF TypeOK
    <3>4. Covered(r, t) => Covered(r, t)'
      BY <3>1, <3>2, <3>3, CoveredStable
    <3>5. Replayed(r, t) => Replayed(r, t)'
      BY <1>1, <3>1 DEF Replayed, Stored
    <3> QED BY <3>1, <3>4, <3>5
  <2>3. \A r \in Sessions : (pc[r] = "replay" => pc'[r] = "replay") /\ (pc'[r] = "suback" => pc[r] = "suback")
    BY <1>1 DEF TypeOK
  <2>4. AckedIsSubscribed'
    BY <1>1, <2>3 DEF GapInv, AckedIsSubscribed
  <2>5. AckedIsCovered'
    BY <1>1, <2>1, <2>2, <2>3 DEF GapInv, AckedIsCovered
  <2>6. PendingIsCovered'
    BY <1>1, <2>1, <2>2, <2>3 DEF GapInv, PendingIsCovered
  <2> QED BY <2>4, <2>5, <2>6 DEF GapInv
<1> QED BY <1>1, <1>2, <1>3

LEMMA CallGap ==
    ASSUME TypeOK, GapInv, NEW s \in Sessions, Call(s)
    PROVE  GapInv'
<1>1. CASE \E p \in Published : CallRoute(s, p)
  BY <1>1, CallRouteGap
<1>2. CASE ~ \E p \in Published : CallRoute(s, p)
  <2>1. /\ pc[s] = "idle"
        /\ \E c \in {"subscribe", "restore", "unsubscribe", "unsubscribe_all", "remove", "get"} :
              pc' = [pc EXCEPT ![s] = c]
        /\ UNCHANGED <<sessions, retained, settled, acked, replay, packet, todo>>
        /\ \A r \in Sessions \ {s} : request'[r] = request[r]
    BY <1>2 DEF Call, CallSubscribe, CallUnsubscribe, CallUnsubscribeAll,
                CallRestore, CallGetSubscriptions, Enqueue, tables, marks, TypeOK
  <2> QED BY <2>1, QuietGap DEF TypeOK
<1> QED BY <1>1, <1>2

\* Steps of the subscribe handler: no route moves, the tables only grow.
LEMMA SubscribeGap ==
    ASSUME TypeOK, GapInv, NEW s \in Sessions,
           \/ Subscribe(s) \/ SendSubAck(s) \/ SubAckFails(s) \/ SubscribeReturns(s)
           \/ \E x \in replay[s] : QueueRetained(s, x)
    PROVE  GapInv'
<1> DEFINE Frame ==
      /\ pc[s] \in {"subscribe", "suback", "replay"}
      /\ \E c \in {"suback", "replay", "idle"} : pc' = [pc EXCEPT ![s] = c]
      /\ UNCHANGED <<retained, packet, todo>>
      /\ \A r \in Sessions \ {s} :
            /\ pc'[r] = pc[r] /\ replay'[r] = replay[r] /\ request'[r] = request[r]
            /\ acked'[r] = acked[r] /\ sessions'[r] = sessions[r]
      /\ \A r \in Sessions : settled[r] \subseteq settled'[r] /\ sessions[r] \subseteq sessions'[r]
<1>1. Frame
  <2>1. CASE Subscribe(s)
    BY <2>1 DEF Subscribe, Insert, GrantWrite, GrantRead, tables, marks, TypeOK
  <2>2. CASE SendSubAck(s)
    BY <2>2 DEF SendSubAck, tables, marks, TypeOK
  <2>3. CASE SubAckFails(s) \/ SubscribeReturns(s)
    BY <2>3 DEF SubAckFails, SubscribeReturns, tables, marks, TypeOK
  <2>4. ASSUME NEW x \in replay[s], QueueRetained(s, x)
        PROVE  Frame
    <3>1. /\ UNCHANGED <<sessions, retained, pc, request, packet, todo, acked>>
          /\ pc[s] = "replay" /\ replay' = [replay EXCEPT ![s] = @ \ {x}] /\ Saw(s, x.msg)
      BY <2>4 DEF QueueRetained, tables, marks
    <3>2. \A r \in Sessions : settled[r] \subseteq settled'[r]
      BY <3>1 DEF Saw, TypeOK
    <3>3. pc' = [pc EXCEPT ![s] = "replay"]
      BY <3>1 DEF TypeOK
    <3> QED BY <3>1, <3>2, <3>3 DEF TypeOK
  <2> QED BY <2>1, <2>2, <2>3, <2>4
<1>2. \A r \in Sessions, t \in Topics : Covered(r, t) => Covered(r, t)'
  <2>1. \A q \in Sessions : pc[q] \in {"route", "deliver"} =>
             pc'[q] = pc[q] /\ packet'[q] = packet[q] /\ todo'[q] = todo[q]
    BY <1>1
  <2> QED BY <1>1, <2>1, CoveredStable
<1>3. \A r \in Sessions \ {s}, t \in Topics : Replayed(r, t) => Replayed(r, t)'
  BY <1>1 DEF Replayed, Stored
<1>4. SUFFICES
        /\ acked'[s] \subseteq sessions'[s]
        /\ pc'[s] = "suback" => request'[s] \ InvalidFilters \subseteq sessions'[s]
        /\ \A t \in Topics, f \in Filters :
            retained[t] # Empty /\ <<t, f>> \in Matches =>
              /\ f \in acked'[s] => Covered(s, t)' \/ (pc'[s] = "replay" /\ Replayed(s, t)')
              /\ pc'[s] = "suback" /\ f \in request'[s] \ InvalidFilters
                   => Covered(s, t)' \/ Replayed(s, t)'
  <2>1. AckedIsSubscribed'
    BY <1>1, <1>4 DEF GapInv, AckedIsSubscribed
  <2>2. AckedIsCovered'
    BY <1>1, <1>2, <1>3, <1>4 DEF GapInv, AckedIsCovered
  <2>3. PendingIsCovered'
    BY <1>1, <1>2, <1>3, <1>4 DEF GapInv, PendingIsCovered
  <2> QED BY <2>1, <2>2, <2>3 DEF GapInv
<1>5. CASE Subscribe(s)
  <2> DEFINE F == request[s] \ InvalidFilters
  <2>1. /\ sessions'[s] = sessions[s] \cup F /\ request' = request /\ acked' = acked
        /\ pc[s] = "subscribe" /\ pc'[s] = "suback"
    BY <1>5 DEF Subscribe, Insert, GrantWrite, GrantRead, TypeOK
  <2>0. PICK B \in SUBSET F :
          /\ replay'[s]  = RetainedFor(F \ B)
          /\ settled'[s] = settled[s] \cup {x.msg.topic : x \in RetainedFor(B)}
    BY <1>5 DEF Subscribe, Unreadable, TypeOK
  <2>2. ASSUME NEW t \in Topics, NEW f \in F, retained[t] # Empty, <<t, f>> \in Matches
        PROVE  Covered(s, t)' \/ Replayed(s, t)'
    <3> DEFINE x == [filter |-> f, msg |-> Stored(t)]
    <3>1. f \in Filters /\ Stored(t) \in Message /\ x.msg.topic = t
      BY DEF TypeOK, Stored, Message
    <3>2. \A G \in SUBSET F : f \in G => x \in RetainedFor(G)
      BY <2>2, <3>1 DEF RetainedFor, Replay, Stored
    <3>3. Stored(t)' = Stored(t)
      BY <1>1 DEF Stored
    <3>4. CASE f \in B
      <4>1. x \in RetainedFor(B)
        BY <3>2, <3>4
      <4>2. t \in settled'[s]
        BY <2>0, <3>1, <4>1
      <4> QED BY <4>2 DEF Covered
    <3>5. CASE f \notin B
      <4>1. x \in RetainedFor(F \ B)
        BY <3>2, <3>5
      <4> QED BY <2>0, <3>3, <4>1 DEF Replayed
    <3> QED BY <3>4, <3>5
  <2>3. acked[s] \subseteq sessions[s]
    BY DEF GapInv, AckedIsSubscribed
  <2>4. \A t \in Topics, f \in Filters :
            retained[t] # Empty /\ <<t, f>> \in Matches /\ f \in acked[s] => Covered(s, t)
    BY <2>1 DEF GapInv, AckedIsCovered
  <2> QED BY <1>2, <2>1, <2>2, <2>3, <2>4
<1>6. CASE SendSubAck(s)
  <2>1. /\ acked'[s] = acked[s] \cup (request[s] \ InvalidFilters)
        /\ sessions' = sessions /\ replay' = replay
        /\ pc[s] = "suback" /\ pc'[s] = "replay"
    BY <1>6 DEF SendSubAck, tables, marks, TypeOK
  <2>2. \A t \in Topics : Replayed(s, t) => Replayed(s, t)'
    BY <1>1, <2>1 DEF Replayed, Stored
  <2> QED BY <1>2, <2>1, <2>2
          DEF GapInv, AckedIsSubscribed, AckedIsCovered, PendingIsCovered
<1>7. CASE SubAckFails(s)
  <2>1. /\ acked' = acked /\ sessions' = sessions /\ pc[s] = "suback" /\ pc'[s] = "idle"
    BY <1>7 DEF SubAckFails, tables, marks, TypeOK
  <2> QED BY <1>2, <2>1 DEF GapInv, AckedIsSubscribed, AckedIsCovered
<1>8. CASE SubscribeReturns(s)
  <2>1. /\ acked' = acked /\ sessions' = sessions /\ pc[s] = "replay" /\ pc'[s] = "idle"
        /\ \A t \in Topics : ~Replayed(s, t)
    BY <1>8 DEF SubscribeReturns, tables, marks, TypeOK, Replayed
  <2> QED BY <1>2, <2>1 DEF GapInv, AckedIsSubscribed, AckedIsCovered
<1>9. ASSUME NEW x \in replay[s], QueueRetained(s, x)
      PROVE  /\ acked'[s] \subseteq sessions'[s]
             /\ pc'[s] # "suback"
             /\ \A t \in Topics, f \in Filters :
                  retained[t] # Empty /\ <<t, f>> \in Matches /\ f \in acked'[s]
                  => Covered(s, t)' \/ (pc'[s] = "replay" /\ Replayed(s, t)')
  <2>1. /\ acked' = acked /\ sessions' = sessions /\ pc[s] = "replay" /\ pc' = pc
        /\ replay'[s] = replay[s] \ {x} /\ Saw(s, x.msg)
    BY <1>9 DEF QueueRetained, tables, marks, TypeOK
  <2>2. ASSUME NEW t \in Topics, Replayed(s, t)
        PROVE  Covered(s, t)' \/ Replayed(s, t)'
    <3>1. CASE x.msg = Stored(t)
      <4>1. x.msg.topic = t /\ x.msg.payload = retained[t]
        BY <3>1 DEF Stored
      <4> QED BY <2>1, <4>1 DEF Saw, Covered, TypeOK
    <3>2. CASE x.msg # Stored(t)
      BY <1>1, <2>1, <2>2, <3>2 DEF Replayed, Stored
    <3> QED BY <3>1, <3>2
  <2> QED BY <1>2, <2>1, <2>2 DEF GapInv, AckedIsSubscribed, AckedIsCovered
<1> QED BY <1>5, <1>6, <1>7, <1>8, <1>9

\* Steps that take filters away from s: what the others match stays settled.
LEMMA UnsubscribeGap ==
    ASSUME TypeOK, GapInv, NEW s \in Sessions,
           Unsubscribe(s) \/ UnsubscribeAll(s) \/ Remove(s)
    PROVE  GapInv'
<1>1. PICK F \in SUBSET Filters : sessions'[s] = F /\ Forget(s, F)
  <2>1. CASE Unsubscribe(s)
    BY <2>1 DEF Unsubscribe, TypeOK
  <2>2. CASE UnsubscribeAll(s) \/ Remove(s)
    BY <2>2 DEF UnsubscribeAll, Remove, DropSubscriptions, TypeOK
  <2> QED BY <2>1, <2>2
<1>2. /\ pc[s] \in {"unsubscribe", "unsubscribe_all", "remove"}
      /\ pc' = [pc EXCEPT ![s] = "idle"]
      /\ UNCHANGED <<retained, packet, todo, replay>>
      /\ \A r \in Sessions \ {s} : request'[r] = request[r] /\ sessions'[r] = sessions[r]
  BY DEF Unsubscribe, UnsubscribeAll, Remove, DropSubscriptions, GrantWrite, GrantRead, TypeOK
<1>3. /\ acked' = [acked EXCEPT ![s] = @ \cap F]
      /\ settled'  = [settled EXCEPT ![s] = {t \in @ : \E f \in F : <<t, f>> \in Matches}]
  BY <1>1 DEF Forget
<1>4. ASSUME NEW r \in Sessions, NEW t \in Topics, NEW f \in Filters, r = s => f \in F,
             <<t, f>> \in Matches, Covered(r, t)
      PROVE  Covered(r, t)'
  <2>1. t \in settled[r] => t \in settled'[r]
    BY <1>3, <1>4 DEF TypeOK
  <2>2. \A q \in Sessions : pc[q] \in {"route", "deliver"} =>
             pc'[q] = pc[q] /\ packet'[q] = packet[q] /\ todo'[q] = todo[q]
    BY <1>2 DEF TypeOK
  <2> QED BY <1>2, <1>4, <2>1, <2>2, CoveredStable
<1>5. \A r \in Sessions, t \in Topics : Replayed(r, t) => Replayed(r, t)'
  BY <1>2 DEF Replayed, Stored
<1>6. \A r \in Sessions : r # s => pc'[r] = pc[r] /\ acked'[r] = acked[r]
  BY <1>2, <1>3 DEF TypeOK
<1>7. pc'[s] = "idle" /\ acked'[s] = acked[s] \cap F
  BY <1>2, <1>3 DEF TypeOK
<1>8. AckedIsSubscribed'
  BY <1>1, <1>2, <1>6, <1>7 DEF GapInv, AckedIsSubscribed
<1>9. AckedIsCovered'
  <2> SUFFICES ASSUME NEW r \in Sessions, NEW t \in Topics, NEW f \in Filters,
                      retained[t] # Empty, <<t, f>> \in Matches, f \in acked'[r]
               PROVE  Covered(r, t)' \/ (pc'[r] = "replay" /\ Replayed(r, t)')
    BY <1>2 DEF AckedIsCovered
  <2>1. f \in acked[r] /\ (r = s => f \in F)
    BY <1>6, <1>7
  <2>2. Covered(r, t) \/ (pc[r] = "replay" /\ Replayed(r, t))
    BY <2>1 DEF GapInv, AckedIsCovered
  <2> QED BY <1>2, <1>4, <1>5, <1>6, <2>1, <2>2
<1>10. PendingIsCovered'
  <2> SUFFICES ASSUME NEW r \in Sessions, NEW t \in Topics, NEW f \in Filters,
                      retained[t] # Empty, <<t, f>> \in Matches,
                      pc'[r] = "suback", f \in request'[r] \ InvalidFilters
               PROVE  Covered(r, t)' \/ Replayed(r, t)'
    BY <1>2 DEF PendingIsCovered
  <2>1. r # s
    BY <1>7
  <2>2. Covered(r, t) \/ Replayed(r, t)
    BY <1>2, <1>6, <2>1 DEF GapInv, PendingIsCovered
  <2> QED BY <1>4, <1>5, <2>1, <2>2
<1> QED BY <1>8, <1>9, <1>10 DEF GapInv

\* A route that gets the lock, or serves one target, keeps covering whoever
\* it covered: the session is among the targets, or has now been served.
LEMMA RouteCovers ==
    ASSUME TypeOK, RoutingInv, NEW s \in Sessions, Route(s),
           NEW r \in Sessions, NEW t \in Topics, NEW f \in sessions[r],
           <<t, f>> \in Matches, Covered(r, t)
    PROVE  Covered(r, t)'
<1>1. /\ Continue(s, Targets(packet[s].topic)) /\ pc[s] = "route"
      /\ UNCHANGED <<retained, settled>>
  BY DEF Route, GrantRead, marks
<1>2. CASE t \in settled[r]
  BY <1>1, <1>2 DEF Covered
<1>3. ASSUME NEW p \in Sessions, packet[p].topic = t, packet[p].payload = retained[t],
             \/ pc[p] = "route"
             \/ pc[p] = "deliver" /\ \E x \in todo[p] : x.session = r
      PROVE  Covered(r, t)'
  <2>1. CASE p # s
    <3>1. pc'[p] = pc[p] /\ packet'[p] = packet[p] /\ todo'[p] = todo[p]
      BY <1>1, <2>1 DEF Continue, TypeOK
    <3> QED BY <1>1, <1>3, <3>1 DEF Covered, InRoute, Stored
  <2>2. CASE p = s
    <3> DEFINE x == [filter |-> f, session |-> r]
    <3>1. f \in Filters /\ r \in filters[f]
      BY DEF TypeOK, RoutingInv, TablesAgree
    <3>2. x \in Targets(packet[s].topic)
      BY <1>3, <2>2, <3>1 DEF Targets, Target
    <3>3. pc'[s] = "deliver" /\ todo'[s] = Targets(packet[s].topic) /\ packet' = packet
      BY <1>1, <3>2 DEF Continue, TypeOK
    <3> QED BY <1>1, <1>3, <2>2, <3>2, <3>3 DEF Covered, InRoute, Stored
  <2> QED BY <2>1, <2>2
<1> QED BY <1>2, <1>3 DEF Covered, InRoute, Stored

LEMMA DeliverCovers ==
    ASSUME TypeOK, RoutingInv, NEW s \in Sessions, Deliver(s),
           NEW r \in Sessions, NEW t \in Topics, Covered(r, t)
    PROVE  Covered(r, t)'
<1> DEFINE d == at[s].session
           m == [topic |-> packet[s].topic, payload |-> packet[s].payload]
<1>1. pc[s] = "deliver" /\ Continue(s, todo[s] \ {at[s]}) /\ UNCHANGED retained
  BY DEF Deliver
<1>2. at[s] \in todo[s] /\ d \in Sessions /\ d \notin dropped
  <2>1. s \in Readers
    BY <1>1 DEF Readers
  <2>2. at[s] \in todo[s] /\ at[s].session \in filters[at[s].filter] \ dropped
    BY <2>1 DEF RoutingInv, RouteTargetsLive
  <2>3. at[s] \in Target
    BY <2>2 DEF TypeOK
  <2> QED BY <2>2, <2>3 DEF Target
<1>3. Saw(d, m)
  BY <1>2 DEF Deliver
<1>4. settled[r] \subseteq settled'[r]
  BY <1>3 DEF Saw, TypeOK
<1>5. CASE t \in settled[r]
  BY <1>4, <1>5 DEF Covered
<1>6. ASSUME NEW p \in Sessions, packet[p].topic = t, packet[p].payload = retained[t],
             \/ pc[p] = "route"
             \/ pc[p] = "deliver" /\ \E x \in todo[p] : x.session = r
      PROVE  Covered(r, t)'
  <2>1. CASE p # s
    <3>1. pc'[p] = pc[p] /\ packet'[p] = packet[p] /\ todo'[p] = todo[p]
      BY <1>1, <2>1 DEF Continue, TypeOK
    <3> QED BY <1>1, <1>6, <3>1 DEF Covered, InRoute, Stored
  <2>2. CASE p = s /\ d = r
    <3>1. m.topic = t /\ m.payload = retained[t]
      BY <1>6, <2>2
    <3> QED BY <1>3, <2>2, <3>1 DEF Saw, Covered, TypeOK
  <2>3. CASE p = s /\ d # r
    <3>1. PICK x \in todo[s] : x.session = r
      BY <1>1, <1>6, <2>3
    <3>2. x \in todo[s] \ {at[s]}
      BY <2>3, <3>1
    <3>3. /\ pc'[s] = "deliver" /\ todo'[s] = todo[s] \ {at[s]} /\ packet' = packet
      BY <1>1, <3>2 DEF Continue, TypeOK
    <3> QED BY <1>1, <1>6, <2>3, <3>1, <3>2, <3>3 DEF Covered, InRoute, Stored
  <2> QED BY <2>1, <2>2, <2>3
<1> QED BY <1>5, <1>6 DEF Covered, InRoute, Stored

LEMMA RouteGap ==
    ASSUME TypeOK, RoutingInv, GapInv, NEW s \in Sessions, Route(s) \/ Deliver(s)
    PROVE  GapInv'
<1>1. /\ UNCHANGED <<sessions, retained, acked, replay, request>>
      /\ \A r \in Sessions : pc'[r] = pc[r] \/ {pc[r], pc'[r]} \subseteq {"route", "deliver", "idle"}
  <2>1. /\ UNCHANGED <<sessions, retained, acked, replay, request>>
        /\ pc[s] \in {"route", "deliver"}
        /\ \E rest \in SUBSET Target : Continue(s, rest)
    BY DEF Route, Deliver, GrantRead, tables, marks, TypeOK, Targets
  <2>2. \E c \in {"idle", "deliver"} : pc' = [pc EXCEPT ![s] = c]
    BY <2>1 DEF Continue
  <2> QED BY <2>1, <2>2 DEF TypeOK
<1>2. ASSUME NEW r \in Sessions, NEW t \in Topics, NEW f \in sessions[r],
             <<t, f>> \in Matches, Covered(r, t)
      PROVE  Covered(r, t)'
  BY <1>2, RouteCovers, DeliverCovers
<1>3. \A r \in Sessions, t \in Topics : Replayed(r, t) => Replayed(r, t)'
  BY <1>1 DEF Replayed, Stored
<1>4. AckedIsSubscribed'
  BY <1>1 DEF GapInv, AckedIsSubscribed
<1>5. AckedIsCovered'
  BY <1>1, <1>2, <1>3 DEF GapInv, AckedIsSubscribed, AckedIsCovered
<1>6. PendingIsCovered'
  BY <1>1, <1>2, <1>3 DEF GapInv, AckedIsSubscribed, PendingIsCovered
<1> QED BY <1>4, <1>5, <1>6 DEF GapInv

LEMMA StepGap ==
    ASSUME TypeOK, RoutingInv, GapInv, NEW s \in Sessions, Step(s)
    PROVE  GapInv'
<1>2. CASE Resubscribe(s)
  <2>1. /\ UNCHANGED <<retained, settled, acked, replay, packet, todo>>
        /\ sessions' = [sessions EXCEPT ![s] = @ \cup (request[s] \ InvalidFilters)]
        /\ request' = [request EXCEPT ![s] = {}]
        /\ pc[s] = "restore" /\ pc' = [pc EXCEPT ![s] = "idle"]
    BY <1>2 DEF Resubscribe, Insert, GrantWrite, GrantRead, marks
  <2> QED BY <2>1, QuietGap DEF TypeOK
<1>1. CASE GetSubscriptions(s)
  <2>1. /\ UNCHANGED <<sessions, retained, settled, acked, replay, packet, todo, request>>
        /\ pc[s] = "get" /\ pc' = [pc EXCEPT ![s] = "idle"]
    BY <1>1 DEF GetSubscriptions, GrantRead, tables, marks
  <2> QED BY <2>1, QuietGap DEF TypeOK
<1> QED BY <1>1, <1>2, SubscribeGap, UnsubscribeGap, RouteGap DEF Step

\* No gap between the retained store and live routing: whoever holds an
\* acknowledged subscription has had the stored retained message queued, or
\* it is still on its way, unless the SUBSCRIBE could not read it from storage.
THEOREM RetainedGapFree == Spec => []NoRetainedGap
<1>1. TypeOK /\ RoutingInv /\ GapInv /\ [Next]_vars => RoutingInv' /\ GapInv'
  <2> SUFFICES ASSUME TypeOK, RoutingInv, GapInv, [Next]_vars PROVE RoutingInv' /\ GapInv'
    OBVIOUS
  <2>1. CASE UNCHANGED vars
    <3>1. RoutingInv'
      BY <2>1 DEF RoutingInv, TablesAgree, RouteTargetsLive, RemovedIsOut, Readers,
                  vars, tables, marks, calls
    <3>2. GapInv'
      BY <2>1, QuietGap DEF vars, tables, marks, calls
    <3> QED BY <3>1, <3>2
  <2>2. ASSUME NEW s \in Sessions, Call(s) \/ Step(s)
        PROVE  RoutingInv' /\ GapInv'
    BY <2>2, CallRouting, StepRouting, CallGap, StepGap
  <2>3. ASSUME NEW s \in Sessions, Receive(s)
        PROVE  RoutingInv' /\ GapInv'
    <3>1. GapInv'
      BY <2>3, QuietGap DEF Receive, tables, marks, calls
    <3> QED BY <2>3, <3>1, ReceiveRouting
  <2> QED BY <2>1, <2>2, <2>3 DEF Next
<1>2. GapInv => NoRetainedGap
  BY MatchesAssumption DEF GapInv, AckedIsCovered, NoRetainedGap, Covered, Replayed, Stored
<1> QED BY InitInv, <1>1, <1>2, TypeCorrect, PTL DEF Spec

-----------------------------------------------------------------------------
(***************************************************************************)
(* The retained store and its limit.                                       *)
(***************************************************************************)
LEMMA StoreWithinLimit ==
    ASSUME TypeOK, RetainedBounded, NEW p \in Packet, HandleRetained(p)
    PROVE  RetainedBounded'
<1> DEFINE S == StoredTopics \ unchecked
           N == StoredTopics' \ unchecked'
<1>1. p.topic \in Topics /\ p.payload \in Payloads
  BY DEF Packet
<1>2. /\ IsFiniteSet(S) /\ Cardinality(S) \in Nat /\ Cardinality(S) <= RetainedLimit
      /\ IsFiniteSet(StoredTopics) /\ Cardinality(S) <= Cardinality(StoredTopics)
      /\ Cardinality(StoredTopics) \in Nat
  BY TopicsAssumption, FS_Subset, FS_CardinalityType DEF StoredTopics, RetainedBounded
<1>3. CASE N \subseteq S
  <2>1. Cardinality(N) <= Cardinality(S) /\ Cardinality(N) \in Nat
    BY <1>2, <1>3, FS_Subset, FS_CardinalityType
  <2> QED BY <1>2, <2>1, LimitAssumption DEF RetainedBounded
<1>4. CASE ~(N \subseteq S)
  <2>1. /\ retained' = [retained EXCEPT ![p.topic] = p.payload] /\ p.payload # Empty
        /\ retained[p.topic] = Empty /\ unchecked' = unchecked /\ ~AtLimit(p, TRUE, TRUE)
    <3>1. ~UNCHANGED <<retained, unchecked>>
      BY <1>4 DEF StoredTopics
    <3>2. CASE p.payload = Empty /\ Store(p) /\ unchecked' = unchecked \ {p.topic}
      BY <1>1, <1>4, <3>2 DEF Store, StoredTopics, TypeOK
    <3>3. ASSUME NEW loaded \in BOOLEAN, NEW counted \in BOOLEAN, p.payload # Empty,
                 ~AtLimit(p, loaded, counted), Store(p),
                 unchecked' = IF retained[p.topic] = Empty /\ ~(loaded /\ counted)
                              THEN unchecked \cup {p.topic} ELSE unchecked
          PROVE  /\ retained' = [retained EXCEPT ![p.topic] = p.payload]
                 /\ retained[p.topic] = Empty /\ unchecked' = unchecked
                 /\ ~AtLimit(p, TRUE, TRUE)
      <4>1. retained' = [retained EXCEPT ![p.topic] = p.payload]
        BY <3>3 DEF Store
      <4>2. \A t \in Topics : t # p.topic => retained'[t] = retained[t]
        BY <4>1 DEF TypeOK
      <4>3. retained[p.topic] = Empty /\ loaded /\ counted
        BY <1>1, <1>4, <3>3, <4>2 DEF StoredTopics
      <4> QED BY <3>3, <4>1, <4>3
    <3> QED BY <3>1, <3>2, <3>3 DEF HandleRetained
  <2>2. p.topic \notin StoredTopics /\ N \subseteq S \cup {p.topic}
    BY <1>1, <2>1 DEF StoredTopics, TypeOK
  <2>3. Cardinality(StoredTopics) < RetainedLimit
    BY <1>2, <2>1, LimitAssumption DEF AtLimit, RetainedCount
  <2>4. Cardinality(S \cup {p.topic}) = Cardinality(S) + 1 /\ IsFiniteSet(S \cup {p.topic})
    BY <1>2, <2>2, FS_AddElement
  <2>5. Cardinality(N) <= Cardinality(S) + 1 /\ Cardinality(N) \in Nat
    BY <2>2, <2>4, FS_Subset, FS_CardinalityType
  <2> QED BY <1>2, <2>3, <2>5, LimitAssumption DEF RetainedBounded
<1> QED BY <1>3, <1>4

\* The topics stored under the limit check never outnumber the limit of
\* handle_retained_message, whatever reads and writes of storage fail.
THEOREM RetainedWithinLimit == Spec => []RetainedBounded
<1>1. Init => RetainedBounded
  <2> SUFFICES ASSUME Init PROVE RetainedBounded
    OBVIOUS
  <2>1. StoredTopics \ unchecked = {}
    BY DEF Init
  <2> QED BY <2>1, FS_EmptySet, LimitAssumption DEF RetainedBounded
<1>2. TypeOK /\ RetainedBounded /\ [Next]_vars => RetainedBounded'
  <2> SUFFICES ASSUME TypeOK, RetainedBounded, [Next]_vars PROVE RetainedBounded'
    OBVIOUS
  <2>1. CASE \E s \in Sessions, p \in Published : CallRoute(s, p)
    BY <2>1, StoreWithinLimit, InputsAssumption DEF CallRoute
  <2>2. CASE UNCHANGED <<retained, unchecked>>
    BY <2>2 DEF RetainedBounded, StoredTopics
  <2>3. (\E s \in Sessions, p \in Published : CallRoute(s, p)) \/ UNCHANGED <<retained, unchecked>>
    BY DEF Next, Call, Step, CallSubscribe, CallRestore, CallUnsubscribe, CallUnsubscribeAll,
           CallGetSubscriptions, Subscribe, SendSubAck, SubAckFails, QueueRetained,
           SubscribeReturns, Resubscribe, Unsubscribe, UnsubscribeAll, Remove, GetSubscriptions,
           Route, Deliver, Receive, vars
  <2> QED BY <2>1, <2>2, <2>3
<1> QED BY <1>1, <1>2, TypeCorrect, PTL DEF Spec
=============================================================================

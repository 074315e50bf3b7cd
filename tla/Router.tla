------------------------------- MODULE Router -------------------------------
(***************************************************************************)
(* The router of iotd (src/src/router.rs): the two subscription tables,    *)
(* the retained messages and the RwLock that guards the tables, together   *)
(* with the mailbox (bounded mpsc channel) of every session and the point  *)
(* each session's future has reached inside a router call.                 *)
(*                                                                         *)
(* All session futures run in one task (FuturesUnordered in server.rs), so *)
(* they interleave only where a call awaits: at the RwLock and at a send   *)
(* into a mailbox.  A session runs one call at a time; pc says which.      *)
(*                                                                         *)
(* Abstractions.  topic_matches is the constant relation Matches.  QoS,    *)
(* packet ids and the retain flag of a forwarded copy are left out: no     *)
(* property here tells them apart.  A HashMap entry that holds an empty    *)
(* map or set is not told from an absent one: no code looks.               *)
(***************************************************************************)
EXTENDS Naturals, Sequences, FiniteSets

CONSTANTS
    Sessions,       \* session instances (uuids)
    Topics,         \* topic names publishers use
    Filters,        \* topic filters subscribers use
    InvalidFilters, \* the filters validate_subscribe_filter refuses
    InvalidTopics,  \* the names validate_publish_topic refuses
    Wildcards,      \* {f : has_wildcards(f)}
    Matches,        \* {<<t, f>> : topic_matches(t, f)}
    Payloads,       \* payloads a publisher may send
    Empty,          \* the empty payload, which deletes a retained message
    Requests,       \* the filter sets SUBSCRIBE and UNSUBSCRIBE packets name
    Published,      \* the PUBLISH packets, wills included
    NoTarget,       \* no target: the session is not inside a route
    MailboxCap,     \* capacity of a mailbox (100 in the code)
    RetainedLimit   \* config.retained_message_limit

Message == [topic : Topics, payload : Payloads]
Packet  == [topic : Topics, payload : Payloads, retain : BOOLEAN]
Target  == [filter : Filters, session : Sessions]
Replay  == [filter : Filters, msg : Message]

ASSUME TopicsAssumption   == IsFiniteSet(Topics) /\ Topics # {}
ASSUME FiltersAssumption  == InvalidFilters \subseteq Filters /\ Wildcards \subseteq Filters
ASSUME NamesAssumption    == InvalidTopics \subseteq Topics
ASSUME MatchesAssumption  == Matches \subseteq Topics \X Filters
ASSUME EmptyAssumption    == Empty \in Payloads
ASSUME InputsAssumption   == Requests \subseteq SUBSET Filters /\ Published \subseteq Packet
ASSUME TargetAssumption   == NoTarget \notin Target
ASSUME CapAssumption      == MailboxCap \in Nat \ {0}
ASSUME LimitAssumption    == RetainedLimit \in Nat

VARIABLES
    filters,  \* RouterInternal.filters: filter -> sessions subscribed to it
    sessions, \* RouterInternal.sessions: session -> its filters
    retained, \* the retained message of each topic: a payload, or Empty if none
    mailbox,  \* how many messages wait in each session's mpsc channel
    dropped,  \* sessions whose mailbox receiver is gone
    lockq,    \* sessions queued on the RwLock, in arrival order
    pc,       \* where the session's future is inside its router call
    request,  \* the filters of the SUBSCRIBE or UNSUBSCRIBE being served
    packet,   \* the PUBLISH being routed
    todo,     \* the subscriptions the route in progress has still to serve
    at,       \* the one it is sending to, the next of the iteration
    replay,   \* the retained messages on_subscribe has still to queue
    acked,    \* history: the filters whose SUBACK was written
    settled,  \* history: the topics whose stored retained message was put into
              \* the session's mailbox since it was stored, or was in storage
              \* when a SUBSCRIBE of the session could not read it
    unchecked \* history: the topics storage held at the start, or that were
              \* stored while a read of the limit check failed

tables == <<filters, sessions>>
calls  == <<pc, request, packet, todo, at, replay>>
marks  == <<acked, settled>>
vars   == <<tables, retained, mailbox, dropped, lockq, calls, marks, unchecked>>

PC == {"idle", "subscribe", "suback", "replay", "restore", "unsubscribe",
       "unsubscribe_all", "remove", "get", "route", "deliver"}

NoPacket == [topic |-> CHOOSE t \in Topics : TRUE, payload |-> Empty,
             retain |-> FALSE]

TypeOK ==
    /\ filters  \in [Filters -> SUBSET Sessions]
    /\ sessions \in [Sessions -> SUBSET Filters]
    /\ retained \in [Topics -> Payloads]
    /\ mailbox  \in [Sessions -> 0..MailboxCap]
    /\ dropped  \subseteq Sessions
    /\ lockq    \in Seq(Sessions)
    /\ pc       \in [Sessions -> PC]
    /\ request  \in [Sessions -> SUBSET Filters]
    /\ packet   \in [Sessions -> Packet]
    /\ todo     \in [Sessions -> SUBSET Target]
    /\ at       \in [Sessions -> Target \cup {NoTarget}]
    /\ replay   \in [Sessions -> SUBSET Replay]
    /\ acked    \in [Sessions -> SUBSET Filters]
    /\ settled  \in [Sessions -> SUBSET Topics]
    /\ unchecked \subseteq Topics

StoredTopics == {t \in Topics : retained[t] # Empty}

\* Retained messages outlive the process in storage, so a broker may start
\* with some, and with more than a lowered limit allows.
Init ==
    /\ filters  = [f \in Filters |-> {}]
    /\ sessions = [s \in Sessions |-> {}]
    /\ retained \in [Topics -> Payloads]
    /\ \A t \in InvalidTopics : retained[t] = Empty
    /\ mailbox  = [s \in Sessions |-> 0]
    /\ dropped  = {}
    /\ lockq    = <<>>
    /\ pc       = [s \in Sessions |-> "idle"]
    /\ request  = [s \in Sessions |-> {}]
    /\ packet   = [s \in Sessions |-> NoPacket]
    /\ todo     = [s \in Sessions |-> {}]
    /\ at       = [s \in Sessions |-> NoTarget]
    /\ replay   = [s \in Sessions |-> {}]
    /\ acked    = [s \in Sessions |-> {}]
    /\ settled  = [s \in Sessions |-> {}]
    /\ unchecked = StoredTopics

-----------------------------------------------------------------------------
(***************************************************************************)
(* The RwLock.  tokio's lock is fair: requests are served in arrival order *)
(* and a waiting writer holds back the readers behind it.  A writer never  *)
(* awaits while it holds the lock, so between steps only routes hold it.   *)
(***************************************************************************)
Readers == {s \in Sessions : pc[s] = "deliver"}

Enqueue(s, at_pc) ==
    /\ pc[s] = "idle" /\ s \notin dropped
    /\ pc'    = [pc EXCEPT ![s] = at_pc]
    /\ lockq' = Append(lockq, s)

GrantRead(s, at_pc) ==
    /\ pc[s] = at_pc
    /\ lockq # <<>> /\ Head(lockq) = s
    /\ lockq' = Tail(lockq)

GrantWrite(s, at_pc) == GrantRead(s, at_pc) /\ Readers = {}

-----------------------------------------------------------------------------
\* The history variables: message m goes into the mailbox of s; session s
\* keeps only the filters F.
Saw(s, m) ==
    settled' = IF m.payload = retained[m.topic] THEN [settled EXCEPT ![s] = @ \cup {m.topic}]
                                             ELSE settled

Forget(s, F) ==
    /\ acked' = [acked EXCEPT ![s] = @ \cap F]
    /\ settled' = [settled EXCEPT ![s] = {t \in @ : \E f \in F : <<t, f>> \in Matches}]

-----------------------------------------------------------------------------
(***************************************************************************)
(* Router::subscribe, and on_subscribe around it (session.rs).             *)
(***************************************************************************)
CallSubscribe(s, F) ==
    /\ Enqueue(s, "subscribe")
    /\ request' = [request EXCEPT ![s] = F]
    /\ UNCHANGED <<tables, retained, mailbox, dropped, packet, todo, at, replay, marks, unchecked>>

\* Mutant: a filter finds only the topic it is equal to.
RetainedForExact(F) ==
    {x \in Replay : /\ x.filter \in F /\ x.filter = x.msg.topic
                    /\ retained[x.msg.topic] # Empty
                    /\ x.msg.payload = retained[x.msg.topic]}

\* find_retained_for_filter over the accepted filters: an entry for each
\* filter and each retained message it matches.
RetainedFor(F) ==
    {x \in Replay : /\ x.filter \in F
                    /\ <<x.msg.topic, x.filter>> \in Matches
                    /\ retained[x.msg.topic] # Empty
                    /\ x.msg.payload = retained[x.msg.topic]}

\* The filters whose look-up may fail together: one read serves all wildcard
\* filters of the call, every other filter has its own.  A failure is logged.
Unreadable(F) ==
    {B \in SUBSET F : F \cap Wildcards \subseteq B \/ B \cap Wildcards = {}}

Insert(s, F) ==
    /\ filters'  = [f \in Filters |-> IF f \in F THEN filters[f] \cup {s} ELSE filters[f]]
    /\ sessions' = [sessions EXCEPT ![s] = @ \cup F]

Subscribe(s) ==
    /\ GrantWrite(s, "subscribe")
    /\ LET F == request[s] \ InvalidFilters IN
        /\ Insert(s, F)
        /\ \E B \in Unreadable(F) :
            /\ replay'  = [replay EXCEPT ![s] = RetainedFor(F \ B)]
            /\ settled' = [settled EXCEPT ![s] = @ \cup {x.msg.topic : x \in RetainedFor(B)}]
    /\ pc' = [pc EXCEPT ![s] = "suback"]
    /\ UNCHANGED <<retained, mailbox, dropped, request, packet, todo, at, acked, unchecked>>

\* The SUBACK is written before any retained message is queued.
SendSubAck(s) ==
    /\ pc[s] = "suback"
    /\ acked'   = [acked EXCEPT ![s] = @ \cup (request[s] \ InvalidFilters)]
    /\ request' = [request EXCEPT ![s] = {}]
    /\ pc'      = [pc EXCEPT ![s] = "replay"]
    /\ UNCHANGED <<tables, retained, mailbox, dropped, lockq, packet, todo, at, replay, settled,
                   unchecked>>

\* The write of the SUBACK fails: the handler returns, the subscription stays.
SubAckFails(s) ==
    /\ pc[s] = "suback"
    /\ request' = [request EXCEPT ![s] = {}]
    /\ replay'  = [replay EXCEPT ![s] = {}]
    /\ pc'      = [pc EXCEPT ![s] = "idle"]
    /\ UNCHANGED <<tables, retained, mailbox, dropped, lockq, packet, todo, at, marks, unchecked>>

\* Mutants: the mailbox is not bounded; a message that was queued is not taken
\* off the list.
QueueRetainedUnbounded(s, x) ==
    /\ pc[s] = "replay" /\ x \in replay[s]
    /\ mailbox' = [mailbox EXCEPT ![s] = @ + 1]
    /\ Saw(s, x.msg)
    /\ replay'  = [replay EXCEPT ![s] = @ \ {x}]
    /\ UNCHANGED <<tables, retained, dropped, lockq, pc, request, packet, todo, at, acked,
                   unchecked>>

QueueRetainedAgain(s, x) ==
    /\ pc[s] = "replay" /\ x \in replay[s]
    /\ mailbox[s] < MailboxCap
    /\ mailbox' = [mailbox EXCEPT ![s] = @ + 1]
    /\ Saw(s, x.msg)
    /\ UNCHANGED <<tables, retained, dropped, lockq, calls, acked, unchecked>>

\* message_tx.send(retained).await: the session waits for room in its own
\* mailbox, which nobody else empties.
QueueRetained(s, x) ==
    /\ pc[s] = "replay" /\ x \in replay[s]
    /\ mailbox[s] < MailboxCap
    /\ mailbox' = [mailbox EXCEPT ![s] = @ + 1]
    /\ Saw(s, x.msg)
    /\ replay'  = [replay EXCEPT ![s] = @ \ {x}]
    /\ UNCHANGED <<tables, retained, dropped, lockq, pc, request, packet, todo, at, acked,
                   unchecked>>

SubscribeReturns(s) ==
    /\ pc[s] = "replay" /\ replay[s] = {}
    /\ pc' = [pc EXCEPT ![s] = "idle"]
    /\ UNCHANGED <<tables, retained, mailbox, dropped, lockq, request, packet, todo, at, replay, marks, unchecked>>

\* restore_from_storage (session.rs) subscribes to the filters of the stored
\* session before the CONNACK; what subscribe returns is dropped, so there is
\* neither a SUBACK nor a replay.
CallRestore(s, F) ==
    /\ Enqueue(s, "restore")
    /\ request' = [request EXCEPT ![s] = F]
    /\ UNCHANGED <<tables, retained, mailbox, dropped, packet, todo, at, replay, marks, unchecked>>

Resubscribe(s) ==
    /\ GrantWrite(s, "restore")
    /\ Insert(s, request[s] \ InvalidFilters)
    /\ request' = [request EXCEPT ![s] = {}]
    /\ pc'      = [pc EXCEPT ![s] = "idle"]
    /\ UNCHANGED <<retained, mailbox, dropped, packet, todo, at, replay, marks, unchecked>>

-----------------------------------------------------------------------------
(***************************************************************************)
(* Router::unsubscribe, Router::unsubscribe_all, and the remove_session    *)
(* that ends a session: its runtime, and with it the mailbox receiver, is  *)
(* dropped once unsubscribe_all has returned.                              *)
(***************************************************************************)
CallUnsubscribe(s, F) ==
    /\ Enqueue(s, "unsubscribe")
    /\ request' = [request EXCEPT ![s] = F]
    /\ UNCHANGED <<tables, retained, mailbox, dropped, packet, todo, at, replay, marks, unchecked>>

Unsubscribe(s) ==
    /\ GrantWrite(s, "unsubscribe")
    /\ filters'  = [f \in Filters |-> IF f \in request[s] THEN filters[f] \ {s}
                                                          ELSE filters[f]]
    /\ sessions' = [sessions EXCEPT ![s] = @ \ request[s]]
    /\ Forget(s, sessions[s] \ request[s])
    /\ request'  = [request EXCEPT ![s] = {}]
    /\ pc'       = [pc EXCEPT ![s] = "idle"]
    /\ UNCHANGED <<retained, mailbox, dropped, packet, todo, at, replay, unchecked>>

CallUnsubscribeAll(s, at_pc) ==
    /\ Enqueue(s, at_pc)
    /\ UNCHANGED <<tables, retained, mailbox, dropped, request, packet, todo, at, replay, marks, unchecked>>

\* Mutant: the session's own list of filters is forgotten.
DropFilterEntries(s) ==
    /\ filters' = [f \in Filters |-> IF f \in sessions[s] THEN filters[f] \ {s}
                                                          ELSE filters[f]]
    /\ UNCHANGED sessions

DropSubscriptions(s) ==
    /\ filters'  = [f \in Filters |-> IF f \in sessions[s] THEN filters[f] \ {s}
                                                           ELSE filters[f]]
    /\ sessions' = [sessions EXCEPT ![s] = {}]

UnsubscribeAll(s) ==
    /\ GrantWrite(s, "unsubscribe_all")
    /\ DropSubscriptions(s)
    /\ Forget(s, {})
    /\ pc'    = [pc EXCEPT ![s] = "idle"]
    /\ UNCHANGED <<retained, mailbox, dropped, request, packet, todo, at, replay, unchecked>>

\* Mutant: the session is dropped while a route may still be serving it.
RemoveAtOnce(s) ==
    /\ GrantRead(s, "remove")
    /\ DropSubscriptions(s)
    /\ Forget(s, {})
    /\ dropped' = dropped \cup {s}
    /\ mailbox' = [mailbox EXCEPT ![s] = 0]
    /\ pc'      = [pc EXCEPT ![s] = "idle"]
    /\ UNCHANGED <<retained, request, packet, todo, at, replay, unchecked>>

Remove(s) ==
    /\ GrantWrite(s, "remove")
    /\ DropSubscriptions(s)
    /\ Forget(s, {})
    /\ dropped' = dropped \cup {s}
    /\ mailbox' = [mailbox EXCEPT ![s] = 0]
    /\ pc'      = [pc EXCEPT ![s] = "idle"]
    /\ UNCHANGED <<retained, request, packet, todo, at, replay, unchecked>>

\* Router::get_subscriptions, called by save_to_storage under the read lock.
CallGetSubscriptions(s) ==
    /\ Enqueue(s, "get")
    /\ UNCHANGED <<tables, retained, mailbox, dropped, request, packet, todo, at, replay, marks, unchecked>>

Subscriptions(s) == {f \in sessions[s] : s \in filters[f]}

GetSubscriptions(s) ==
    /\ GrantRead(s, "get")
    /\ pc' = [pc EXCEPT ![s] = "idle"]
    /\ UNCHANGED <<tables, retained, mailbox, dropped, request, packet, todo, at, replay, marks, unchecked>>

-----------------------------------------------------------------------------
(***************************************************************************)
(* Router::route.                                                          *)
(***************************************************************************)
RetainedCount == Cardinality(StoredTopics)

\* Mutant: the limit is taken to be inclusive.
OverLimit(p, loaded, counted) ==
    /\ loaded /\ retained[p.topic] = Empty
    /\ (IF counted THEN RetainedCount ELSE 0) > RetainedLimit

\* The check for a payload that is not empty.  A failed load makes the topic
\* pass for a known one, a failed count stands for 0.
AtLimit(p, loaded, counted) ==
    /\ loaded /\ retained[p.topic] = Empty
    /\ (IF counted THEN RetainedCount ELSE 0) >= RetainedLimit

Store(p) ==
    /\ retained' = [retained EXCEPT ![p.topic] = p.payload]
    /\ settled'  = [s \in Sessions |-> settled[s] \ {p.topic}]

\* handle_retained_message: an empty payload deletes; a message for a new
\* topic is dropped at the limit; anything else replaces what was stored.  A
\* write that fails is logged and the old message stays.
HandleRetained(p) ==
    \/ p.retain /\ p.payload = Empty /\ Store(p) /\ unchecked' = unchecked \ {p.topic}
    \/ /\ p.retain /\ p.payload # Empty
       /\ \E loaded, counted \in BOOLEAN :
            /\ ~AtLimit(p, loaded, counted)
            /\ Store(p)
            /\ unchecked' = IF retained[p.topic] = Empty /\ ~(loaded /\ counted)
                            THEN unchecked \cup {p.topic} ELSE unchecked
    \/ UNCHANGED <<retained, settled, unchecked>>

\* The part of route before its first await.  A topic that is not valid is
\* refused and the call returns without a trace.
CallRoute(s, p) ==
    /\ p.topic \notin InvalidTopics
    /\ Enqueue(s, "route")
    /\ packet' = [packet EXCEPT ![s] = p]
    /\ HandleRetained(p)
    /\ UNCHANGED <<tables, mailbox, dropped, request, todo, at, replay, acked>>

\* One target per matching filter and subscriber: overlapping filters of one
\* session are served once each.
Targets(t) ==
    {x \in Target : <<t, x.filter>> \in Matches /\ x.session \in filters[x.filter]}

\* The iteration goes on with some entry of rest, in the order of the hash
\* map, or ends and releases the lock.
Continue(s, rest) ==
    \/ /\ rest = {}
       /\ pc'     = [pc EXCEPT ![s] = "idle"]
       /\ packet' = [packet EXCEPT ![s] = NoPacket]
       /\ todo'   = [todo EXCEPT ![s] = {}]
       /\ at'     = [at EXCEPT ![s] = NoTarget]
    \/ \E x \in rest :
       /\ pc'   = [pc EXCEPT ![s] = "deliver"]
       /\ todo' = [todo EXCEPT ![s] = rest]
       /\ at'   = [at EXCEPT ![s] = x]
       /\ UNCHANGED packet

Route(s) ==
    /\ GrantRead(s, "route")
    /\ Continue(s, Targets(packet[s].topic))
    /\ UNCHANGED <<tables, retained, mailbox, dropped, request, replay, marks, unchecked>>

\* sender.send(copy).await: waits for room, holding the read lock; fails, and
\* is only logged, if the receiver is gone.
Deliver(s) ==
    /\ pc[s] = "deliver"
    /\ LET d == at[s].session
           m == [topic |-> packet[s].topic, payload |-> packet[s].payload]
       IN  IF d \in dropped
           THEN UNCHANGED <<mailbox, settled>>
           ELSE /\ mailbox[d] < MailboxCap
                /\ mailbox' = [mailbox EXCEPT ![d] = @ + 1]
                /\ Saw(d, m)
    /\ Continue(s, todo[s] \ {at[s]})
    /\ UNCHANGED <<tables, retained, dropped, lockq, request, replay, acked, unchecked>>

-----------------------------------------------------------------------------
\* The select! of do_processing takes the next message from the mailbox; the
\* session is then not inside any other call.
Receive(s) ==
    /\ pc[s] = "idle" /\ mailbox[s] > 0
    /\ mailbox' = [mailbox EXCEPT ![s] = @ - 1]
    /\ UNCHANGED <<tables, retained, dropped, lockq, calls, marks, unchecked>>

Step(s) ==
    \/ Subscribe(s) \/ SendSubAck(s) \/ SubAckFails(s)
    \/ \E x \in replay[s] : QueueRetained(s, x)
    \/ SubscribeReturns(s) \/ Resubscribe(s)
    \/ Unsubscribe(s) \/ UnsubscribeAll(s) \/ Remove(s) \/ GetSubscriptions(s)
    \/ Route(s) \/ Deliver(s)

Call(s) ==
    \/ \E F \in Requests : CallSubscribe(s, F) \/ CallUnsubscribe(s, F) \/ CallRestore(s, F)
    \/ CallUnsubscribeAll(s, "unsubscribe_all") \/ CallUnsubscribeAll(s, "remove")
    \/ CallGetSubscriptions(s)
    \/ \E p \in Published : CallRoute(s, p)

Next == \E s \in Sessions : Call(s) \/ Step(s) \/ Receive(s)

Spec == Init /\ [][Next]_vars

-----------------------------------------------------------------------------
\* The two tables describe the same subscriptions: what unsubscribe_all and
\* get_subscriptions find through router.sessions is exactly what route
\* serves through router.filters.
TablesAgree ==
    \A s \in Sessions, f \in Filters : s \in filters[f] <=> f \in sessions[s]

\* A route in progress works on live subscriptions only: everything it has
\* still to serve is in the table, matches, and its receiver still exists.
\* No unsubscribe, takeover or removal slips in between two of its sends.
RouteTargetsLive ==
    \A s \in Readers :
        /\ at[s] \in todo[s]
        /\ \A x \in todo[s] :
            /\ x.session \in filters[x.filter] \ dropped
            /\ <<packet[s].topic, x.filter>> \in Matches

\* p is on its way to session s: its publisher waits for the read lock or has
\* not yet served all subscriptions of s.
InRoute(m, s) ==
    \E p \in Sessions :
        /\ packet[p].topic = m.topic /\ packet[p].payload = m.payload
        /\ \/ pc[p] = "route"
           \/ pc[p] = "deliver" /\ \E x \in todo[p] : x.session = s

\* No gap between the retained store and live routing: whoever holds an
\* acknowledged subscription that matches a stored retained message has had
\* that message put into its mailbox, or it is still on its way there, as a
\* live copy or in the replay of the subscription.  The exception is a message
\* that was in storage when the SUBSCRIBE could not read it.
NoRetainedGap ==
    \A s \in Sessions, t \in Topics :
        LET m == [topic |-> t, payload |-> retained[t]] IN
        (/\ retained[t] # Empty
         /\ \E f \in acked[s] : <<t, f>> \in Matches)
        => \/ t \in settled[s]
           \/ InRoute(m, s)
           \/ \E x \in replay[s] : x.msg = m

\* The limit holds for the topics that were stored under the check, however
\* stores and deletions follow one another: only what storage held at the start
\* and what was stored while a read of the check failed comes on top.
RetainedBounded == Cardinality(StoredTopics \ unchecked) <= RetainedLimit

=============================================================================

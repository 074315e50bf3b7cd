------------------------------- MODULE Broker -------------------------------
(***************************************************************************)
(* The broker around the router: the serve loop of src/src/server.rs, the  *)
(* session registry and its mutex (src/src/broker.rs), and the state       *)
(* machine every session runs (src/src/session.rs), as far as it decides   *)
(* when a session calls the router and when its mailbox is emptied.        *)
(*                                                                         *)
(* The serve loop polls the session futures only while it waits in its     *)
(* select!.  The arm that handles a new stream awaits add_client, and      *)
(* shutdown awaits cancel_all_sessions; both lock the registry, and no     *)
(* session runs until they return.                                         *)
(*                                                                         *)
(* Abstractions.  Client ids, takeover by a second connection and wills    *)
(* are the subject of Lifecycle, stored sessions of Persistence: here a    *)
(* pending session may be reconnected, a new connection may find a stored  *)
(* session, and a session that ends may have a will to publish.            *)
(***************************************************************************)
EXTENDS Router

CONSTANTS
    Connected,  \* sessions already connected when the model starts
    Fresh,      \* sessions that may still be accepted
    NoSession,  \* nobody holds the registry mutex
    MaxPackets  \* bound: packets served in one behaviour, wills included

ASSUME RegistryAssumption ==
    /\ Connected \subseteq Sessions /\ Fresh \subseteq Sessions \ Connected
    /\ NoSession \notin Sessions /\ MaxPackets \in Nat

VARIABLES
    server,     \* what the serve loop is doing
    registry,   \* Broker.sessions
    holder,     \* the session that holds the registry mutex across an await
    state,      \* Session State, "none" before and "exited" after its future
    clean,      \* clean_session of the current connection
    cancelled,  \* sessions with a Cancel in their command channel
    packets     \* packets served so far

registryVars == <<server, registry, holder>>
sessionVars  == <<state, clean, cancelled, packets>>
allVars      == <<vars, registryVars, sessionVars>>

ServerState  == {"loop", "add_client", "cancel_all", "drain", "stopped"}
SessionState == {"none", "waiting", "connecting", "processing", "pending",
                 "parked", "cleanup", "leaving", "exited"}

BrokerTypeOK ==
    /\ TypeOK
    /\ server    \in ServerState
    /\ registry  \subseteq Sessions
    /\ holder    \in Sessions \cup {NoSession}
    /\ state     \in [Sessions -> SessionState]
    /\ clean     \in [Sessions -> BOOLEAN]
    /\ cancelled \subseteq Sessions
    /\ packets   \in 0..MaxPackets

BrokerInit ==
    /\ Init
    /\ server    = "loop"
    /\ registry  = Connected
    /\ holder    = NoSession
    /\ state     = [s \in Sessions |-> IF s \in Connected THEN "processing" ELSE "none"]
    /\ clean     \in {c \in [Sessions -> BOOLEAN] : \A s \in Sessions \ Connected : c[s]}
    /\ cancelled = {}
    /\ packets   = 0

-----------------------------------------------------------------------------
(***************************************************************************)
(* The serve loop.                                                         *)
(***************************************************************************)
\* A stream arrives and the arm of the select! starts add_client.
Accept ==
    /\ server = "loop"
    /\ \E s \in Fresh : state[s] = "none"
    /\ server' = "add_client"
    /\ UNCHANGED <<vars, registry, holder, sessionVars>>

\* Mutant: the session runs without having been registered.
AddClientUnregistered(s) ==
    /\ server = "add_client" /\ holder = NoSession
    /\ s \in Fresh /\ state[s] = "none"
    /\ state'  = [state EXCEPT ![s] = "waiting"]
    /\ server' = "loop"
    /\ UNCHANGED <<vars, registry, holder, clean, cancelled, packets>>

\* add_client gets the mutex, registers the session and returns its future.
AddClient(s) ==
    /\ server = "add_client" /\ holder = NoSession
    /\ s \in Fresh /\ state[s] = "none"
    /\ registry' = registry \cup {s}
    /\ state'    = [state EXCEPT ![s] = "waiting"]
    /\ server'   = "loop"
    /\ UNCHANGED <<vars, holder, clean, cancelled, packets>>

\* The listeners stop and the loop breaks.
StopListening ==
    /\ server = "loop"
    /\ server' = "cancel_all"
    /\ UNCHANGED <<vars, registry, holder, sessionVars>>

\* cancel_all_sessions gets the mutex, empties the registry and sends Cancel.
CancelAll ==
    /\ server = "cancel_all" /\ holder = NoSession
    /\ cancelled' = cancelled \cup registry
    /\ registry'  = {}
    /\ server'    = "drain"
    /\ UNCHANGED <<vars, holder, state, clean, packets>>

\* while sessions.next().await.is_some() {}
Stopped ==
    /\ server = "drain"
    /\ \A s \in Sessions : state[s] \in {"none", "exited"}
    /\ server' = "stopped"
    /\ UNCHANGED <<vars, registry, holder, sessionVars>>

-----------------------------------------------------------------------------
(***************************************************************************)
(* A session.  It is polled only while the serve loop waits, and it handles*)
(* the next event only when the previous router call has returned.         *)
(***************************************************************************)
Polled(s) == server \in {"loop", "drain"} /\ state[s] \notin {"none", "exited"}

Ready(s, st) == Polled(s) /\ state[s] = st /\ pc[s] = "idle"

GoTo(s, st) ==
    /\ state' = [state EXCEPT ![s] = st]
    /\ UNCHANGED <<registryVars, clean, cancelled>>

\* do_waiting: a CONNECT is accepted, and if the client has a stored session
\* on_connect subscribes to its filters, any of the requests, before it answers.
Connect(s, c) ==
    /\ Ready(s, "waiting")
    /\ state' = [state EXCEPT ![s] = "connecting"]
    /\ clean' = [clean EXCEPT ![s] = c]
    /\ UNCHANGED vars \/ (~c /\ \E F \in Requests : CallRestore(s, F))
    /\ UNCHANGED <<registryVars, cancelled, packets>>

ConnAck(s) == Ready(s, "connecting") /\ GoTo(s, "processing") /\ UNCHANGED <<vars, packets>>

\* Anything but a CONNECT, or a CONNACK that cannot be written.
GiveUp(s) ==
    /\ Ready(s, "waiting") \/ Ready(s, "connecting")
    /\ GoTo(s, "cleanup") /\ UNCHANGED <<vars, packets>>

\* do_processing: a packet, a message of the mailbox, the end of the
\* connection (error, DISCONNECT, keep-alive), a takeover or a Cancel.
Count == packets < MaxPackets /\ packets' = packets + 1

ServePacket(s) ==
    /\ Ready(s, "processing") /\ Count
    /\ \/ \E F \in Requests : CallSubscribe(s, F) \/ CallUnsubscribe(s, F)
       \/ \E p \in Published : CallRoute(s, p)
    /\ UNCHANGED <<registryVars, state, clean, cancelled>>

ServeMessage(s) ==
    /\ Ready(s, "processing") /\ Receive(s)
    /\ UNCHANGED <<registryVars, sessionVars>>

AfterLoss(s) == IF clean[s] THEN "cleanup" ELSE "pending"

LoseConnection(s) ==
    /\ Ready(s, "processing") /\ GoTo(s, AfterLoss(s)) /\ UNCHANGED <<vars, packets>>

\* do_pending: save_to_storage asks the router for the subscriptions, then
\* the session waits for a command and leaves its mailbox alone.
Save(s) ==
    /\ Ready(s, "pending") /\ CallGetSubscriptions(s) /\ GoTo(s, "parked")
    /\ UNCHANGED packets

\* on_takeover: a clean session starts over without its subscriptions.
Takeover(s, c) ==
    /\ Ready(s, "processing") \/ Ready(s, "parked")
    /\ state' = [state EXCEPT ![s] = "processing"]
    /\ clean' = [clean EXCEPT ![s] = c]
    /\ IF c THEN CallUnsubscribeAll(s, "unsubscribe_all") ELSE UNCHANGED vars
    /\ UNCHANGED <<registryVars, cancelled, packets>>

\* The CONNACK to the new stream cannot be written.  Then do_processing
\* decides by the new connection's clean flag, and do_pending stays pending.
TakeoverFails(s, c) ==
    /\ \/ Ready(s, "processing") /\ GoTo(s, IF c THEN "cleanup" ELSE "pending")
       \/ Ready(s, "parked") /\ GoTo(s, "pending")
    /\ UNCHANGED <<vars, packets>>

Cancel(s) ==
    /\ s \in cancelled
    /\ Ready(s, "waiting") \/ Ready(s, "processing") \/ Ready(s, "parked")
    /\ GoTo(s, "cleanup") /\ UNCHANGED <<vars, packets>>

\* Cleanup: publish the will, if there is one, and leave run().
Cleanup(s) ==
    /\ Ready(s, "cleanup") /\ GoTo(s, "leaving")
    /\ (Count /\ \E p \in Published : CallRoute(s, p)) \/ UNCHANGED <<vars, packets>>

\* remove_session locks the registry and keeps the lock while unsubscribe_all
\* waits for the router.
LockRegistry(s) ==
    /\ Ready(s, "leaving") /\ holder = NoSession
    /\ holder' = s
    /\ CallUnsubscribeAll(s, "remove")
    /\ UNCHANGED <<server, registry, sessionVars>>

\* Mutants: the registry entry stays; the mutex is not released.
RemoveSessionKeepsEntry(s) ==
    /\ Polled(s) /\ Remove(s)
    /\ holder' = NoSession
    /\ state'  = [state EXCEPT ![s] = "exited"]
    /\ UNCHANGED <<server, registry, clean, cancelled, packets>>

RemoveSessionKeepsMutex(s) ==
    /\ Polled(s) /\ Remove(s)
    /\ registry' = registry \ {s}
    /\ state'    = [state EXCEPT ![s] = "exited"]
    /\ UNCHANGED <<server, holder, clean, cancelled, packets>>

RemoveSession(s) ==
    /\ Polled(s) /\ Remove(s)
    /\ registry' = registry \ {s}
    /\ holder'   = NoSession
    /\ state'    = [state EXCEPT ![s] = "exited"]
    /\ UNCHANGED <<server, clean, cancelled, packets>>

RouterStep(s) ==
    /\ Polled(s)
    /\ \/ Subscribe(s) \/ SendSubAck(s) \/ SubscribeReturns(s) \/ Resubscribe(s)
       \/ \E x \in replay[s] : QueueRetained(s, x)
       \/ Unsubscribe(s) \/ UnsubscribeAll(s) \/ GetSubscriptions(s)
       \/ Route(s) \/ Deliver(s)
    /\ UNCHANGED <<registryVars, sessionVars>>

WriteFails(s) ==
    /\ Polled(s) /\ SubAckFails(s) /\ GoTo(s, AfterLoss(s))
    /\ UNCHANGED packets

\* Steps a polled future takes on its own, and events from outside.
Progress(s) == RouterStep(s) \/ ServeMessage(s) \/ Save(s) \/ Cancel(s)
               \/ Cleanup(s) \/ LockRegistry(s) \/ RemoveSession(s)

Environment(s) == ServePacket(s) \/ LoseConnection(s) \/ WriteFails(s) \/ ConnAck(s) \/ GiveUp(s)
                  \/ \E c \in BOOLEAN : Connect(s, c) \/ Takeover(s, c) \/ TakeoverFails(s, c)

Serve == Accept \/ (\E s \in Sessions : AddClient(s)) \/ StopListening \/ CancelAll \/ Stopped

BrokerNext == Serve \/ \E s \in Sessions : Progress(s) \/ Environment(s)

BrokerSpec == BrokerInit /\ [][BrokerNext]_allVars

\* The runtime polls whatever is ready: each step a future can take on its
\* own, and each step of the serve loop except the arrival of a stream and of
\* the stop signal, is taken sooner or later.  Where the mailbox and the
\* command channel compete with other events, select! picks at random among
\* the ready arms, hence the strong fairness.
Fairness ==
    /\ \A s \in Sessions :
        /\ WF_allVars(RouterStep(s) \/ RemoveSession(s))
        /\ WF_allVars(Save(s) \/ Cleanup(s) \/ LockRegistry(s))
        /\ SF_allVars(ServeMessage(s))
        /\ SF_allVars(Cancel(s))
        /\ WF_allVars(AddClient(s))
    /\ WF_allVars(CancelAll) /\ WF_allVars(Stopped)

FairBrokerSpec == BrokerSpec /\ Fairness

-----------------------------------------------------------------------------
\* A session whose future has ended has left nothing behind: no registry
\* entry, no subscription, no claim on the mutex or on the router's lock.
ExitedLeavesNothing ==
    \A s \in Sessions : state[s] = "exited" =>
        /\ s \notin registry /\ holder # s
        /\ \A f \in Filters : s \notin filters[f]
        /\ \A i \in 1..Len(lockq) : lockq[i] # s

\* Shutdown overlooks nobody: once the registry is drained, every session
\* that still waits for events has a Cancel to find.
CancelReachesAll ==
    server = "drain" =>
        \A s \in Sessions :
            state[s] \in {"waiting", "connecting", "processing", "pending", "parked"}
                => s \in cancelled

\* While the serve loop polls its sessions and no mailbox is full, every
\* router call returns.
CallsReturn ==
    \A s \in Sessions :
        pc[s] # "idle" ~> (pc[s] = "idle" \/ server \in {"add_client", "cancel_all"})

\* While the serve loop polls its sessions and no mailbox is full, a session
\* that has come to an end is removed.
EndedIsRemoved ==
    \A s \in Sessions :
        state[s] = "cleanup" ~> (state[s] = "exited" \/ server \in {"add_client", "cancel_all"})

\* docs/arch.md: "To prevent deadlocks, locks are acquired in a consistent
\* order".  No session waits for the router's lock while the route that holds
\* it waits for room in that session's own mailbox.
NoWaitCycle ==
    \A p \in Readers :
        LET d == at[p].session IN
        ~ (mailbox[d] = MailboxCap /\ \E i \in 1..Len(lockq) : lockq[i] = d)
=============================================================================

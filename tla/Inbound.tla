------------------------------- MODULE Inbound -------------------------------
(***************************************************************************)
(* One session of src/src/session.rs as the receiver of QoS 1 and QoS 2    *)
(* messages from its publisher: PUBACK and the DUP flag, the inbound_qos2  *)
(* map and the PUBREL that releases a message to the router, across lost   *)
(* connections, takeovers, clean starts and restarts of the broker.        *)
(*                                                                         *)
(* A handler runs to its end before the session looks at the next event.   *)
(* It acknowledges first and then awaits the authoriser and the router, so *)
(* a handler that routes is two actions, with a message in between that is *)
(* acknowledged and nowhere else; meanwhile the connection may break and   *)
(* the broker may stop.  Whether the route returns is the subject of       *)
(* Broker.                                                                 *)
(*                                                                         *)
(* Abstractions.  A message is a model value with its QoS; QoS 0 leaves no *)
(* trace in this state.  A message that authorize_publish denies or whose  *)
(* topic route refuses is in Refused: it is acknowledged like any other    *)
(* and goes nowhere.                                                       *)
(***************************************************************************)
EXTENDS Naturals, Sequences, FiniteSets

CONSTANTS
    Msgs,        \* the messages the client publishes
    Qos2,        \* those of QoS 2; the others have QoS 1
    Refused,     \* those the ACL or the topic check refuses
    Ids,         \* the packet ids the client uses
    None,        \* no message, no image
    MaxBreaks,   \* bound: connections lost or replaced in one behaviour
    MaxCleans,   \* bound: connections with clean_session = true
    MaxRestarts  \* bound: restarts of the broker

Flight == [msg : Msgs, stage : {"publish", "pubrel"}]

ASSUME InboundAssumption ==
    /\ Qos2 \subseteq Msgs /\ Refused \subseteq Msgs /\ None \notin Msgs \cup Flight
    /\ None \notin [Ids -> Msgs \cup {None}]
    /\ {MaxBreaks, MaxCleans, MaxRestarts} \subseteq Nat

VARIABLES
    state,         \* "processing", "pending" or "absent"
    clean,         \* clean_session of the current connection
    inbound_qos2,  \* Runtime.inbound_qos2: id -> message held back, or None
    routing,       \* the message a handler has acknowledged and is about to
                   \* authorise and route, or None
    stored,        \* inbound_qos2 in the image save_session left in storage
    link,          \* the connection: "up", "broken" (not yet noticed), "down"
    toBroker,      \* packets under way from the client
    toClient,      \* packets under way to it
    flight,        \* external: id -> the client's unfinished publication, or None
    resend,        \* external: ids the client has yet to send again
    fresh,         \* external: messages the client has not published yet
    done,          \* external: messages whose exchange the client has completed
    times,         \* history: how often each message was routed
    abandoned,     \* history: messages the client gave up by a clean start
    resent,        \* history: QoS 1 messages the client has sent again, with DUP
    cut,           \* history: messages being authorised when the broker stopped
    breaks, cleans, restarts

session == <<state, clean, inbound_qos2, routing>>
client  == <<flight, resend, fresh, done>>
history == <<times, abandoned, resent, cut>>
bounds  == <<breaks, cleans, restarts>>
vars    == <<session, stored, link, toBroker, toClient, client, history, bounds>>

Up     == [type : {"PUBLISH"}, id : Ids, msg : Msgs, dup : BOOLEAN] \cup [type : {"PUBREL"}, id : Ids]
Down   == [type : {"PUBACK", "PUBREC", "PUBCOMP"}, id : Ids]
Held   == [Ids -> Msgs \cup {None}]
Nobody == [i \in Ids |-> None]

TypeOK ==
    /\ state        \in {"processing", "pending", "absent"}
    /\ clean        \in BOOLEAN
    /\ inbound_qos2 \in [Ids -> Qos2 \cup {None}]
    /\ stored       \in [Ids -> Qos2 \cup {None}] \cup {None}
    /\ link         \in {"up", "broken", "down"}
    /\ toBroker     \in Seq(Up)
    /\ toClient     \in Seq(Down)
    /\ flight       \in [Ids -> Flight \cup {None}]
    /\ resend \subseteq Ids /\ fresh \subseteq Msgs /\ done \subseteq Msgs
    /\ times        \in [Msgs -> Nat]
    /\ routing \in Msgs \cup {None}
    /\ abandoned \subseteq Msgs /\ resent \subseteq Msgs /\ cut \subseteq Msgs
    /\ breaks \in 0..MaxBreaks /\ cleans \in 0..MaxCleans /\ restarts \in 0..MaxRestarts

\* The client has connected with clean_session = false.
Init ==
    /\ state = "processing" /\ clean = FALSE /\ inbound_qos2 = Nobody
    /\ routing = None /\ stored = None /\ link = "up" /\ toBroker = <<>> /\ toClient = <<>>
    /\ flight = Nobody /\ resend = {} /\ fresh = Msgs /\ done = {}
    /\ times = [m \in Msgs |-> 0] /\ abandoned = {} /\ resent = {} /\ cut = {}
    /\ breaks = 0 /\ cleans = 0 /\ restarts = 0

-----------------------------------------------------------------------------
(***************************************************************************)
(* The handlers.  A write to a connection that has broken may still be     *)
(* accepted by the socket, and then goes nowhere, or it fails and the      *)
(* handler returns at that point.                                          *)
(***************************************************************************)
Cut == toClient' = <<>> /\ toBroker' = <<>>

Write(t, id) ==
    toClient' = IF link = "up" THEN Append(toClient, [type |-> t, id |-> id]) ELSE toClient

Route(m) ==
    times' = IF m \in Refused THEN times ELSE [times EXCEPT ![m] = @ + 1]

\* do_processing ends with the session holding q: a clean session goes to
\* Cleanup and is gone, any other waits in do_pending, where save_to_storage
\* first replaces the image.  The save may fail, which is only logged, and the
\* broker may stop before it: then the old image stays.
Leave(q, ends) ==
    /\ link' = "down" /\ Cut
    /\ IF ends
       THEN state' = "absent" /\ inbound_qos2' = Nobody /\ UNCHANGED stored
       ELSE state' = "pending" /\ inbound_qos2' = q /\ stored' \in {stored, q}

\* The select! of do_processing waits for the next event.
Listening == state = "processing" /\ routing = None

Serving(t) == Listening /\ toBroker # <<>> /\ Head(toBroker).type = t

\* Mutant: an id that inbound_qos2 holds makes any publication a duplicate.
OnPublish1SharesIds ==
    /\ Serving("PUBLISH") /\ Head(toBroker).msg \notin Qos2
    /\ LET p == Head(toBroker) IN
        /\ Write("PUBACK", p.id)
        /\ routing' = IF p.dup \/ inbound_qos2[p.id] # None THEN None ELSE p.msg
    /\ toBroker' = Tail(toBroker)
    /\ UNCHANGED <<state, clean, inbound_qos2, stored, link, client, history, bounds>>

\* on_publish, QoS 1: PUBACK always; the message goes on unless DUP is set.
OnPublish1 ==
    /\ Serving("PUBLISH") /\ Head(toBroker).msg \notin Qos2
    /\ LET p == Head(toBroker) IN
        /\ Write("PUBACK", p.id)
        /\ routing' = IF p.dup THEN None ELSE p.msg
    /\ toBroker' = Tail(toBroker)
    /\ UNCHANGED <<state, clean, inbound_qos2, stored, link, client, history, bounds>>

\* authorize_publish answers, and the message is dropped or handed to route.
PassOn ==
    /\ routing # None
    /\ Route(routing)
    /\ routing' = None
    /\ UNCHANGED <<state, clean, inbound_qos2, stored, link, toBroker, toClient, client,
                   abandoned, resent, cut, bounds>>

\* on_publish, QoS 2: an id that is already held is a duplicate whatever the
\* message; PUBREC in both cases.
Keep(p) == IF inbound_qos2[p.id] # None THEN inbound_qos2
           ELSE [inbound_qos2 EXCEPT ![p.id] = p.msg]

\* Mutant: a duplicate is not answered.
OnPublish2SilentDup ==
    /\ Serving("PUBLISH") /\ Head(toBroker).msg \in Qos2
    /\ inbound_qos2' = Keep(Head(toBroker))
    /\ IF inbound_qos2[Head(toBroker).id] = None THEN Write("PUBREC", Head(toBroker).id)
                                                 ELSE UNCHANGED toClient
    /\ toBroker' = Tail(toBroker)
    /\ UNCHANGED <<state, clean, routing, stored, link, client, history, bounds>>

OnPublish2 ==
    /\ Serving("PUBLISH") /\ Head(toBroker).msg \in Qos2
    /\ inbound_qos2' = Keep(Head(toBroker))
    /\ Write("PUBREC", Head(toBroker).id)
    /\ toBroker' = Tail(toBroker)
    /\ UNCHANGED <<state, clean, routing, stored, link, client, history, bounds>>

\* Mutant: the message stays in the map after it was routed.
OnPubRelKeeps ==
    /\ Serving("PUBREL")
    /\ Write("PUBCOMP", Head(toBroker).id)
    /\ routing' = inbound_qos2[Head(toBroker).id]
    /\ toBroker' = Tail(toBroker)
    /\ UNCHANGED <<state, clean, inbound_qos2, stored, link, client, history, bounds>>

\* on_pubrel: PUBCOMP always, then the message, if it is held, leaves the map
\* and goes on.
OnPubRel ==
    /\ Serving("PUBREL")
    /\ Write("PUBCOMP", Head(toBroker).id)
    /\ routing' = inbound_qos2[Head(toBroker).id]
    /\ inbound_qos2' = [inbound_qos2 EXCEPT ![Head(toBroker).id] = None]
    /\ toBroker' = Tail(toBroker)
    /\ UNCHANGED <<state, clean, stored, link, client, history, bounds>>

\* Mutants: a QoS 1 message is put into the map too; a PUBREL takes the message
\* out of the map before PUBCOMP is written.
ReplyFailsKeepsAny ==
    /\ Listening /\ toBroker # <<>> /\ link = "broken"
    /\ LET p == Head(toBroker) IN
        Leave(IF p.type = "PUBLISH" THEN Keep(p) ELSE inbound_qos2, clean)
    /\ UNCHANGED <<clean, routing, client, history, bounds>>

ReplyFailsAfterRemoval ==
    /\ Listening /\ toBroker # <<>> /\ link = "broken"
    /\ LET p == Head(toBroker) IN
        Leave(IF p.type = "PUBREL" THEN [inbound_qos2 EXCEPT ![p.id] = None]
              ELSE IF p.msg \in Qos2 THEN Keep(p) ELSE inbound_qos2, clean)
    /\ UNCHANGED <<clean, routing, client, history, bounds>>

\* The reply of any of the three cannot be written: a QoS 2 message is
\* already held, nothing has been released and nothing routed.
ReplyFails ==
    /\ Listening /\ toBroker # <<>> /\ link = "broken"
    /\ LET p == Head(toBroker) IN
        Leave(IF p.type = "PUBLISH" /\ p.msg \in Qos2 THEN Keep(p) ELSE inbound_qos2, clean)
    /\ UNCHANGED <<clean, routing, client, history, bounds>>

-----------------------------------------------------------------------------
(***************************************************************************)
(* The connection and the session's life.  A client that returns to its    *)
(* session sends everything unfinished again; one that connects with       *)
(* clean_session = true, or comes back after such a connection, forgets it.*)
(***************************************************************************)
StartsOver ==
    /\ flight' = Nobody /\ resend' = {} /\ UNCHANGED <<fresh, done, resent>>
    /\ abandoned' = abandoned \cup {flight[i].msg : i \in {j \in Ids : flight[j] # None}}

Returns ==
    IF clean THEN StartsOver
    ELSE resend' = {i \in Ids : flight[i] # None} /\ UNCHANGED <<flight, fresh, done, abandoned, resent>>

\* The broker's socket may already hold some of what the client had sent.
Break ==
    /\ link = "up" /\ breaks < MaxBreaks
    /\ link' = "broken" /\ breaks' = breaks + 1
    /\ toClient' = <<>>
    /\ \E n \in 0..Len(toBroker) : toBroker' = SubSeq(toBroker, 1, n)
    /\ UNCHANGED <<session, stored, client, history, cleans, restarts>>

Notice ==
    /\ Listening /\ link = "broken"
    /\ Leave(inbound_qos2, clean)
    /\ UNCHANGED <<clean, routing, client, history, bounds>>

\* on_takeover with clean_session = false; the image in storage stays.
Resume ==
    /\ \/ state = "pending" /\ UNCHANGED breaks
       \/ Listening /\ breaks < MaxBreaks /\ breaks' = breaks + 1
    /\ state' = "processing" /\ clean' = FALSE /\ link' = "up" /\ Cut
    /\ Returns
    /\ UNCHANGED <<inbound_qos2, routing, stored, times, cut, cleans, restarts>>

\* on_takeover with clean_session = true; inbound_qos2 stays.
StartClean ==
    /\ Listening \/ state = "pending"
    /\ cleans < MaxCleans
    /\ state' = "processing" /\ clean' = TRUE /\ link' = "up" /\ Cut
    /\ stored' = None /\ cleans' = cleans + 1
    /\ StartsOver
    /\ UNCHANGED <<inbound_qos2, routing, times, cut, breaks, restarts>>

\* The CONNACK of a takeover cannot be written, and the connection that tried
\* is lost: do_processing goes by the new connection's flag c, do_pending
\* tries to save the same state again.
TakeoverFails(c) ==
    /\ \/ Listening /\ Leave(inbound_qos2, c)
       \/ state = "pending" /\ Leave(inbound_qos2, FALSE)
    /\ \/ c /\ cleans < MaxCleans /\ cleans' = cleans + 1 /\ StartsOver /\ UNCHANGED breaks
       \/ ~c /\ breaks < MaxBreaks /\ breaks' = breaks + 1 /\ UNCHANGED <<client, abandoned, resent, cleans>>
    /\ UNCHANGED <<clean, routing, times, cut, restarts>>

\* The broker stops or crashes, and comes back with what storage holds.
Restart ==
    /\ state # "absent" /\ restarts < MaxRestarts
    /\ restarts' = restarts + 1
    /\ state' = "absent" /\ link' = "down" /\ Cut /\ inbound_qos2' = Nobody
    /\ routing' = None /\ cut' = cut \cup ({routing} \ {None})
    /\ UNCHANGED <<clean, stored, client, times, abandoned, resent, breaks, cleans>>

\* on_connect without a collision: clean_session = false restores the image,
\* if there is one, and deletes it; clean_session = true only deletes it.
Restore ==
    /\ state = "absent"
    /\ state' = "processing" /\ clean' = FALSE /\ link' = "up"
    /\ inbound_qos2' = IF stored = None THEN Nobody ELSE stored
    /\ stored' = None
    /\ Returns
    /\ UNCHANGED <<routing, toBroker, toClient, times, cut, bounds>>

\* The CONNACK cannot be written after the image was restored and deleted.
RestoreFails ==
    /\ state = "absent" /\ stored # None
    /\ stored' = None
    /\ UNCHANGED <<session, link, toBroker, toClient, client, history, bounds>>

ConnectClean ==
    /\ state = "absent" /\ cleans < MaxCleans /\ cleans' = cleans + 1
    /\ state' = "processing" /\ clean' = TRUE /\ link' = "up"
    /\ stored' = None
    /\ StartsOver
    /\ UNCHANGED <<inbound_qos2, routing, toBroker, toClient, times, cut, breaks, restarts>>

-----------------------------------------------------------------------------
(***************************************************************************)
(* External: a publisher that follows MQTT 3.1.1.                          *)
(***************************************************************************)
Send(p) == toBroker' = Append(toBroker, p)

Publish(m, id) ==
    /\ link = "up" /\ resend = {} /\ m \in fresh /\ flight[id] = None
    /\ fresh'  = fresh \ {m}
    /\ flight' = [flight EXCEPT ![id] = [msg |-> m, stage |-> "publish"]]
    /\ Send([type |-> "PUBLISH", id |-> id, msg |-> m, dup |-> FALSE])
    /\ UNCHANGED <<session, stored, link, toClient, resend, done, history, bounds>>

SendAgain(id) ==
    /\ link = "up" /\ id \in resend
    /\ resend' = resend \ {id}
    /\ Send(IF flight[id].stage = "pubrel" THEN [type |-> "PUBREL", id |-> id]
            ELSE [type |-> "PUBLISH", id |-> id, msg |-> flight[id].msg, dup |-> TRUE])
    /\ resent' = resent \cup ({flight[id].msg} \ Qos2)
    /\ UNCHANGED <<session, stored, link, toClient, flight, fresh, done, times, abandoned, cut, bounds>>

ClientReceives ==
    /\ link = "up" /\ toClient # <<>>
    /\ toClient' = Tail(toClient)
    /\ LET p == Head(toClient)
           m == flight[p.id].msg
       IN  IF p.type = "PUBREC"
           THEN /\ flight' = [flight EXCEPT ![p.id].stage = "pubrel"]
                /\ Send([type |-> "PUBREL", id |-> p.id])
                /\ UNCHANGED done
           ELSE /\ flight' = [flight EXCEPT ![p.id] = None]
                /\ done' = done \cup {m}
                /\ UNCHANGED toBroker
    /\ UNCHANGED <<session, stored, link, resend, fresh, history, bounds>>

Next ==
    \/ OnPublish1 \/ OnPublish2 \/ OnPubRel \/ PassOn \/ ReplyFails
    \/ Break \/ Notice \/ Resume \/ StartClean \/ Restart \/ Restore \/ RestoreFails \/ ConnectClean
    \/ \E c \in BOOLEAN : TakeoverFails(c)
    \/ \E m \in Msgs, id \in Ids : Publish(m, id)
    \/ \E id \in Ids : SendAgain(id)
    \/ ClientReceives

Spec == Init /\ [][Next]_vars

\* The session's own steps are polled, and the client reads what arrives,
\* sends again what it owes and reconnects when it has been cut off.
Fairness ==
    /\ WF_vars(OnPublish1 \/ OnPublish2 \/ OnPubRel) /\ WF_vars(PassOn)
    /\ WF_vars(Notice) /\ WF_vars(Resume /\ state = "pending") /\ WF_vars(Restore)
    /\ WF_vars(ClientReceives) /\ \A id \in Ids : WF_vars(SendAgain(id))

FairSpec == Spec /\ Fairness

-----------------------------------------------------------------------------
\* The session has never lost, or been asked to drop, its state: a restart
\* forgets what was not saved and brings back what has been routed since, a
\* clean start leaves inbound_qos2 or the image behind.
Continuous == restarts = 0 /\ cleans = 0

\* A QoS 2 message is routed at most once, however often its PUBLISH and its
\* PUBREL are sent again over new connections.
AtMostOnce == Continuous => \A m \in Qos2 : times[m] <= 1

\* A QoS 2 exchange the client has completed has released its message: the
\* PUBCOMP, which on_pubrel writes before the message is routed, never stands
\* for a message that was not, or is not about to be.
CompletedIsRouted ==
    Continuous => \A m \in (Qos2 \ Refused) \cap done : times[m] >= 1 \/ m = routing

\* Client and broker never disagree on what an id stands for: the message
\* inbound_qos2 holds under an id is the one the client has in flight under it.
HeldIsInFlight ==
    Continuous =>
        \A id \in Ids : inbound_qos2[id] # None =>
            flight[id] # None /\ flight[id].msg = inbound_qos2[id]

\* What the client has published is completed sooner or later.
ExchangesComplete == \A m \in Msgs : m \notin fresh ~> m \in done \cup abandoned

\* A QoS 1 message that was acknowledged to the client and sent once has been
\* routed or is about to be: not even an id that a clean start has left in
\* inbound_qos2 makes it a duplicate, and a lost connection does not stop the
\* handler.  What a stop of the broker takes with it is the one message that a
\* handler has acknowledged and not yet routed.  A message sent again with DUP
\* is acknowledged and not routed also when the first copy was lost.
AckedIsRouted ==
    \A m \in (Msgs \ Qos2) \ Refused :
        m \in done => times[m] >= 1 \/ m = routing \/ m \in cut \cup resent
=============================================================================

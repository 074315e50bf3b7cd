------------------------------ MODULE Outbound ------------------------------
(***************************************************************************)
(* One session of src/src/session.rs as the sender of QoS 1 and QoS 2      *)
(* messages to its subscriber: the mailbox the router fills, the in-flight *)
(* queue, the packet-id counter, the retransmission timer, the loss of the *)
(* connection and its takeover by the next one, and the image of the       *)
(* session in storage that a restarted broker restores.                    *)
(*                                                                         *)
(* A handler of do_processing runs to its end before the select! loop      *)
(* looks at the next event, so each is one action.  TCP delivers in order  *)
(* what it delivers; a broken connection loses what was still under way.   *)
(*                                                                         *)
(* Abstractions.  A message is a model value with its QoS; QoS 0 leaves no *)
(* trace in this state and is left out.  Time is a choice: at every tick   *)
(* of the timer any set of in-flight messages may be due.                  *)
(***************************************************************************)
EXTENDS Naturals, Sequences, FiniteSets

CONSTANTS
    Msgs,        \* the messages the router forwards to this session
    Qos2,        \* those of effective QoS 2; the others have QoS 1
    MaxId,       \* the last packet id before the counter wraps (65535)
    MaxRetry,    \* config.max_retransmission_limit
    Retransmits, \* config.retransmission_interval_ms > 0
    MailboxCap,  \* capacity of the mailbox (100)
    MaxBreaks,   \* bound: connections lost or replaced, and restarts of the broker
    NoImage      \* no image of the session in storage

ASSUME OutboundAssumption ==
    /\ Qos2 \subseteq Msgs /\ Retransmits \in BOOLEAN
    /\ MaxId \in Nat \ {0} /\ MailboxCap \in Nat \ {0}
    /\ {MaxRetry, MaxBreaks} \subseteq Nat

VARIABLES
    state,          \* "processing", "pending", "hung" or "absent"
    clean,          \* clean_session of the current connection
    mailbox,        \* the messages between router and session; id 0 if new
    inflight_queue, \* Runtime.inflight_queue
    next_packet_id, \* Runtime.next_packet_id
    stored,         \* the image save_session left in storage
    link,           \* the connection: "up", "broken" (not yet noticed), "down"
    toClient,       \* packets under way to the subscriber
    toBroker,       \* packets under way from it
    released,       \* external: ids whose PUBLISH the client has, PUBREL it has not
    delivered,      \* external: how often the client's application got each message
    routed,         \* history: messages the router has put into the mailbox
    givenUp,        \* history: messages dropped at the retransmission limit
    lost,           \* history: messages dropped with a failed write, not in the
                    \* image when the broker stops, or deleted with it
    stale,          \* history: messages of a session that a clean takeover or
                    \* the end of a clean session has closed
    clashed,        \* history: messages that got, or shared, an id still in use
    behind,         \* history: messages that the image still had waiting for
                    \* PUBREC, and the session no longer, when the broker stopped
    breaks

session == <<state, clean, mailbox, inflight_queue, next_packet_id>>
client  == <<released, delivered>>
history == <<routed, givenUp, lost, stale, clashed, behind>>
vars    == <<session, stored, link, toClient, toBroker, client, history, breaks>>

Ids == 1..MaxId

\* packet::Publish entries of the mailbox: id 0 for a message the router
\* forwarded, its packet id for a retransmission (dup = true).
Entry  == [msg : Msgs, id : 0..MaxId]
Stages == {"puback", "pubrec", "pubcomp"}  \* None, AwaitingPubRec, AwaitingPubComp
Flight == [msg : Msgs, id : Ids, stage : Stages, retry : 0..MaxRetry]
Image  == [inflight : Seq(Flight), next : Ids]

Down == [type : {"PUBLISH"}, id : Ids, msg : Msgs] \cup [type : {"PUBREL"}, id : Ids]
Up   == [type : {"PUBACK", "PUBREC", "PUBCOMP"}, id : Ids]

TypeOK ==
    /\ state          \in {"processing", "pending", "hung", "absent"}
    /\ clean          \in BOOLEAN
    /\ mailbox        \in Seq(Entry) /\ Len(mailbox) <= MailboxCap
    /\ inflight_queue \in Seq(Flight)
    /\ next_packet_id \in Ids
    /\ stored         \in Image \cup {NoImage}
    /\ link           \in {"up", "broken", "down"}
    /\ toClient       \in Seq(Down)
    /\ toBroker       \in Seq(Up)
    /\ released       \subseteq Ids
    /\ delivered      \in [Msgs -> Nat]
    /\ routed \subseteq Msgs /\ givenUp \subseteq routed /\ lost \subseteq routed
    /\ stale \subseteq routed /\ clashed \subseteq routed /\ behind \subseteq Msgs
    /\ breaks \in 0..MaxBreaks

\* The client has connected with clean_session = false and subscribed.
Init ==
    /\ state = "processing" /\ clean = FALSE /\ mailbox = <<>> /\ inflight_queue = <<>>
    /\ next_packet_id = 1 /\ stored = NoImage
    /\ link = "up" /\ toClient = <<>> /\ toBroker = <<>>
    /\ released = {} /\ delivered = [m \in Msgs |-> 0]
    /\ routed = {} /\ givenUp = {} /\ lost = {} /\ stale = {} /\ clashed = {} /\ behind = {}
    /\ breaks = 0

-----------------------------------------------------------------------------
\* Router::route puts a message into the mailbox, if there is room.
Arrive(m) ==
    /\ m \notin routed /\ state # "absent"
    /\ Len(mailbox) < MailboxCap
    /\ mailbox' = Append(mailbox, [msg |-> m, id |-> 0])
    /\ routed'  = routed \cup {m}
    /\ UNCHANGED <<state, clean, inflight_queue, next_packet_id, stored, link, toClient,
                   toBroker, client, givenUp, lost, stale, clashed, behind, breaks>>

\* Mutant: the counter does not wrap.
NextIdUnbounded == next_packet_id + 1

\* next_packet_id(): the counter skips 0 and does not look at what is in use.
NextId == IF next_packet_id = MaxId THEN 1 ELSE next_packet_id + 1

Cut == toClient' = <<>> /\ toBroker' = <<>>

\* A write to a connection that has broken may still be accepted by the
\* socket, and then goes nowhere.
Write(ps) == toClient' = IF link = "up" THEN toClient \o ps ELSE toClient

\* do_processing ends with the session holding box, q and next: a clean
\* session goes to Cleanup and is gone, any other waits in do_pending for the
\* next connection, after save_to_storage has replaced the image (the mailbox
\* is not part of it).  A save that fails is only logged, and the broker may
\* stop before it: then the old image stays.
Leave(box, q, next, ends) ==
    /\ link' = "down"
    /\ IF ends
       THEN /\ state' = "absent" /\ mailbox' = <<>> /\ inflight_queue' = <<>>
            /\ next_packet_id' = 1 /\ stale' = routed /\ UNCHANGED stored
       ELSE /\ state' = "pending" /\ mailbox' = box /\ inflight_queue' = q
            /\ next_packet_id' = next /\ UNCHANGED stale
            /\ stored' \in {stored, [inflight |-> q, next |-> next]}

\* The messages that use a packet id: in flight, in the image, queued for
\* retransmission or under way.
UsedBy(id) ==
    {m \in Msgs :
        \/ \E i \in DOMAIN inflight_queue : inflight_queue[i].id = id /\ inflight_queue[i].msg = m
        \/ /\ stored # NoImage
           /\ \E i \in DOMAIN stored.inflight :
                stored.inflight[i].id = id /\ stored.inflight[i].msg = m
        \/ \E i \in DOMAIN mailbox : mailbox[i].id = id /\ mailbox[i].msg = m
        \/ \E i \in DOMAIN toClient :
            toClient[i].type = "PUBLISH" /\ toClient[i].id = id /\ toClient[i].msg = m}

\* An acknowledgement or a PUBREL with that id is under way.
Answered(id) ==
    \/ \E i \in DOMAIN toBroker : toBroker[i].id = id
    \/ \E i \in DOMAIN toClient : toClient[i].type = "PUBREL" /\ toClient[i].id = id

\* The messages that can be taken for one another when m is numbered id.
Clash(m, id) ==
    IF UsedBy(id) # {} \/ Answered(id) \/ (m \in Qos2 /\ id \in released)
    THEN {m} \cup UsedBy(id)
    ELSE {}

\* on_message: a new message gets an id, is sent and then tracked; a
\* retransmission is only sent.
OnMessage ==
    /\ state = "processing" /\ mailbox # <<>>
    /\ mailbox' = Tail(mailbox)
    /\ LET e == Head(mailbox)
           id == IF e.id = 0 THEN next_packet_id ELSE e.id
       IN  /\ Write(<<[type |-> "PUBLISH", id |-> id, msg |-> e.msg]>>)
           /\ IF e.id = 0
              THEN /\ next_packet_id' = NextId
                   /\ inflight_queue' = Append(inflight_queue,
                        [msg |-> e.msg, id |-> id, retry |-> 0,
                         stage |-> IF e.msg \in Qos2 THEN "pubrec" ELSE "puback"])
                   /\ clashed' = clashed \cup Clash(e.msg, id)
              ELSE UNCHANGED <<next_packet_id, inflight_queue, clashed>>
    /\ UNCHANGED <<state, clean, stored, link, toBroker, client, routed, givenUp, lost, stale,
                   behind, breaks>>

\* The write in on_message fails: the id is used up, the message is not
\* tracked, and the session leaves do_processing.
OnMessageFails ==
    /\ state = "processing" /\ mailbox # <<>> /\ link = "broken"
    /\ LET e == Head(mailbox)
           next == IF e.id = 0 THEN NextId ELSE next_packet_id
       IN  /\ Leave(Tail(mailbox), inflight_queue, next, clean)
           /\ lost' = IF e.id = 0 THEN lost \cup {e.msg} ELSE lost
    /\ Cut
    /\ UNCHANGED <<clean, client, routed, givenUp, clashed, behind, breaks>>

\* Mutant: an acknowledgement removes the oldest entry, whatever its id.
WithoutOldest(id) == IF inflight_queue = <<>> THEN <<>> ELSE Tail(inflight_queue)

\* The elements of q at the positions P, in the order of q.
Rank(i, P)   == Cardinality({j \in P : j <= i})
Retain(q, P) == [k \in 1..Cardinality(P) |-> q[CHOOSE i \in P : Rank(i, P) = k]]

WithoutId(id) ==
    Retain(inflight_queue, {i \in DOMAIN inflight_queue : inflight_queue[i].id # id})

\* on_puback and on_pubcomp: every entry with that id goes.
OnAck ==
    /\ state = "processing" /\ toBroker # <<>>
    /\ Head(toBroker).type \in {"PUBACK", "PUBCOMP"}
    /\ toBroker' = Tail(toBroker)
    /\ inflight_queue' = WithoutId(Head(toBroker).id)
    /\ UNCHANGED <<state, clean, mailbox, next_packet_id, stored, link, toClient, client,
                   history, breaks>>

\* Mutants: no entry moves on; the first entry does, whatever its id.
AdvanceNone(id) == inflight_queue

AdvanceOldest(id) ==
    [i \in DOMAIN inflight_queue |->
        IF i = 1 THEN [inflight_queue[i] EXCEPT !.stage = "pubcomp", !.retry = 0]
        ELSE inflight_queue[i]]

\* on_pubrec: the first entry that waits for it moves on; PUBREL is sent in
\* any case.
Advance(id) ==
    LET waiting == {i \in DOMAIN inflight_queue :
                      inflight_queue[i].id = id /\ inflight_queue[i].stage = "pubrec"}
    IN  [i \in DOMAIN inflight_queue |->
           IF i \in waiting /\ \A j \in waiting : i <= j
           THEN [inflight_queue[i] EXCEPT !.stage = "pubcomp", !.retry = 0]
           ELSE inflight_queue[i]]

OnPubRec ==
    /\ state = "processing" /\ toBroker # <<>> /\ Head(toBroker).type = "PUBREC"
    /\ toBroker' = Tail(toBroker)
    /\ inflight_queue' = Advance(Head(toBroker).id)
    /\ Write(<<[type |-> "PUBREL", id |-> Head(toBroker).id]>>)
    /\ UNCHANGED <<state, clean, mailbox, next_packet_id, stored, link, client, history, breaks>>

\* The PUBREL cannot be written.
OnPubRecFails ==
    /\ state = "processing" /\ toBroker # <<>> /\ Head(toBroker).type = "PUBREC"
    /\ link = "broken"
    /\ Leave(mailbox, Advance(Head(toBroker).id), next_packet_id, clean)
    /\ Cut
    /\ UNCHANGED <<clean, client, routed, givenUp, lost, clashed, behind, breaks>>

-----------------------------------------------------------------------------
(***************************************************************************)
(* on_retransmit, with the entries at the positions D due.  An entry over  *)
(* the limit goes.  PUBLISHes are queued into the session's own mailbox,   *)
(* PUBRELs are written.  If the mailbox has no room the send waits for     *)
(* ever: the only one who empties it is the session itself.                *)
(***************************************************************************)
Tried(i, D) == IF i \in D THEN [inflight_queue[i] EXCEPT !.retry = @ + 1]
                          ELSE inflight_queue[i]

OverLimit(D) == {i \in D : inflight_queue[i].retry + 1 > MaxRetry}

AfterTick(D) == Retain([i \in DOMAIN inflight_queue |-> Tried(i, D)],
                       DOMAIN inflight_queue \ OverLimit(D))

Again(D) ==
    LET due == Retain(inflight_queue,
                      {i \in D \ OverLimit(D) : inflight_queue[i].stage # "pubcomp"})
    IN  [k \in DOMAIN due |-> [msg |-> due[k].msg, id |-> due[k].id]]

Release(D) ==
    LET due == Retain(inflight_queue,
                      {i \in D \ OverLimit(D) : inflight_queue[i].stage = "pubcomp"})
    IN  [k \in DOMAIN due |-> [type |-> "PUBREL", id |-> due[k].id]]

GiveUp(D) == givenUp' = givenUp \cup {inflight_queue[i].msg : i \in OverLimit(D)}

OnRetransmit(D) ==
    /\ Retransmits /\ state = "processing"
    /\ D # {} /\ D \subseteq DOMAIN inflight_queue
    /\ Len(mailbox) + Len(Again(D)) <= MailboxCap
    /\ inflight_queue' = AfterTick(D)
    /\ mailbox' = mailbox \o Again(D)
    /\ Write(Release(D))
    /\ GiveUp(D)
    /\ UNCHANGED <<state, clean, next_packet_id, stored, link, toBroker, client, routed,
                   lost, stale, clashed, behind, breaks>>

\* The PUBREL of a tick cannot be written.
OnRetransmitFails(D) ==
    /\ Retransmits /\ state = "processing" /\ link = "broken"
    /\ D \subseteq DOMAIN inflight_queue /\ Release(D) # <<>>
    /\ Len(mailbox) + Len(Again(D)) <= MailboxCap
    /\ Leave(mailbox \o Again(D), AfterTick(D), next_packet_id, clean)
    /\ GiveUp(D) /\ Cut
    /\ UNCHANGED <<clean, client, routed, lost, clashed, behind, breaks>>

OnRetransmitHangs(D) ==
    /\ Retransmits /\ state = "processing"
    /\ D \subseteq DOMAIN inflight_queue
    /\ Len(mailbox) + Len(Again(D)) > MailboxCap
    /\ inflight_queue' = AfterTick(D)
    /\ mailbox' = mailbox \o SubSeq(Again(D), 1, MailboxCap - Len(mailbox))
    /\ state' = "hung"
    /\ GiveUp(D)
    /\ UNCHANGED <<clean, next_packet_id, stored, link, toClient, toBroker, client, routed,
                   lost, stale, clashed, behind, breaks>>

-----------------------------------------------------------------------------
(***************************************************************************)
(* The connection and the session's life.                                  *)
(***************************************************************************)
\* The connection breaks.  Whatever was under way to the client is gone; the
\* broker's socket may already hold some of what the client had sent.
Break ==
    /\ link = "up" /\ breaks < MaxBreaks
    /\ link' = "broken" /\ breaks' = breaks + 1
    /\ toClient' = <<>>
    /\ \E n \in 0..Len(toBroker) : toBroker' = SubSeq(toBroker, 1, n)
    /\ UNCHANGED <<session, stored, client, history>>

\* The reader fails, the client said DISCONNECT, or the keep-alive ran out.
Notice ==
    /\ state = "processing" /\ link = "broken"
    /\ Leave(mailbox, inflight_queue, next_packet_id, clean)
    /\ Cut
    /\ UNCHANGED <<clean, client, routed, givenUp, lost, clashed, behind, breaks>>

\* Mutant: a takeover forgets what is in flight.
ResumeForgets ==
    /\ \/ state = "pending" /\ UNCHANGED breaks
       \/ state = "processing" /\ breaks < MaxBreaks /\ breaks' = breaks + 1
    /\ state' = "processing" /\ clean' = FALSE /\ link' = "up" /\ Cut
    /\ inflight_queue' = <<>>
    /\ UNCHANGED <<mailbox, next_packet_id, stored, client, history>>

\* on_takeover with clean_session = false, from do_processing or do_pending.
\* The image in storage stays.
Resume ==
    /\ \/ state = "pending" /\ UNCHANGED breaks
       \/ state = "processing" /\ breaks < MaxBreaks /\ breaks' = breaks + 1
    /\ state' = "processing" /\ clean' = FALSE /\ link' = "up" /\ Cut
    /\ UNCHANGED <<mailbox, inflight_queue, next_packet_id, stored, client, history>>

\* on_takeover with clean_session = true: subscriptions, image and in-flight
\* messages go, the mailbox and the id counter stay.
StartClean ==
    /\ state \in {"pending", "processing"} /\ breaks < MaxBreaks
    /\ breaks' = breaks + 1
    /\ state' = "processing" /\ clean' = TRUE /\ link' = "up" /\ Cut
    /\ stored' = NoImage /\ inflight_queue' = <<>> /\ released' = {}
    /\ stale' = routed
    /\ UNCHANGED <<mailbox, next_packet_id, delivered, routed, givenUp, lost, clashed, behind>>

\* The CONNACK of a takeover with clean_session = c cannot be written.  In
\* do_processing c, and not the session's own flag, decides what follows; in
\* do_pending the session stays and tries to save the same state again.
TakeoverFails(c) ==
    /\ breaks < MaxBreaks
    /\ breaks' = breaks + 1
    /\ \/ state = "processing" /\ Leave(mailbox, inflight_queue, next_packet_id, c)
       \/ state = "pending" /\ Leave(mailbox, inflight_queue, next_packet_id, FALSE)
    /\ Cut
    /\ UNCHANGED <<clean, client, routed, givenUp, lost, clashed, behind>>

Queued(m)   == \E i \in DOMAIN mailbox : mailbox[i].msg = m /\ mailbox[i].id = 0
InFlight(m) == \E i \in DOMAIN inflight_queue : inflight_queue[i].msg = m
InImage(m)  == stored # NoImage /\ \E i \in DOMAIN stored.inflight : stored.inflight[i].msg = m

\* Entries of the image that wait for a PUBREC the session has handled since.
Overtaken ==
    IF stored = NoImage THEN {}
    ELSE {stored.inflight[i] : i \in {j \in DOMAIN stored.inflight :
            /\ stored.inflight[j].stage = "pubrec"
            /\ \A k \in DOMAIN inflight_queue :
                 ~ /\ inflight_queue[k].id = stored.inflight[j].id
                   /\ inflight_queue[k].msg = stored.inflight[j].msg
                   /\ inflight_queue[k].stage = "pubrec"}}

\* The broker stops, by a Cancel or by a crash, and comes back: everything
\* but storage is gone.  Cleanup does not save.
Restart ==
    /\ state # "absent" /\ breaks < MaxBreaks
    /\ breaks' = breaks + 1
    /\ state' = "absent" /\ link' = "down" /\ Cut
    /\ mailbox' = <<>> /\ inflight_queue' = <<>> /\ next_packet_id' = 1
    /\ lost' = lost \cup {m \in routed : (Queued(m) \/ InFlight(m)) /\ ~InImage(m)}
    /\ behind' = behind \cup {f.msg : f \in Overtaken}
    /\ UNCHANGED <<clean, stored, client, routed, givenUp, stale, clashed>>

\* Mutant: the packet-id counter is not restored.
RestoreForgetsCounter ==
    /\ state = "absent"
    /\ state' = "processing" /\ clean' = FALSE /\ link' = "up"
    /\ inflight_queue' = IF stored = NoImage THEN inflight_queue ELSE stored.inflight
    /\ released' = IF stored = NoImage THEN {} ELSE released
    /\ stored' = NoImage
    /\ UNCHANGED <<mailbox, next_packet_id, toClient, toBroker, delivered, history, breaks>>

\* on_connect without a collision, clean_session = false: the image is
\* restored, if there is one, and deleted.  The CONNACK says which of the two
\* it was (session_present), and a client told that there was none starts anew.
Restore ==
    /\ state = "absent"
    /\ state' = "processing" /\ clean' = FALSE /\ link' = "up"
    /\ IF stored = NoImage
       THEN released' = {} /\ UNCHANGED <<inflight_queue, next_packet_id>>
       ELSE /\ inflight_queue' = stored.inflight /\ next_packet_id' = stored.next
            /\ UNCHANGED released
    /\ stored' = NoImage
    /\ UNCHANGED <<mailbox, toClient, toBroker, delivered, history, breaks>>

\* The CONNACK cannot be written after the image was restored and deleted:
\* Cleanup, which does not save.
RestoreFails ==
    /\ state = "absent" /\ stored # NoImage
    /\ stored' = NoImage
    /\ lost' = lost \cup {m \in routed : InImage(m)}
    /\ UNCHANGED <<session, link, toClient, toBroker, client, routed, givenUp, stale,
                   clashed, behind, breaks>>

\* on_connect without a collision, clean_session = true.
ConnectClean ==
    /\ state = "absent"
    /\ state' = "processing" /\ clean' = TRUE /\ link' = "up"
    /\ stored' = NoImage /\ released' = {} /\ stale' = routed
    /\ UNCHANGED <<mailbox, inflight_queue, next_packet_id, toClient, toBroker, delivered,
                   routed, givenUp, lost, clashed, behind, breaks>>

-----------------------------------------------------------------------------
(***************************************************************************)
(* External: a subscriber that follows MQTT 3.1.1 and keeps its session    *)
(* state across connections.                                               *)
(***************************************************************************)
Reply(t, id) == toBroker' = Append(toBroker, [type |-> t, id |-> id])

ClientReceives ==
    /\ link = "up" /\ toClient # <<>>
    /\ toClient' = Tail(toClient)
    /\ LET p == Head(toClient) IN
       \/ /\ p.type = "PUBREL"
          /\ released' = released \ {p.id} /\ UNCHANGED delivered
          /\ Reply("PUBCOMP", p.id)
       \/ /\ p.type = "PUBLISH" /\ p.msg \notin Qos2
          /\ delivered' = [delivered EXCEPT ![p.msg] = @ + 1] /\ UNCHANGED released
          /\ Reply("PUBACK", p.id)
       \/ /\ p.type = "PUBLISH" /\ p.msg \in Qos2
          /\ delivered' = IF p.id \in released THEN delivered
                          ELSE [delivered EXCEPT ![p.msg] = @ + 1]
          /\ released' = released \cup {p.id}
          /\ Reply("PUBREC", p.id)
    /\ UNCHANGED <<session, stored, link, history, breaks>>

Next ==
    \/ \E m \in Msgs : Arrive(m)
    \/ OnMessage \/ OnMessageFails \/ OnAck \/ OnPubRec \/ OnPubRecFails
    \/ \E D \in SUBSET DOMAIN inflight_queue :
        OnRetransmit(D) \/ OnRetransmitFails(D) \/ OnRetransmitHangs(D)
    \/ Break \/ Notice \/ Resume \/ StartClean \/ Restart \/ Restore \/ RestoreFails \/ ConnectClean
    \/ \E c \in BOOLEAN : TakeoverFails(c)
    \/ ClientReceives

Spec == Init /\ [][Next]_vars

\* The session's own steps are polled, timers fire, the client reads what
\* arrives and reconnects when it has been cut off.
Fairness ==
    /\ WF_vars(OnMessage) /\ WF_vars(OnAck \/ OnPubRec)
    /\ WF_vars(\E D \in SUBSET DOMAIN inflight_queue : OnRetransmit(D))
    /\ WF_vars(Notice) /\ WF_vars(Resume /\ state = "pending") /\ WF_vars(Restore \/ ConnectClean)
    /\ WF_vars(ClientReceives)

FairSpec == Spec /\ Fairness

-----------------------------------------------------------------------------
\* A message is waiting, in flight, in the image a restart will find,
\* delivered, given up at the retransmission limit, dropped with a failed
\* write, by a restart that had not saved it or with a CONNACK that failed
\* after a restore, or of a session that was closed.
Accounted(m) ==
    \/ Queued(m) \/ InFlight(m) \/ (state = "absent" /\ InImage(m))
    \/ delivered[m] > 0 \/ m \in givenUp \cup lost \cup stale

\* No message the router handed over disappears unnoticed, unless its packet
\* id was in use twice: on_puback and on_pubcomp never remove a message the
\* subscriber has not got.
NothingForgotten == \A m \in routed : Accounted(m) \/ m \in clashed

\* The two ends agree on the stage of a QoS 2 exchange: once on_pubrec has
\* moved an entry on, the subscriber's application has the message, unless
\* its packet id was in use twice.
ReleasedIsDelivered ==
    \A i \in DOMAIN inflight_queue :
        inflight_queue[i].stage = "pubcomp" =>
            delivered[inflight_queue[i].msg] > 0 \/ inflight_queue[i].msg \in clashed

\* And they agree before that: a message that on_retransmit may still send as a
\* PUBLISH, because its PUBREC is missing, is one the subscriber has not got or
\* whose id it still holds, so that it takes the copy for what it is.  Excepted
\* are a packet id in use twice, an entry that a restart brought back from an
\* older image, and the messages of a session that was closed.
RetryIsRecognised ==
    \A i \in DOMAIN inflight_queue :
        LET f == inflight_queue[i] IN
        f.stage = "pubrec" /\ delivered[f.msg] > 0 =>
            f.id \in released \/ f.msg \in clashed \cup behind \cup stale

\* The counter of next_packet_id() does not come round to an id it gave before.
NoWrap == IsFiniteSet(Msgs) /\ Cardinality(Msgs) <= MaxId

\* Two messages in flight never share a packet id, also after a restart, as
\* long as the counter does not come round (sqlite.rs makes
\* (client_id, packet_id) a primary key).
IdsUnique ==
    NoWrap => \A i, j \in DOMAIN inflight_queue :
                inflight_queue[i].id = inflight_queue[j].id => i = j

\* The packet id that next_packet_id() gives to the next message is free: not
\* in flight, not in the image, not in a retransmission in the mailbox, and
\* nothing with it is under way in either direction, also after a restart that
\* restores an old counter, as long as the counter does not come round.
NextIdIsFree ==
    NoWrap /\ state # "absent" /\ (\E m \in Msgs : Queued(m)) =>
        UsedBy(next_packet_id) = {} /\ ~Answered(next_packet_id)

\* Every message handed over is settled: delivered, or one of the ways out
\* named above, unless on_retransmit has blocked the session on its own mailbox.
EverythingSettles ==
    \A m \in Msgs :
        m \in routed ~> (\/ delivered[m] > 0 \/ m \in givenUp \cup lost \cup stale \cup clashed
                        \/ state = "hung")

\* README.md: QoS=2 '"Exactly once" guarantee fully implemented'.
ExactlyOnce == \A m \in Qos2 : delivered[m] <= 1
=============================================================================

------------------------------ MODULE Lifecycle ------------------------------
(***************************************************************************)
(* Who serves which connection: the named_clients map of src/src/broker.rs,*)
(* the takeover of a session by a second connection with its client id,    *)
(* the wills, and the sessions kept in storage, through all states of the  *)
(* session machine of src/src/session.rs and the shutdown of the server.   *)
(*                                                                         *)
(* Every accepted stream starts a session of its own, so a session has the *)
(* name of the connection it was made for.  What it serves later may be    *)
(* another connection's stream.                                            *)
(*                                                                         *)
(* Abstractions.  A will is named after the connection whose CONNECT       *)
(* carried it.  An image in storage is reduced to the will it holds.  A    *)
(* call to the router is one step: how it may wait is the subject of       *)
(* Broker.                                                                 *)
(***************************************************************************)
EXTENDS Naturals, Sequences, FiniteSets

CONSTANTS
    Conns,      \* connections, and the sessions accepted for them
    Clients,    \* client ids
    ClientOf,   \* the client id each CONNECT carries, or Anonymous
    Anonymous,  \* the empty client id
    Wills,      \* connections whose CONNECT carries a will
    None,       \* nobody, nothing
    NoImage,    \* no image in storage
    CommandCap  \* capacity of a command channel (10)

ASSUME LifecycleAssumption ==
    /\ ClientOf \in [Conns -> Clients \cup {Anonymous}] /\ Anonymous \notin Clients
    /\ Wills \subseteq Conns
    /\ None \notin Conns \cup Clients \cup {Anonymous} /\ NoImage \notin Conns \cup {None}
    /\ CommandCap \in Nat \ {0}

VARIABLES
    server,    \* "loop", "cancel_all" or "drain": only cancel_all stops the polling
    phase,     \* where each session is
    stream,    \* Runtime.stream, or the halves do_processing made of it
    clean,     \* Runtime.clean_session
    client_id, \* Runtime.client_id
    will,      \* Runtime.will_message
    commands,  \* the command channel of each session
    target,    \* the session to whose channel a takeover sends its stream
    named,     \* Broker.named_clients
    image,     \* storage: the will in the client's image, None, or NoImage
    fate,      \* history: what became of each connection
    published, \* history: connections whose will was published
    handed     \* history: connections handed over for a takeover

conn    == <<stream, clean, client_id, will>>
history == <<fate, published, handed>>
vars    == <<server, phase, conn, commands, target, named, image, history>>

Phase   == {"none", "waiting", "handover", "processing", "pending", "cleanup",
            "leaving", "gone"}
Cancel  == [type |-> "Cancel"]
Command == [type : {"Takeover"}, conn : Conns, clean : BOOLEAN] \cup {Cancel}

TypeOK ==
    /\ server    \in {"loop", "cancel_all", "drain"}
    /\ phase     \in [Conns -> Phase]
    /\ stream    \in [Conns -> Conns \cup {None}]
    /\ clean     \in [Conns -> BOOLEAN]
    /\ client_id \in [Conns -> Clients \cup {None}]
    /\ will      \in [Conns -> Conns \cup {None}]
    /\ commands  \in [Conns -> Seq(Command)]
    /\ \A s \in Conns : Len(commands[s]) <= CommandCap
    /\ target    \in [Conns -> Conns \cup {None}]
    /\ named     \in [Clients -> Conns \cup {None}]
    /\ image     \in [Clients -> Conns \cup {None, NoImage}]
    /\ fate      \in [Conns -> {"unborn", "open", "lost", "bye"}]
    /\ published \subseteq Conns /\ handed \subseteq Conns

\* The broker has started; storage may hold sessions of an earlier run.
Init ==
    /\ server    = "loop"
    /\ phase     = [s \in Conns |-> "none"]
    /\ stream    = [s \in Conns |-> None]
    /\ clean     = [s \in Conns |-> TRUE]
    /\ client_id = [s \in Conns |-> None]
    /\ will      = [s \in Conns |-> None]
    /\ commands  = [s \in Conns |-> <<>>]
    /\ target    = [s \in Conns |-> None]
    /\ named     = [c \in Clients |-> None]
    /\ image     \in [Clients -> {None, NoImage}]
    /\ fate      = [s \in Conns |-> "unborn"]
    /\ published = {} /\ handed = {}

-----------------------------------------------------------------------------
Polled(s) == server # "cancel_all" /\ phase[s] \notin {"none", "gone"}

In(s, ph) == Polled(s) /\ phase[s] = ph

GoTo(s, ph) == phase' = [phase EXCEPT ![s] = ph]

\* The connections C end without a DISCONNECT from their client.
Lose(C) == fate' = [c \in Conns |-> IF c \in C /\ fate[c] = "open" THEN "lost" ELSE fate[c]]

\* do_processing or do_pending goes on to do_pending, which saves.
Park(s, w) ==
    /\ GoTo(s, "pending")
    /\ stream' = [stream EXCEPT ![s] = None]
    /\ image'  = [image EXCEPT ![client_id[s]] = w]

\* The session goes to Cleanup and lets go of its stream.
End(s) ==
    /\ GoTo(s, "cleanup")
    /\ stream' = [stream EXCEPT ![s] = None]
    /\ UNCHANGED image

Accept(s) ==
    /\ server = "loop" /\ phase[s] = "none"
    /\ GoTo(s, "waiting")
    /\ stream' = [stream EXCEPT ![s] = s]
    /\ fate'   = [fate EXCEPT ![s] = "open"]
    /\ UNCHANGED <<server, clean, client_id, will, commands, target, named, image, published, handed>>

\* do_waiting: an error, another packet than CONNECT, a CONNECT that fails
\* the checks of on_connect.
Refuse(s) ==
    /\ In(s, "waiting")
    /\ End(s) /\ Lose({s})
    /\ UNCHANGED <<server, clean, client_id, will, commands, target, named, published, handed>>

\* The will of a CONNECT.
WillOf(s) == IF s \in Wills THEN s ELSE None

\* on_connect takes over the parameters of the connection.
Adopt(s, cl, w) ==
    /\ clean' = [clean EXCEPT ![s] = cl]
    /\ will'  = [will EXCEPT ![s] = w]

\* The CONNACK is written, or the write fails and the session ends.
Answer(s) ==
    \/ /\ GoTo(s, "processing") /\ UNCHANGED <<stream, fate>>
    \/ /\ GoTo(s, "cleanup") /\ stream' = [stream EXCEPT ![s] = None] /\ Lose({s})

ConnectAnonymous(s) ==
    /\ In(s, "waiting") /\ ClientOf[s] = Anonymous
    /\ Adopt(s, TRUE, WillOf(s))
    /\ Answer(s)
    /\ UNCHANGED <<server, client_id, commands, target, named, image, published, handed>>

\* Mutant: the session does not keep its client id.
ConnectNewNoId(s, cl) ==
    /\ In(s, "waiting") /\ ClientOf[s] # Anonymous
    /\ LET c == ClientOf[s] IN
        /\ named[c] = None
        /\ named' = [named EXCEPT ![c] = s]
        /\ Adopt(s, cl, IF cl \/ image[c] = NoImage THEN WillOf(s) ELSE image[c])
        /\ image' = [image EXCEPT ![c] = NoImage]
    /\ Answer(s)
    /\ UNCHANGED <<server, client_id, commands, target, published, handed>>

\* Mutant: a pending session is not looked for.
ConnectNewIgnoresPending(s, cl) ==
    /\ In(s, "waiting") /\ ClientOf[s] # Anonymous
    /\ LET c == ClientOf[s] IN
        /\ named[c] \in {None} \cup {t \in Conns : phase[t] = "pending"}
        /\ named'     = [named EXCEPT ![c] = s]
        /\ client_id' = [client_id EXCEPT ![s] = c]
        /\ Adopt(s, cl, IF cl \/ image[c] = NoImage THEN WillOf(s) ELSE image[c])
        /\ image'     = [image EXCEPT ![c] = NoImage]
    /\ Answer(s)
    /\ UNCHANGED <<server, commands, target, published, handed>>

\* Nobody has the client id: the session registers, a clean one deletes the
\* image, any other restores it with the will it holds, and deletes it then.
ConnectNew(s, cl) ==
    /\ In(s, "waiting") /\ ClientOf[s] # Anonymous
    /\ LET c == ClientOf[s] IN
        /\ named[c] = None
        /\ named'     = [named EXCEPT ![c] = s]
        /\ client_id' = [client_id EXCEPT ![s] = c]
        /\ Adopt(s, cl, IF cl \/ image[c] = NoImage THEN WillOf(s) ELSE image[c])
        /\ image'     = [image EXCEPT ![c] = NoImage]
    /\ Answer(s)
    /\ UNCHANGED <<server, commands, target, published, handed>>

\* Mutant: the command channel is not bounded.
HandOverUnbounded(s, t, cl) ==
    /\ commands' = [commands EXCEPT ![t] = Append(@, [type |-> "Takeover", conn |-> s, clean |-> cl])]
    /\ End(s) /\ target' = [target EXCEPT ![s] = t]
    /\ handed' = handed \cup {s} /\ UNCHANGED fate

\* The client id is taken: the stream goes to the session that has it, and
\* this session, with the client id and the will it has just stored, ends.
HandOver(s, t, cl) ==
    /\ target' = [target EXCEPT ![s] = t]
    /\ \/ /\ Len(commands[t]) < CommandCap
          /\ commands' = [commands EXCEPT ![t] = Append(@, [type |-> "Takeover", conn |-> s, clean |-> cl])]
          /\ End(s) /\ handed' = handed \cup {s} /\ UNCHANGED fate
       \/ /\ Len(commands[t]) = CommandCap
          /\ GoTo(s, "handover")
          /\ UNCHANGED <<commands, stream, image, fate, handed>>

ConnectTaken(s, cl) ==
    /\ In(s, "waiting") /\ ClientOf[s] # Anonymous
    /\ LET c == ClientOf[s] IN
        /\ named[c] # None
        /\ client_id' = [client_id EXCEPT ![s] = c]
        /\ HandOver(s, named[c], cl)
    /\ Adopt(s, cl, WillOf(s))
    /\ UNCHANGED <<server, named, published>>

\* The full channel has room again, or its session has gone.
HandOverLater(s) ==
    /\ In(s, "handover")
    /\ IF phase[target[s]] = "gone"
       THEN End(s) /\ Lose({s}) /\ UNCHANGED <<commands, target, handed>>
       ELSE Len(commands[target[s]]) < CommandCap /\ HandOver(s, target[s], clean[s])
    /\ UNCHANGED <<server, clean, client_id, will, named, published>>

-----------------------------------------------------------------------------
(***************************************************************************)
(* do_processing and do_pending.                                           *)
(***************************************************************************)
AfterLoss(s, w) == IF clean[s] THEN End(s) ELSE Park(s, w)

\* Mutant: the will that is saved with the session is not the cleared one.
DisconnectSavesWill(s) ==
    /\ In(s, "processing")
    /\ will' = [will EXCEPT ![s] = None]
    /\ fate' = [fate EXCEPT ![stream[s]] = "bye"]
    /\ AfterLoss(s, will[s])
    /\ UNCHANGED <<server, clean, client_id, commands, target, named, published, handed>>

\* on_disconnect clears the will.
Disconnect(s) ==
    /\ In(s, "processing")
    /\ will' = [will EXCEPT ![s] = None]
    /\ fate' = [fate EXCEPT ![stream[s]] = "bye"]
    /\ AfterLoss(s, None)
    /\ UNCHANGED <<server, clean, client_id, commands, target, named, published, handed>>

\* An error on the connection, a protocol error or the keep-alive.
LoseConnection(s) ==
    /\ In(s, "processing")
    /\ Lose({stream[s]})
    /\ AfterLoss(s, will[s])
    /\ UNCHANGED <<server, clean, client_id, will, commands, target, named, published, handed>>

NextCommand(s, type) ==
    /\ In(s, "waiting") \/ In(s, "processing") \/ In(s, "pending")
    /\ commands[s] # <<>> /\ Head(commands[s]).type = type
    /\ commands' = [commands EXCEPT ![s] = Tail(@)]

\* on_takeover: the old connection is closed, the new one is answered and
\* served; the will stays as it was.
Takeover(s) ==
    /\ NextCommand(s, "Takeover")
    /\ LET new == Head(commands[s]) IN
        /\ Lose({stream[s]})
        /\ stream' = [stream EXCEPT ![s] = new.conn]
        /\ clean'  = [clean EXCEPT ![s] = new.clean]
        /\ image'  = IF new.clean THEN [image EXCEPT ![client_id[s]] = NoImage] ELSE image
    /\ GoTo(s, "processing")
    /\ UNCHANGED <<server, client_id, will, target, named, published, handed>>

\* The CONNACK cannot be written: both connections are lost.
TakeoverFails(s) ==
    /\ NextCommand(s, "Takeover")
    /\ Lose({stream[s], Head(commands[s]).conn})
    /\ IF phase[s] = "processing" /\ Head(commands[s]).clean
       THEN End(s) ELSE Park(s, will[s])
    /\ UNCHANGED <<server, clean, client_id, will, target, named, published, handed>>

Cancelled(s) ==
    /\ NextCommand(s, "Cancel")
    /\ Lose({stream[s]}) /\ End(s)
    /\ UNCHANGED <<server, clean, client_id, will, target, named, published, handed>>

-----------------------------------------------------------------------------
(***************************************************************************)
(* The end of a session.                                                   *)
(***************************************************************************)
PublishWill(s) ==
    /\ In(s, "cleanup")
    /\ published' = IF will[s] = None THEN published ELSE published \cup {will[s]}
    /\ will' = [will EXCEPT ![s] = None]
    /\ GoTo(s, "leaving")
    /\ UNCHANGED <<server, stream, clean, client_id, commands, target, named, image, fate, handed>>

\* Mutant: the entry of the client id stays.
DropNameNever(s) == UNCHANGED named

\* remove_session drops the entry of the client id, whoever has made it.
\* With the runtime goes the command channel and the streams in it.
DropName(s) ==
    named' = IF client_id[s] = None THEN named ELSE [named EXCEPT ![client_id[s]] = None]

\* Mutant: the streams in the command channel are not closed.
RemoveLeaksStreams(s) ==
    /\ In(s, "leaving")
    /\ GoTo(s, "gone")
    /\ DropName(s)
    /\ commands' = [commands EXCEPT ![s] = <<>>]
    /\ UNCHANGED <<server, conn, target, image, history>>

Remove(s) ==
    /\ In(s, "leaving")
    /\ GoTo(s, "gone")
    /\ DropName(s)
    /\ Lose({commands[s][i].conn : i \in {j \in DOMAIN commands[s] : commands[s][j] # Cancel}})
    /\ commands' = [commands EXCEPT ![s] = <<>>]
    /\ UNCHANGED <<server, conn, target, image, published, handed>>

-----------------------------------------------------------------------------
(***************************************************************************)
(* Shutdown.  cancel_all_sessions waits for room in every command channel, *)
(* and while it does no session is polled.                                 *)
(***************************************************************************)
StopListening ==
    /\ server = "loop" /\ server' = "cancel_all"
    /\ UNCHANGED <<phase, conn, commands, target, named, image, history>>

CancelAll ==
    /\ server = "cancel_all" /\ server' = "drain"
    /\ LET live == {s \in Conns : phase[s] \notin {"none", "gone"}} IN
        /\ \A s \in live : Len(commands[s]) < CommandCap
        /\ commands' = [s \in Conns |-> IF s \in live THEN Append(commands[s], Cancel)
                                                      ELSE commands[s]]
    /\ named' = [c \in Clients |-> None]
    /\ UNCHANGED <<phase, conn, target, image, history>>

Progress(s) == HandOverLater(s) \/ Takeover(s) \/ Cancelled(s) \/ PublishWill(s) \/ Remove(s)

Environment(s) ==
    \/ Accept(s) \/ Refuse(s) \/ Disconnect(s) \/ LoseConnection(s) \/ TakeoverFails(s)
    \/ ConnectAnonymous(s)
    \/ \E cl \in BOOLEAN : ConnectNew(s, cl) \/ ConnectTaken(s, cl)

Next == StopListening \/ CancelAll \/ \E s \in Conns : Progress(s) \/ Environment(s)

Spec == Init /\ [][Next]_vars

\* A polled future takes the steps it can take on its own.  A command waiting
\* in its channel competes with packets in the select!, which picks among the
\* ready arms at random: strong fairness.
Fairness ==
    /\ \A s \in Conns :
        /\ WF_vars(PublishWill(s) \/ Remove(s))
        /\ SF_vars(Takeover(s) \/ Cancelled(s) \/ HandOverLater(s))
    /\ WF_vars(CancelAll)

FairSpec == Spec /\ Fairness

-----------------------------------------------------------------------------
\* A takeover never goes astray: the name map points only to sessions that
\* still have their command channel and that carry the client id themselves.
NamedIsLive ==
    \A c \in Clients : named[c] # None =>
        /\ phase[named[c]] \notin {"none", "waiting", "gone"}
        /\ client_id[named[c]] = c

\* A session never serves a connection of another client: not by a takeover,
\* not by one still in its channel.
OwnClientOnly ==
    \A s \in Conns :
        /\ stream[s] # None /\ phase[s] = "processing" =>
            ClientOf[stream[s]] = IF client_id[s] = None THEN Anonymous ELSE client_id[s]
        /\ \A i \in DOMAIN commands[s] :
            commands[s][i] # Cancel => ClientOf[commands[s][i].conn] = client_id[s]

\* A connection handed over for a takeover is answered or closed, unless the
\* server is stuck in cancel_all_sessions.
TakeoverAnswered ==
    \A c \in Conns :
        (fate[c] = "open" /\ phase[c] \in {"handover", "cleanup"})
        ~> (fate[c] # "open" \/ server = "cancel_all"
            \/ \E s \in Conns : stream[s] = c /\ phase[s] = "processing")

\* While the server runs, a client id has one session at a time, unless one
\* that found the id taken has ended since, whether it handed its stream over
\* or found its target gone: remove_session then drops the entry that the
\* session serving the client depends on.
OneSessionPerClient ==
    \A s, t \in Conns :
        /\ server = "loop" /\ s # t
        /\ {phase[s], phase[t]} \subseteq {"processing", "pending"}
        /\ client_id[s] # None /\ client_id[s] = client_id[t]
        => \E h \in Conns : target[h] # None /\ phase[h] = "gone" /\ ClientOf[h] = client_id[s]

\* A will is published only for a connection that has ended without a
\* DISCONNECT, whichever session or image it has passed through since, unless
\* the connection was handed over: the session that hands it over has stored
\* the will already and publishes it when it ends.
WillIsDue == \A c \in published : fate[c] = "lost" \/ c \in handed
==============================================================================

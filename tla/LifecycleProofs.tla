-------------------------- MODULE LifecycleProofs --------------------------
(***************************************************************************)
(* The invariants of Lifecycle, for any number of connections and clients  *)
(* and any capacity of the command channels.                               *)
(***************************************************************************)
EXTENDS Lifecycle, SequenceTheorems, TLAPS

Live(s) == phase[s] \notin {"none", "waiting", "gone"}

\* What a session has in each of its phases.  An anonymous session is always
\* clean: it is never parked, and no takeover reaches it.
Owns(s) ==
    /\ client_id[s] # None => client_id[s] = ClientOf[s]
    /\ client_id[s] = None => clean[s]
    /\ phase[s] \in {"none", "waiting"} =>
        client_id[s] = None /\ will[s] = None /\ target[s] = None
    /\ phase[s] \in {"waiting", "handover"} => stream[s] = s
    /\ phase[s] \in {"handover", "pending"} => client_id[s] # None
    /\ phase[s] \in {"processing", "pending"} => target[s] = None
    /\ phase[s] = "processing" =>
        /\ stream[s] # None
        /\ ClientOf[stream[s]] = IF client_id[s] = None THEN Anonymous ELSE client_id[s]

\* A takeover goes to a session of its client that has connected itself.
Aims(s) ==
    /\ phase[s] = "handover" => target[s] # None
    /\ target[s] # None =>
        client_id[target[s]] = ClientOf[s] /\ phase[target[s]] \notin {"none", "waiting"}

\* The streams in a channel were handed over, by connections of this client.
Queued(s, x) == x # Cancel => ClientOf[x.conn] = client_id[s] /\ x.conn \in handed

Queues(s) == \A i \in DOMAIN commands[s] : Queued(s, commands[s][i])

\* Until a session that found its client id taken has ended, the name map has
\* every other session of the client.
Dropped(c) == \E h \in Conns : target[h] # None /\ phase[h] = "gone" /\ ClientOf[h] = c

Registered(s) ==
    server = "loop" /\ Live(s) /\ client_id[s] # None /\ target[s] = None =>
        named[client_id[s]] = s \/ Dropped(client_id[s])

\* The session of a connection serves it until the stream is handed over, and
\* the connection is open meanwhile; nobody else has a stream that was not
\* handed over.
Serves(s) == phase[s] \in {"waiting", "handover", "processing"} /\ stream[s] = s

Served(s) ==
    /\ phase[s] = "none" => fate[s] = "unborn" /\ s \notin handed
    /\ stream[s] \notin {None, s} => stream[s] \in handed
    /\ Serves(s) /\ s \notin handed => fate[s] = "open"

\* A will that may be published; any will that a session or an image holds is
\* one, but for the will of the connection the session still serves.
Due(c) == fate[c] = "lost" \/ c \in handed

Holds(s) == will[s] # None => Due(will[s]) \/ (will[s] = s /\ Serves(s))

ImagesDue == \A c \in Clients : image[c] \notin {None, NoImage} => Due(image[c])

Sessions ==
    \A s \in Conns : Owns(s) /\ Aims(s) /\ Queues(s) /\ Registered(s) /\ Served(s) /\ Holds(s)

Inv == TypeOK /\ Sessions /\ NamedIsLive /\ ImagesDue /\ WillIsDue

-----------------------------------------------------------------------------
(***************************************************************************)
(* Commands and channels.                                                  *)
(***************************************************************************)
LEMMA CommandFacts ==
    /\ Cancel \in Command
    /\ \A x \in Command : x # Cancel => x.type = "Takeover" /\ x.conn \in Conns /\ x.clean \in BOOLEAN
    /\ \A c \in Conns : \A cl \in BOOLEAN :
        LET new == [type |-> "Takeover", conn |-> c, clean |-> cl]
        IN  new \in Command /\ new # Cancel /\ new.conn = c
BY DEF Command, Cancel

\* Every entry of the channel r was in the channel q.
Inherits(q, r) == \A i \in DOMAIN r : \E j \in DOMAIN q : r[i] = q[j]

LEMMA TailFacts ==
    ASSUME NEW q \in Seq(Command), q # <<>>
    PROVE  /\ Tail(q) \in Seq(Command) /\ Len(Tail(q)) <= Len(q) /\ Inherits(q, Tail(q))
           /\ Head(q) = q[1] /\ 1 \in DOMAIN q /\ Head(q) \in Command
<1>1. Len(q) \in Nat \ {0} /\ DOMAIN q = 1..Len(q)
  BY EmptySeq
<1>2. Tail(q) \in Seq(Command) /\ Len(Tail(q)) = Len(q) - 1
      /\ \A i \in 1..Len(Tail(q)) : Tail(q)[i] = q[i + 1]
  BY HeadTailProperties
<1>3. ASSUME NEW i \in DOMAIN Tail(q) PROVE \E j \in DOMAIN q : Tail(q)[i] = q[j]
  <2>1. i \in 1..Len(Tail(q)) /\ i + 1 \in 1..Len(q)
    BY <1>1, <1>2
  <2> QED BY <1>1, <1>2, <2>1
<1> QED BY <1>1, <1>2, <1>3, HeadTailProperties DEF Inherits

\* The channels once the first command of one of them is taken.
LEMMA PopFacts ==
    ASSUME TypeOK, NEW s \in Conns, commands[s] # <<>>,
           commands' = [commands EXCEPT ![s] = Tail(@)]
    PROVE  /\ commands' \in [Conns -> Seq(Command)]
           /\ \A t \in Conns : Len(commands'[t]) <= CommandCap /\ Inherits(commands[t], commands'[t])
<1>1. commands[s] \in Seq(Command) /\ Len(commands[s]) <= CommandCap
  BY DEF TypeOK
<1>2. Tail(commands[s]) \in Seq(Command) /\ Len(Tail(commands[s])) <= CommandCap
      /\ Inherits(commands[s], Tail(commands[s]))
  BY <1>1, TailFacts, LifecycleAssumption
<1>3. commands'[s] = Tail(commands[s]) /\ \A t \in Conns \ {s} : commands'[t] = commands[t]
  BY DEF TypeOK
<1>4. commands' \in [Conns -> Seq(Command)]
  BY <1>2 DEF TypeOK
<1>5. \A t \in Conns \ {s} : Len(commands'[t]) <= CommandCap /\ Inherits(commands[t], commands'[t])
  BY <1>3 DEF TypeOK, Inherits
<1> QED BY <1>2, <1>3, <1>4, <1>5

\* Every entry of the channel r was in the channel q or is x.
Extends(q, x, r) == \A i \in DOMAIN r : r[i] = x \/ \E j \in DOMAIN q : r[i] = q[j]

LEMMA AppendFacts ==
    ASSUME NEW q \in Seq(Command), NEW x \in Command
    PROVE  /\ Append(q, x) \in Seq(Command) /\ Len(Append(q, x)) = Len(q) + 1
           /\ Extends(q, x, Append(q, x))
BY AppendProperties DEF Extends

-----------------------------------------------------------------------------
LEMMA InitInv == Init => Inv
<1> SUFFICES ASSUME Init PROVE Inv
  OBVIOUS
<1>1. TypeOK
  BY LifecycleAssumption DEF Init, TypeOK, Phase
<1>2. Sessions
  BY LifecycleAssumption DEF Init, Sessions, Owns, Aims, Queues, Registered, Live, Served, Serves, Holds
<1>3. NamedIsLive /\ ImagesDue /\ WillIsDue
  BY LifecycleAssumption DEF Init, NamedIsLive, ImagesDue, WillIsDue
<1> QED BY <1>1, <1>2, <1>3 DEF Inv

\* The fates after the connections C are lost.
LEMMA LoseFacts ==
    ASSUME TypeOK, NEW C, Lose(C)
    PROVE  /\ fate' \in [Conns -> {"unborn", "open", "lost", "bye"}]
           /\ \A c \in Conns : c \notin C => fate'[c] = fate[c]
           /\ \A c \in Conns : c \in C /\ fate[c] = "open" => fate'[c] = "lost"
           /\ \A c \in Conns : fate[c] = "lost" => fate'[c] = "lost"
BY DEF TypeOK, Lose

\* The session lets go of its stream, which is closed with others of its
\* channel, and ends or is parked with its will.
Closes(s, C) ==
    /\ phase[s] \in {"waiting", "handover", "processing", "pending"}
    /\ stream[s] \in C /\ C \subseteq {stream[s]} \cup handed
    /\ Lose(C)
    /\ \/ End(s)
       \/ client_id[s] # None /\ target[s] = None /\ Park(s, will[s])
    /\ commands' = commands \/ (commands[s] # <<>> /\ commands' = [commands EXCEPT ![s] = Tail(@)])
    /\ UNCHANGED <<server, clean, client_id, will, target, named, published, handed>>

LEMMA ClosesKeeps ==
    ASSUME Inv, NEW s \in Conns, NEW C, Closes(s, C)
    PROVE  Inv'
<1> USE LifecycleAssumption
<1>0. TypeOK /\ Sessions
  BY DEF Inv
<1>1. PICK ph \in {"cleanup", "pending"} :
        /\ GoTo(s, ph) /\ stream' = [stream EXCEPT ![s] = None]
        /\ ph = "pending" => client_id[s] # None /\ target[s] = None
  BY DEF Closes, End, Park
<1>2. /\ phase' \in [Conns -> Phase] /\ stream' \in [Conns -> Conns \cup {None}]
      /\ phase'[s] = ph /\ stream'[s] = None
      /\ \A t \in Conns \ {s} : phase'[t] = phase[t] /\ stream'[t] = stream[t]
  BY <1>0, <1>1 DEF GoTo, TypeOK, Phase
<1>3. /\ image' \in [Clients -> Conns \cup {None, NoImage}]
      /\ \A c \in Clients : image'[c] = image[c] \/ image'[c] = will[s]
  <2>1. CASE UNCHANGED image
    BY <1>0, <2>1 DEF TypeOK
  <2>2. CASE client_id[s] # None /\ image' = [image EXCEPT ![client_id[s]] = will[s]]
    BY <1>0, <2>2 DEF TypeOK
  <2> QED BY <2>1, <2>2 DEF Closes, End, Park
<1>4. /\ commands' \in [Conns -> Seq(Command)]
      /\ \A t \in Conns : Len(commands'[t]) <= CommandCap /\ Inherits(commands[t], commands'[t])
  <2>1. CASE commands' = commands
    BY <1>0, <2>1 DEF TypeOK, Inherits
  <2>2. CASE commands[s] # <<>> /\ commands' = [commands EXCEPT ![s] = Tail(@)]
    BY <1>0, <2>2, PopFacts
  <2> QED BY <2>1, <2>2 DEF Closes
<1>5. /\ UNCHANGED <<server, clean, client_id, will, target, named, published, handed>>
      /\ phase[s] \in {"waiting", "handover", "processing", "pending"}
      /\ stream[s] \in C /\ C \subseteq {stream[s]} \cup handed
  BY DEF Closes
<1>6. /\ fate' \in [Conns -> {"unborn", "open", "lost", "bye"}]
      /\ \A c \in Conns : c \notin C => fate'[c] = fate[c]
      /\ \A c \in Conns : c \in C /\ fate[c] = "open" => fate'[c] = "lost"
      /\ \A c \in Conns : fate[c] = "lost" => fate'[c] = "lost"
  BY <1>0, LoseFacts DEF Closes
<1>7. TypeOK'
  BY <1>0, <1>2, <1>3, <1>4, <1>5, <1>6 DEF TypeOK
<1>8. \A c \in Conns : Due(c) => Due(c)'
  BY <1>5, <1>6 DEF Due
\* The will of the session is due now.
<1>9. will[s] # None => Due(will[s])'
  BY <1>0, <1>5, <1>6, <1>8 DEF TypeOK, Sessions, Holds, Served, Due, Serves
<1>10. ASSUME NEW t \in Conns PROVE Owns(t)'
  BY <1>0, <1>2, <1>5, <1>1 DEF Sessions, Owns
<1>11. ASSUME NEW t \in Conns PROVE Aims(t)'
  BY <1>0, <1>1, <1>2, <1>5 DEF TypeOK, Sessions, Aims
<1>12. ASSUME NEW t \in Conns PROVE Queues(t)'
  BY <1>0, <1>4, <1>5 DEF Sessions, Queues, Queued, Inherits
<1>13. ASSUME NEW t \in Conns PROVE Registered(t)'
  <2>1. \A c : Dropped(c) => Dropped(c)'
    BY <1>2, <1>5 DEF Dropped
  <2>2. t # s => Registered(t)'
    BY <1>0, <1>2, <1>5, <2>1 DEF Sessions, Registered, Live
  <2>3. client_id[s] # None => phase[s] # "waiting"
    BY <1>0 DEF Sessions, Owns
  <2>4. Registered(s)'
    BY <1>0, <1>2, <1>5, <2>1, <2>3 DEF Sessions, Registered, Live
  <2> QED BY <2>2, <2>4
<1>14. ASSUME NEW t \in Conns PROVE Served(t)' /\ Holds(t)'
  <2>1. CASE t = s
    BY <1>1, <1>2, <1>5, <1>9, <2>1 DEF Served, Serves, Holds
  <2>2. CASE t # s
    <3>1. Serves(t)' <=> Serves(t)
      BY <1>2, <2>2 DEF Serves
    <3>2. t \notin handed => t \notin C
      BY <1>0, <1>5, <2>2 DEF Sessions, Served
    <3>3. Served(t)'
      BY <1>0, <1>2, <1>5, <1>6, <2>2, <3>1, <3>2 DEF Sessions, Served
    <3>4. Holds(t)'
      BY <1>0, <1>5, <1>8, <2>2, <3>1 DEF TypeOK, Sessions, Holds
    <3> QED BY <3>3, <3>4
  <2> QED BY <2>1, <2>2
<1>15. NamedIsLive'
  BY <1>0, <1>1, <1>2, <1>5 DEF Inv, TypeOK, NamedIsLive
<1>16. ImagesDue' /\ WillIsDue'
  <2>1. ImagesDue'
    <3> SUFFICES ASSUME NEW c \in Clients, image'[c] \notin {None, NoImage} PROVE Due(image[c])'
      BY DEF ImagesDue
    <3>1. CASE image'[c] = image[c]
      BY <1>0, <1>8, <3>1 DEF Inv, TypeOK, ImagesDue, Due
    <3>2. CASE image'[c] = will[s]
      BY <1>5, <1>9, <3>2 DEF Due
    <3> QED BY <1>3, <3>1, <3>2
  <2>2. WillIsDue'
    BY <1>0, <1>5, <1>8 DEF Inv, TypeOK, WillIsDue, Due
  <2> QED BY <2>1, <2>2
<1> QED BY <1>7, <1>10, <1>11, <1>12, <1>13, <1>14, <1>15, <1>16 DEF Inv, Sessions

LEMMA RefuseKeeps ==
    ASSUME Inv, NEW s \in Conns, Refuse(s)
    PROVE  Inv'
<1>1. Closes(s, {s})
  BY DEF Inv, Sessions, Owns, Refuse, In, Closes
<1> QED BY <1>1, ClosesKeeps

LEMMA LoseConnectionKeeps ==
    ASSUME Inv, NEW s \in Conns, LoseConnection(s)
    PROVE  Inv'
<1>1. Closes(s, {stream[s]})
  BY DEF Inv, Sessions, Owns, LoseConnection, AfterLoss, In, Closes
<1> QED BY <1>1, ClosesKeeps

\* The command a session takes from its channel.
LEMMA TakeoverFacts ==
    ASSUME Inv, NEW s \in Conns, NextCommand(s, "Takeover")
    PROVE  LET new == Head(commands[s]) IN
           /\ commands[s] # <<>> /\ commands' = [commands EXCEPT ![s] = Tail(@)]
           /\ phase[s] \in {"processing", "pending"}
           /\ new.conn \in Conns /\ new.clean \in BOOLEAN
           /\ new.conn \in handed /\ ClientOf[new.conn] = client_id[s] /\ client_id[s] \in Clients
<1> DEFINE new == Head(commands[s])
<1>1. commands[s] \in Seq(Command) /\ commands[s] # <<>> /\ new.type = "Takeover"
      /\ commands' = [commands EXCEPT ![s] = Tail(@)]
      /\ phase[s] \in {"waiting", "processing", "pending"}
  BY DEF Inv, TypeOK, NextCommand, In
<1>2. new \in Command /\ new = commands[s][1] /\ 1 \in DOMAIN commands[s]
  BY <1>1, TailFacts
<1>3. new # Cancel /\ new.conn \in Conns /\ new.clean \in BOOLEAN
  BY <1>1, <1>2 DEF Command, Cancel
<1>4. new.conn \in handed /\ ClientOf[new.conn] = client_id[s]
  BY <1>2, <1>3 DEF Inv, Sessions, Queues, Queued
<1>5. client_id[s] \in Clients /\ phase[s] # "waiting"
  BY <1>3, <1>4, LifecycleAssumption DEF Inv, TypeOK, Sessions, Owns
<1> QED BY <1>1, <1>3, <1>4, <1>5

LEMMA TakeoverFailsKeeps ==
    ASSUME Inv, NEW s \in Conns, TakeoverFails(s)
    PROVE  Inv'
<1>1. NextCommand(s, "Takeover")
  BY DEF TakeoverFails
<1>2. client_id[s] # None /\ target[s] = None
  BY <1>1, TakeoverFacts, LifecycleAssumption DEF Inv, Sessions, Owns
<1>3. Closes(s, {stream[s], Head(commands[s]).conn})
  BY <1>1, <1>2, TakeoverFacts DEF TakeoverFails, Closes
<1> QED BY <1>3, ClosesKeeps

LEMMA CancelledKeeps ==
    ASSUME Inv, NEW s \in Conns, Cancelled(s)
    PROVE  Inv'
<1>1. Closes(s, {stream[s]})
  BY DEF Cancelled, NextCommand, In, Closes
<1> QED BY <1>1, ClosesKeeps

\* on_disconnect: the stream is gone and no will is left.
LEMMA DisconnectKeeps ==
    ASSUME Inv, NEW s \in Conns, Disconnect(s)
    PROVE  Inv'
<1> USE LifecycleAssumption
<1>0. TypeOK /\ Sessions
  BY DEF Inv
<1>1. phase[s] = "processing" /\ target[s] = None /\ stream[s] \in Conns
      /\ (client_id[s] = None => clean[s])
  BY <1>0 DEF Disconnect, In, TypeOK, Sessions, Owns
<1>2. PICK ph \in {"cleanup", "pending"} :
        /\ GoTo(s, ph) /\ stream' = [stream EXCEPT ![s] = None]
        /\ ph = "pending" => client_id[s] # None
  BY <1>1 DEF Disconnect, AfterLoss, End, Park
<1>3. /\ phase' \in [Conns -> Phase] /\ stream' \in [Conns -> Conns \cup {None}]
      /\ phase'[s] = ph /\ stream'[s] = None
      /\ \A t \in Conns \ {s} : phase'[t] = phase[t] /\ stream'[t] = stream[t]
  BY <1>0, <1>2 DEF GoTo, TypeOK, Phase
<1>4. /\ image' \in [Clients -> Conns \cup {None, NoImage}]
      /\ \A c \in Clients : image'[c] = image[c] \/ image'[c] = None
  <2>1. CASE UNCHANGED image
    BY <1>0, <2>1 DEF TypeOK
  <2>2. CASE client_id[s] # None /\ image' = [image EXCEPT ![client_id[s]] = None]
    BY <1>0, <2>2 DEF TypeOK
  <2> QED BY <1>1, <2>1, <2>2 DEF Disconnect, AfterLoss, End, Park
<1>5. /\ will' \in [Conns -> Conns \cup {None}]
      /\ will'[s] = None /\ \A t \in Conns \ {s} : will'[t] = will[t]
      /\ fate' \in [Conns -> {"unborn", "open", "lost", "bye"}]
      /\ \A c \in Conns : c # stream[s] => fate'[c] = fate[c]
  BY <1>0, <1>1 DEF Disconnect, TypeOK
<1>6. UNCHANGED <<server, clean, client_id, commands, target, named, published, handed>>
  BY DEF Disconnect
<1>7. TypeOK'
  BY <1>0, <1>3, <1>4, <1>5, <1>6 DEF TypeOK
\* The connection was open, or it had been handed over.
<1>8. ASSUME NEW c \in Conns, Due(c) PROVE Due(c)'
  <2>1. c = stream[s] => c \in handed
    BY <1>0, <1>1, <1>8 DEF Sessions, Served, Serves, Due
  <2> QED BY <1>5, <1>6, <1>8, <2>1 DEF Due
<1>9. ASSUME NEW t \in Conns PROVE Owns(t)' /\ Aims(t)'
  BY <1>0, <1>1, <1>2, <1>3, <1>5, <1>6 DEF TypeOK, Sessions, Owns, Aims
<1>10. ASSUME NEW t \in Conns PROVE Queues(t)'
  BY <1>0, <1>6 DEF Sessions, Queues, Queued
<1>11. ASSUME NEW t \in Conns PROVE Registered(t)'
  <2>1. \A c : Dropped(c) => Dropped(c)'
    BY <1>1, <1>3, <1>6 DEF Dropped
  <2> QED BY <1>0, <1>1, <1>3, <1>6, <2>1 DEF Sessions, Registered, Live
<1>12. ASSUME NEW t \in Conns PROVE Served(t)' /\ Holds(t)'
  <2>1. CASE t = s
    BY <1>2, <1>3, <1>5, <2>1 DEF Served, Serves, Holds
  <2>2. CASE t # s
    <3>1. Serves(t)' <=> Serves(t)
      BY <1>3, <2>2 DEF Serves
    <3>2. t \notin handed => t # stream[s]
      BY <1>0, <1>1, <2>2 DEF Sessions, Served
    <3>3. Served(t)'
      BY <1>0, <1>3, <1>5, <1>6, <2>2, <3>1, <3>2 DEF Sessions, Served
    <3>4. Holds(t)'
      BY <1>0, <1>5, <1>8, <2>2, <3>1 DEF TypeOK, Sessions, Holds
    <3> QED BY <3>3, <3>4
  <2> QED BY <2>1, <2>2
<1>13. NamedIsLive'
  BY <1>0, <1>2, <1>3, <1>6 DEF Inv, TypeOK, NamedIsLive
<1>14. ImagesDue'
  BY <1>0, <1>4, <1>8 DEF Inv, TypeOK, ImagesDue
<1>15. WillIsDue'
  BY <1>0, <1>6, <1>8 DEF Inv, TypeOK, WillIsDue, Due
<1> QED BY <1>7, <1>9, <1>10, <1>11, <1>12, <1>13, <1>14, <1>15 DEF Inv, Sessions

-----------------------------------------------------------------------------
(***************************************************************************)
(* New connections.                                                        *)
(***************************************************************************)
\* No takeover waits for a session without a client id.
LEMMA NoTakeoverQueued ==
    ASSUME Inv, NEW s \in Conns, client_id[s] = None, NEW i \in DOMAIN commands[s]
    PROVE  commands[s][i] = Cancel
<1>1. commands[s][i] \in Command
  BY DEF Inv, TypeOK
<1> QED BY <1>1, CommandFacts, LifecycleAssumption DEF Inv, Sessions, Queues, Queued

LEMMA AcceptKeeps ==
    ASSUME Inv, NEW s \in Conns, Accept(s)
    PROVE  Inv'
<1> USE LifecycleAssumption
<1>0. TypeOK /\ Sessions /\ phase[s] = "none"
  BY DEF Inv, Accept
<1>1. /\ phase' \in [Conns -> Phase] /\ stream' \in [Conns -> Conns \cup {None}]
      /\ fate' \in [Conns -> {"unborn", "open", "lost", "bye"}]
      /\ phase'[s] = "waiting" /\ stream'[s] = s /\ fate'[s] = "open"
      /\ \A t \in Conns \ {s} : phase'[t] = phase[t] /\ stream'[t] = stream[t] /\ fate'[t] = fate[t]
  BY <1>0 DEF Accept, GoTo, TypeOK, Phase
<1>2. UNCHANGED <<server, clean, client_id, will, commands, target, named, image, published, handed>>
  BY DEF Accept
<1>3. TypeOK'
  BY <1>0, <1>1, <1>2 DEF TypeOK
<1>4. ASSUME NEW c \in Conns, Due(c) PROVE Due(c)'
  BY <1>0, <1>1, <1>2, <1>4 DEF Sessions, Served, Due
<1>5. ASSUME NEW t \in Conns PROVE Owns(t)' /\ Aims(t)'
  BY <1>0, <1>1, <1>2 DEF TypeOK, Sessions, Owns, Aims
<1>6. ASSUME NEW t \in Conns PROVE Queues(t)'
  BY <1>0, <1>2 DEF Sessions, Queues, Queued
<1>7. ASSUME NEW t \in Conns PROVE Registered(t)'
  <2>1. \A c : Dropped(c) => Dropped(c)'
    BY <1>0, <1>1, <1>2 DEF Dropped
  <2> QED BY <1>0, <1>1, <1>2, <2>1 DEF Sessions, Registered, Live
<1>8. ASSUME NEW t \in Conns PROVE Served(t)'
  BY <1>0, <1>1, <1>2 DEF Sessions, Served, Serves
<1>9. ASSUME NEW t \in Conns PROVE Holds(t)'
  BY <1>0, <1>1, <1>2, <1>4 DEF TypeOK, Sessions, Owns, Holds, Serves
<1>10. NamedIsLive'
  BY <1>0, <1>1, <1>2 DEF Inv, TypeOK, NamedIsLive
<1>11. ImagesDue' /\ WillIsDue'
  BY <1>0, <1>2, <1>4 DEF Inv, TypeOK, ImagesDue, WillIsDue, Due
<1> QED BY <1>3, <1>5, <1>6, <1>7, <1>8, <1>9, <1>10, <1>11 DEF Inv, Sessions

\* A waiting session takes over the parameters of its CONNECT, registers its
\* client id if it has one, and is answered or fails.
LEMMA ConnectKeeps ==
    ASSUME Inv, NEW s \in Conns, In(s, "waiting"), NEW cl \in BOOLEAN, NEW w \in Conns \cup {None},
           Adopt(s, cl, w), Answer(s), w = s \/ w = None \/ Due(w),
           UNCHANGED <<server, commands, target, published, handed>>,
           \/ ClientOf[s] = Anonymous /\ cl /\ UNCHANGED <<client_id, named, image>>
           \/ LET c == ClientOf[s] IN
              /\ c # Anonymous /\ named[c] = None
              /\ named' = [named EXCEPT ![c] = s]
              /\ client_id' = [client_id EXCEPT ![s] = c]
              /\ image' = [image EXCEPT ![c] = NoImage]
    PROVE  Inv'
<1> USE LifecycleAssumption
<1>0. TypeOK /\ Sessions /\ phase[s] = "waiting"
  BY DEF Inv, In
<1>1. /\ client_id[s] = None /\ target[s] = None /\ stream[s] = s /\ will[s] = None
      /\ s \notin handed => fate[s] = "open"
  BY <1>0 DEF Sessions, Owns, Served, Serves
<1>2. /\ clean' \in [Conns -> BOOLEAN] /\ will' \in [Conns -> Conns \cup {None}]
      /\ clean'[s] = cl /\ will'[s] = w
      /\ \A t \in Conns \ {s} : clean'[t] = clean[t] /\ will'[t] = will[t]
  BY <1>0 DEF TypeOK, Adopt
<1>3. /\ phase' \in [Conns -> Phase] /\ stream' \in [Conns -> Conns \cup {None}]
      /\ fate' \in [Conns -> {"unborn", "open", "lost", "bye"}]
      /\ \A t \in Conns \ {s} : phase'[t] = phase[t] /\ stream'[t] = stream[t] /\ fate'[t] = fate[t]
      /\ fate[s] = "lost" => fate'[s] = "lost"
      /\ \/ phase'[s] = "processing" /\ stream'[s] = s /\ fate'[s] = fate[s]
         \/ phase'[s] = "cleanup" /\ stream'[s] = None /\ (s \notin handed => fate'[s] = "lost")
  <2>1. CASE GoTo(s, "processing") /\ UNCHANGED <<stream, fate>>
    BY <1>0, <1>1, <2>1 DEF TypeOK, GoTo, Phase
  <2>2. CASE GoTo(s, "cleanup") /\ stream' = [stream EXCEPT ![s] = None] /\ Lose({s})
    <3>1. /\ phase' \in [Conns -> Phase] /\ stream' \in [Conns -> Conns \cup {None}]
          /\ \A t \in Conns \ {s} : phase'[t] = phase[t] /\ stream'[t] = stream[t]
          /\ phase'[s] = "cleanup" /\ stream'[s] = None
      BY <1>0, <2>2 DEF TypeOK, GoTo, Phase
    <3> QED BY <1>0, <1>1, <2>2, <3>1, LoseFacts
  <2> QED BY <2>1, <2>2 DEF Answer
<1>4. /\ client_id' \in [Conns -> Clients \cup {None}]
      /\ named' \in [Clients -> Conns \cup {None}]
      /\ image' \in [Clients -> Conns \cup {None, NoImage}]
      /\ \A t \in Conns \ {s} : client_id'[t] = client_id[t]
      /\ client_id'[s] = None => ClientOf[s] = Anonymous /\ cl
      /\ client_id'[s] # None => client_id'[s] = ClientOf[s] /\ named'[client_id'[s]] = s /\ named[client_id'[s]] = None
      /\ \A c \in Clients : named'[c] = named[c] \/ (named'[c] = s /\ client_id'[s] = c)
      /\ \A c \in Clients : image'[c] \in {image[c], NoImage}
  <2>1. CASE ClientOf[s] = Anonymous /\ cl /\ UNCHANGED <<client_id, named, image>>
    BY <1>0, <1>1, <2>1 DEF TypeOK
  <2>2. CASE LET c == ClientOf[s] IN
              /\ c # Anonymous /\ named[c] = None
              /\ named' = [named EXCEPT ![c] = s]
              /\ client_id' = [client_id EXCEPT ![s] = c]
              /\ image' = [image EXCEPT ![c] = NoImage]
    <3>1. ClientOf[s] \in Clients
      BY <2>2
    <3> QED BY <1>0, <1>1, <2>2, <3>1 DEF TypeOK
  <2> QED BY <2>1, <2>2
<1>5. TypeOK'
  BY <1>0, <1>2, <1>3, <1>4 DEF TypeOK
<1>6. ASSUME NEW c \in Conns, Due(c) PROVE Due(c)'
  BY <1>3, <1>6 DEF Due
<1>7. ASSUME NEW t \in Conns PROVE Owns(t)'
  BY <1>0, <1>1, <1>2, <1>3, <1>4 DEF TypeOK, Sessions, Owns
<1>8. ASSUME NEW t \in Conns PROVE Aims(t)'
  BY <1>0, <1>1, <1>2, <1>3, <1>4 DEF TypeOK, Sessions, Aims
<1>9. ASSUME NEW t \in Conns PROVE Queues(t)'
  <2>1. CASE t = s
    BY <1>0, <1>1, <1>4, <2>1, NoTakeoverQueued DEF Inv, Queues, Queued
  <2>2. CASE t # s
    BY <1>0, <1>4, <2>2 DEF Sessions, Queues, Queued
  <2> QED BY <2>1, <2>2
<1>10. ASSUME NEW t \in Conns PROVE Registered(t)'
  <2>1. \A c : Dropped(c) => Dropped(c)'
    BY <1>0, <1>3 DEF Dropped
  <2>2. CASE t = s
    BY <1>4, <2>2 DEF Registered
  <2>3. CASE t # s /\ client_id[t] # None
    <3>1. client_id'[t] = client_id[t] /\ client_id[t] \in Clients /\ phase'[t] = phase[t]
      BY <1>0, <1>3, <1>4, <2>3 DEF TypeOK
    <3>2. named[client_id[t]] = t => named'[client_id[t]] = t
      BY <1>4, <3>1
    <3> QED BY <1>0, <2>1, <3>1, <3>2 DEF Sessions, Registered, Live
  <2>4. CASE t # s /\ client_id[t] = None
    BY <1>4, <2>4 DEF Registered
  <2> QED BY <2>2, <2>3, <2>4
<1>11. ASSUME NEW t \in Conns PROVE Served(t)'
  BY <1>0, <1>1, <1>3 DEF Sessions, Served, Serves
<1>12. ASSUME NEW t \in Conns PROVE Holds(t)'
  <2>1. CASE t = s
    BY <1>2, <1>3, <1>6, <2>1 DEF Holds, Serves, Due
  <2>2. CASE t # s
    BY <1>0, <1>2, <1>3, <1>6, <2>2 DEF TypeOK, Sessions, Holds, Serves
  <2> QED BY <2>1, <2>2
<1>13. NamedIsLive'
  BY <1>0, <1>3, <1>4 DEF Inv, TypeOK, NamedIsLive
<1>14. ImagesDue'
  BY <1>0, <1>4, <1>6 DEF Inv, TypeOK, ImagesDue
<1>15. WillIsDue'
  BY <1>0, <1>6 DEF Inv, TypeOK, WillIsDue, Due
<1> QED BY <1>5, <1>7, <1>8, <1>9, <1>10, <1>11, <1>12, <1>13, <1>14, <1>15 DEF Inv, Sessions

LEMMA ConnectAnonymousKeeps ==
    ASSUME Inv, NEW s \in Conns, ConnectAnonymous(s)
    PROVE  Inv'
<1>1. WillOf(s) \in Conns \cup {None} /\ (WillOf(s) = s \/ WillOf(s) = None)
  BY DEF WillOf
<1> QED BY <1>1, ConnectKeeps DEF ConnectAnonymous

LEMMA ConnectNewKeeps ==
    ASSUME Inv, NEW s \in Conns, NEW cl \in BOOLEAN, ConnectNew(s, cl)
    PROVE  Inv'
<1> DEFINE c == ClientOf[s]
           w == IF cl \/ image[c] = NoImage THEN WillOf(s) ELSE image[c]
<1>1. WillOf(s) \in Conns \cup {None} /\ (WillOf(s) = s \/ WillOf(s) = None)
  BY DEF WillOf
<1>2. c \in Clients
  BY LifecycleAssumption DEF ConnectNew
<1>3. w \in Conns \cup {None} /\ (w = s \/ w = None \/ Due(w))
  BY <1>1, <1>2 DEF Inv, TypeOK, ImagesDue
<1>4. /\ In(s, "waiting") /\ Adopt(s, cl, w) /\ Answer(s)
      /\ UNCHANGED <<server, commands, target, published, handed>>
      /\ c # Anonymous /\ named[c] = None /\ named' = [named EXCEPT ![c] = s]
      /\ client_id' = [client_id EXCEPT ![s] = c] /\ image' = [image EXCEPT ![c] = NoImage]
  BY DEF ConnectNew
<1> HIDE DEF w
<1> QED BY <1>3, <1>4, ConnectKeeps

-----------------------------------------------------------------------------
(***************************************************************************)
(* Takeovers.                                                              *)
(***************************************************************************)
\* The stream goes into the channel of a session with the same client id, or
\* waits for room in it.
LEMMA HandOverKeeps ==
    ASSUME Inv, NEW s \in Conns, NEW t \in Conns, NEW cl \in BOOLEAN, HandOver(s, t, cl),
           phase[s] \in {"waiting", "handover"}, Live(t),
           ClientOf[s] \in Clients, client_id[t] = ClientOf[s],
           client_id' = [client_id EXCEPT ![s] = ClientOf[s]],
           clean' = [clean EXCEPT ![s] = cl],
           NEW w \in Conns \cup {None}, w = s \/ w = None \/ Due(w),
           will' = [will EXCEPT ![s] = w],
           UNCHANGED <<server, named, published>>
    PROVE  Inv'
<1> USE LifecycleAssumption
<1> DEFINE new == [type |-> "Takeover", conn |-> s, clean |-> cl]
<1>0. TypeOK /\ Sessions
  BY DEF Inv
<1>1. /\ stream[s] = s /\ (s \notin handed => fate[s] = "open")
      /\ client_id[s] # None => client_id[s] = ClientOf[s]
  BY <1>0 DEF Sessions, Owns, Served, Serves
<1>2. /\ client_id' \in [Conns -> Clients \cup {None}] /\ client_id'[s] = ClientOf[s]
      /\ clean' \in [Conns -> BOOLEAN] /\ will' \in [Conns -> Conns \cup {None}] /\ will'[s] = w
      /\ target' \in [Conns -> Conns \cup {None}] /\ target'[s] = t
      /\ \A u \in Conns \ {s} : /\ client_id'[u] = client_id[u] /\ clean'[u] = clean[u]
                                /\ will'[u] = will[u] /\ target'[u] = target[u]
  BY <1>0 DEF HandOver, TypeOK
<1>3. /\ phase' \in [Conns -> Phase] /\ stream' \in [Conns -> Conns \cup {None}]
      /\ \A u \in Conns \ {s} : phase'[u] = phase[u] /\ stream'[u] = stream[u]
      /\ handed \subseteq handed' /\ handed' \subseteq handed \cup {s}
      /\ \/ phase'[s] = "cleanup" /\ stream'[s] = None /\ s \in handed'
         \/ phase'[s] = "handover" /\ stream'[s] = s
  <2>1. CASE End(s) /\ handed' = handed \cup {s}
    BY <1>0, <2>1 DEF End, GoTo, TypeOK, Phase
  <2>2. CASE GoTo(s, "handover") /\ UNCHANGED <<stream, handed>>
    BY <1>0, <1>1, <2>2 DEF GoTo, TypeOK, Phase
  <2> QED BY <2>1, <2>2 DEF HandOver
<1>4. UNCHANGED <<server, named, published, image, fate>>
  BY DEF HandOver, End
<1>5. /\ commands' \in [Conns -> Seq(Command)]
      /\ \A u \in Conns : Len(commands'[u]) <= CommandCap
      /\ \A u \in Conns : \/ Inherits(commands[u], commands'[u])
                          \/ u = t /\ Extends(commands[t], new, commands'[t]) /\ s \in handed'
  <2>1. CASE UNCHANGED commands
    BY <1>0, <2>1 DEF TypeOK, Inherits
  <2>2. CASE Len(commands[t]) < CommandCap /\ commands' = [commands EXCEPT ![t] = Append(@, new)]
             /\ s \in handed'
    <3>1. commands[t] \in Seq(Command) /\ new \in Command
      BY <1>0, CommandFacts DEF TypeOK
    <3>2. /\ Append(commands[t], new) \in Seq(Command)
          /\ Len(Append(commands[t], new)) <= CommandCap
      BY <2>2, <3>1, AppendFacts, LenProperties
    <3>3. commands'[t] = Append(commands[t], new) /\ \A u \in Conns \ {t} : commands'[u] = commands[u]
      BY <1>0, <2>2 DEF TypeOK
    <3>4. commands' \in [Conns -> Seq(Command)]
      BY <1>0, <2>2, <3>2 DEF TypeOK
    <3>5. \A u \in Conns : Len(commands'[u]) <= CommandCap
      BY <1>0, <3>2, <3>3 DEF TypeOK
    <3>6. \A u \in Conns \ {t} : Inherits(commands[u], commands'[u])
      BY <3>3 DEF Inherits
    <3>7. Extends(commands[t], new, commands'[t])
      BY <3>1, <3>3, AppendFacts
    <3> QED BY <2>2, <3>4, <3>5, <3>6, <3>7
  <2> QED BY <2>1, <2>2 DEF HandOver
<1>6. TypeOK'
  BY <1>0, <1>2, <1>3, <1>4, <1>5 DEF TypeOK
<1>7. ASSUME NEW c \in Conns, Due(c) PROVE Due(c)'
  BY <1>3, <1>4, <1>7 DEF Due
<1>8. ASSUME NEW u \in Conns PROVE Owns(u)'
  BY <1>0, <1>2, <1>3 DEF TypeOK, Sessions, Owns
<1>9. ASSUME NEW u \in Conns PROVE Aims(u)'
  <2>1. \A v \in Conns : phase[v] \notin {"none", "waiting"} =>
            phase'[v] \notin {"none", "waiting"} /\ (client_id[v] # None => client_id'[v] = client_id[v])
    BY <1>1, <1>2, <1>3
  <2>2. CASE u = s
    BY <1>2, <2>1, <2>2 DEF Aims, Live
  <2>3. CASE u # s
    <3>1. target[u] # None => client_id[target[u]] # None
      BY <1>0, <2>3 DEF Sessions, Aims
    <3> QED BY <1>0, <1>2, <1>3, <2>1, <2>3, <3>1 DEF TypeOK, Sessions, Aims
  <2> QED BY <2>2, <2>3
<1>10. ASSUME NEW u \in Conns PROVE Queues(u)'
  <2> SUFFICES ASSUME NEW i \in DOMAIN commands'[u], commands'[u][i] # Cancel
               PROVE  ClientOf[commands'[u][i].conn] = client_id'[u] /\ commands'[u][i].conn \in handed'
    BY DEF Queues, Queued
  <2>1. CASE u = t /\ commands'[u][i] = new /\ s \in handed'
    BY <1>2, <2>1, CommandFacts
  <2>2. CASE \E j \in DOMAIN commands[u] : commands'[u][i] = commands[u][j]
    <3>1. PICK j \in DOMAIN commands[u] : commands'[u][i] = commands[u][j]
      BY <2>2
    <3>2. client_id[u] # None
      BY <3>1, NoTakeoverQueued
    <3>3. client_id'[u] = client_id[u]
      BY <1>1, <1>2, <3>2
    <3> QED BY <1>0, <1>3, <3>1, <3>3 DEF Sessions, Queues, Queued
  <2> QED BY <1>5, <2>1, <2>2 DEF Inherits, Extends
<1>11. ASSUME NEW u \in Conns PROVE Registered(u)'
  <2>1. \A c : Dropped(c) => Dropped(c)'
    BY <1>2, <1>3 DEF Dropped
  <2>2. CASE u = s
    BY <1>2, <2>2 DEF Registered
  <2>3. CASE u # s
    BY <1>0, <1>2, <1>3, <1>4, <2>1, <2>3 DEF Sessions, Registered, Live
  <2> QED BY <2>2, <2>3
<1>12. ASSUME NEW u \in Conns PROVE Served(u)'
  BY <1>0, <1>1, <1>3, <1>4 DEF Sessions, Served, Serves
<1>13. ASSUME NEW u \in Conns PROVE Holds(u)'
  <2>1. CASE u = s
    BY <1>2, <1>3, <1>7, <2>1 DEF Holds, Serves, Due
  <2>2. CASE u # s
    BY <1>0, <1>2, <1>3, <1>7, <2>2 DEF TypeOK, Sessions, Holds, Serves
  <2> QED BY <2>1, <2>2
<1>14. NamedIsLive'
  BY <1>0, <1>1, <1>2, <1>3, <1>4 DEF Inv, TypeOK, NamedIsLive
<1>15. ImagesDue' /\ WillIsDue'
  BY <1>0, <1>4, <1>7 DEF Inv, TypeOK, ImagesDue, WillIsDue, Due
<1> QED BY <1>6, <1>8, <1>9, <1>10, <1>11, <1>12, <1>13, <1>14, <1>15 DEF Inv, Sessions

LEMMA ConnectTakenKeeps ==
    ASSUME Inv, NEW s \in Conns, NEW cl \in BOOLEAN, ConnectTaken(s, cl)
    PROVE  Inv'
<1> DEFINE c == ClientOf[s]
<1>1. c \in Clients /\ phase[s] = "waiting" /\ named[c] # None
  BY LifecycleAssumption DEF ConnectTaken, In
<1>2. named[c] \in Conns /\ Live(named[c]) /\ client_id[named[c]] = c
  BY <1>1 DEF Inv, TypeOK, NamedIsLive, Live
<1>3. WillOf(s) \in Conns \cup {None} /\ (WillOf(s) = s \/ WillOf(s) = None)
  BY DEF WillOf
<1>4. /\ HandOver(s, named[c], cl) /\ client_id' = [client_id EXCEPT ![s] = c]
      /\ clean' = [clean EXCEPT ![s] = cl] /\ will' = [will EXCEPT ![s] = WillOf(s)]
      /\ UNCHANGED <<server, named, published>>
  BY DEF ConnectTaken, Adopt
<1> QED BY <1>1, <1>2, <1>3, <1>4, HandOverKeeps

LEMMA HandOverLaterKeeps ==
    ASSUME Inv, NEW s \in Conns, HandOverLater(s)
    PROVE  Inv'
<1>0. TypeOK /\ Sessions /\ phase[s] = "handover"
  BY DEF Inv, HandOverLater, In
<1>1. /\ stream[s] = s /\ client_id[s] = ClientOf[s] /\ client_id[s] \in Clients
      /\ target[s] \in Conns /\ client_id[target[s]] = ClientOf[s]
      /\ phase[target[s]] \notin {"none", "waiting"}
  BY <1>0, LifecycleAssumption DEF TypeOK, Sessions, Owns, Aims
<1>2. CASE phase[target[s]] = "gone"
  <2>1. Closes(s, {s})
    BY <1>0, <1>1, <1>2 DEF HandOverLater, Closes
  <2> QED BY <2>1, ClosesKeeps
<1>3. CASE phase[target[s]] # "gone"
  <2>1. HandOver(s, target[s], clean[s]) /\ UNCHANGED <<server, clean, client_id, will, named, published>>
    BY <1>3 DEF HandOverLater
  <2>2. /\ client_id' = [client_id EXCEPT ![s] = ClientOf[s]]
        /\ clean' = [clean EXCEPT ![s] = clean[s]] /\ will' = [will EXCEPT ![s] = will[s]]
        /\ clean[s] \in BOOLEAN /\ will[s] \in Conns \cup {None}
    BY <1>0, <1>1, <2>1 DEF TypeOK
  <2>3. will[s] = s \/ will[s] = None \/ Due(will[s])
    BY <1>0 DEF Sessions, Holds
  <2>4. Live(target[s])
    BY <1>1, <1>3 DEF Live
  <2> QED BY <1>0, <1>1, <2>1, <2>2, <2>3, <2>4, HandOverKeeps
<1> QED BY <1>2, <1>3

\* on_takeover.
LEMMA TakeoverKeeps ==
    ASSUME Inv, NEW s \in Conns, Takeover(s)
    PROVE  Inv'
<1> USE LifecycleAssumption
<1> DEFINE new == Head(commands[s])
<1>0. TypeOK /\ Sessions
  BY DEF Inv
<1>1. /\ commands[s] # <<>> /\ commands' = [commands EXCEPT ![s] = Tail(@)]
      /\ phase[s] \in {"processing", "pending"}
      /\ new.conn \in Conns /\ new.clean \in BOOLEAN
      /\ new.conn \in handed /\ ClientOf[new.conn] = client_id[s] /\ client_id[s] \in Clients
  BY TakeoverFacts DEF Takeover
<1> HIDE DEF new
<1>2. /\ commands' \in [Conns -> Seq(Command)]
      /\ \A t \in Conns : Len(commands'[t]) <= CommandCap /\ Inherits(commands[t], commands'[t])
  BY <1>0, <1>1, PopFacts
<1>3. /\ Lose({stream[s]}) /\ GoTo(s, "processing")
      /\ stream' = [stream EXCEPT ![s] = new.conn] /\ clean' = [clean EXCEPT ![s] = new.clean]
      /\ image' = IF new.clean THEN [image EXCEPT ![client_id[s]] = NoImage] ELSE image
      /\ UNCHANGED <<server, client_id, will, target, named, published, handed>>
  BY DEF Takeover, new
<1>4. /\ phase' \in [Conns -> Phase] /\ stream' \in [Conns -> Conns \cup {None}]
      /\ clean' \in [Conns -> BOOLEAN]
      /\ phase'[s] = "processing" /\ stream'[s] = new.conn
      /\ \A t \in Conns \ {s} : phase'[t] = phase[t] /\ stream'[t] = stream[t] /\ clean'[t] = clean[t]
  BY <1>0, <1>1, <1>3 DEF GoTo, TypeOK, Phase
<1>5. /\ image' \in [Clients -> Conns \cup {None, NoImage}]
      /\ \A c \in Clients : image'[c] \in {image[c], NoImage}
  BY <1>0, <1>1, <1>3 DEF TypeOK
<1>6. /\ fate' \in [Conns -> {"unborn", "open", "lost", "bye"}]
      /\ \A c \in Conns : c # stream[s] => fate'[c] = fate[c]
      /\ \A c \in Conns : c = stream[s] /\ fate[c] = "open" => fate'[c] = "lost"
      /\ \A c \in Conns : fate[c] = "lost" => fate'[c] = "lost"
  BY <1>0, <1>3, LoseFacts
<1>7. TypeOK'
  BY <1>0, <1>2, <1>3, <1>4, <1>5, <1>6 DEF TypeOK
<1>8. ASSUME NEW c \in Conns, Due(c) PROVE Due(c)'
  BY <1>3, <1>6, <1>8 DEF Due
<1>9. ASSUME NEW t \in Conns PROVE Owns(t)' /\ Aims(t)'
  BY <1>0, <1>1, <1>3, <1>4 DEF TypeOK, Sessions, Owns, Aims
<1>10. ASSUME NEW t \in Conns PROVE Queues(t)'
  BY <1>0, <1>2, <1>3 DEF Sessions, Queues, Queued, Inherits
<1>11. ASSUME NEW t \in Conns PROVE Registered(t)'
  <2>1. \A c : Dropped(c) => Dropped(c)'
    BY <1>1, <1>3, <1>4 DEF Dropped
  <2> QED BY <1>0, <1>1, <1>3, <1>4, <2>1 DEF Sessions, Registered, Live
<1>12. ASSUME NEW t \in Conns PROVE Served(t)'
  <2>1. CASE t = s
    BY <1>1, <1>3, <1>4, <2>1 DEF Served, Serves
  <2>2. CASE t # s
    <3>1. t \notin handed => t # stream[s]
      BY <1>0, <2>2 DEF Sessions, Served
    <3> QED BY <1>0, <1>3, <1>4, <1>6, <2>2, <3>1 DEF Sessions, Served, Serves
  <2> QED BY <2>1, <2>2
<1>13. ASSUME NEW t \in Conns PROVE Holds(t)'
  <2>1. CASE t = s
    BY <1>0, <1>3, <1>6, <1>8, <2>1 DEF TypeOK, Sessions, Served, Holds, Serves, Due
  <2>2. CASE t # s
    BY <1>0, <1>3, <1>4, <1>8, <2>2 DEF TypeOK, Sessions, Holds, Serves
  <2> QED BY <2>1, <2>2
<1>14. NamedIsLive'
  BY <1>0, <1>3, <1>4 DEF Inv, TypeOK, NamedIsLive
<1>15. ImagesDue'
  BY <1>0, <1>5, <1>8 DEF Inv, TypeOK, ImagesDue
<1>16. WillIsDue'
  BY <1>0, <1>3, <1>8 DEF Inv, TypeOK, WillIsDue, Due
<1> QED BY <1>7, <1>9, <1>10, <1>11, <1>12, <1>13, <1>14, <1>15, <1>16 DEF Inv, Sessions

-----------------------------------------------------------------------------
(***************************************************************************)
(* The end of a session, and shutdown.                                     *)
(***************************************************************************)
LEMMA PublishWillKeeps ==
    ASSUME Inv, NEW s \in Conns, PublishWill(s)
    PROVE  Inv'
<1> USE LifecycleAssumption
<1>0. TypeOK /\ Sessions /\ phase[s] = "cleanup"
  BY DEF Inv, PublishWill, In
<1>1. /\ phase' \in [Conns -> Phase] /\ will' \in [Conns -> Conns \cup {None}]
      /\ phase'[s] = "leaving" /\ will'[s] = None
      /\ \A t \in Conns \ {s} : phase'[t] = phase[t] /\ will'[t] = will[t]
  BY <1>0 DEF PublishWill, GoTo, TypeOK, Phase
<1>2. UNCHANGED <<server, stream, clean, client_id, commands, target, named, image, fate, handed>>
  BY DEF PublishWill
<1>3. published' = IF will[s] = None THEN published ELSE published \cup {will[s]}
  BY DEF PublishWill
<1>4. TypeOK'
  BY <1>0, <1>1, <1>2, <1>3 DEF TypeOK
\* A session in cleanup serves no connection: its will is due.
<1>5. will[s] # None => Due(will[s])
  BY <1>0 DEF Sessions, Holds, Serves
<1>6. ASSUME NEW t \in Conns PROVE Owns(t)' /\ Aims(t)'
  BY <1>0, <1>1, <1>2 DEF TypeOK, Sessions, Owns, Aims
<1>7. ASSUME NEW t \in Conns PROVE Queues(t)'
  BY <1>0, <1>2 DEF Sessions, Queues, Queued
<1>8. ASSUME NEW t \in Conns PROVE Registered(t)'
  <2>1. \A c : Dropped(c) => Dropped(c)'
    BY <1>0, <1>1, <1>2 DEF Dropped
  <2> QED BY <1>0, <1>1, <1>2, <2>1 DEF Sessions, Registered, Live
<1>9. ASSUME NEW t \in Conns PROVE Served(t)' /\ Holds(t)'
  BY <1>0, <1>1, <1>2 DEF Sessions, Served, Serves, Holds, Due
<1>10. NamedIsLive'
  BY <1>0, <1>1, <1>2 DEF Inv, TypeOK, NamedIsLive
<1>11. ImagesDue'
  BY <1>2 DEF Inv, ImagesDue, Due
<1>12. WillIsDue'
  BY <1>2, <1>3, <1>5 DEF Inv, WillIsDue, Due
<1> QED BY <1>4, <1>6, <1>7, <1>8, <1>9, <1>10, <1>11, <1>12 DEF Inv, Sessions

\* remove_session drops the entry of a session that found its client id
\* taken, too: this is the case that Registered lets through.
LEMMA RemoveKeeps ==
    ASSUME Inv, NEW s \in Conns, Remove(s)
    PROVE  Inv'
<1> USE LifecycleAssumption
<1>0. TypeOK /\ Sessions /\ phase[s] = "leaving"
  BY DEF Inv, Remove, In
<1>1. PICK C : /\ Lose(C)
               /\ \A c \in Conns : c \in C => c \in handed
  <2> DEFINE C == {commands[s][i].conn : i \in {j \in DOMAIN commands[s] : commands[s][j] # Cancel}}
  <2>1. \A c \in Conns : c \in C => c \in handed
    BY <1>0 DEF Sessions, Queues, Queued
  <2>2. Lose(C)
    BY DEF Remove
  <2> HIDE DEF C
  <2> QED BY <2>1, <2>2
<1>2. /\ phase' \in [Conns -> Phase] /\ phase'[s] = "gone"
      /\ \A t \in Conns \ {s} : phase'[t] = phase[t]
  BY <1>0 DEF Remove, GoTo, TypeOK, Phase
<1>3. /\ commands' \in [Conns -> Seq(Command)]
      /\ \A t \in Conns : Len(commands'[t]) <= CommandCap /\ Inherits(commands[t], commands'[t])
  <2>1. commands'[s] = <<>> /\ \A t \in Conns \ {s} : commands'[t] = commands[t]
    BY <1>0 DEF Remove, TypeOK
  <2>2. commands' \in [Conns -> Seq(Command)]
    BY <1>0 DEF Remove, TypeOK
  <2>3. Len(commands'[s]) <= CommandCap /\ Inherits(commands[s], commands'[s])
    BY <2>1 DEF Inherits
  <2>4. \A t \in Conns \ {s} : Len(commands'[t]) <= CommandCap /\ Inherits(commands[t], commands'[t])
    BY <1>0, <2>1 DEF TypeOK, Inherits
  <2> QED BY <2>2, <2>3, <2>4
<1>4. UNCHANGED <<server, stream, clean, client_id, will, target, image, published, handed>>
  BY DEF Remove, conn
<1>5. /\ named' \in [Clients -> Conns \cup {None}]
      /\ \A c \in Clients : c = client_id[s] => named'[c] = None
      /\ \A c \in Clients : c # client_id[s] => named'[c] = named[c]
  BY <1>0 DEF Remove, DropName, TypeOK
<1>6. /\ fate' \in [Conns -> {"unborn", "open", "lost", "bye"}]
      /\ \A c \in Conns : c \notin handed => fate'[c] = fate[c]
      /\ \A c \in Conns : fate[c] = "lost" => fate'[c] = "lost"
  BY <1>0, <1>1, LoseFacts
<1>7. TypeOK'
  BY <1>0, <1>2, <1>3, <1>4, <1>5, <1>6 DEF TypeOK
<1>8. ASSUME NEW c \in Conns, Due(c) PROVE Due(c)'
  BY <1>4, <1>6, <1>8 DEF Due
<1>9. ASSUME NEW t \in Conns PROVE Owns(t)' /\ Aims(t)'
  BY <1>0, <1>2, <1>4 DEF TypeOK, Sessions, Owns, Aims
<1>10. ASSUME NEW t \in Conns PROVE Queues(t)'
  BY <1>0, <1>3, <1>4 DEF Sessions, Queues, Queued, Inherits
<1>11. ASSUME NEW t \in Conns PROVE Registered(t)'
  <2> SUFFICES ASSUME t # s, server = "loop", Live(t), client_id[t] # None, target[t] = None,
                      ~Dropped(client_id[t])'
               PROVE  named'[client_id[t]] = t
    BY <1>2, <1>4 DEF Registered, Live, Dropped
  <2>2. named[client_id[t]] = t /\ client_id[t] \in Clients
    <3>1. ~Dropped(client_id[t])
      BY <1>0, <1>2, <1>4 DEF Dropped
    <3> QED BY <1>0, <3>1 DEF TypeOK, Sessions, Registered
  <2>3. client_id[s] # client_id[t]
    <3> SUFFICES ASSUME client_id[s] = client_id[t] PROVE FALSE
      OBVIOUS
    <3>1. target[s] # None => Dropped(client_id[t])'
      BY <1>0, <1>2, <1>4 DEF Sessions, Owns, Dropped
    <3>2. target[s] = None => named[client_id[t]] = s
      <4>1. ~Dropped(client_id[s])
        BY <1>0, <1>2, <1>4 DEF Dropped
      <4> QED BY <1>0, <4>1 DEF Sessions, Registered, Live
    <3> QED BY <2>2, <3>1, <3>2
  <2> QED BY <1>5, <2>2, <2>3
<1>12. ASSUME NEW t \in Conns PROVE Served(t)' /\ Holds(t)'
  <2>1. Serves(t)' <=> Serves(t)
    BY <1>0, <1>2, <1>4 DEF Serves
  <2>2. Served(t)'
    BY <1>0, <1>2, <1>4, <1>6, <2>1 DEF Sessions, Served
  <2>3. Holds(t)'
    BY <1>0, <1>4, <1>8, <2>1 DEF TypeOK, Sessions, Holds
  <2> QED BY <2>2, <2>3
<1>13. NamedIsLive'
  <2> SUFFICES ASSUME NEW c \in Clients, named'[c] # None
               PROVE  phase'[named'[c]] \notin {"none", "waiting", "gone"} /\ client_id'[named'[c]] = c
    BY DEF NamedIsLive
  <2>1. c # client_id[s] /\ named'[c] = named[c]
    BY <1>5
  <2>2. named[c] \in Conns \ {s}
    BY <1>0, <2>1 DEF Inv, TypeOK, NamedIsLive
  <2> QED BY <1>2, <1>4, <2>1, <2>2 DEF Inv, NamedIsLive
<1>14. ImagesDue' /\ WillIsDue'
  BY <1>0, <1>4, <1>8 DEF Inv, TypeOK, ImagesDue, WillIsDue, Due
<1> QED BY <1>7, <1>9, <1>10, <1>11, <1>12, <1>13, <1>14 DEF Inv, Sessions

LEMMA StopListeningKeeps ==
    ASSUME Inv, StopListening
    PROVE  Inv'
<1>1. server' = "cancel_all" /\ UNCHANGED <<phase, stream, clean, client_id, will, commands, target,
                                            named, image, fate, published, handed>>
  BY DEF StopListening, conn, history
<1>2. TypeOK' /\ NamedIsLive' /\ ImagesDue' /\ WillIsDue'
  BY <1>1 DEF Inv, TypeOK, NamedIsLive, ImagesDue, WillIsDue, Due
<1>3. Sessions'
  BY <1>1 DEF Inv, Sessions, Owns, Aims, Queues, Queued, Registered, Served, Serves, Holds, Due
<1> QED BY <1>2, <1>3 DEF Inv

LEMMA CancelAllKeeps ==
    ASSUME Inv, CancelAll
    PROVE  Inv'
<1> USE LifecycleAssumption
<1> DEFINE live == {s \in Conns : phase[s] \notin {"none", "gone"}}
<1>0. TypeOK /\ Sessions
  BY DEF Inv
<1>1. server' = "drain" /\ UNCHANGED <<phase, stream, clean, client_id, will, target, image, fate,
                                       published, handed>>
      /\ named' = [c \in Clients |-> None]
  BY DEF CancelAll, conn, history
<1>2. \A s \in Conns : \/ commands'[s] = commands[s]
                       \/ Len(commands[s]) < CommandCap /\ commands'[s] = Append(commands[s], Cancel)
  BY DEF CancelAll
<1>3. ASSUME NEW s \in Conns
      PROVE  /\ commands'[s] \in Seq(Command) /\ Len(commands'[s]) <= CommandCap
             /\ Extends(commands[s], Cancel, commands'[s])
  <2>1. commands[s] \in Seq(Command) /\ Len(commands[s]) <= CommandCap
    BY <1>0 DEF TypeOK
  <2>2. CASE commands'[s] = commands[s]
    BY <2>1, <2>2 DEF Extends
  <2>3. CASE Len(commands[s]) < CommandCap /\ commands'[s] = Append(commands[s], Cancel)
    BY <2>1, <2>3, AppendFacts, CommandFacts, LenProperties
  <2> QED BY <1>2, <2>2, <2>3
<1>4. commands' \in [Conns -> Seq(Command)]
  <2>1. DOMAIN commands' = Conns /\ commands' = [s \in Conns |-> commands'[s]]
    BY DEF CancelAll
  <2> QED BY <1>3, <2>1
<1>5. TypeOK'
  BY <1>0, <1>1, <1>3, <1>4 DEF TypeOK
<1>6. NamedIsLive' /\ ImagesDue' /\ WillIsDue'
  BY <1>1 DEF Inv, NamedIsLive, ImagesDue, WillIsDue, Due
<1>7. ASSUME NEW s \in Conns PROVE Queues(s)'
  BY <1>0, <1>1, <1>3 DEF Sessions, Queues, Queued, Extends
<1>8. ASSUME NEW s \in Conns PROVE Owns(s)' /\ Aims(s)' /\ Registered(s)' /\ Served(s)' /\ Holds(s)'
  BY <1>0, <1>1 DEF Sessions, Owns, Aims, Registered, Served, Serves, Holds, Due
<1> QED BY <1>5, <1>6, <1>7, <1>8 DEF Inv, Sessions

LEMMA StutterKeeps ==
    ASSUME Inv, UNCHANGED vars
    PROVE  Inv'
<1>1. UNCHANGED <<server, phase, stream, clean, client_id, will, commands, target, named, image,
                  fate, published, handed>>
  BY DEF vars, conn, history
<1>2. TypeOK' /\ NamedIsLive' /\ ImagesDue' /\ WillIsDue'
  BY <1>1 DEF Inv, TypeOK, NamedIsLive, ImagesDue, WillIsDue, Due
<1>3. Sessions'
  BY <1>1 DEF Inv, Sessions, Owns, Aims, Queues, Queued, Registered, Live, Dropped, Served, Serves, Holds, Due
<1> QED BY <1>2, <1>3 DEF Inv

LEMMA NextKeeps == Inv /\ [Next]_vars => Inv'
<1> SUFFICES ASSUME Inv, [Next]_vars PROVE Inv'
  OBVIOUS
<1>1. ASSUME NEW s \in Conns, Progress(s) PROVE Inv'
  BY <1>1, HandOverLaterKeeps, TakeoverKeeps, CancelledKeeps, PublishWillKeeps, RemoveKeeps DEF Progress
<1>2. ASSUME NEW s \in Conns, Environment(s) PROVE Inv'
  <2>1. CASE \E cl \in BOOLEAN : ConnectNew(s, cl) \/ ConnectTaken(s, cl)
    BY <2>1, ConnectNewKeeps, ConnectTakenKeeps
  <2> QED BY <1>2, <2>1, AcceptKeeps, RefuseKeeps, DisconnectKeeps, LoseConnectionKeeps,
             TakeoverFailsKeeps, ConnectAnonymousKeeps DEF Environment
<1> QED BY <1>1, <1>2, StopListeningKeeps, CancelAllKeeps, StutterKeeps DEF Next

\* What the properties of Lifecycle say follows in every state.
LEMMA InvImplies == Inv => OwnClientOnly /\ OneSessionPerClient
<1> SUFFICES ASSUME Inv PROVE OwnClientOnly /\ OneSessionPerClient
  OBVIOUS
<1>1. OwnClientOnly
  BY DEF Inv, Sessions, Owns, Queues, Queued, OwnClientOnly
<1>2. OneSessionPerClient
  BY DEF Inv, Sessions, Owns, Registered, Live, Dropped, OneSessionPerClient
<1> QED BY <1>1, <1>2

LEMMA InvHolds == Spec => []Inv
BY InitInv, NextKeeps, PTL DEF Spec

\* The types of the session machine, the name map and the images.
THEOREM LifecycleTypes == Spec => []TypeOK
<1>1. Inv => TypeOK
  BY DEF Inv
<1> QED BY <1>1, InvHolds, PTL

\* A takeover never goes astray: whatever named_clients holds is a session of
\* that client which still has its command channel.
THEOREM NamesAreLive == Spec => []NamedIsLive
<1>1. Inv => NamedIsLive
  BY DEF Inv
<1> QED BY <1>1, InvHolds, PTL

\* on_takeover never gives a session the stream of another client.
THEOREM SessionsServeTheirClient == Spec => []OwnClientOnly
BY InvHolds, InvImplies, PTL

\* While the server runs, two sessions of one client exist only after
\* remove_session has run for one that found the client id taken.
THEOREM OneSession == Spec => []OneSessionPerClient
BY InvHolds, InvImplies, PTL

\* Cleanup publishes the will of no connection that is served or has been
\* closed by a DISCONNECT, unless the connection was handed over.
THEOREM WillsAreDue == Spec => []WillIsDue
<1>1. Inv => WillIsDue
  BY DEF Inv
<1> QED BY <1>1, InvHolds, PTL
=============================================================================

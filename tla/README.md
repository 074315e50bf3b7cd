# TLA+ models of iotd

iotd is an MQTT 3.1.1 broker. This directory holds TLA+ modules of its core,
the TLC configurations that check them on small instances, and machine-checked
proofs about the router and its topic matching, the broker around it, the life
cycle of sessions, QoS 1 and 2 in both directions, and persistence. `PROJECT.json` lists
the runs, the mutants that show each property can fail, the source lines behind
each definition, the findings, the hazards and the theorems.

## 1. Inventory

| component | state | operations | hard because |
|---|---|---|---|
| server loop (`server.rs`) | stream channel, `FuturesUnordered` of sessions | accept, add_client, stop, cancel all, drain | all session futures run in this one task; while an arm of its `select!` awaits, no session runs |
| broker (`broker.rs`) | `sessions` (mutex), `named_clients` | add_client, has_collision, remove_session, cancel_all_sessions | the mutex is held across an await; names are removed unconditionally |
| router (`router.rs`) | `filters`, `sessions` (RwLock), retained messages in storage | subscribe, unsubscribe, unsubscribe_all, get_subscriptions, route | `route` sends into bounded mailboxes under the read lock |
| session machine (`session.rs`) | state, stream, clean flag, command channel | Waiting, Processing, Pending, Cleanup, takeover | `select!` over packets, mailbox, commands and two timers |
| outbound QoS 1/2 (`session.rs`) | mailbox, `inflight_queue`, `next_packet_id` | on_message, on_puback, on_pubrec, on_pubcomp, on_retransmit | retransmission races acknowledgement; failed writes; restarts |
| inbound QoS 1/2 (`session.rs`) | `inbound_qos2` | on_publish, on_pubrel | duplicates over several connections; stale images |
| wills (`session.rs`) | `will_message` | store, clear, save, restore, publish | several sessions act for one client during a takeover |
| storage (`storage/`) | images of sessions, retained messages; in SQLite five tables behind one connection | save, load, delete, expire | an image is written on entry to Pending and deleted at restore only; a save is many statements, and its errors are only logged |
| topic matching (`router.rs`) | none | validate, topic_matches, match_parts | corner cases at empty levels and `#`; the retained look-up has a second way to match |
| packet codec (`protocol/packet.rs`) | the locals of a `decode` that waits | encode, decode | `decode` waits at any byte, and is one arm of a `select!` that may drop it |
| authentication, ACL (`auth/`) | the parsed files | authenticate, authorize_publish, authorize_subscribe | denied filters of one SUBSCRIBE are answered among authorised ones |
| transport, configuration | none that changes | | I/O and parsing |

Sessions call the broker, and through it the router; the router answers with
messages into the sessions' mailboxes; a session that finds its client id
taken sends its stream through the other session's command channel.

What makes the parts correct: the two subscription tables agree and a route
serves only live subscriptions; nobody misses a retained message between
storage and live routing; calls return, ended sessions are removed, shutdown
completes; a filter matches the same topics live and retained; a session is
handed the packets its client sent, in order and unchanged; an image in storage
is whole, and a promised state is in the session or in storage; QoS 1 is delivered at least once and QoS 2 exactly once, in both
directions and over restarts; a client id has one session; a will is published
when, and only when, its connection ended abnormally.

## 2. Modules

All session futures are polled by one task, so they interleave only at awaits.
A handler without an await that anybody else can observe is one action.

**Router** models the tables, the retained store, the RwLock as a fair queue
and each mailbox as a bounded counter. `pc[s]` is the await at which the
session's router call stands: queued for the lock (`subscribe`, `unsubscribe`,
`remove`, `get`, `route`), writing the SUBACK, queueing retained messages, or
sending to one target of a route (`deliver`, the only point at which the read
lock is held between steps). `CallRoute` stores the retained message and only
then queues for the lock, as the code does. Matching and validation are the
constants `Matches`, `InvalidFilters` and `InvalidTopics`, which MCRouter
computes with TopicFilters; `Requests` are the filter sets the ACL lets
through. `CallRestore` and `Resubscribe` are the subscribe inside
`restore_from_storage`, whose result is dropped. Every read and write of
retained messages may fail: a failed look-up replays nothing (`Unreadable`), a
failed read of the limit check lets the message through (`AtLimit`), a failed
write leaves what was stored. `acked`, `settled` and `unchecked` are history
variables.

**TopicFilters** has the validators of the router and, as `Covers`, what a
filter stands for. **TopicMatching** is `topic_matches` and the recursive
`match_parts`, one call to a step, as the route and the look-up of retained
messages use them. A string is the sequence of its levels.

**Broker** extends Router with the serve loop, the registry mutex and the
session state machine: when a session calls the router and when it empties its
mailbox. `Polled` says that sessions run only while the serve loop waits in
its `select!` or drains. A session is `connecting` from its CONNECT to its
CONNACK; a client with a stored session has it wait for the router's write lock
in between.

**Outbound** is one session as sender, with its subscriber and the connection
between them; **Inbound** one session as receiver, with its publisher. Both
include failed writes, takeovers that succeed or fail, clean starts, the image
in storage, saves that fail or come too late, and restarts. In Inbound a handler
that routes is two actions, the acknowledgement and `PassOn`, since the code
awaits the authoriser in between; `routing` is the message that is there. The clients are external and follow MQTT 3.1.1. TCP
is a FIFO in each direction; a break loses what is under way, except that the
broker's socket may already hold some of what the client had sent. In Outbound
`routed`, `givenUp`, `lost`, `stale`, `clashed` and `behind` are history variables: what
the router has handed over and the ways in which a message may leave
undelivered. `clashed` has the messages that were given, or shared, a packet id
still in use: by an entry in flight or in the image, by a packet under way, or
by a QoS 2 exchange the subscriber has not finished. `behind` has the messages
that the image showed at an earlier stage than the session when the broker
stopped. `Retain` is
`VecDeque::retain`, written with the rank of each kept position so that it can
be proved about. `Restore` without an image has the subscriber start anew,
because the CONNACK then says session_present = false.

**Lifecycle** is about identity: `named_clients`, the command channels, who
serves which connection, wills, and whether storage has an image. A session
has the name of the connection it was accepted for. `target` is the session
that `has_collision` found for it, and stays when the hand-over is done.

**Storage** is the abstract specification of the trait `Storage`: one image per
client, one retained message per topic, each replaced and deleted as a whole.
InMemoryStorage is this module; with `Durable` it describes what a database
promises. **SqliteStorage** has the tables and, for each writing operation, its
sequence of statements; `Begin`, `Execute`, `Commit` and `Rollback` run them in
a transaction on a copy of the tables. `Holding` of **Persistence** says which
tables hold given images and retained messages. **Persistence** composes it
with the sessions that use it: `save_to_storage`, `restore_from_storage` with its await
between the loads and the delete, clean connections, takeovers, failing
statements, loads and CONNACKs, crashes anywhere, retained messages and
expiry. `content` is the state last promised to a client; `lost` names the
clients for which one of the known causes has broken the promise.

**PacketCodec** has the bytes of each packet: `encode` for what the broker
writes, a client's encoder for what only clients write, and for `decode` the
fields of each body, the checks between them and what each read does beyond
the end. **Access** has the checks of `on_connect`, the password file and the
ACL. **Connection** reads a client's stream with them: `ReadFirst`,
`ReadLength` and `ReadBody` take one byte each, because `decode` may have to
wait at any byte, and `OtherArm` is the `select!` dropping a `decode` that
waits. `OnConnect`, `OnPacket` and `OnDisconnect` write the answer of each
handler; what else the handlers do is in the other modules. `torn` records
that a `decode` was dropped after it had read something.

`MC*.tla` and `MC*.cfg` are the instances. **RouterProofs**,
**TopicMatchingProofs**, **BrokerProofs**, **LifecycleProofs**,
**OutboundProofs**, **InboundProofs** and **PersistenceProofs** hold the proofs.

Operators marked "Mutant" are wrong variants of the definition they precede,
used to show that a property is sensitive to it. No specification uses them.

## 3. Runs

Passing:

| run | instance | shows |
|---|---|---|
| router | 2 sessions, 2 valid topics and an invalid one, overlapping filters and an invalid one, mailbox 1, limit 1, any read or write of retained messages may fail | tables agree, routes serve live targets, no retained gap, limit respected by what is stored under its check |
| broker_safety | 2 connected sessions + 1 accepted late, 2 packets | an ended session leaves nothing; shutdown overlooks nobody |
| broker_live | 2 sessions, mailbox 2, 2 packets | calls return and ended sessions are removed while mailboxes have room |
| outbound | a QoS 1 and a QoS 2 message, 2 breaks or restarts, 1 retry, ids 1..2, mailbox 2 | no message disappears unnoticed and each is settled; the stages of both ends agree, and a copy that is sent again is recognised; until the counter wraps, ids are unique and the next one is free |
| inbound | 2 QoS 2 messages (one refused by the ACL) and 1 QoS 1 message, 2 ids, 2 breaks, a clean start, a restart | QoS 2 routed at most once and, when completed, at least once; a QoS 1 message acknowledged and sent once is routed, about to be, or was being authorised when the broker stopped; every exchange completes |
| lifecycle | 2 connections of A, 1 of B, 1 anonymous, command channel 1 | names point to live sessions; clients are never mixed; without a hand-over a client has one session and its will waits for the loss of its connection |
| lifecycle_live | 3 connections of A, command channel 1 | a connection handed over is answered or closed |
| topics | all topics and filters of 1 to 3 levels over 5 and 6 levels | live and retained matching both give the answer of `Covers`, and end |
| persistence | 1 client, the image of another, 1 retained topic, states with up to 4 rows, one with a duplicate packet id | the tables implement Storage; no orphan rows; a promised state is kept unless a named cause lost it; a clean connection is forgotten |
| connection | 7 CONNECTs, 15 later packets, 3 packets to a stream, remaining lengths of 2 bytes in base 5 | without a torn `decode`, packets arrive in order and unchanged, errors have a cause in the packet, answers match their packets, and every packet is handled |

Violations, each a documented promise the code does not keep (details and
quotes under "findings"):

| run | what happens |
|---|---|
| broker_wait_cycle | a route that holds the read lock waits for the mailbox of a session that waits for the lock: both wait for ever, and with them everybody who needs either |
| outbound_exactly_once | a queued retransmission is sent after the QoS 2 exchange is over |

The passing properties say where they stop, and each limit is a behaviour of
the code worth knowing:

- `NothingForgotten` and `EverythingSettles` allow `lost`: a message whose
  first write fails is dropped (`on_message` tracks it only after the write),
  and a restart drops the mailbox and whatever a connected session has in
  flight (state is saved on entry to `do_pending` only).
- `EverythingSettles` allows `hung`: `on_retransmit` sends into the session's
  own bounded mailbox and waits for ever when it is full.
- `NoRetainedGap` is about filters whose SUBACK was written to this session. A
  restored subscription gets no replay: `restore_from_storage`
  (session.rs:1292) drops what `subscribe` returns. A retained message that
  could not be read while the SUBSCRIBE was served is excepted: the SUBACK says
  success all the same (router.rs:180, 206).
- `RetainedBounded` counts the topics stored under the check. `unwrap_or(0)`
  and `matches!(existing, Ok(None))` (router.rs:352, 354) let a message for a
  new topic through when a read fails, and storage may hold more than a lowered
  limit from the start; both are in `unchecked`.
- `IdsUnique` and `NextIdIsFree` are claimed while there are no more
  messages than ids: `next_packet_id` wraps without looking at what is in
  flight.
- `RetryIsRecognised` allows `behind`: `on_takeover` (session.rs:577) leaves the
  image of a pending session in storage, and a save may fail; a restart then
  brings back an exchange that has gone on since, or is over. `on_retransmit`
  sends its PUBLISH again and a subscriber that has finished with the id takes
  it for new.
- `NothingForgotten`, `ReleasedIsDelivered` and `EverythingSettles` allow
  `clashed`: an acknowledgement names an id, so of two messages with one id
  either may go. `NextIdIsFree` says that before the counter wraps this cannot
  come from anything the broker has in flight, in the image or under way. What is
  left is an id that only the subscriber still holds, and that does
  happen. `on_takeover` (session.rs:577) leaves the image of a pending session
  in storage; after a restart `restore_from_storage` brings its old
  `next_packet_id` back and the CONNACK says session_present; the next QoS 2
  message gets an id of an exchange that the broker has forgotten and the
  subscriber has not, is taken for a duplicate, and PUBREC and PUBCOMP remove it
  undelivered. With two QoS 2 messages, ids 1..2 and two breaks or restarts TLC
  finds it as a violation of `NothingForgotten` without the exception. `README.md:94` of the repository says of QoS=2 that "State survives
  server restarts".
- `AckedIsRouted` allows `cut`: `on_publish` writes the PUBACK (session.rs:854)
  before it asks the authoriser and routes (session.rs:932). A crash in between
  loses a message that its publisher will not send again.
- `Continuous` in Inbound: `on_takeover` keeps the image of a pending session
  in storage, so a restart (or a clean takeover that fails) can bring back a
  message that has been routed; a clean takeover keeps `inbound_qos2`; a
  restart of a connected session forgets it.
- Broker's liveness properties end where the serve loop is inside `add_client`
  or `cancel_all_sessions`: it may wait there for the registry mutex, which
  `remove_session` holds while `unsubscribe_all` waits for the router's lock.
- `TakeoverAnswered` allows `cancel_all` for the same reason, with the command
  channels.
- `AckedIsRouted` allows `resent`: `on_publish` (session.rs:861) acknowledges
  a QoS 1 PUBLISH with DUP and never routes it, also when the first copy was
  lost with the connection, while `README.md:56` of the repository calls the
  "At least once" guarantee fully implemented.
- `OneSessionPerClient` allows a session that found its client id taken and
  has ended since: `remove_session` (broker.rs:105) drops the name of whoever is registered, so
  the next CONNECT finds no collision and makes a second session, where
  `docs/arch.md:92` has the registry track named clients for takeover.
- `WillIsDue` allows connections that were handed over: `on_connect`
  (session.rs:517) has stored the will by then and the session that hands over
  publishes it in Cleanup, where `docs/roadmap.md:28` wants it delivered on
  abnormal disconnect.
- `InStep`, `ErrorHasCause`, `AnswersMatch` and `PacketsHandled` end where a
  `decode` was dropped half-way (session.rs:302): the bytes it had read are
  gone and the stream is misread from there on. `docs/arch.md:203` promises a
  streaming decoder for partial packets.
- `StateKept` allows `lost`: a failed load or save, both only logged;
  `restore_from_storage` deletes the image also when loads have failed; a
  CONNACK that fails after the restore ends the session without a save; a
  clean takeover whose CONNACK fails ends a persistent session; a stop of the
  broker, graceful ones included, saves nothing of a connected session.
- After a failed takeover with clean_session = false a session that was clean
  goes to Pending and is saved; the history counts that as a promise.
- `CleanIsForgotten` allows images whose deletion has failed.
- A restored session has the keep-alive of its image, not that of the CONNECT
  that restored it (session.rs:1277; Connection's `keep_alive`).
- `Covers`, and so `AnswerIsCovers`, has `+` not match an empty level, as the
  code and its tests do (router.rs:422). MQTT 3.1.1 lets it match one, and
  `docs/arch.md:164` says "Full MQTT v3.1.1 specification adherence".
- A delete of an image that fails is in Persistence only; in Outbound, Inbound
  and Lifecycle it succeeds.
- ACL rules are compared as strings (`authorize_subscribe` of Access): a rule
  for `a/#` allows the filter `a/#` and no other.

Where a bullet names a history variable that excuses a behaviour, the property
does not catch that behaviour, and "hazards" in `PROJECT.json` lists it with a
note and without the property. This is so for a mailbox or a mutex nobody gives
up, the message of a failed first write, an id in use twice, a first copy that
was lost, a name dropped by another session, a will published too early, a
`decode` that was dropped, and state lost between image and CONNACK.

Bounds. Two sessions suffice for every conflict over lock and mailbox (one
route, one writer); the third of `broker_safety` is the one registered during
shutdown, and its VIEW leaves out the history variables of Router, which no
action reads. A mailbox or command channel of one is full after one entry, which
is the interesting case; where a run is about the absence of that case the
capacity exceeds what the bounded packets can fill. A QoS 1 and a QoS 2 message
with two ids show what an id can be mistaken for, and two breaks or restarts the
case of an image that is saved, resumed and restored when stale; clashes among
several QoS 2 messages and a counter that wraps are covered by the proofs of
Outbound, which hold for every bound. `MaxPackets`, `MaxBreaks`,
`MaxCleans` and `MaxRestarts` bound what the environment does, never what the
broker does. Three levels are enough for every case of `match_parts`: `#` and
`+` before, at and after the end of the topic, and a mismatch after a match.
With `LengthBase` 5 and two length bytes the limit of the remaining-length
field lies at 24 bytes instead of 268,435,455, so packets of one, of two and of
too many length bytes occur; `MaxSent` 3 leaves packets behind one that was
misread. One client that connects is enough for Persistence, as storage calls
do not overlap and share no rows; the second one's image is there to show that
nothing else touches it. Deadlock checking is off because
behaviours end when these bounds are used up.

Fairness. A step a polled future can take alone is weakly fair: the runtime
polls ready futures. Where arms of a `select!` compete, tokio picks a ready one
at random, hence strong fairness for reading the mailbox and the command
channel in Broker and Lifecycle. In Connection the session's steps are weakly
fair together, in TopicMatching the sequential code runs on. Clients are assumed to read what arrives and
to reconnect; nothing is assumed about new packets, breaks or the stop signal.

## 4. Proofs

`RouterProofs` proves, for all constants that satisfy the named assumptions
(finite non-empty `Topics`, capacity at least 1, any limit):

- `TypeCorrect`: `Spec => []TypeOK`.
- `TablesCorrect`: `Spec => []TablesAgree`.
- `RoutingCorrect`: `Spec => []RouteTargetsLive`.
- `RetainedGapFree`: `Spec => []NoRetainedGap`.
- `RetainedWithinLimit`: `Spec => []RetainedBounded`.

`TypeOK` is inductive. `TablesAgree` and `RouteTargetsLive` need that a removed
session is out of every table and runs no call (`RemovedIsOut`), so that
nothing it could do brings it back; a route's targets then stay live because a
writer is granted the lock only when no route holds it. `NoRetainedGap` needs
three facts more: what is acknowledged is in the table (`AckedIsSubscribed`);
for a subscription in the table whose SUBACK is not out, each retained message
is settled, under way or in the replay (`PendingIsCovered`); and the same for the
acknowledged ones (`AckedIsCovered`). The case that makes it interesting is a
message stored by a publisher that still waits for the read lock: it counts as
under way to everybody, and when the lock is granted every subscriber in the
table becomes a target. `RetainedBounded` is inductive with `TypeOK`: a store
that adds a topic under the check found fewer than the limit stored in all, and
what is unchecked only helps. The proofs have one step per action.

`TopicMatchingProofs` proves, for all sets of levels and all topics and filters
over them:

- `WalksStayInStep`: `Spec => []WalksInStep`.
- `MatchingCorrect`: `Spec => []AnswerIsCovers`.

The inductive invariant adds that both strings have passed their checks where
an answer can be given, and that the indices are 1 outside `match_parts`. Each
case of `match_parts` rests on one lemma about sequences (`FilterEnds`,
`TopicEnds`, `HashMeets`, `LevelDiffers`), the shortcuts on `SameCovers` and
`PlainCoversItself`. That `HashMeets` needs the check of the filter, and
`LevelDiffers` does not, shows what `validate_subscribe_filter` is for.
Termination (`Answered`) is liveness and stays with TLC.

`BrokerProofs` proves, for any sets of sessions, connected or accepted later
(`RegistryAssumption`), with Router's assumptions:

- `BrokerUsesRouter`: `BrokerSpec => Spec`. Every step of the broker is a step
  of Router or leaves the router alone, so Router's theorems apply:
- `BrokerKeepsPromises`: `BrokerSpec` implies `TablesAgree`,
  `RouteTargetsLive`, `NoRetainedGap` and `RetainedBounded`.
- `BrokerTypes`: `BrokerSpec => []BrokerTypeOK`.
- `NothingIsLeft`: `BrokerSpec => []ExitedLeavesNothing`.
- `EverybodyIsCancelled`: `BrokerSpec => []CancelReachesAll`.

The last two need that whoever is queued for the router's lock waits in a call
that takes it, and is queued once (`QueueInv`), and, for every state of a
session, what it may have in the registry, the mutex and the tables.

`LifecycleProofs` proves, for any number of connections and clients and any
capacity of the command channels (`LifecycleAssumption`):

- `LifecycleTypes`, `NamesAreLive`, `SessionsServeTheirClient`, `OneSession`
  and `WillsAreDue`: `Spec => []P` for `TypeOK`, `NamedIsLive`,
  `OwnClientOnly`, `OneSessionPerClient` and `WillIsDue`.

The invariant says what a session owns in each phase (`Owns`), that a takeover
aims at a session of its own client (`Aims`), that a channel holds handed-over
connections of that client only (`Queues`), that the name map has every other
session of a client until one that found the id taken has ended
(`Registered`), and that a will somebody holds is due or belongs to the
connection still served (`Served`, `Holds`, `ImagesDue`). An earlier form of
`OneSessionPerClient` excused only sessions that had handed over. Its proof
failed, and TLC then found the counterexample with five connections of one
client, more than the instance has: a session whose target is gone by the time
it wants to hand over ends too, and takes the name of a newer one with it.

`InboundProofs` proves, for any messages, packet ids and bounds
(`InboundAssumption`):

- `InboundTypes`, `ExactlyOnceUpper`, `ExactlyOnceLower`, `IdsAgree` and
  `AckMeansRouted`: `Spec => []P` for `TypeOK`, `AtMostOnce`,
  `CompletedIsRouted`, `HeldIsInFlight` and `AckedIsRouted`.

The argument is that each publication in flight has at most one packet under
way, in one of the two directions, or is still to be sent again; so what a
packet says of its id is still true when it is handled (`Packets`, with
`Flights` and `Links`). While the session has kept its state, what it holds
and what has been routed follow the stage of the publisher (`Exact`), where the
message a handler is about to pass on counts as routed (`Passed`). `Acked` says
the same of QoS 1, restarts included: a PUBACK under way or received stands for
a message that was routed, is being passed on, was cut off by a stop, or was
sent again.

`PersistenceProofs` proves, for any finite set of clients, any topics, any
states (sequences of rows in three tables) and any retained messages
(`OwnersAssumption`, `PersistenceAssumption`):

- `SqliteImplementsStorage`: `Spec => ImplementsStorage`, the refinement of
  Storage.
- `NoOrphanRows`, `PromisesKept`, `CleanForgets`: `Spec => []P` for
  `NoOrphans`, `StateKept` and `CleanIsForgotten`.

`Final(T, q)` is, in closed form, what the statements q make of the tables T;
executing the first statement of q does not change it. For each operation,
`Final` of its statements on `Holding(I, R)` is `Holding` of what the abstract
operation makes of I and R, and reading `Holding(I, R)` yields I and R. So the
invariant can say from the beginning of a transaction what its commit will be
(`Open`): a commit is then one abstract operation and everything else, an
executed statement, a rollback, a crash, changes nothing. `Safe`, `Clear` and
`Promised` say in which phase the promised state is where. The duplicate
packet id that a wrapped counter can produce needs no case of its own: the
conflict only disables `Execute`.

`OutboundProofs` proves, for any messages (infinitely many, if need be), any
number of ids, retries, breaks and restarts and any capacity
(`OutboundAssumption`):

- `TypeCorrect`, `NothingIsForgotten`, `ReleasedWasDelivered`, `IdsAreUnique`
  and `NextIdWasFree`: `Spec => []P` for `TypeOK`, `NothingForgotten`,
  `ReleasedIsDelivered`, `IdsUnique` and `NextIdIsFree`.

The inductive invariant `IInv` has two halves. `Delivery`: an id stands for one
message wherever it occurs, in the queue, in the image, in the mailbox or under
way, or the messages it stands for have clashed; and what is acknowledged, held
by the subscriber or waiting for PUBCOMP has been delivered. One lemma
(`CarriedKeepsDelivery`) covers every action that only carries along what is
there, and one (`NumberedKeepsDelivery`) the numbering in `on_message`.
`Numbering`: as long as the counter does not come round, and some message still
waits for its number, all ids in use are below the counter and the image's ids
below the image's counter, which is never ahead, and both leave room for the
messages to come; so the next id is free. With `AbsentIsEmpty` and a mailbox that
has no new message twice (`Once`), each action is one of four kinds of step
(`StayStep`, `LeaveStep`, `GoneStep`, `BackStep`) or the numbering. The proof
found what the runs had not: an earlier form of `NothingForgotten` did not know
`clashed`, and held on an instance with one QoS 2 message. Its proof failed where
a message is numbered after a `Restore`; TLC then found the counterexample with
two QoS 2 messages that section 3 describes.

Only model-checked: Connection, `RetryIsRecognised` of Outbound, and all liveness and the use of fairness, which
are beyond this prover. What Connection claims is about a stream that is the
concatenation of any number of encoded packets (`FlattenSeq`), each with a
remaining length of as many bytes as it needs (`LengthBytes`, a recursive
function, as the code is a loop). Already that `LengthBytes` satisfies its own
defining equation, and then that a decoder finds the borders of packets, needs
induction over the data, for which the library's theorems take an operator that
the installed provers cannot instantiate.

## 5. Not modelled

- Transport (TCP and TLS wrappers) and the command line: I/O without state of
  their own; the models see connections that break.
- Configuration, and reading the password and ACL files: parsing at start-up;
  the results are constants.
- Conversions of column values in SQLite, which are inverse to each other; a
  value that does not convert back is a load that fails.
- Time: keep-alive, retransmission and expiry come when they like.
- QoS 0 in Outbound and Inbound: it leaves no state in a session.
- TLC sees `decode` on a stream of whole, well-formed packets; what it does
  with a stream that is out of step is modelled but claimed about nowhere.

## 6. Plan

All the state-changing parts of the broker have their module, and the safety
of all but one is proved. What remains is `RetryIsRecognised`, which needs that
an entry waiting for PUBREC has no PUBREL under way and that no message has two
ids, and Connection, for a prover that can do
induction over data: first the equation of `LengthBytes`, then that the fields
of each packet type are read back as they were written, then `InStep` by
induction over the client's packets.

---------------------------- MODULE MCConnection -----------------------------
(***************************************************************************)
(* A remaining length has two bytes of base 5, so that packets of 5 to 24  *)
(* bytes need both and one of 25 is too long; the client ids have at most  *)
(* two bytes and the protocol name is one byte.  The packets have one or   *)
(* two bytes in each string.                                               *)
(***************************************************************************)
EXTENDS Connection

a == 97
b == 98

MCName      == <<77>>
MCPasswords == {<<<<a>>, <<b>>>>}
MCRules     == {[client_id |-> <<a>>, permission |-> "sub", topic_filter |-> <<b>>],
                [client_id |-> <<a>>, permission |-> "pub", topic_filter |-> <<a>>],
                [client_id |-> <<a>>, permission |-> "pubsub", topic_filter |-> <<a, a>>]}
MCInvalid   == {<<a, a>>}

Connect(level, clean, alive, id, will, user, pass) ==
    [type |-> "CONNECT", protocol_name |-> MCName, protocol_level |-> level,
     clean_session |-> clean, keep_alive |-> alive, client_id |-> id,
     will_qos |-> 2 * Len(will), will_retain |-> will # <<>>, will_topic |-> will,
     will_payload |-> will, username |-> user, password |-> pass]

Good == Connect(4, FALSE, 1, <<a>>, <<>>, <<<<a>>>>, <<<<b>>>>)

MCConnects == {Good,
    Connect(4, TRUE, 0, <<>>, <<>>, <<<<a>>>>, <<<<b>>>>),
    Connect(3, TRUE, 0, <<a>>, <<>>, <<>>, <<>>),
    Connect(4, FALSE, 0, <<>>, <<>>, <<>>, <<>>),
    Connect(4, TRUE, 0, <<a, a, a>>, <<>>, <<>>, <<>>),
    Connect(4, TRUE, 0, <<a>>, <<>>, <<<<a>>>>, <<<<NotUtf8>>>>),
    Connect(4, TRUE, 0, <<>>, <<<<b>>>>, <<>>, <<>>)}

Publish(id, qos, retain, dup, payload) ==
    [type |-> "PUBLISH", topic |-> <<a>>, packet_id |-> id, payload |-> payload,
     qos |-> qos, retain |-> retain, dup |-> dup]

Bytes(n) == [i \in 1..n |-> i]

MCPackets == {Connect(4, TRUE, 0, <<>>, <<>>, <<>>, <<>>),
    Publish(<<>>, 0, TRUE, FALSE, <<>>), Publish(<<>>, 0, FALSE, FALSE, Bytes(1)),
    Publish(<<258>>, 1, FALSE, TRUE, Bytes(19)), Publish(<<1>>, 2, FALSE, FALSE, Bytes(20)),
    [type |-> "SUBSCRIBE", packet_id |-> 2,
     topic_filters |-> <<<<<<a>>, 1>>, <<<<b>>, 2>>>>],
    [type |-> "SUBSCRIBE", packet_id |-> 3,
     topic_filters |-> <<<<<<a, a>>, 0>>, <<<<b>>, 0>>>>],
    [type |-> "UNSUBSCRIBE", packet_id |-> 3, topic_filters |-> <<<<a>>, <<b>>>>],
    [type |-> "PUBLISH", topic |-> <<NotUtf8>>, packet_id |-> <<>>, payload |-> <<>>,
     qos |-> 0, retain |-> FALSE, dup |-> FALSE],
    [type |-> "PINGREQ"], [type |-> "DISCONNECT"]}
    \cup {[type |-> t, packet_id |-> 1] : t \in {"PUBACK", "PUBREC", "PUBREL", "PUBCOMP"}}
=============================================================================

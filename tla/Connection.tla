----------------------------- MODULE Connection ------------------------------
(***************************************************************************)
(* One client's connection, byte by byte: how do_waiting and do_processing *)
(* of src/src/session.rs take packets off the stream with Packet::decode,  *)
(* and the packet with which each handler answers.                         *)
(*                                                                         *)
(* decode is one arm of a select!.  When it has to wait for bytes another  *)
(* arm (the mailbox, a timer) may win; the future is dropped then, with    *)
(* the bytes it has read, and a new one starts.  decode waits at any byte, *)
(* depending on how the network cuts the stream, so a byte is a step here. *)
(*                                                                         *)
(* Abstractions.  What handlers do besides answering is the subject of     *)
(* Router, Outbound, Inbound and Persistence.  A takeover hands the stream *)
(* to another session between two packets and answers the same CONNECT:    *)
(* for the connection it is one of the ways to be accepted.                *)
(***************************************************************************)
EXTENDS Access

CONSTANTS
    Connects,       \* the CONNECT packets clients begin with
    Packets,        \* the packets they send later
    InvalidFilters, \* filters validate_subscribe_filter refuses
    MaxLengthBytes, \* bytes of a remaining length (4)
    MaxSent         \* bound: packets a client sends

ASSUME ConnectionAssumption == MaxLengthBytes \in Nat \ {0} /\ MaxSent \in Nat

VARIABLES
    phase,  \* "waiting", "processing" or "closed"
    cause,  \* history: why the connection was closed
    wire,   \* bytes from the client that have not been read
    stage,  \* where decode is: "first", "length", "body" or "fields"
    first, value, multiplier, byte_count, \* its local variables
    body,   \* the bytes of the body, later those the cursor has not passed
    fields, \* the fields to read next
    got,    \* the fields read
    torn,   \* history: a decode was dropped after it had read bytes
    out,    \* bytes the session has written and the client has not read
    sent,   \* external: the packets of the client
    handled,\* history: the packets the session was given
    keep_alive, \* the session's, in seconds
    answers \* external: the frames the client has read

header  == <<first, value, multiplier, byte_count>>
decoder == <<stage, header, body, fields, got>>
client  == <<sent, answers>>
vars    == <<phase, cause, wire, decoder, torn, out, client, handled, keep_alive>>

Init ==
    /\ phase = "waiting" /\ cause = "none" /\ wire = <<>> /\ out = <<>>
    /\ stage = "first" /\ first = 0 /\ value = 0 /\ multiplier = 1 /\ byte_count = 0
    /\ body = <<>> /\ fields = <<>> /\ got = <<>> /\ torn = FALSE
    /\ sent = <<>> /\ handled = <<>> /\ answers = <<>> /\ keep_alive = 0

-----------------------------------------------------------------------------
\* External: a client begins with CONNECT, does not wait for the CONNACK, and
\* ends with DISCONNECT if it ends at all.
ClientSends ==
    /\ phase # "closed" /\ Len(sent) < MaxSent
    /\ sent # <<>> => Last(sent).type # "DISCONNECT"
    /\ \E p \in (IF sent = <<>> THEN Connects ELSE Packets) :
        /\ sent' = Append(sent, p)
        /\ wire' = wire \o encode(p)
    /\ UNCHANGED <<phase, cause, decoder, torn, out, handled, keep_alive, answers>>

\* External: the client takes the next frame off its end of the stream.
Digit(b)     == b % LengthBase
Continues(b) == (b \div LengthBase) % 2 = 1

ClientReads ==
    /\ out # <<>>
    /\ LET last   == CHOOSE k \in 2..Len(out) :
                        ~Continues(out[k]) /\ \A j \in 2..(k - 1) : Continues(out[j])
           length == FoldRight(LAMBDA b, n : Digit(b) + LengthBase * n, SubSeq(out, 2, last), 0)
       IN  /\ Len(out) >= last + length
           /\ answers' = Append(answers, [first |-> out[1], body |-> SubSeq(out, last + 1, last + length)])
           /\ out' = SubSeq(out, last + length + 1, Len(out))
    /\ UNCHANGED <<phase, cause, wire, decoder, torn, sent, handled, keep_alive>>

-----------------------------------------------------------------------------
(***************************************************************************)
(* decode: the first byte, the remaining length, the body, its fields.     *)
(***************************************************************************)
Fresh ==
    /\ stage' = "first" /\ first' = 0 /\ value' = 0 /\ multiplier' = 1 /\ byte_count' = 0
    /\ body' = <<>> /\ fields' = <<>> /\ got' = <<>>

Close(why) ==
    /\ phase' = "closed" /\ cause' = why
    /\ Fresh

Goes == UNCHANGED <<phase, cause>>

Reads(s) ==
    /\ phase # "closed" /\ stage = s /\ wire # <<>>
    /\ wire' = Tail(wire)
    /\ UNCHANGED <<torn, out, client, handled, keep_alive>>

ReadFirst ==
    /\ Reads("first")
    /\ IF KnownType(Head(wire))
       THEN /\ first' = Head(wire) /\ stage' = "length"
            /\ Goes /\ UNCHANGED <<value, multiplier, byte_count, body, fields, got>>
       ELSE Close("error")

\* Mutant: one byte too few is accepted.
LengthIsFullEarly == byte_count + 2 >= MaxLengthBytes

\* byte_count >= 4 in the next round
LengthIsFull == byte_count + 1 >= MaxLengthBytes

\* Mutant: a packet without a body waits for one.
AfterHeaderWaits(n) == "body"

\* read_exact of no bytes does not wait.
AfterHeader(n) == IF n = 0 THEN "fields" ELSE "body"

\* decode_remaining_length_async, one round of its loop
ReadLength ==
    /\ Reads("length")
    /\ LET byte == Head(wire)
           n    == value + Digit(byte) * multiplier
       IN  \/ /\ ~Continues(byte)
              /\ value' = n /\ stage' = AfterHeader(n)
              /\ Goes /\ UNCHANGED <<first, multiplier, byte_count, body, fields, got>>
           \/ /\ Continues(byte) /\ LengthIsFull
              /\ Close("error")
           \/ /\ Continues(byte) /\ ~LengthIsFull
              /\ value' = n
              /\ multiplier' = multiplier * LengthBase /\ byte_count' = byte_count + 1
              /\ Goes /\ UNCHANGED <<first, stage, body, fields, got>>

ReadBody ==
    /\ Reads("body") /\ Len(body) < value
    /\ body' = Append(body, Head(wire))
    /\ stage' = IF Len(body) + 1 = value THEN "fields" ELSE "body"
    /\ Goes /\ UNCHANGED <<header, fields, got>>

\* Another arm of do_processing's select! wins while decode waits for a byte.
OtherArm ==
    /\ phase = "processing" /\ stage # "fields"
    /\ torn' = (torn \/ stage # "first")
    /\ Fresh
    /\ UNCHANGED <<phase, cause, wire, out, client, handled, keep_alive>>

-----------------------------------------------------------------------------
\* The rest of decode does not wait.
Decoding == phase # "closed" /\ stage = "fields"

Quiet == UNCHANGED <<wire, torn, out, client, handled, keep_alive>>

ReadField ==
    /\ Decoding /\ fields # <<>>
    /\ LET f == Head(fields) IN
        \/ /\ Len(body) < Size(f, body)
           /\ Close(AtEnd(f))
        \/ /\ Len(body) >= Size(f, body)
           /\ f = "string" /\ NotUtf8 \in ToSet(Value(f, body))
           /\ Close("error")
        \/ /\ Len(body) >= Size(f, body)
           /\ f = "string" => NotUtf8 \notin ToSet(Value(f, body))
           /\ got' = Append(got, Value(f, body))
           /\ body' = SubSeq(body, Size(f, body) + 1, Len(body))
           /\ fields' = Tail(fields)
           /\ Goes /\ UNCHANGED <<stage, header>>
    /\ Quiet

\* What follows when all fields asked for have been read.
CheckFields ==
    /\ Decoding /\ fields = <<>>
    /\ \/ /\ Invalid(first, got, value)
          /\ Close("error")
       \/ /\ ~Invalid(first, got, value) /\ NextFields(first, got, body) # <<>>
          /\ fields' = NextFields(first, got, body)
          /\ Goes /\ UNCHANGED <<stage, header, body, got>>
    /\ Quiet

-----------------------------------------------------------------------------
(***************************************************************************)
(* What becomes of a packet.                                               *)
(***************************************************************************)
Complete ==
    /\ Decoding /\ fields = <<>> /\ ~Invalid(first, got, value)
    /\ NextFields(first, got, body) = <<>>

Takes(p) ==
    /\ handled' = Append(handled, p)
    /\ UNCHANGED <<wire, torn, client>>

Write(p) == out' = out \o encode(p)

\* on_connect.  An image or a session found by the client id makes it present;
\* restore_from_storage puts the keep_alive of the image in the place of the
\* one in this CONNECT.
OnConnect(p) ==
    /\ phase = "waiting" /\ p.type = "CONNECT" /\ Takes(p)
    /\ LET code == ConnectCode(p) IN
        \/ /\ code # ACCEPTED
           /\ Write([type |-> "CONNACK", session_present |-> FALSE, return_code |-> code])
           /\ Close("refused") /\ UNCHANGED keep_alive
        \/ /\ code = ACCEPTED
           /\ \E present \in BOOLEAN :
               /\ present => p.client_id # <<>> /\ ~p.clean_session
               /\ \/ keep_alive' = p.keep_alive
                  \/ present /\ keep_alive' \in {q.keep_alive : q \in Connects}
               /\ Write([type |-> "CONNACK", session_present |-> present, return_code |-> code])
           /\ phase' = "processing" /\ UNCHANGED cause /\ Fresh

\* do_waiting wants CONNECT and nothing else, on_packet anything else.
WrongPacket(p) ==
    /\ (p.type = "CONNECT") = (phase = "processing") /\ Takes(p)
    /\ Close("refused") /\ UNCHANGED <<out, keep_alive>>

OnDisconnect(p) ==
    /\ phase = "processing" /\ p.type = "DISCONNECT" /\ Takes(p)
    /\ Close("bye") /\ UNCHANGED <<out, keep_alive>>

\* on_subscribe: the router answers for the authorised filters, in order, and
\* its codes are put back to the positions of those filters.
RouterCode(f) == IF f[1] \in InvalidFilters THEN FAILURE
                 ELSE IF f[2] < MAX_SUPPORTED_QOS THEN f[2] ELSE MAX_SUPPORTED_QOS

\* Mutant: the codes of the denied filters come last.
ReturnCodesDeniedLast(client_id, filters) ==
    LET authorized   == SelectSeq(filters, LAMBDA f : authorize_subscribe(client_id, f[1]))
        router_codes == [i \in DOMAIN authorized |-> RouterCode(authorized[i])]
    IN  router_codes \o [i \in 1..(Len(filters) - Len(authorized)) |-> FAILURE]

ReturnCodes(client_id, filters) ==
    LET allowed(i)    == authorize_subscribe(client_id, filters[i][1])
        authorized    == SelectSeq(filters, LAMBDA f : authorize_subscribe(client_id, f[1]))
        router_codes  == [i \in DOMAIN authorized |-> RouterCode(authorized[i])]
        router_idx(i) == Cardinality({j \in 1..i : allowed(j)})
    IN  [i \in DOMAIN filters |-> IF allowed(i) THEN router_codes[router_idx(i)] ELSE FAILURE]

\* The answer of on_publish, on_puback, on_pubrec, on_pubrel, on_pubcomp,
\* on_subscribe, on_unsubscribe and on_pingreq: none or one packet.
Answer(client_id, p) ==
    LET ack(type, id) == <<[type |-> type, packet_id |-> id]>>
    IN  CASE p.type = "PUBLISH" ->
               IF p.qos = 0 THEN <<>>
               ELSE ack(IF p.qos = 1 THEN "PUBACK" ELSE "PUBREC", p.packet_id[1])
          [] p.type \in {"PUBACK", "PUBCOMP"} -> <<>>
          [] p.type = "PUBREC"      -> ack("PUBREL", p.packet_id)
          [] p.type = "PUBREL"      -> ack("PUBCOMP", p.packet_id)
          [] p.type = "SUBSCRIBE"   ->
               <<[type |-> "SUBACK", packet_id |-> p.packet_id,
                  return_codes |-> ReturnCodes(client_id, p.topic_filters)]>>
          [] p.type = "UNSUBSCRIBE" -> ack("UNSUBACK", p.packet_id)
          [] p.type = "PINGREQ"     -> <<[type |-> "PINGRESP"]>>

OnPacket(p) ==
    /\ phase = "processing" /\ p.type \notin {"CONNECT", "DISCONNECT"} /\ Takes(p)
    /\ out' = out \o FlattenSeq([i \in DOMAIN Answer(handled[1].client_id, p) |->
                                    encode(Answer(handled[1].client_id, p)[i])])
    /\ Fresh /\ Goes /\ UNCHANGED keep_alive

Handle ==
    /\ Complete
    /\ \E p \in {Packet(first, got, body)} :
        OnConnect(p) \/ WrongPacket(p) \/ OnDisconnect(p) \/ OnPacket(p)

\* The stream fails while decode waits or a handler writes, or a Cancel comes.
Break ==
    /\ phase # "closed"
    /\ Close("broken")
    /\ Quiet

\* 1.5 times keep_alive have passed since the last packet; 0 is for ever.
KeepAlive ==
    /\ phase = "processing" /\ keep_alive > 0 /\ stage # "fields"
    /\ Close("silent")
    /\ Quiet

Session == ReadFirst \/ ReadLength \/ ReadBody \/ ReadField \/ CheckFields \/ Handle

Next == ClientSends \/ ClientReads \/ Session \/ OtherArm \/ Break \/ KeepAlive

Spec == Init /\ [][Next]_vars

\* The session's future is polled when bytes are there.
FairSpec == Spec /\ WF_vars(Session)

-----------------------------------------------------------------------------
\* The packets the session has not been given, as bytes.
Rest == FlattenSeq([i \in 1..(Len(sent) - Len(handled)) |-> encode(sent[Len(handled) + i])])

\* As long as no decode was dropped half-way, the session is given the
\* client's packets, all of them, in order and unchanged, and between two
\* packets and inside a body the decoder stands exactly where the encoder
\* put the boundary: a length that is wrong by one would shift everything
\* that follows.
InStep ==
    ~torn =>
        /\ IsPrefix(handled, sent)
        /\ phase # "closed" /\ stage = "first" => wire = Rest
        /\ phase # "closed" /\ stage = "body"  =>
            <<first>> \o LengthBytes[value] \o body \o wire = Rest

\* A connection whose stream is in step is closed for a decoding error only
\* when the next packet is too long for the remaining length field or its
\* topic is not UTF-8, and never by a read beyond the end of a body.
ErrorHasCause ==
    ~torn /\ cause \in {"error", "panic"} =>
        /\ cause = "error" /\ Len(handled) < Len(sent)
        /\ LET p     == sent[Len(handled) + 1]
               bytes == Len(encode(p)) - 1
           IN  \/ p.type = "PUBLISH" /\ NotUtf8 \in ToSet(p.topic)
               \/ \E n \in 1..bytes : Len(LengthBytes[n]) > MaxLengthBytes
                                       /\ bytes = Len(LengthBytes[n]) + n

\* The answer the protocol wants to a packet, as a first byte and a body.
Wanted(p) ==
    CASE p.type = "CONNECT"     -> [first |-> 32, id |-> <<>>]
      [] p.type = "PUBLISH"     -> [first |-> IF p.qos = 1 THEN 64 ELSE 80, id |-> p.packet_id]
      [] p.type = "PUBREC"      -> [first |-> 98, id |-> <<p.packet_id>>]
      [] p.type = "PUBREL"      -> [first |-> 112, id |-> <<p.packet_id>>]
      [] p.type = "SUBSCRIBE"   -> [first |-> 144, id |-> <<p.packet_id>>]
      [] p.type = "UNSUBSCRIBE" -> [first |-> 176, id |-> <<p.packet_id>>]
      [] p.type = "PINGREQ"     -> [first |-> 208, id |-> <<>>]

WantsAnswer(p) ==
    p.type \notin {"PUBACK", "PUBCOMP", "DISCONNECT"} /\ ~(p.type = "PUBLISH" /\ p.qos = 0)

\* The client can split the bytes it receives into frames, and the n-th frame
\* answers the n-th packet that wants an answer, under its packet id; in a
\* SUBACK the code at each position is that of the filter at that position,
\* whichever of the others the ACL or the filter check refuses.
AnswersMatch ==
    LET asked == SelectSeq(sent, WantsAnswer) IN
    ~torn => Len(answers) <= Len(asked) /\
        \A n \in DOMAIN answers :
            LET a == answers[n]
                p == asked[n]
            IN  /\ a.first = Wanted(p).first
                /\ Wanted(p).id # <<>> => SubSeq(a.body, 1, 2) = U16(Wanted(p).id[1])
                /\ p.type = "SUBSCRIBE" =>
                    /\ Len(a.body) = 2 + Len(p.topic_filters)
                    /\ \A i \in DOMAIN p.topic_filters :
                        LET f == p.topic_filters[i] IN
                        a.body[2 + i] =
                            IF f[1] \notin InvalidFilters /\ authorize_subscribe(sent[1].client_id, f[1])
                            THEN f[2] ELSE FAILURE

\* Every packet a client has sent is handled, also one whose bytes arrive one
\* at a time, unless the connection is closed or a decode was dropped.
PacketsHandled ==
    \A n \in 1..MaxSent :
        Len(sent) >= n ~> (Len(handled) >= n \/ phase = "closed" \/ torn)
=============================================================================

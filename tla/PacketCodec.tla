----------------------------- MODULE PacketCodec -----------------------------
(***************************************************************************)
(* The MQTT packets of src/src/protocol/packet.rs and their bytes: encode  *)
(* for those the broker writes, the tests' hand-made bytes for those only  *)
(* a client writes, and for decode the fields of each body and the checks  *)
(* between them.  Reading the bytes is the subject of Connection.          *)
(*                                                                         *)
(* Strings and payloads are sequences of bytes; text that is not UTF-8 is  *)
(* text that contains NotUtf8.  An Option is a sequence of length 0 or 1.  *)
(* LengthBase is 128 in the code, and smaller in a run so that a packet of *)
(* a few bytes needs several bytes of remaining length.                    *)
(***************************************************************************)
EXTENDS Naturals, Sequences, SequencesExt

CONSTANTS
    LengthBase, \* values of one byte of a remaining length, without the continuation bit
    NotUtf8     \* a byte that no UTF-8 text contains

ASSUME CodecAssumption == LengthBase \in 2..128 /\ NotUtf8 \in 128..255

-----------------------------------------------------------------------------
U16(n)           == <<(n \div 256) % 256, n % 256>>
encode_string(s) == U16(Len(s)) \o s

\* encode_remaining_length: the low digit first, a bit on all but the last.
LengthBytes[n \in Nat] ==
    IF n < LengthBase THEN <<n>>
    ELSE <<LengthBase + (n % LengthBase)>> \o LengthBytes[n \div LengthBase]

Flag(b) == IF b THEN 1 ELSE 0

TypeCode ==
    [CONNECT |-> 1, CONNACK |-> 2, PUBLISH |-> 3, PUBACK |-> 4, PUBREC |-> 5, PUBREL |-> 6,
     PUBCOMP |-> 7, SUBSCRIBE |-> 8, SUBACK |-> 9, UNSUBSCRIBE |-> 10, UNSUBACK |-> 11,
     PINGREQ |-> 12, PINGRESP |-> 13, DISCONNECT |-> 14]

Acks == {"PUBACK", "PUBREC", "PUBREL", "PUBCOMP", "UNSUBACK"}

Frame(type, flags, length, body) ==
    <<16 * TypeCode[type] + flags>> \o LengthBytes[length] \o body

\* Mutant: the packet id is not counted.
PublishLengthNoId(p) == 2 + Len(p.topic) + Len(p.payload)

PublishLength(p) == 2 + Len(p.topic) + 2 * Len(p.packet_id) + Len(p.payload)

encode_publish(p) ==
    Frame("PUBLISH", 8 * Flag(p.dup) + 2 * p.qos + Flag(p.retain), PublishLength(p),
          encode_string(p.topic) \o (IF p.packet_id = <<>> THEN <<>> ELSE U16(p.packet_id[1]))
          \o p.payload)

\* encode_puback, encode_pubrec, encode_pubrel, encode_pubcomp, encode_unsuback
encode_ack(p) == Frame(p.type, IF p.type = "PUBREL" THEN 2 ELSE 0, 2, U16(p.packet_id))

encode_connack(p) == Frame("CONNACK", 0, 2, <<Flag(p.session_present), p.return_code>>)

encode_suback(p) ==
    Frame("SUBACK", 0, 2 + Len(p.return_codes), U16(p.packet_id) \o p.return_codes)

\* External: a client's encoder, as the tests put these packets together.
ConnectFlags(p) ==
    128 * Len(p.username) + 64 * Len(p.password) + 32 * Flag(p.will_retain)
    + 8 * p.will_qos + 4 * Len(p.will_topic) + 2 * Flag(p.clean_session)

encode_by_client(p) ==
    LET option(o) == FlattenSeq([i \in DOMAIN o |-> encode_string(o[i])])
        body == CASE p.type = "CONNECT" ->
                       encode_string(p.protocol_name) \o <<p.protocol_level, ConnectFlags(p)>>
                       \o U16(p.keep_alive) \o encode_string(p.client_id)
                       \o option(p.will_topic) \o option(p.will_payload)
                       \o option(p.username) \o option(p.password)
                  [] p.type = "SUBSCRIBE" ->
                       U16(p.packet_id) \o FlattenSeq([i \in DOMAIN p.topic_filters |->
                           encode_string(p.topic_filters[i][1]) \o <<p.topic_filters[i][2]>>])
                  [] p.type = "UNSUBSCRIBE" -> U16(p.packet_id) \o option(p.topic_filters)
                  [] p.type = "PINGREQ" -> <<>>
    IN  Frame(p.type, IF p.type \in {"SUBSCRIBE", "UNSUBSCRIBE"} THEN 2 ELSE 0, Len(body), body)

encode(p) ==
    CASE p.type = "PUBLISH"  -> encode_publish(p)
      [] p.type \in Acks     -> encode_ack(p)
      [] p.type = "CONNACK"  -> encode_connack(p)
      [] p.type = "SUBACK"   -> encode_suback(p)
      [] p.type \in {"PINGRESP", "DISCONNECT"} -> Frame(p.type, 0, 0, <<>>)
      [] OTHER -> encode_by_client(p)

-----------------------------------------------------------------------------
(***************************************************************************)
(* The fields of a body.  left is what the cursor has not passed, got the  *)
(* fields read so far.  decode_string and the password check the length    *)
(* and return an error; Buf::get_u8, get_u16 and copy_to_slice, also of    *)
(* the will's payload, panic beyond the end.                               *)
(***************************************************************************)
Field == {"u8", "u16", "string", "password", "payload"}

AtEnd(field) == IF field \in {"string", "password"} THEN "error" ELSE "panic"

Number(left) == 256 * left[1] + left[2]

\* The bytes a field takes.
Size(field, left) ==
    CASE field = "u8"  -> 1
      [] field = "u16" -> 2
      [] OTHER -> 2 + (IF Len(left) < 2 THEN 0 ELSE Number(left))

Value(field, left) ==
    CASE field = "u8"  -> left[1]
      [] field = "u16" -> Number(left)
      [] OTHER -> SubSeq(left, 3, Size(field, left))

\* PacketType::try_from
KnownType(first) == first \div 16 \in 1..14

Type(first)  == CHOOSE t \in DOMAIN TypeCode : TypeCode[t] = first \div 16
Flags(first) == first % 16

Bit(byte, k) == (byte \div 2^k) % 2 = 1

\* The flags of a CONNECT, its third field.
Will(got) == Bit(got[3], 2)
User(got) == Bit(got[3], 7)
Pass(got) == Bit(got[3], 6)
WillQos(got)  == (got[3] \div 8) % 4
Qos(first)    == (first \div 2) % 4

If(condition, fields) == IF condition THEN fields ELSE <<>>

\* decode, decode_connect, decode_publish, decode_subscribe and
\* decode_unsubscribe: the fields to read after got; none at the end.
NextFields(first, got, left) ==
    CASE Type(first) = "CONNECT" ->
           IF got = <<>> THEN <<"string", "u8", "u8", "u16", "string">>
           ELSE If(Len(got) = 5, If(Will(got), <<"string", "payload">>)
                                 \o If(User(got), <<"string">>) \o If(Pass(got), <<"password">>))
      [] Type(first) = "PUBLISH" ->
           IF got = <<>> THEN <<"string">> ELSE If(Len(got) = 1 /\ Qos(first) > 0, <<"u16">>)
      [] Type(first) = "SUBSCRIBE" ->
           IF got = <<>> THEN <<"u16">> ELSE If(left # <<>>, <<"string", "u8">>)
      [] Type(first) = "UNSUBSCRIBE" ->
           IF got = <<>> THEN <<"u16">> ELSE If(left # <<>>, <<"string">>)
      [] Type(first) \in Acks -> If(got = <<>>, <<"u16">>)
      [] OTHER -> <<>>

\* The checks they make between two fields, each of which returns an error.
Invalid(first, got, remaining_length) ==
    CASE Type(first) = "CONNECT" ->
           Len(got) = 5 /\ ((Will(got) /\ WillQos(got) = 3) \/ (Pass(got) /\ ~User(got)))
      [] Type(first) = "PUBLISH"   -> Len(got) = 1 /\ Qos(first) = 3
      [] Type(first) = "SUBSCRIBE" -> Len(got) > 1 /\ Last(got) > 2
      [] Type(first) \in {"PUBACK", "PUBREC", "PUBCOMP"} -> remaining_length # 2
      [] Type(first) = "PUBREL"    -> Flags(first) # 2 \/ remaining_length # 2
      [] OTHER -> Type(first) \notin {"UNSUBSCRIBE", "PINGREQ", "DISCONNECT"}

\* The packet made of the fields, and for PUBLISH of what is left.
Packet(first, got, left) ==
    LET type == Type(first)
        option(given, i) == IF given THEN <<got[i]>> ELSE <<>>
        auth == IF Will(got) THEN 8 ELSE 6
    IN  CASE type = "CONNECT" ->
               [type |-> type, protocol_name |-> got[1], protocol_level |-> got[2],
                clean_session |-> Bit(got[3], 1), keep_alive |-> got[4], client_id |-> got[5],
                will_qos |-> IF Will(got) THEN WillQos(got) ELSE 0, will_retain |-> Bit(got[3], 5),
                will_topic |-> option(Will(got), 6), will_payload |-> option(Will(got), 7),
                username |-> option(User(got), auth), password |-> option(Pass(got), auth + 1)]
          [] type = "PUBLISH" ->
               [type |-> type, topic |-> got[1], packet_id |-> Tail(got), payload |-> left,
                qos |-> Qos(first), retain |-> Bit(first, 0), dup |-> Bit(first, 3)]
          [] type = "SUBSCRIBE" ->
               [type |-> type, packet_id |-> got[1],
                topic_filters |-> [i \in 1..(Len(got) \div 2) |-> <<got[2 * i], got[2 * i + 1]>>]]
          [] type = "UNSUBSCRIBE" ->
               [type |-> type, packet_id |-> got[1], topic_filters |-> Tail(got)]
          [] type \in Acks -> [type |-> type, packet_id |-> got[1]]
          [] OTHER -> [type |-> type]
=============================================================================

---------------------------- MODULE MCPersistence ----------------------------
(***************************************************************************)
(* One client and the image of another.  Its session fills all tables, two *)
(* rows in one, and may hold two in-flight messages under one packet id,   *)
(* which a wrapped counter can produce and the primary key refuses.  A row *)
(* is <<key, data>>.                                                       *)
(***************************************************************************)
EXTENDS Persistence

Rows(s, f, b) == [t \in Children |->
    CASE t = "subscriptions" -> s [] t = "inflight_messages" -> f [] t = "inbound_qos2_messages" -> b]

MCFresh == [next |-> 1, rows |-> Rows(<<>>, <<>>, <<>>)]
Full    == [next |-> 3, rows |-> Rows(<<<<1, "f">>>>, <<<<1, "m1">>, <<2, "m2">>>>, <<<<1, "m3">>>>)]
Wrapped == [next |-> 2, rows |-> Rows(<<>>, <<<<1, "m1">>, <<1, "m2">>>>, <<>>)]
Other   == [next |-> 2, rows |-> Rows(<<<<1, "f">>>>, <<>>, <<<<1, "m4">>>>)]

MCRow == UNION {ToSet(m.rows[t]) : m \in {Full, Wrapped, Other}, t \in Children}

MCStates == [c \in Clients |-> IF c = "c1" THEN {Full, Wrapped} ELSE {Other}]
=============================================================================

---------------------------- MODULE InboundProofs ----------------------------
(***************************************************************************)
(* The exchanges of Inbound, for any messages, packet ids and bounds.      *)
(*                                                                         *)
(* The argument: every publication the client has in flight has at most    *)
(* one packet under way, in one of the two directions, or is still to be   *)
(* sent again.  So what a packet says of its id is still true when it is   *)
(* handled.                                                                *)
(***************************************************************************)
EXTENDS Inbound, SequenceTheorems, TLAPS

InFlight(id) == flight[id] # None

\* How often a message was routed, with the one that a handler has acknowledged
\* and is about to route.
Passed == [m \in Msgs |-> IF m = routing /\ m \notin Refused THEN times[m] + 1 ELSE times[m]]

Routed(m) == Passed[m] >= 1 \/ m \in Refused

OncePerId(q) == \A j, k \in DOMAIN q : q[j].id = q[k].id => j = k

\* What a packet to the broker says is what the client has in flight.
UpFits(p) ==
    /\ InFlight(p.id) /\ p.id \notin resend
    /\ p.type = "PUBLISH" =>
        /\ p.msg = flight[p.id].msg /\ flight[p.id].stage = "publish"
        /\ p.dup /\ p.msg \notin Qos2 => p.msg \in resent
    /\ p.type = "PUBREL" => flight[p.id].stage = "pubrel"

\* A reply answers what the client has in flight; a QoS 1 message that is
\* acknowledged has been passed on, had been sent before, or was cut off.
DownFits(p) ==
    /\ InFlight(p.id) /\ p.id \notin resend
    /\ p.type = "PUBACK" =>
        flight[p.id].msg \notin Qos2 /\ (Routed(flight[p.id].msg) \/ flight[p.id].msg \in cut \cup resent)
    /\ p.type = "PUBREC" => flight[p.id].msg \in Qos2 /\ flight[p.id].stage = "publish"
    /\ p.type = "PUBCOMP" => flight[p.id].stage = "pubrel"

Packets ==
    /\ OncePerId(toBroker) /\ OncePerId(toClient)
    /\ \A p \in Range(toBroker) : UpFits(p)
    /\ \A p \in Range(toClient) : DownFits(p)
    /\ \A p \in Range(toBroker), r \in Range(toClient) : p.id # r.id

\* A message is fresh or in flight under one id.
Flights ==
    /\ \A i \in Ids : InFlight(i) =>
        flight[i].msg \notin fresh /\ (flight[i].stage = "pubrel" => flight[i].msg \in Qos2)
    /\ \A i, j \in Ids : InFlight(i) /\ InFlight(j) /\ flight[i].msg = flight[j].msg => i = j
    /\ \A i \in resend : InFlight(i)

Links ==
    /\ state = "processing" <=> link # "down"
    /\ link # "up" => toClient = <<>>
    /\ link = "down" => toBroker = <<>>

\* What a session that has never lost its state knows of an id: the message is
\* held from its PUBLISH to its PUBREL, and routed from then on.
Knows(i) ==
    /\ inbound_qos2[i] # None =>
        InFlight(i) /\ flight[i].msg = inbound_qos2[i] /\ Passed[inbound_qos2[i]] = 0
    /\ InFlight(i) /\ flight[i].msg \in Qos2 =>
        /\ flight[i].stage = "publish" => Passed[flight[i].msg] = 0
        /\ flight[i].stage = "pubrel" => inbound_qos2[i] = flight[i].msg \/ Routed(flight[i].msg)

Replied(p) ==
    /\ p.type = "PUBREC" => inbound_qos2[p.id] = flight[p.id].msg
    /\ p.type = "PUBCOMP" => inbound_qos2[p.id] = None

Exact ==
    /\ ~clean /\ state # "absent"
    /\ \A i \in Ids : Knows(i)
    /\ \A p \in Range(toClient) : Replied(p)
    /\ \A m \in fresh : Passed[m] = 0
    /\ \A m \in Qos2 : Passed[m] <= 1
    /\ \A m \in Qos2 \cap done : Routed(m)

Acked ==
    \A m \in (Msgs \ Qos2) \ Refused : m \in done => Passed[m] >= 1 \/ m \in cut \cup resent

Inv == TypeOK /\ Packets /\ Flights /\ Links /\ Acked /\ (Continuous => Exact)

-----------------------------------------------------------------------------
(***************************************************************************)
(* Channels as sets of packets.                                            *)
(***************************************************************************)
LEMMA PacketFacts ==
    /\ \A p \in Up : /\ p.id \in Ids /\ p.type \in {"PUBLISH", "PUBREL"}
                     /\ p.type = "PUBLISH" => p.msg \in Msgs /\ p.dup \in BOOLEAN
    /\ \A p \in Down : p.id \in Ids /\ p.type \in {"PUBACK", "PUBREC", "PUBCOMP"}
    /\ \A f \in Flight : f.msg \in Msgs /\ f.stage \in {"publish", "pubrel"} /\ f # None
BY InboundAssumption DEF Up, Down, Flight

LEMMA RangeFacts ==
    ASSUME NEW S, NEW q \in Seq(S)
    PROVE  Range(q) \subseteq S /\ (q = <<>> => Range(q) = {} /\ OncePerId(q))
BY EmptySeq DEF Range, OncePerId

\* The first packet is taken: the others have other ids.
LEMMA TakeFacts ==
    ASSUME NEW S, NEW q \in Seq(S), q # <<>>, OncePerId(q)
    PROVE  /\ Head(q) \in Range(q) /\ Tail(q) \in Seq(S) /\ OncePerId(Tail(q))
           /\ Range(Tail(q)) \subseteq Range(q)
           /\ \A x \in Range(Tail(q)) : x.id # Head(q).id
<1>1. Len(q) \in Nat \ {0} /\ DOMAIN q = 1..Len(q) /\ Head(q) = q[1]
  BY EmptySeq
<1>2. Tail(q) \in Seq(S) /\ Len(Tail(q)) = Len(q) - 1 /\ DOMAIN Tail(q) = 1..(Len(q) - 1)
      /\ \A k \in 1..(Len(q) - 1) : Tail(q)[k] = q[k + 1]
  BY <1>1, HeadTailProperties
<1>3. \A k \in 1..(Len(q) - 1) : k + 1 \in DOMAIN q /\ k + 1 # 1
  BY <1>1
<1>4. Head(q) \in Range(q)
  BY <1>1 DEF Range
<1>5. OncePerId(Tail(q))
  <2> SUFFICES ASSUME NEW j \in 1..(Len(q) - 1), NEW k \in 1..(Len(q) - 1), Tail(q)[j].id = Tail(q)[k].id
               PROVE  j = k
    BY <1>2 DEF OncePerId
  <2>1. j + 1 = k + 1
    BY <1>2, <1>3 DEF OncePerId
  <2> QED BY <2>1
<1>6. ASSUME NEW x \in Range(Tail(q)) PROVE x \in Range(q) /\ x.id # Head(q).id
  <2>1. PICK k \in 1..(Len(q) - 1) : x = Tail(q)[k]
    BY <1>2 DEF Range
  <2>2. x = q[k + 1] /\ k + 1 \in DOMAIN q /\ k + 1 # 1 /\ 1 \in DOMAIN q
    BY <1>1, <1>2, <1>3, <2>1
  <2> QED BY <1>1, <2>2 DEF OncePerId, Range
<1> QED BY <1>2, <1>4, <1>5, <1>6

\* A packet with another id than those under way is added.
LEMMA AddFacts ==
    ASSUME NEW S, NEW q \in Seq(S), NEW x \in S
    PROVE  /\ Append(q, x) \in Seq(S) /\ Range(Append(q, x)) = Range(q) \cup {x}
           /\ OncePerId(q) /\ (\A y \in Range(q) : y.id # x.id) => OncePerId(Append(q, x))
<1> DEFINE n == Len(q)
           r == Append(q, x)
<1>1. n \in Nat /\ DOMAIN q = 1..n
  OBVIOUS
<1>2. r \in Seq(S) /\ DOMAIN r = 1..(n + 1) /\ r[n + 1] = x /\ \A k \in 1..n : r[k] = q[k]
  BY AppendProperties
<1>3. \A k \in 1..(n + 1) : k \in 1..n \/ k = n + 1
  BY <1>1
<1>4. Range(r) = Range(q) \cup {x}
  <2>1. ASSUME NEW y \in Range(r) PROVE y \in Range(q) \cup {x}
    BY <1>1, <1>2, <1>3 DEF Range
  <2>2. ASSUME NEW y \in Range(q) PROVE y \in Range(r)
    BY <1>1, <1>2 DEF Range
  <2>3. x \in Range(r)
    BY <1>1, <1>2 DEF Range
  <2> QED BY <2>1, <2>2, <2>3
<1>5. ASSUME OncePerId(q), \A y \in Range(q) : y.id # x.id PROVE OncePerId(r)
  <2>1. \A k \in 1..n : r[k].id # r[n + 1].id
    BY <1>1, <1>2, <1>5 DEF Range
  <2> QED BY <1>1, <1>2, <1>3, <1>5, <2>1 DEF OncePerId
<1> QED BY <1>2, <1>4, <1>5

LEMMA CutFacts ==
    ASSUME NEW S, NEW q \in Seq(S), OncePerId(q), NEW n \in 0..Len(q)
    PROVE  LET r == SubSeq(q, 1, n) IN
           r \in Seq(S) /\ OncePerId(r) /\ Range(r) \subseteq Range(q)
<1> DEFINE r == SubSeq(q, 1, n)
<1>1. r \in Seq(S) /\ Len(r) = n /\ \A k \in 1..n : r[k] = q[k]
  BY SubSeqProperties
<1>2. DOMAIN r = 1..n /\ 1..n \subseteq DOMAIN q
  BY <1>1
<1> QED BY <1>1, <1>2 DEF OncePerId, Range

-----------------------------------------------------------------------------
LEMMA BoundFacts == MaxBreaks \in Nat /\ MaxCleans \in Nat /\ MaxRestarts \in Nat
BY InboundAssumption

LEMMA EmptyChannels == <<>> \in Seq(Up) /\ <<>> \in Seq(Down) /\ Range(<<>>) = {} /\ OncePerId(<<>>)
BY DEF Range, OncePerId

LEMMA NobodyType == Nobody \in [Ids -> Qos2 \cup {None}] /\ Nobody \in [Ids -> Flight \cup {None}]
BY DEF Nobody

LEMMA InitInv == Init => Inv
<1> SUFFICES ASSUME Init PROVE Inv
  OBVIOUS
<1>1. TypeOK
  <2>1. times \in [Msgs -> Nat] /\ breaks \in 0..MaxBreaks /\ cleans \in 0..MaxCleans /\ restarts \in 0..MaxRestarts
    BY BoundFacts DEF Init
  <2>2. toBroker \in Seq(Up) /\ toClient \in Seq(Down)
    BY EmptyChannels DEF Init
  <2> QED BY <2>1, <2>2, NobodyType DEF Init, TypeOK
<1>2. Range(toBroker) = {} /\ Range(toClient) = {} /\ OncePerId(toBroker) /\ OncePerId(toClient)
  BY <1>1, RangeFacts DEF Init, TypeOK
<1>3. \A i \in Ids : ~InFlight(i) /\ inbound_qos2[i] = None
  BY DEF Init, Nobody, InFlight
<1>4. Packets /\ Flights /\ Links /\ Acked
  BY <1>2, <1>3 DEF Init, Packets, Flights, Links, Acked
<1>5. \A m \in Msgs : Passed[m] = 0
  BY InboundAssumption DEF Init, Passed
<1>6. Exact
  BY <1>1, <1>2, <1>3, <1>5, InboundAssumption DEF Init, Exact, Knows
<1> QED BY <1>1, <1>4, <1>6 DEF Inv

\* The client and what was routed stay as they are, and packets are lost.
LEMMA LossKeeps ==
    ASSUME Inv, TypeOK', Links', toClient' = <<>>,
           OncePerId(toBroker'), Range(toBroker') \subseteq Range(toBroker),
           UNCHANGED <<flight, fresh, done, Passed, cut, resent>>,
           toBroker' = <<>> \/ resend' = resend, \A i \in resend' : InFlight(i),
           Continuous' => Continuous /\ ~clean' /\ state' # "absent",
           Continuous' => \A i \in Ids : inbound_qos2'[i] # inbound_qos2[i] =>
                            InFlight(i) /\ inbound_qos2'[i] = flight[i].msg
                            /\ flight[i].msg \in Qos2 /\ flight[i].stage = "publish"
    PROVE  Inv'
<1>1. Range(toClient') = {} /\ OncePerId(toClient')
  BY RangeFacts DEF TypeOK
<1>2. \A i : InFlight(i)' <=> InFlight(i)
  BY DEF InFlight
<1>3. Packets'
  <2>1. CASE toBroker' = <<>>
    BY <1>1, <2>1, RangeFacts DEF TypeOK, Packets
  <2>2. CASE resend' = resend
    BY <1>1, <1>2, <2>2 DEF Inv, Packets, UpFits
  <2> QED BY <2>1, <2>2
<1>4. Flights' /\ Acked'
  BY <1>2 DEF Inv, Flights, Acked
<1>5. Continuous' => Exact'
  <2> SUFFICES ASSUME Continuous' PROVE Exact'
    OBVIOUS
  <2>1. Exact
    BY DEF Inv
  <2>2. ASSUME NEW i \in Ids PROVE Knows(i)'
    BY <1>2, <2>1 DEF Exact, Knows, Routed
  <2> QED BY <1>1, <2>1, <2>2 DEF Exact, Routed
<1> QED BY <1>3, <1>4, <1>5 DEF Inv

\* The client forgets what it had in flight.
LEMMA StartOverKeeps ==
    ASSUME Inv, TypeOK', Links', toClient' = <<>>, toBroker' = <<>>,
           StartsOver, UNCHANGED <<Passed, cut>>, ~Continuous'
    PROVE  Inv'
<1>1. Range(toClient') = {} /\ OncePerId(toClient') /\ Range(toBroker') = {} /\ OncePerId(toBroker')
  BY RangeFacts DEF TypeOK
<1>2. \A i \in Ids : ~InFlight(i)'
  BY DEF StartsOver, Nobody, InFlight
<1>3. Packets' /\ Flights' /\ Acked'
  BY <1>1, <1>2 DEF Inv, Packets, Flights, Acked, StartsOver
<1> QED BY <1>3 DEF Inv

-----------------------------------------------------------------------------
(***************************************************************************)
(* Lost connections, takeovers and restarts.                               *)
(***************************************************************************)
\* What Leave does to the types and the link.
LEMMA LeaveFacts ==
    ASSUME TypeOK, NEW q \in [Ids -> Qos2 \cup {None}], NEW ends \in BOOLEAN, Leave(q, ends)
    PROVE  /\ Links' /\ toClient' = <<>> /\ toBroker' = <<>> /\ link' = "down"
           /\ state' \in {"pending", "absent"} /\ (~ends => state' = "pending" /\ inbound_qos2' = q)
           /\ inbound_qos2' \in [Ids -> Qos2 \cup {None}]
           /\ stored' \in [Ids -> Qos2 \cup {None}] \cup {None}
BY NobodyType DEF TypeOK, Leave, Cut, Links

LEMMA KeepFacts ==
    ASSUME Inv, NEW p \in Range(toBroker), p.type = "PUBLISH", p.msg \in Qos2
    PROVE  /\ Keep(p) \in [Ids -> Qos2 \cup {None}]
           /\ Keep(p)[p.id] # None /\ \A i \in Ids \ {p.id} : Keep(p)[i] = inbound_qos2[i]
           /\ inbound_qos2[p.id] # None => Keep(p) = inbound_qos2
           /\ inbound_qos2[p.id] = None => Keep(p)[p.id] = p.msg
<1>1. p.id \in Ids
  BY RangeFacts, PacketFacts DEF Inv, TypeOK
<1> QED BY <1>1, InboundAssumption DEF Inv, TypeOK, Keep

LEMMA ReplyFailsKeeps ==
    ASSUME Inv, ReplyFails
    PROVE  Inv'
<1> DEFINE p == Head(toBroker)
           q == IF p.type = "PUBLISH" /\ p.msg \in Qos2 THEN Keep(p) ELSE inbound_qos2
<1>1. TypeOK /\ p \in Range(toBroker) /\ UpFits(p) /\ p.id \in Ids
  BY TakeFacts, RangeFacts, PacketFacts DEF Inv, TypeOK, Packets, ReplyFails
<1>2. q \in [Ids -> Qos2 \cup {None}]
  BY <1>1, KeepFacts DEF TypeOK
<1>3. Leave(q, clean) /\ UNCHANGED <<clean, routing, client, history, bounds>> /\ clean \in BOOLEAN
  BY <1>1 DEF ReplyFails, TypeOK
<1>4. TypeOK' /\ Links'
  BY <1>1, <1>2, <1>3, LeaveFacts, EmptyChannels DEF TypeOK, client, history, bounds
<1>5. Continuous' => Continuous /\ ~clean' /\ state' # "absent" /\ inbound_qos2' = q
  BY <1>1, <1>2, <1>3, LeaveFacts DEF Inv, Exact, Continuous, bounds
<1>6. ASSUME NEW i \in Ids, q[i] # inbound_qos2[i]
      PROVE  InFlight(i) /\ q[i] = flight[i].msg /\ flight[i].msg \in Qos2 /\ flight[i].stage = "publish"
  <2>1. p.type = "PUBLISH" /\ p.msg \in Qos2 /\ q = Keep(p)
    BY <1>6
  <2>2. i = p.id /\ inbound_qos2[p.id] = None
    BY <1>1, <1>6, <2>1, KeepFacts
  <2>3. q[i] = p.msg
    BY <1>1, <2>1, <2>2, KeepFacts
  <2> QED BY <1>1, <2>1, <2>2, <2>3 DEF UpFits
<1> HIDE DEF q, p
<1>7. Continuous' => \A i \in Ids : inbound_qos2'[i] # inbound_qos2[i] =>
        InFlight(i) /\ inbound_qos2'[i] = flight[i].msg /\ flight[i].msg \in Qos2 /\ flight[i].stage = "publish"
  BY <1>5, <1>6
<1>8. toClient' = <<>> /\ toBroker' = <<>> /\ UNCHANGED <<flight, resend, fresh, done, Passed, cut, resent>>
  BY <1>2, <1>3, <1>1, LeaveFacts DEF client, history, Passed
<1>9. OncePerId(toBroker') /\ Range(toBroker') \subseteq Range(toBroker) /\ \A i \in resend' : InFlight(i)
  BY <1>8, EmptyChannels DEF Inv, Flights
<1> QED BY <1>4, <1>5, <1>7, <1>8, <1>9, LossKeeps

\* The session keeps what it holds, loses its connection and the packets on it.
LEMMA DropKeeps ==
    ASSUME Inv, TypeOK', Links', toClient' = <<>>, toBroker' = <<>>,
           UNCHANGED <<flight, fresh, done, Passed, cut, resent>>, \A i \in resend' : InFlight(i),
           Continuous' => Continuous /\ ~clean' /\ state' # "absent" /\ UNCHANGED inbound_qos2
    PROVE  Inv'
<1>1. OncePerId(toBroker') /\ Range(toBroker') \subseteq Range(toBroker)
  BY EmptyChannels
<1> QED BY <1>1, LossKeeps

LEMMA NoticeKeeps ==
    ASSUME Inv, Notice
    PROVE  Inv'
<1>1. TypeOK /\ Leave(inbound_qos2, clean) /\ clean \in BOOLEAN /\ inbound_qos2 \in [Ids -> Qos2 \cup {None}]
  BY DEF Inv, TypeOK, Notice
<1>2. UNCHANGED <<clean, flight, resend, fresh, done, Passed, times, routing, cut, abandoned, resent, breaks, cleans, restarts>>
  BY DEF Notice, client, history, bounds, Passed
<1>3. TypeOK' /\ Links' /\ toClient' = <<>> /\ toBroker' = <<>>
  BY <1>1, <1>2, LeaveFacts, EmptyChannels DEF TypeOK
<1>4. Continuous' => Continuous /\ ~clean' /\ state' # "absent" /\ UNCHANGED inbound_qos2
  BY <1>1, <1>2, LeaveFacts DEF Inv, Exact, Continuous
<1>5. \A i \in resend' : InFlight(i)
  BY <1>2 DEF Inv, Flights
<1> QED BY <1>2, <1>3, <1>4, <1>5, DropKeeps

LEMMA BreakKeeps ==
    ASSUME Inv, Break
    PROVE  Inv'
<1>1. PICK n \in 0..Len(toBroker) : toBroker' = SubSeq(toBroker, 1, n)
  BY DEF Break
<1>2. toBroker' \in Seq(Up) /\ OncePerId(toBroker') /\ Range(toBroker') \subseteq Range(toBroker)
  BY <1>1, CutFacts DEF Inv, TypeOK, Packets
<1>3. /\ link = "up" /\ link' = "broken" /\ toClient' = <<>> /\ breaks < MaxBreaks /\ breaks' = breaks + 1
      /\ UNCHANGED <<state, clean, inbound_qos2, stored, flight, resend, fresh, done, Passed, times, routing, cut, abandoned,
                     resent, cleans, restarts>>
  BY DEF Break, session, client, history, Passed
<1>4. TypeOK'
  BY <1>2, <1>3, BoundFacts, EmptyChannels DEF Inv, TypeOK
<1>5. Links' /\ (Continuous' => Continuous /\ ~clean' /\ state' # "absent") /\ \A i \in resend' : InFlight(i)
  BY <1>3 DEF Inv, Links, Continuous, Exact, Flights
<1> QED BY <1>2, <1>3, <1>4, <1>5, LossKeeps

\* The client comes back to its session, or to a new one.
LEMMA ReturnsKeeps ==
    ASSUME Inv, TypeOK', Links', toClient' = <<>>, toBroker' = <<>>, Returns, UNCHANGED <<Passed, cut>>,
           Continuous' => Continuous /\ ~clean' /\ state' # "absent" /\ UNCHANGED inbound_qos2
    PROVE  Inv'
<1>1. CASE clean
  <2>1. ~Continuous' /\ StartsOver
    BY <1>1 DEF Inv, Exact, Returns
  <2> QED BY <2>1, StartOverKeeps
<1>2. CASE ~clean
  <2>1. resend' = {i \in Ids : flight[i] # None} /\ UNCHANGED <<flight, fresh, done, resent>>
    BY <1>2 DEF Returns
  <2>2. \A i \in resend' : InFlight(i)
    BY <2>1 DEF InFlight
  <2> QED BY <2>1, <2>2, DropKeeps
<1> QED BY <1>1, <1>2

LEMMA ReturnsType ==
    ASSUME TypeOK, Returns \/ StartsOver
    PROVE  /\ flight' \in [Ids -> Flight \cup {None}] /\ resend' \subseteq Ids
           /\ UNCHANGED <<fresh, done, resent>> /\ abandoned' \subseteq Msgs
<1>1. CASE StartsOver
  <2>1. \A i \in Ids : flight[i] # None => flight[i].msg \in Msgs
    BY PacketFacts DEF TypeOK
  <2> QED BY <1>1, <2>1, NobodyType DEF TypeOK, StartsOver
<1>2. CASE resend' = {i \in Ids : flight[i] # None} /\ UNCHANGED <<flight, fresh, done, abandoned, resent>>
  BY <1>2 DEF TypeOK
<1> QED BY <1>1, <1>2 DEF Returns

LEMMA ResumeKeeps ==
    ASSUME Inv, Resume
    PROVE  Inv'
<1>1. /\ TypeOK /\ Returns /\ state' = "processing" /\ clean' = FALSE /\ link' = "up"
      /\ toClient' = <<>> /\ toBroker' = <<>> /\ UNCHANGED <<inbound_qos2, stored, Passed, times, routing, cut, cleans, restarts>>
      /\ breaks' = breaks \/ (breaks < MaxBreaks /\ breaks' = breaks + 1)
  BY DEF Inv, Resume, Cut, Passed
<1>2. breaks' \in 0..MaxBreaks
  BY <1>1, BoundFacts DEF TypeOK
<1>3. TypeOK'
  BY <1>1, <1>2, ReturnsType, EmptyChannels DEF TypeOK
<1>4. Links' /\ (Continuous' => Continuous /\ ~clean' /\ state' # "absent" /\ UNCHANGED inbound_qos2)
  BY <1>1 DEF Links, Continuous
<1> QED BY <1>1, <1>3, <1>4, ReturnsKeeps

LEMMA RestoreKeeps ==
    ASSUME Inv, Restore
    PROVE  Inv'
<1>1. /\ TypeOK /\ state = "absent" /\ state' = "processing" /\ clean' = FALSE /\ link' = "up"
      /\ Returns /\ inbound_qos2' = IF stored = None THEN Nobody ELSE stored
      /\ stored' = None /\ UNCHANGED <<toBroker, toClient, Passed, times, routing, cut, breaks, cleans, restarts>>
  BY DEF Inv, Restore, bounds, Passed
<1>2. toClient' = <<>> /\ toBroker' = <<>>
  BY <1>1 DEF Inv, Links
<1>3. inbound_qos2' \in [Ids -> Qos2 \cup {None}]
  BY <1>1, NobodyType DEF TypeOK
<1>4. TypeOK'
  BY <1>1, <1>2, <1>3, ReturnsType, EmptyChannels DEF TypeOK
<1>5. Links' /\ ~Continuous'
  BY <1>1, <1>2 DEF Inv, Links, Continuous, Exact
<1> QED BY <1>1, <1>2, <1>4, <1>5, ReturnsKeeps

LEMMA RestoreFailsKeeps ==
    ASSUME Inv, RestoreFails
    PROVE  Inv'
<1>1. /\ state = "absent" /\ stored' = None
      /\ UNCHANGED <<state, clean, inbound_qos2, link, toBroker, toClient, flight, resend, fresh, done,
                     Passed, times, routing, cut, abandoned, resent, breaks, cleans, restarts>>
  BY DEF RestoreFails, session, client, history, bounds, Passed
<1>2. TypeOK' /\ Links' /\ toClient' = <<>> /\ toBroker' = <<>>
  BY <1>1 DEF Inv, TypeOK, Links
<1>3. ~Continuous' /\ \A i \in resend' : InFlight(i)
  BY <1>1 DEF Inv, Continuous, Exact, Flights
<1> QED BY <1>1, <1>2, <1>3, DropKeeps

LEMMA RestartKeeps ==
    ASSUME Inv, Restart
    PROVE  Inv'
<1>1. /\ state' = "absent" /\ link' = "down" /\ inbound_qos2' = Nobody /\ toClient' = <<>> /\ toBroker' = <<>>
      /\ restarts < MaxRestarts /\ restarts' = restarts + 1
      /\ routing' = None /\ cut' = cut \cup ({routing} \ {None})
      /\ UNCHANGED <<clean, stored, flight, resend, fresh, done, times, abandoned, resent, breaks, cleans>>
  BY DEF Restart, Cut, client
<1>2. restarts' \in 0..MaxRestarts /\ restarts' # 0
  BY <1>1, BoundFacts DEF Inv, TypeOK
<1>3. TypeOK'
  BY <1>1, <1>2, NobodyType, EmptyChannels DEF Inv, TypeOK
<1>4. Links' /\ ~Continuous'
  BY <1>1, <1>2 DEF Inv, Links, Continuous
<1>5. Packets' /\ Flights'
  BY <1>1, EmptyChannels DEF Inv, Packets, Flights, InFlight
<1>6. Acked'
  <2> SUFFICES ASSUME NEW m \in (Msgs \ Qos2) \ Refused, m \in done
               PROVE  Passed'[m] >= 1 \/ m \in cut' \cup resent
    BY <1>1 DEF Acked
  <2>1. Passed[m] >= 1 \/ m \in cut \cup resent
    BY DEF Inv, Acked
  <2>2. Passed'[m] = times[m]
    BY <1>1, InboundAssumption DEF Passed
  <2>3. m = routing \/ Passed[m] = times[m]
    BY DEF Passed
  <2> QED BY <1>1, <2>1, <2>2, <2>3, InboundAssumption
<1> QED BY <1>3, <1>4, <1>5, <1>6 DEF Inv

\* A clean start: the client starts over, whatever becomes of the session.
LEMMA CleanFacts ==
    ASSUME TypeOK, cleans < MaxCleans, cleans' = cleans + 1
    PROVE  cleans' \in 0..MaxCleans /\ ~Continuous'
BY BoundFacts DEF TypeOK, Continuous

LEMMA StartCleanKeeps ==
    ASSUME Inv, StartClean
    PROVE  Inv'
<1>1. /\ TypeOK /\ state' = "processing" /\ clean' = TRUE /\ link' = "up" /\ stored' = None
      /\ toClient' = <<>> /\ toBroker' = <<>> /\ cleans < MaxCleans /\ cleans' = cleans + 1
      /\ StartsOver /\ UNCHANGED <<inbound_qos2, Passed, times, routing, cut, breaks, restarts>>
  BY DEF Inv, StartClean, Cut, Passed
<1>2. TypeOK' /\ Links'
  BY <1>1, CleanFacts, ReturnsType, EmptyChannels DEF TypeOK, Links
<1> QED BY <1>1, <1>2, CleanFacts, StartOverKeeps

LEMMA ConnectCleanKeeps ==
    ASSUME Inv, ConnectClean
    PROVE  Inv'
<1>1. /\ TypeOK /\ state = "absent" /\ state' = "processing" /\ clean' = TRUE /\ link' = "up" /\ stored' = None
      /\ cleans < MaxCleans /\ cleans' = cleans + 1
      /\ StartsOver /\ UNCHANGED <<inbound_qos2, toBroker, toClient, Passed, times, routing, cut, breaks, restarts>>
  BY DEF Inv, ConnectClean, Passed
<1>2. toClient' = <<>> /\ toBroker' = <<>>
  BY <1>1 DEF Inv, Links
<1>3. TypeOK' /\ Links'
  BY <1>1, <1>2, CleanFacts, ReturnsType, EmptyChannels DEF TypeOK, Links
<1> QED BY <1>1, <1>2, <1>3, CleanFacts, StartOverKeeps

LEMMA TakeoverFailsKeeps ==
    ASSUME Inv, NEW c \in BOOLEAN, TakeoverFails(c)
    PROVE  Inv'
<1>0. TypeOK /\ inbound_qos2 \in [Ids -> Qos2 \cup {None}]
  BY DEF Inv, TypeOK
<1>1. PICK ends \in BOOLEAN : Leave(inbound_qos2, ends) /\ (ends => c)
  BY DEF TakeoverFails
<1>2. UNCHANGED <<clean, Passed, times, routing, cut, restarts>>
  BY DEF TakeoverFails, Passed
<1>3. CASE cleans < MaxCleans /\ cleans' = cleans + 1 /\ StartsOver /\ UNCHANGED breaks
  <2>1. TypeOK' /\ Links' /\ toClient' = <<>> /\ toBroker' = <<>>
    BY <1>0, <1>1, <1>2, <1>3, LeaveFacts, CleanFacts, ReturnsType, EmptyChannels DEF TypeOK
  <2> QED BY <1>0, <1>2, <1>3, <2>1, CleanFacts, StartOverKeeps
<1>4. CASE ~c /\ breaks < MaxBreaks /\ breaks' = breaks + 1 /\ UNCHANGED <<client, abandoned, resent, cleans>>
  <2>1. breaks' \in 0..MaxBreaks /\ UNCHANGED <<flight, resend, fresh, done>> /\ ~ends
    BY <1>0, <1>1, <1>4, BoundFacts DEF TypeOK, client
  <2>2. TypeOK' /\ Links' /\ toClient' = <<>> /\ toBroker' = <<>>
    BY <1>0, <1>1, <1>2, <1>4, <2>1, LeaveFacts, EmptyChannels DEF TypeOK
  <2>3. Continuous' => Continuous /\ ~clean' /\ state' # "absent" /\ UNCHANGED inbound_qos2
    BY <1>0, <1>1, <1>2, <1>4, <2>1, LeaveFacts DEF Inv, Continuous, Exact
  <2>4. \A i \in resend' : InFlight(i)
    BY <2>1 DEF Inv, Flights
  <2> QED BY <1>2, <1>4, <2>1, <2>2, <2>3, <2>4, DropKeeps
<1> QED BY <1>3, <1>4 DEF TakeoverFails

-----------------------------------------------------------------------------
(***************************************************************************)
(* The handlers.                                                           *)
(***************************************************************************)
\* The packet that is handled, and the channels afterwards.
LEMMA ServeFacts ==
    ASSUME Inv, NEW t, Serving(t), toBroker' = Tail(toBroker),
           NEW r \in {"PUBACK", "PUBREC", "PUBCOMP"}, Write(r, Head(toBroker).id)
    PROVE  LET p   == Head(toBroker)
               ack == [type |-> r, id |-> p.id]
           IN  /\ p \in Up /\ p \in Range(toBroker) /\ UpFits(p) /\ p.type = t /\ p.id \in Ids
               /\ InFlight(p.id) /\ flight[p.id] \in Flight
               /\ toBroker' \in Seq(Up) /\ toClient' \in Seq(Down)
               /\ OncePerId(toBroker') /\ OncePerId(toClient')
               /\ Range(toBroker') \subseteq Range(toBroker)
               /\ \A x \in Range(toBroker') : x.id # p.id
               /\ \A x \in Range(toClient) : x.id # p.id
               /\ Range(toClient') \subseteq Range(toClient) \cup {ack}
               /\ link = "up" \/ UNCHANGED toClient
               /\ ack.type = r /\ ack.id = p.id
<1> DEFINE p   == Head(toBroker)
           ack == [type |-> r, id |-> p.id]
<1>1. toBroker \in Seq(Up) /\ toClient \in Seq(Down) /\ toBroker # <<>> /\ p.type = t
      /\ OncePerId(toBroker) /\ OncePerId(toClient)
  BY DEF Inv, TypeOK, Packets, Serving
<1>2. /\ p \in Range(toBroker) /\ toBroker' \in Seq(Up) /\ OncePerId(toBroker')
      /\ Range(toBroker') \subseteq Range(toBroker) /\ \A x \in Range(toBroker') : x.id # p.id
  BY <1>1, TakeFacts
<1>3. p \in Up /\ p.id \in Ids
  BY <1>1, <1>2, RangeFacts, PacketFacts
<1>4. UpFits(p) /\ \A x \in Range(toClient) : x.id # p.id
  BY <1>2 DEF Inv, Packets
<1>5. InFlight(p.id) /\ flight[p.id] \in Flight
  BY <1>3, <1>4 DEF Inv, TypeOK, UpFits, InFlight
<1>6. ack \in Down /\ ack.type = r /\ ack.id = p.id
  BY <1>3 DEF Down
<1>7. toClient' = toClient \/ (link = "up" /\ toClient' = Append(toClient, ack))
  BY DEF Write
<1>8. toClient' \in Seq(Down) /\ OncePerId(toClient') /\ Range(toClient') \subseteq Range(toClient) \cup {ack}
  <2>1. CASE toClient' = toClient
    BY <1>1, <2>1
  <2>2. CASE toClient' = Append(toClient, ack)
    BY <1>1, <1>4, <1>6, <2>2, AddFacts
  <2> QED BY <1>7, <2>1, <2>2
<1> HIDE DEF ack
<1>9. link = "up" \/ UNCHANGED toClient
  BY <1>7
<1> USE DEF ack
<1> QED BY <1>1, <1>2, <1>3, <1>4, <1>5, <1>6, <1>8, <1>9

\* A message that is passed on counts as routed; what was routed stays routed.
LEMMA RoutingFacts ==
    ASSUME TypeOK, routing = None, NEW m \in Msgs, routing' = m, UNCHANGED times
    PROVE  /\ Routed(m)'
           /\ \A k \in Msgs : k # m => Passed'[k] = Passed[k]
           /\ \A k \in Msgs : Passed[k] >= 1 => Passed'[k] >= 1
           /\ Passed'[m] <= Passed[m] + 1
BY InboundAssumption DEF TypeOK, Routed, Passed

\* The route itself takes the message from one count to the other.
LEMMA PassOnKeeps ==
    ASSUME Inv, PassOn
    PROVE  Inv'
<1>1. /\ TypeOK /\ routing # None /\ Route(routing) /\ routing' = None
      /\ UNCHANGED <<state, clean, inbound_qos2, stored, link, toBroker, toClient, flight, resend, fresh, done,
                     abandoned, resent, cut, breaks, cleans, restarts>>
  BY DEF Inv, PassOn, client, bounds
<1>2. routing \in Msgs /\ times' \in [Msgs -> Nat]
  BY <1>1 DEF TypeOK, Route
<1>3. \A m \in Msgs : Passed'[m] = Passed[m]
  BY <1>1, <1>2, InboundAssumption DEF TypeOK, Route, Passed
<1>4. TypeOK'
  BY <1>1, <1>2 DEF TypeOK
<1>5. Passed' = Passed
  BY <1>3 DEF Passed
<1>6. Links' /\ Acked' /\ Flights'
  BY <1>1, <1>5 DEF Inv, Links, Acked, Flights, InFlight
<1>7. Packets'
  BY <1>1, <1>5 DEF Inv, Packets, OncePerId, UpFits, DownFits, InFlight, Routed, Range
<1>8. Continuous' => Exact'
  BY <1>1, <1>5 DEF Inv, Continuous, Exact, Knows, Replied, InFlight, Routed, Range
<1> QED BY <1>4, <1>6, <1>7, <1>8 DEF Inv

\* QoS 1.
LEMMA OnPublish1Keeps ==
    ASSUME Inv, OnPublish1
    PROVE  Inv'
<1>0. PICK p, ack : p = Head(toBroker) /\ ack = [type |-> "PUBACK", id |-> p.id]
  OBVIOUS
<1>1. /\ TypeOK /\ Serving("PUBLISH") /\ p.msg \notin Qos2 /\ Write("PUBACK", p.id)
      /\ toBroker' = Tail(toBroker) /\ routing = None /\ routing' = IF p.dup THEN None ELSE p.msg
      /\ UNCHANGED <<state, clean, inbound_qos2, stored, link, flight, resend, fresh, done, times, abandoned, resent,
                     cut, breaks, cleans, restarts>>
  BY <1>0 DEF Inv, OnPublish1, Serving, Listening, client, history, bounds
<1>2. /\ p \in Up /\ UpFits(p) /\ p.type = "PUBLISH" /\ p.id \in Ids /\ InFlight(p.id)
      /\ flight[p.id] \in Flight /\ toBroker' \in Seq(Up) /\ toClient' \in Seq(Down)
      /\ OncePerId(toBroker') /\ OncePerId(toClient')
      /\ Range(toBroker') \subseteq Range(toBroker) /\ \A x \in Range(toBroker') : x.id # p.id
      /\ \A x \in Range(toClient) : x.id # p.id
      /\ Range(toClient') \subseteq Range(toClient) \cup {ack}
      /\ link = "up" \/ UNCHANGED toClient
      /\ ack.type = "PUBACK" /\ ack.id = p.id
  BY <1>0, <1>1, ServeFacts
<1>3. p.msg \in Msgs /\ p.msg = flight[p.id].msg /\ (p.dup => p.msg \in resent)
  BY <1>1, <1>2, PacketFacts DEF UpFits
<1>4. /\ routing' \in Msgs \cup {None} /\ (Routed(p.msg)' \/ p.msg \in resent)
      /\ \A k \in Msgs : k # p.msg => Passed'[k] = Passed[k]
      /\ \A k \in Msgs : Passed[k] >= 1 => Passed'[k] >= 1
  <2>1. CASE p.dup
    BY <1>1, <1>3, <2>1 DEF TypeOK, Passed
  <2>2. CASE ~p.dup
    BY <1>1, <1>3, <2>2, RoutingFacts
  <2> QED BY <2>1, <2>2
<1>5. TypeOK'
  BY <1>1, <1>2, <1>4 DEF TypeOK
<1>6. \A i : InFlight(i)' <=> InFlight(i)
  BY <1>1 DEF InFlight
<1>7. \A x \in Range(toClient') : DownFits(x)'
  <2>1. ASSUME NEW x \in Range(toClient) PROVE DownFits(x)'
    <3>1. DownFits(x) /\ x.id \in Ids /\ flight[x.id].msg \in Msgs
      BY <1>1, RangeFacts, PacketFacts DEF Inv, TypeOK, Packets, DownFits, InFlight
    <3> QED BY <1>1, <1>4, <1>6, <3>1 DEF DownFits, Routed
  <2>2. DownFits(ack)'
    BY <1>1, <1>2, <1>3, <1>4, <1>6 DEF UpFits, DownFits
  <2> QED BY <1>2, <2>1, <2>2
<1>8. Packets'
  <2>1. \A x \in Range(toBroker') : UpFits(x)'
    BY <1>1, <1>2, <1>6 DEF Inv, Packets, UpFits
  <2>2. \A x \in Range(toBroker'), y \in Range(toClient') : x.id # y.id
    BY <1>2 DEF Inv, Packets
  <2> QED BY <1>2, <1>7, <2>1, <2>2 DEF Packets
<1>9. Flights' /\ Links'
  <2>1. link = "up" \/ (link # "up" => toClient' = <<>>)
    BY <1>2 DEF Inv, Links
  <2>2. link # "down"
    BY <1>1 DEF Inv, Links, Serving, Listening
  <2> QED BY <1>1, <1>6, <2>1, <2>2 DEF Inv, Flights, Links
<1>10. Acked'
  BY <1>1, <1>4 DEF Inv, Acked
<1>11. Continuous' => Exact'
  <2> SUFFICES ASSUME Continuous PROVE Exact'
    BY <1>1 DEF Continuous
  <2>1. Exact
    BY DEF Inv
  <2>2. \A k \in Qos2 : Passed'[k] = Passed[k]
    BY <1>1, <1>4, InboundAssumption
  <2>3. ASSUME NEW i \in Ids PROVE Knows(i)'
    BY <1>1, <1>6, <2>1, <2>2 DEF TypeOK, Exact, Knows, Routed
  <2>4. \A x \in Range(toClient') : Replied(x)'
    BY <1>1, <1>2, <2>1 DEF Exact, Replied
  <2>5. \A m \in fresh : Passed'[m] = 0
    BY <1>1, <1>2, <1>3, <1>4, <2>1 DEF Inv, TypeOK, Flights, Exact
  <2> QED BY <1>1, <2>1, <2>2, <2>3, <2>4, <2>5 DEF Exact, Routed
<1> QED BY <1>5, <1>8, <1>9, <1>10, <1>11 DEF Inv

\* QoS 2: the message is held.
LEMMA OnPublish2Keeps ==
    ASSUME Inv, OnPublish2
    PROVE  Inv'
<1>0. PICK p, ack : p = Head(toBroker) /\ ack = [type |-> "PUBREC", id |-> p.id]
  OBVIOUS
<1>1. /\ TypeOK /\ Serving("PUBLISH") /\ p.msg \in Qos2 /\ Write("PUBREC", p.id)
      /\ toBroker' = Tail(toBroker) /\ inbound_qos2' = Keep(p)
      /\ UNCHANGED <<state, clean, stored, link, flight, resend, fresh, done, Passed, times, routing, cut, abandoned, resent,
                     breaks, cleans, restarts>>
  BY <1>0 DEF Inv, OnPublish2, client, history, bounds, Passed
<1>2. /\ p \in Range(toBroker) /\ UpFits(p) /\ p.type = "PUBLISH" /\ p.id \in Ids /\ InFlight(p.id)
      /\ toBroker' \in Seq(Up) /\ toClient' \in Seq(Down)
      /\ OncePerId(toBroker') /\ OncePerId(toClient')
      /\ Range(toBroker') \subseteq Range(toBroker) /\ \A x \in Range(toBroker') : x.id # p.id
      /\ \A x \in Range(toClient) : x.id # p.id
      /\ Range(toClient') \subseteq Range(toClient) \cup {ack}
      /\ link = "up" \/ UNCHANGED toClient
      /\ ack.type = "PUBREC" /\ ack.id = p.id
  BY <1>0, <1>1, ServeFacts
<1>3. /\ inbound_qos2' \in [Ids -> Qos2 \cup {None}]
      /\ \A i \in Ids \ {p.id} : inbound_qos2'[i] = inbound_qos2[i]
      /\ inbound_qos2[p.id] # None => inbound_qos2'[p.id] = inbound_qos2[p.id]
      /\ inbound_qos2[p.id] = None => inbound_qos2'[p.id] = p.msg
  BY <1>1, <1>2, KeepFacts
<1>4. TypeOK'
  BY <1>1, <1>2, <1>3 DEF TypeOK
<1>5. \A i : InFlight(i)' <=> InFlight(i)
  BY <1>1 DEF InFlight
<1>6. Packets'
  <2>1. \A x \in Range(toBroker') : UpFits(x)'
    BY <1>1, <1>2, <1>5 DEF Inv, Packets, UpFits
  <2>2. \A x \in Range(toBroker'), y \in Range(toClient') : x.id # y.id
    BY <1>2 DEF Inv, Packets
  <2>3. DownFits(ack)'
    BY <1>1, <1>2, <1>5 DEF UpFits, DownFits
  <2>4. \A x \in Range(toClient) : DownFits(x)'
    BY <1>1, <1>5 DEF Inv, Packets, DownFits, Routed
  <2> QED BY <1>2, <2>1, <2>2, <2>3, <2>4 DEF Packets
<1>7. Flights' /\ Links' /\ Acked'
  <2>1. link = "up" \/ (link # "up" => toClient' = <<>>)
    BY <1>2 DEF Inv, Links
  <2>2. link # "down"
    BY <1>1 DEF Inv, Links, Serving, Listening
  <2> QED BY <1>1, <1>5, <2>1, <2>2 DEF Inv, Flights, Links, Acked
<1>8. Continuous' => Exact'
  <2> SUFFICES ASSUME Continuous PROVE Exact'
    BY <1>1 DEF Continuous
  <2>1. Exact
    BY DEF Inv
  <2>2. flight[p.id].msg = p.msg /\ flight[p.id].stage = "publish"
    BY <1>2 DEF UpFits
  <2>3. inbound_qos2'[p.id] = p.msg
    BY <1>2, <1>3, <2>1, <2>2 DEF Exact, Knows
  <2>4. ASSUME NEW i \in Ids PROVE Knows(i)'
    <3>1. CASE i = p.id
      BY <1>1, <1>2, <1>5, <2>1, <2>2, <2>3, <3>1 DEF Exact, Knows
    <3>2. CASE i # p.id
      BY <1>1, <1>3, <1>5, <2>1, <3>2 DEF Exact, Knows, Routed
    <3> QED BY <3>1, <3>2
  <2>5. \A x \in Range(toClient') : Replied(x)'
    <3>1. Replied(ack)'
      BY <1>1, <1>2, <2>2, <2>3 DEF Replied
    <3>2. ASSUME NEW x \in Range(toClient) PROVE Replied(x)'
      <4>1. x.id \in Ids /\ x.id # p.id
        BY <1>1, <1>2, RangeFacts, PacketFacts DEF TypeOK
      <4> QED BY <1>1, <1>3, <2>1, <4>1 DEF Exact, Replied
    <3> QED BY <1>2, <3>1, <3>2
  <2> QED BY <1>1, <2>1, <2>4, <2>5 DEF Exact, Routed
<1> QED BY <1>4, <1>6, <1>7, <1>8 DEF Inv

\* PUBREL: the message is released.
LEMMA ReleaseKeeps ==
    ASSUME Inv, OnPubRel
    PROVE  Inv'
<1>0. PICK p, ack, m : p = Head(toBroker) /\ ack = [type |-> "PUBCOMP", id |-> p.id] /\ m = inbound_qos2[p.id]
  OBVIOUS
<1>1. /\ TypeOK /\ Serving("PUBREL") /\ Write("PUBCOMP", p.id) /\ toBroker' = Tail(toBroker)
      /\ inbound_qos2' = [inbound_qos2 EXCEPT ![p.id] = None]
      /\ routing = None /\ routing' = m
      /\ UNCHANGED <<state, clean, stored, link, flight, resend, fresh, done, times, abandoned, resent,
                     cut, breaks, cleans, restarts>>
  BY <1>0 DEF Inv, OnPubRel, Serving, Listening, client, history, bounds
<1>2. /\ p \in Range(toBroker) /\ UpFits(p) /\ p.type = "PUBREL" /\ p.id \in Ids /\ InFlight(p.id)
      /\ flight[p.id] \in Flight /\ toBroker' \in Seq(Up) /\ toClient' \in Seq(Down)
      /\ OncePerId(toBroker') /\ OncePerId(toClient')
      /\ Range(toBroker') \subseteq Range(toBroker) /\ \A x \in Range(toBroker') : x.id # p.id
      /\ \A x \in Range(toClient) : x.id # p.id
      /\ Range(toClient') \subseteq Range(toClient) \cup {ack}
      /\ link = "up" \/ UNCHANGED toClient
      /\ ack.type = "PUBCOMP" /\ ack.id = p.id
  BY <1>0, <1>1, ServeFacts
<1>3. /\ inbound_qos2' \in [Ids -> Qos2 \cup {None}] /\ inbound_qos2'[p.id] = None
      /\ \A i \in Ids \ {p.id} : inbound_qos2'[i] = inbound_qos2[i]
  BY <1>1, <1>2 DEF TypeOK
<1>4. m \in Qos2 \cup {None} /\ flight[p.id].stage = "pubrel" /\ flight[p.id].msg \in Msgs
  BY <1>0, <1>1, <1>2, PacketFacts DEF TypeOK, UpFits
<1>5. /\ routing' \in Msgs \cup {None}
      /\ \A k \in Msgs : k # m => Passed'[k] = Passed[k]
      /\ \A k \in Msgs : Passed[k] >= 1 => Passed'[k] >= 1
      /\ m # None => Routed(m)' /\ Passed'[m] <= Passed[m] + 1
  <2>1. CASE m = None
    BY <1>1, <2>1 DEF TypeOK, Passed
  <2>2. CASE m # None
    BY <1>1, <1>4, <2>2, RoutingFacts, InboundAssumption
  <2> QED BY <2>1, <2>2
<1>6. TypeOK'
  BY <1>1, <1>2, <1>3, <1>5 DEF TypeOK
<1>7. \A i : InFlight(i)' <=> InFlight(i)
  BY <1>1 DEF InFlight
<1>8. Packets'
  <2>1. \A x \in Range(toBroker') : UpFits(x)'
    BY <1>1, <1>2, <1>7 DEF Inv, Packets, UpFits
  <2>2. \A x \in Range(toBroker'), y \in Range(toClient') : x.id # y.id
    BY <1>2 DEF Inv, Packets
  <2>3. DownFits(ack)'
    BY <1>1, <1>2, <1>4, <1>7 DEF UpFits, DownFits
  <2>4. ASSUME NEW x \in Range(toClient) PROVE DownFits(x)'
    <3>1. DownFits(x) /\ x.id \in Ids /\ flight[x.id].msg \in Msgs
      BY <1>1, RangeFacts, PacketFacts DEF Inv, TypeOK, Packets, DownFits, InFlight
    <3> QED BY <1>1, <1>5, <1>7, <3>1 DEF DownFits, Routed
  <2> QED BY <1>2, <2>1, <2>2, <2>3, <2>4 DEF Packets
<1>9. Flights' /\ Links'
  <2>1. link = "up" \/ (link # "up" => toClient' = <<>>)
    BY <1>2 DEF Inv, Links
  <2>2. link # "down"
    BY <1>1 DEF Inv, Links, Serving, Listening
  <2> QED BY <1>1, <1>7, <2>1, <2>2 DEF Inv, Flights, Links
<1>10. Acked'
  BY <1>1, <1>5 DEF Inv, Acked
<1>11. Continuous' => Exact'
  <2> SUFFICES ASSUME Continuous PROVE Exact'
    BY <1>1 DEF Continuous
  <2>1. Exact
    BY DEF Inv
  <2>2. m # None => m = flight[p.id].msg /\ Passed[m] = 0
    BY <1>0, <1>2, <2>1 DEF Exact, Knows
  <2>3. \A k \in Msgs : Routed(k) => Routed(k)'
    BY <1>5 DEF Routed
  <2>4. Routed(flight[p.id].msg)'
    <3>1. CASE m = None
      <4>1. flight[p.id].msg \in Qos2
        BY <1>2, <1>4 DEF Inv, Flights
      <4>2. Routed(flight[p.id].msg)
        BY <1>0, <1>2, <1>4, <2>1, <3>1, <4>1, InboundAssumption DEF Exact, Knows
      <4>3. \A k \in Msgs : Passed'[k] = Passed[k]
        BY <1>4, <1>5, <3>1, InboundAssumption
      <4> QED BY <1>1, <1>4, <4>2, <4>3 DEF Routed
    <3>2. CASE m # None
      BY <1>1, <1>5, <2>2, <3>2 DEF Routed
    <3> QED BY <3>1, <3>2
  <2>5. ASSUME NEW i \in Ids PROVE Knows(i)'
    <3>1. CASE i = p.id
      BY <1>1, <1>3, <1>4, <2>4, <3>1 DEF Knows
    <3>2. CASE i # p.id
      <4>1. InFlight(i) => flight[i].msg # m /\ flight[i].msg \in Msgs
        BY <1>1, <1>2, <2>2, <3>2, PacketFacts, InboundAssumption DEF Inv, TypeOK, Flights, InFlight
      <4>2. InFlight(i) => Passed'[flight[i].msg] = Passed[flight[i].msg]
        BY <1>5, <4>1
      <4>3. Knows(i)
        BY <2>1 DEF Exact
      <4> QED BY <1>1, <1>3, <1>7, <3>2, <4>2, <4>3 DEF Knows, Routed
    <3> QED BY <3>1, <3>2
  <2>6. \A x \in Range(toClient') : Replied(x)'
    <3>1. Replied(ack)'
      BY <1>2, <1>3 DEF Replied
    <3>2. ASSUME NEW x \in Range(toClient) PROVE Replied(x)'
      <4>1. x.id \in Ids /\ x.id # p.id
        BY <1>1, <1>2, RangeFacts, PacketFacts DEF TypeOK
      <4> QED BY <1>1, <1>3, <2>1, <4>1 DEF Exact, Replied
    <3> QED BY <1>2, <3>1, <3>2
  <2>7. \A k \in fresh : Passed'[k] = 0
    <3>1. m \notin fresh
      BY <1>1, <1>2, <2>2, InboundAssumption DEF Inv, TypeOK, Flights
    <3> QED BY <1>1, <1>5, <2>1, <3>1 DEF TypeOK, Exact
  <2>8. \A k \in Qos2 : Passed'[k] <= 1
    <3>1. ASSUME NEW k \in Qos2 PROVE Passed'[k] <= 1
      <4>1. CASE k = m
        BY <1>1, <1>4, <1>5, <2>2, <4>1, InboundAssumption DEF TypeOK
      <4>2. CASE k # m
        BY <1>5, <2>1, <4>2, InboundAssumption DEF Exact
      <4> QED BY <4>1, <4>2
    <3> QED BY <3>1
  <2>9. \A k \in Qos2 \cap done : Routed(k)'
    BY <2>1, <2>3, InboundAssumption DEF Exact
  <2> QED BY <1>1, <2>1, <2>5, <2>6, <2>7, <2>8, <2>9 DEF Exact, Routed
<1> QED BY <1>6, <1>8, <1>9, <1>10, <1>11 DEF Inv

-----------------------------------------------------------------------------
(***************************************************************************)
(* The client.                                                             *)
(***************************************************************************)
\* A packet is sent for an id with none under way, and is the only one to it;
\* what was under way keeps its sense.
LEMMA SendKeeps ==
    ASSUME Inv, NEW p \in Up, Send(p), UpFits(p)',
           toClient' \in Seq(Down), OncePerId(toClient'), Range(toClient') \subseteq Range(toClient),
           \A x \in Range(toBroker) : x.id # p.id,
           \A x \in Range(toClient') : x.id # p.id,
           \A x \in Range(toBroker) : UpFits(x)',
           \A x \in Range(toClient') : DownFits(x)'
    PROVE  toBroker' \in Seq(Up) /\ Packets'
<1>1. toBroker \in Seq(Up) /\ toBroker' = Append(toBroker, p) /\ OncePerId(toBroker)
  BY DEF Inv, TypeOK, Packets, Send
<1>2. toBroker' \in Seq(Up) /\ OncePerId(toBroker') /\ Range(toBroker') = Range(toBroker) \cup {p}
  BY <1>1, AddFacts
<1>3. \A x \in Range(toBroker'), y \in Range(toClient') : x.id # y.id
  BY <1>2 DEF Inv, Packets
<1> QED BY <1>2, <1>3 DEF Packets

LEMMA PublishKeeps ==
    ASSUME Inv, NEW m \in Msgs, NEW id \in Ids, Publish(m, id)
    PROVE  Inv'
<1>0. PICK p : p = [type |-> "PUBLISH", id |-> id, msg |-> m, dup |-> FALSE]
  OBVIOUS
<1>1. /\ TypeOK /\ link = "up" /\ resend = {} /\ m \in fresh /\ ~InFlight(id) /\ Send(p)
      /\ fresh' = fresh \ {m} /\ flight' = [flight EXCEPT ![id] = [msg |-> m, stage |-> "publish"]]
      /\ UNCHANGED <<state, clean, inbound_qos2, stored, link, toClient, resend, done, Passed, times, routing, cut, abandoned,
                     resent, breaks, cleans, restarts>>
  BY <1>0 DEF Inv, Publish, InFlight, session, history, bounds, Passed
<1>2. p \in Up /\ p.type = "PUBLISH" /\ p.id = id /\ p.msg = m /\ ~p.dup
  BY <1>0 DEF Up
<1>3. /\ flight' \in [Ids -> Flight \cup {None}] /\ flight'[id] \in Flight
      /\ flight'[id].msg = m /\ flight'[id].stage = "publish"
      /\ \A i \in Ids \ {id} : flight'[i] = flight[i]
  BY <1>1 DEF TypeOK, Flight
<1>4. InFlight(id)' /\ \A i \in Ids \ {id} : InFlight(i)' <=> InFlight(i)
  BY <1>3, PacketFacts DEF InFlight
<1>5. /\ \A x \in Range(toBroker) : x.id \in Ids /\ UpFits(x) /\ x.id # id
      /\ \A x \in Range(toClient) : x.id \in Ids /\ DownFits(x) /\ x.id # id
  BY <1>1, RangeFacts, PacketFacts DEF Inv, TypeOK, Packets, UpFits, DownFits
<1>6. toBroker' \in Seq(Up) /\ Packets'
  <2>1. UpFits(p)'
    BY <1>1, <1>2, <1>3, <1>4 DEF UpFits
  <2>2. \A x \in Range(toBroker) : UpFits(x)'
    BY <1>1, <1>3, <1>4, <1>5 DEF UpFits
  <2>3. \A x \in Range(toClient) : DownFits(x)'
    BY <1>1, <1>3, <1>4, <1>5 DEF DownFits, Routed
  <2>4. toClient' \in Seq(Down) /\ OncePerId(toClient')
    BY <1>1 DEF Inv, TypeOK, Packets
  <2> QED BY <1>1, <1>2, <1>5, <2>1, <2>2, <2>3, <2>4, SendKeeps
<1>7. TypeOK'
  BY <1>1, <1>3, <1>6 DEF TypeOK
<1>8. Flights'
  <2>1. \A i \in Ids \ {id} : InFlight(i) => flight[i].msg # m
    BY <1>1 DEF Inv, Flights
  <2> QED BY <1>1, <1>3, <1>4, <2>1 DEF Inv, Flights
<1>9. Links' /\ Acked'
  BY <1>1 DEF Inv, Links, Acked
<1>10. Continuous' => Exact'
  <2> SUFFICES ASSUME Continuous PROVE Exact'
    BY <1>1 DEF Continuous
  <2>1. Exact
    BY DEF Inv
  <2>2. ASSUME NEW i \in Ids PROVE Knows(i)'
    <3>1. Knows(i)
      BY <2>1 DEF Exact
    <3>2. CASE i = id
      BY <1>1, <1>3, <1>4, <2>1, <3>1, <3>2 DEF Exact, Knows
    <3>3. CASE i # id
      BY <1>1, <1>3, <1>4, <3>1, <3>3 DEF Knows, Routed
    <3> QED BY <3>2, <3>3
  <2>3. \A x \in Range(toClient) : Replied(x)'
    BY <1>1, <1>3, <1>5, <2>1 DEF Exact, Replied
  <2> QED BY <1>1, <2>1, <2>2, <2>3 DEF Exact, Routed
<1> QED BY <1>6, <1>7, <1>8, <1>9, <1>10 DEF Inv

LEMMA SendAgainKeeps ==
    ASSUME Inv, NEW id \in Ids, SendAgain(id)
    PROVE  Inv'
<1>0. PICK p : p = IF flight[id].stage = "pubrel" THEN [type |-> "PUBREL", id |-> id]
                   ELSE [type |-> "PUBLISH", id |-> id, msg |-> flight[id].msg, dup |-> TRUE]
  OBVIOUS
<1>1. /\ TypeOK /\ link = "up" /\ id \in resend /\ Send(p) /\ resend' = resend \ {id}
      /\ resent' = resent \cup ({flight[id].msg} \ Qos2)
      /\ UNCHANGED <<state, clean, inbound_qos2, stored, link, toClient, flight, fresh, done, Passed, times, routing, cut, abandoned,
                     breaks, cleans, restarts>>
  BY <1>0 DEF Inv, SendAgain, session, bounds, Passed
<1>2. InFlight(id) /\ flight[id] \in Flight
  BY <1>1 DEF Inv, TypeOK, Flights, InFlight
<1>3. flight[id].msg \in Msgs /\ flight[id].stage \in {"publish", "pubrel"}
  BY <1>2, PacketFacts
<1>4. /\ p \in Up /\ p.id = id /\ p.type \in {"PUBLISH", "PUBREL"}
      /\ p.type = "PUBLISH" => p.msg = flight[id].msg /\ flight[id].stage = "publish"
      /\ p.type = "PUBREL" => flight[id].stage = "pubrel"
  <2>1. CASE flight[id].stage = "pubrel"
    <3>1. p = [type |-> "PUBREL", id |-> id]
      BY <1>0, <2>1
    <3> QED BY <2>1, <3>1 DEF Up
  <2>2. CASE flight[id].stage = "publish"
    <3>1. p = [type |-> "PUBLISH", id |-> id, msg |-> flight[id].msg, dup |-> TRUE]
      BY <1>0, <2>2
    <3> QED BY <1>3, <2>2, <3>1 DEF Up
  <2> QED BY <1>3, <2>1, <2>2
<1>5. \A i : InFlight(i)' <=> InFlight(i)
  BY <1>1 DEF InFlight
<1>6. /\ \A x \in Range(toBroker) : UpFits(x) /\ x.id # id
      /\ \A x \in Range(toClient) : DownFits(x) /\ x.id # id
  BY <1>1 DEF Inv, Packets, UpFits, DownFits
<1>7. toBroker' \in Seq(Up) /\ Packets'
  <2>1. UpFits(p)'
    BY <1>1, <1>2, <1>4, <1>5 DEF UpFits
  <2>2. \A x \in Range(toBroker) : UpFits(x)'
    BY <1>1, <1>5, <1>6 DEF UpFits
  <2>3. \A x \in Range(toClient) : DownFits(x)'
    BY <1>1, <1>5, <1>6 DEF DownFits, Routed
  <2>4. toClient' \in Seq(Down) /\ OncePerId(toClient')
    BY <1>1 DEF Inv, TypeOK, Packets
  <2> QED BY <1>1, <1>4, <1>6, <2>1, <2>2, <2>3, <2>4, SendKeeps
<1>8. TypeOK'
  BY <1>1, <1>3, <1>7 DEF TypeOK
<1>9. Flights' /\ Links' /\ Acked'
  BY <1>1, <1>5 DEF Inv, Flights, Links, Acked
<1>10. Continuous' => Exact'
  BY <1>1, <1>5 DEF Inv, Continuous, Exact, Knows, Replied, Routed
<1> QED BY <1>7, <1>8, <1>9, <1>10 DEF Inv

\* PUBREC: the client answers with PUBREL.
LEMMA OnPubRecKeeps ==
    ASSUME Inv, ClientReceives, Head(toClient).type = "PUBREC"
    PROVE  Inv'
<1>0. PICK r, p : r = Head(toClient) /\ p = [type |-> "PUBREL", id |-> r.id]
  OBVIOUS
<1>1. /\ TypeOK /\ link = "up" /\ toClient # <<>> /\ toClient' = Tail(toClient) /\ r.type = "PUBREC" /\ Send(p)
      /\ flight' = [flight EXCEPT ![r.id].stage = "pubrel"]
      /\ UNCHANGED <<state, clean, inbound_qos2, stored, link, resend, fresh, done, Passed, times, routing, cut, abandoned, resent,
                     breaks, cleans, restarts>>
  BY <1>0 DEF Inv, ClientReceives, session, history, bounds, Passed
<1>2. /\ r \in Range(toClient) /\ toClient' \in Seq(Down) /\ OncePerId(toClient')
      /\ Range(toClient') \subseteq Range(toClient) /\ \A x \in Range(toClient') : x.id # r.id
  BY <1>0, <1>1, TakeFacts DEF Inv, TypeOK, Packets
<1>3. r.id \in Ids /\ DownFits(r) /\ \A x \in Range(toBroker) : x.id # r.id
  BY <1>1, <1>2, RangeFacts, PacketFacts DEF Inv, TypeOK, Packets
<1>4. InFlight(r.id) /\ flight[r.id] \in Flight /\ flight[r.id].msg \in Qos2 /\ r.id \notin resend
  BY <1>1, <1>3 DEF TypeOK, DownFits, InFlight
<1>5. p \in Up /\ p.type = "PUBREL" /\ p.id = r.id
  BY <1>0, <1>3 DEF Up
<1>6. /\ flight' \in [Ids -> Flight \cup {None}] /\ flight'[r.id] \in Flight
      /\ flight'[r.id].msg = flight[r.id].msg /\ flight'[r.id].stage = "pubrel"
      /\ \A i \in Ids \ {r.id} : flight'[i] = flight[i]
  BY <1>1, <1>3, <1>4 DEF TypeOK, Flight
<1>7. \A i \in Ids : InFlight(i)' <=> InFlight(i)
  BY <1>4, <1>6, PacketFacts DEF InFlight
<1>8. /\ \A x \in Range(toBroker) : x.id \in Ids /\ UpFits(x)
      /\ \A x \in Range(toClient) : x.id \in Ids /\ DownFits(x)
  BY <1>1, RangeFacts, PacketFacts DEF Inv, TypeOK, Packets
<1>9. toBroker' \in Seq(Up) /\ Packets'
  <2>1. UpFits(p)'
    BY <1>1, <1>3, <1>4, <1>5, <1>6, <1>7 DEF UpFits
  <2>2. \A x \in Range(toBroker) : UpFits(x)'
    BY <1>1, <1>3, <1>6, <1>7, <1>8 DEF UpFits
  <2>3. \A x \in Range(toClient') : DownFits(x)'
    BY <1>1, <1>2, <1>6, <1>7, <1>8 DEF DownFits, Routed
  <2> QED BY <1>1, <1>2, <1>3, <1>5, <2>1, <2>2, <2>3, SendKeeps
<1>10. TypeOK'
  BY <1>1, <1>2, <1>6, <1>9 DEF TypeOK
<1>11. Flights'
  BY <1>1, <1>4, <1>6, <1>7 DEF Inv, TypeOK, Flights
<1>12. Links' /\ Acked'
  BY <1>1 DEF Inv, Links, Acked
<1>13. Continuous' => Exact'
  <2> SUFFICES ASSUME Continuous PROVE Exact'
    BY <1>1 DEF Continuous
  <2>1. Exact
    BY DEF Inv
  <2>2. ASSUME NEW i \in Ids PROVE Knows(i)'
    <3>1. Knows(i)
      BY <2>1 DEF Exact
    <3>2. CASE i = r.id
      <4>1. inbound_qos2[i] = flight[i].msg
        BY <1>1, <1>2, <2>1, <3>2 DEF Exact, Replied
      <4> QED BY <1>1, <1>6, <1>7, <3>1, <3>2, <4>1 DEF Knows
    <3>3. CASE i # r.id
      BY <1>1, <1>6, <1>7, <3>1, <3>3 DEF Knows, Routed
    <3> QED BY <3>2, <3>3
  <2>3. \A x \in Range(toClient') : Replied(x)'
    BY <1>1, <1>2, <1>6, <1>8, <2>1 DEF Exact, Replied
  <2> QED BY <1>1, <2>1, <2>2, <2>3 DEF Exact, Routed
<1> QED BY <1>9, <1>10, <1>11, <1>12, <1>13 DEF Inv

\* PUBACK or PUBCOMP: the exchange is complete.
LEMMA CompleteKeeps ==
    ASSUME Inv, ClientReceives, Head(toClient).type # "PUBREC"
    PROVE  Inv'
<1>0. PICK r, m : r = Head(toClient) /\ m = flight[r.id].msg
  OBVIOUS
<1>1. /\ TypeOK /\ link = "up" /\ toClient # <<>> /\ toClient' = Tail(toClient) /\ r.type # "PUBREC"
      /\ flight' = [flight EXCEPT ![r.id] = None] /\ done' = done \cup {m}
      /\ UNCHANGED <<state, clean, inbound_qos2, stored, link, toBroker, resend, fresh, Passed, times, routing, cut, abandoned, resent,
                     breaks, cleans, restarts>>
  BY <1>0 DEF Inv, ClientReceives, session, history, bounds, Passed
<1>2. /\ r \in Range(toClient) /\ toClient' \in Seq(Down) /\ OncePerId(toClient')
      /\ Range(toClient') \subseteq Range(toClient) /\ \A x \in Range(toClient') : x.id # r.id
  BY <1>0, <1>1, TakeFacts DEF Inv, TypeOK, Packets
<1>3. /\ r.id \in Ids /\ r.type \in {"PUBACK", "PUBCOMP"} /\ DownFits(r)
      /\ \A x \in Range(toBroker) : x.id # r.id
  BY <1>1, <1>2, RangeFacts, PacketFacts DEF Inv, TypeOK, Packets
<1>4. InFlight(r.id) /\ flight[r.id] \in Flight /\ m \in Msgs /\ r.id \notin resend
  BY <1>0, <1>1, <1>3, PacketFacts DEF TypeOK, DownFits, InFlight
<1>5. /\ r.type = "PUBACK" => m \notin Qos2 /\ (Routed(m) \/ m \in cut \cup resent)
      /\ r.type = "PUBCOMP" => m \in Qos2 /\ flight[r.id].stage = "pubrel"
  BY <1>0, <1>3, <1>4 DEF DownFits, Inv, Flights
<1>6. /\ flight' \in [Ids -> Flight \cup {None}] /\ ~InFlight(r.id)'
      /\ \A i \in Ids \ {r.id} : flight'[i] = flight[i] /\ (InFlight(i)' <=> InFlight(i))
  BY <1>1, <1>3 DEF TypeOK, InFlight
<1>7. /\ \A x \in Range(toBroker) : x.id \in Ids /\ UpFits(x)
      /\ \A x \in Range(toClient) : x.id \in Ids /\ DownFits(x)
  BY <1>1, RangeFacts, PacketFacts DEF Inv, TypeOK, Packets
<1>8. Packets'
  <2>1. \A x \in Range(toBroker) : UpFits(x)'
    BY <1>1, <1>3, <1>6, <1>7 DEF UpFits
  <2>2. \A x \in Range(toClient') : DownFits(x)'
    BY <1>1, <1>2, <1>6, <1>7 DEF DownFits, Routed
  <2> QED BY <1>1, <1>2, <2>1, <2>2 DEF Inv, Packets
<1>9. TypeOK'
  BY <1>1, <1>2, <1>4, <1>6 DEF TypeOK
<1>10. Flights' /\ Links'
  BY <1>1, <1>4, <1>6 DEF Inv, TypeOK, Flights, Links
<1>11. Acked'
  BY <1>1, <1>3, <1>5 DEF Inv, Acked, Routed
<1>12. Continuous' => Exact'
  <2> SUFFICES ASSUME Continuous PROVE Exact'
    BY <1>1 DEF Continuous
  <2>1. Exact /\ Knows(r.id) /\ Replied(r)
    BY <1>2, <1>3 DEF Inv, Exact
  <2>2. inbound_qos2[r.id] = None /\ (m \in Qos2 => Routed(m))
    <3>1. inbound_qos2[r.id] \in Qos2 \cup {None}
      BY <1>1, <1>3 DEF TypeOK
    <3>2. CASE r.type = "PUBACK"
      BY <1>0, <1>5, <2>1, <3>1, <3>2 DEF Knows
    <3>3. CASE r.type = "PUBCOMP"
      BY <1>0, <1>4, <1>5, <2>1, <3>3, InboundAssumption DEF Knows, Replied
    <3> QED BY <1>3, <3>2, <3>3
  <2>3. ASSUME NEW i \in Ids PROVE Knows(i)'
    <3>1. Knows(i)
      BY <2>1 DEF Exact
    <3>2. CASE i = r.id
      BY <1>1, <1>6, <2>2, <3>2 DEF Knows
    <3>3. CASE i # r.id
      BY <1>1, <1>6, <3>1, <3>3 DEF Knows, Routed
    <3> QED BY <3>2, <3>3
  <2>4. \A x \in Range(toClient') : Replied(x)'
    BY <1>1, <1>2, <1>6, <1>7, <2>1 DEF Exact, Replied
  <2> QED BY <1>1, <2>1, <2>2, <2>3, <2>4 DEF Exact, Routed
<1> QED BY <1>8, <1>9, <1>10, <1>11, <1>12 DEF Inv

-----------------------------------------------------------------------------
LEMMA StutterKeeps == Inv /\ UNCHANGED vars => Inv'
<1> SUFFICES ASSUME Inv, UNCHANGED vars PROVE Inv'
  OBVIOUS
<1>1. /\ UNCHANGED <<state, clean, inbound_qos2, routing, stored, link, toBroker, toClient, flight, resend, fresh,
                     done, times, abandoned, resent, cut, breaks, cleans, restarts>>
      /\ Passed' = Passed
  BY DEF vars, session, client, history, bounds, Passed
<1>2. TypeOK' /\ Links' /\ Acked' /\ Flights'
  BY <1>1 DEF Inv, TypeOK, Links, Acked, Flights, InFlight
<1>3. Packets'
  BY <1>1 DEF Inv, Packets, OncePerId, UpFits, DownFits, InFlight, Routed, Range
<1>4. Continuous' => Exact'
  BY <1>1 DEF Inv, Continuous, Exact, Knows, Replied, InFlight, Routed, Range
<1> QED BY <1>2, <1>3, <1>4 DEF Inv

LEMMA NextKeeps == Inv /\ [Next]_vars => Inv'
<1> SUFFICES ASSUME Inv, [Next]_vars PROVE Inv'
  OBVIOUS
<1>1. CASE ClientReceives
  BY <1>1, OnPubRecKeeps, CompleteKeeps
<1> QED
  BY <1>1, OnPublish1Keeps, OnPublish2Keeps, ReleaseKeeps, PassOnKeeps, ReplyFailsKeeps, BreakKeeps, NoticeKeeps, ResumeKeeps,
     StartCleanKeeps, RestartKeeps, RestoreKeeps, RestoreFailsKeeps, ConnectCleanKeeps, TakeoverFailsKeeps,
     PublishKeeps, SendAgainKeeps, StutterKeeps DEF Next

LEMMA InvHolds == Spec => []Inv
BY InitInv, NextKeeps, PTL DEF Spec

\* Every variable of the exchanges stays in its type: in particular a QoS 1
\* message is never held in inbound_qos2, and nothing that is none is saved.
THEOREM InboundTypes == Spec => []TypeOK
<1>1. Inv => TypeOK
  BY DEF Inv
<1> QED BY <1>1, InvHolds, PTL

\* On a session that never lost its state, a QoS 2 message is routed at most
\* once, whatever is lost and sent again: on_publish holds a duplicate under
\* the id it already has, and on_pubrel takes the message out of the map.
THEOREM ExactlyOnceUpper == Spec => []AtMostOnce
<1>1. Inv => AtMostOnce
  <2>1. TypeOK => \A m \in Qos2 : times[m] <= Passed[m] /\ times[m] \in Nat /\ Passed[m] \in Nat
    BY InboundAssumption DEF TypeOK, Passed
  <2> QED BY <2>1 DEF Inv, AtMostOnce, Exact
<1> QED BY <1>1, InvHolds, PTL

\* On such a session a QoS 2 exchange that the client has completed has
\* released its message: on_pubrel, which has written PUBCOMP, has routed it or
\* is about to.
THEOREM ExactlyOnceLower == Spec => []CompletedIsRouted
<1>1. Inv => CompletedIsRouted
  BY InboundAssumption DEF Inv, CompletedIsRouted, Exact, Routed, Passed
<1> QED BY <1>1, InvHolds, PTL

\* On such a session the message inbound_qos2 holds under an id is the one the
\* client has in flight under it.
THEOREM IdsAgree == Spec => []HeldIsInFlight
<1>1. Inv => HeldIsInFlight
  BY DEF Inv, HeldIsInFlight, Exact, Knows, InFlight
<1> QED BY <1>1, InvHolds, PTL

\* In every behaviour, restarts and clean starts included, a QoS 1 message that
\* was acknowledged and sent once has been routed, is being routed, or was with
\* the authoriser when the broker stopped: on_publish writes PUBACK first.
THEOREM AckMeansRouted == Spec => []AckedIsRouted
<1>1. Inv => AckedIsRouted
  BY DEF Inv, Acked, AckedIsRouted, Passed
<1> QED BY <1>1, InvHolds, PTL
=============================================================================

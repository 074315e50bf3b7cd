--------------------------- MODULE OutboundProofs ---------------------------
(***************************************************************************)
(* The sending side of Outbound, for any messages, packet ids and bounds.  *)
(*                                                                         *)
(* The argument has two halves.  A packet id stands for a message in the   *)
(* in-flight queue, in the image, in a queued retransmission and in a      *)
(* PUBLISH under way; as long as it stands for one message, or the history *)
(* has recorded the clash, an acknowledgement means that the subscriber    *)
(* has that message (Delivery).  Every action but the numbering in         *)
(* on_message only carries along what is there (Carried), and the          *)
(* numbering records the clash when the id is in use.                      *)
(*                                                                         *)
(* While some message waits for its number and the counter does not come   *)
(* round, every id in use lies below the counter, and the image's ids      *)
(* below the image's counter, which lags behind it (Numbering).  So the id *)
(* that is given next is in nobody's use, the subscriber excepted, which   *)
(* may hold it from an exchange that a restart made the broker forget.     *)
(***************************************************************************)
EXTENDS Outbound, FiniteSetTheorems, FunctionTheorems, TLAPS

\* The elements of a sequence.
Elems(s) == {s[i] : i \in DOMAIN s}

\* What is kept of the messages in flight: by the session and in its image.
Kept    == Elems(inflight_queue)
Saved   == IF stored = NoImage THEN {} ELSE Elems(stored.inflight)
Flights == Kept \cup Saved

Same(f, g) == f.id = g.id /\ f.msg = g.msg

\* The packet id stands for the message, somewhere between the two ends.
Uses(id, m) ==
    \/ \E f \in Flights : f.id = id /\ f.msg = m
    \/ \E e \in Elems(mailbox) : e.id = id /\ e.msg = m
    \/ \E p \in Elems(toClient) : p.type = "PUBLISH" /\ p.id = id /\ p.msg = m

Answers(id) ==
    \/ \E a \in Elems(toBroker) : a.id = id
    \/ \E p \in Elems(toClient) : p.type = "PUBREL" /\ p.id = id

\* The subscriber has the message, or its packet id was in use twice.
Got(m) == delivered[m] > 0 \/ m \in clashed

\* What the session and the connection hold was handed over by the router.
MsgsRouted ==
    /\ \A f \in Flights : f.msg \in routed
    /\ \A e \in Elems(mailbox) : e.msg \in routed
    /\ \A p \in Elems(toClient) : p.type = "PUBLISH" => p.msg \in routed

\* A session that is gone holds nothing, and one without a connection has
\* nothing under way.
AbsentIsEmpty ==
    /\ state = "absent" => mailbox = <<>> /\ inflight_queue = <<>> /\ next_packet_id = 1
    /\ state \in {"absent", "pending"} => toClient = <<>> /\ toBroker = <<>> /\ link = "down"

\* Messages with the same packet id are the same, or known to clash.
SameIdSameMsg ==
    \A id \in Ids : \A m, n \in Msgs :
        Uses(id, m) /\ Uses(id, n) => m = n \/ (m \in clashed /\ n \in clashed)

\* What is acknowledged, what the subscriber holds and what on_pubrec has
\* moved on has been delivered.
AnsweredIsGot == \A f \in Flights : Answers(f.id) => Got(f.msg)
HeldIsGot     == \A f \in Flights : f.id \in released /\ f.msg \in Qos2 => Got(f.msg)
PubcompIsGot  == \A f \in Flights : f.stage = "pubcomp" => Got(f.msg)

Delivery == MsgsRouted /\ SameIdSameMsg /\ AnsweredIsGot /\ HeldIsGot /\ PubcompIsGot

-----------------------------------------------------------------------------
\* Every step but the numbering of a message carries what is there along:
\* nothing gets a packet id that it did not have.
FlightsCarried ==
    \A f \in Flights' : \E g \in Flights :
        Same(f, g) /\ (f.stage = "pubcomp" => g.stage = "pubcomp" \/ Answers(g.id))

BoxCarried ==
    \A e \in Elems(mailbox') :
        \/ e \in Elems(mailbox)
        \/ e.id = 0 /\ e.msg \in routed'
        \/ \E g \in Flights : Same(e, g)

SentCarried ==
    \A p \in Elems(toClient') :
        \/ p \in Elems(toClient)
        \/ p.type = "PUBLISH" /\ \E e \in Elems(mailbox) : Same(p, e)
        \/ p.type = "PUBREL" /\ Answers(p.id)
        \/ p.type = "PUBREL" /\ \E g \in Flights : g.id = p.id /\ g.stage = "pubcomp"

\* The subscriber answers a PUBREL, a message it now has, or one it takes for
\* a copy of what it holds.
Receipt(p) ==
    \/ p.type = "PUBREL"
    \/ p.type = "PUBLISH" /\ Got(p.msg)'
    \/ p.type = "PUBLISH" /\ p.msg \in Qos2 /\ p.id \in released

AcksCarried ==
    \A a \in Elems(toBroker') :
        a \in Elems(toBroker) \/ \E p \in Elems(toClient) : p.id = a.id /\ Receipt(p)

HeldCarried ==
    \A i \in released' :
        i \in released \/ \E p \in Elems(toClient) : p.type = "PUBLISH" /\ p.id = i /\ Got(p.msg)'

Carried ==
    /\ FlightsCarried /\ BoxCarried /\ SentCarried /\ AcksCarried /\ HeldCarried
    /\ clashed' = clashed /\ routed \subseteq routed'
    /\ \A m \in Msgs : delivered'[m] >= delivered[m]

-----------------------------------------------------------------------------
\* No two entries share a packet id; no two wait for one for the same message.
Distinct(q) == \A i, j \in DOMAIN q : q[i].id = q[j].id => i = j

Once(b) ==
    \A i, j \in DOMAIN b : b[i].id = 0 /\ b[j].id = 0 /\ b[i].msg = b[j].msg => i = j

\* What may become of the in-flight queue and of the mailbox in a step that
\* numbers nothing.
QueueFrom(q) ==
    /\ q \in Seq(Flight)
    /\ \A f \in Elems(q) : \E g \in Kept :
        Same(f, g) /\ (f.stage = "pubcomp" => g.stage = "pubcomp" \/ Answers(g.id))
    /\ Distinct(inflight_queue) => Distinct(q)

QueueDrops(q, gone) ==
    \A f \in Kept : (\E h \in Elems(q) : h.msg = f.msg) \/ Got(f.msg) \/ f.msg \in gone

BoxFrom(b) ==
    /\ b \in Seq(Entry) /\ Len(b) <= MailboxCap
    /\ \A e \in Elems(b) :
        \/ e \in Elems(mailbox)
        \/ e.id = 0 /\ e.msg \in routed' \ routed
        \/ e.id # 0 /\ \E g \in Kept : Same(e, g)
    /\ Once(mailbox) => Once(b)

BoxDrops(b, gone) ==
    \A e \in Elems(mailbox) : e.id = 0 => e \in Elems(b) \/ e.msg \in gone

-----------------------------------------------------------------------------
\* The messages that have no packet id yet.
Unnumbered == {m \in Msgs : m \notin routed \/ Queued(m)}

Room(n) == Cardinality(Unnumbered) + n <= MaxId + 1

\* While there is one, every packet id in use is below the counter, and the
\* ids from there on are enough for all of them.
Below ==
    Unnumbered # {} =>
        /\ Room(next_packet_id)
        /\ \A f \in Kept : f.id < next_packet_id
        /\ \A e \in Elems(mailbox) : e.id < next_packet_id
        /\ \A p \in Elems(toClient) : p.id < next_packet_id
        /\ \A a \in Elems(toBroker) : a.id < next_packet_id

\* The same for the counter in the image, which lags behind.
ImageBelow ==
    Unnumbered # {} /\ stored # NoImage =>
        /\ Room(stored.next)
        /\ \A f \in Saved : f.id < stored.next
        /\ state # "absent" => stored.next <= next_packet_id

Numbering ==
    NoWrap =>
        /\ Below /\ ImageBelow
        /\ Distinct(inflight_queue) /\ (stored # NoImage => Distinct(stored.inflight))
       

\* The counter moves on only when a message is numbered.
CounterMoves ==
    \/ next_packet_id' = next_packet_id
    \/ next_packet_id' = NextId /\ \E m \in Unnumbered : m \notin Unnumbered'

\* The ways out that NothingForgotten names.
Gone == givenUp \cup lost \cup stale

IInv ==
    /\ TypeOK /\ AbsentIsEmpty /\ Once(mailbox)
    /\ Delivery /\ Numbering /\ NothingForgotten
-----------------------------------------------------------------------------
\* What the operations on sequences do to their elements.
LEMMA ElemsEmpty == Elems(<<>>) = {}
  BY DEF Elems

LEMMA ElemsType ==
  ASSUME NEW S, NEW s \in Seq(S)
  PROVE  Elems(s) \subseteq S
  BY DEF Elems

LEMMA ElemsAppend ==
  ASSUME NEW S, NEW s \in Seq(S), NEW e \in S
  PROVE  /\ Append(s, e) \in Seq(S) /\ Len(Append(s, e)) = Len(s) + 1
         /\ Elems(Append(s, e)) = Elems(s) \cup {e}
<1> DEFINE t == Append(s, e)
<1>1. /\ t \in Seq(S) /\ Len(t) = Len(s) + 1
      /\ DOMAIN t = 1..(Len(s) + 1) /\ DOMAIN s = 1..Len(s)
      /\ \A i \in 1..Len(s) : t[i] = s[i]
      /\ t[Len(s) + 1] = e /\ Len(s) \in Nat
  OBVIOUS
<1> HIDE DEF t
<1>2. Elems(t) = Elems(s) \cup {e}
  BY <1>1 DEF Elems
<1> QED BY <1>1, <1>2 DEF t

LEMMA ElemsTail ==
  ASSUME NEW S, NEW s \in Seq(S), s # <<>>
  PROVE  /\ Tail(s) \in Seq(S) /\ Head(s) \in S /\ Len(Tail(s)) = Len(s) - 1
         /\ Elems(s) = {Head(s)} \cup Elems(Tail(s))
<1> DEFINE t == Tail(s)
<1>1. /\ t \in Seq(S) /\ Len(t) = Len(s) - 1 /\ Len(s) \in Nat /\ Len(s) > 0
      /\ DOMAIN t = 1..(Len(s) - 1) /\ DOMAIN s = 1..Len(s)
      /\ \A i \in 1..(Len(s) - 1) : t[i] = s[i + 1]
      /\ Head(s) = s[1] /\ Head(s) \in S
  OBVIOUS
<1> HIDE DEF t
<1>2. Elems(t) \subseteq Elems(s) /\ Head(s) \in Elems(s)
  BY <1>1 DEF Elems
<1>3. ASSUME NEW x \in Elems(s) PROVE x = Head(s) \/ x \in Elems(t)
  <2>1. PICK i \in 1..Len(s) : x = s[i]
    BY <1>1 DEF Elems
  <2>2. CASE i = 1
    BY <2>1, <2>2, <1>1
  <2>3. CASE i # 1
    <3>1. i - 1 \in DOMAIN t /\ t[i - 1] = x
      BY <2>1, <2>3, <1>1
    <3> QED BY <3>1 DEF Elems
  <2> QED BY <2>2, <2>3
<1> QED BY <1>1, <1>2, <1>3 DEF t

LEMMA ElemsConcat ==
  ASSUME NEW S, NEW s \in Seq(S), NEW t \in Seq(S)
  PROVE  /\ s \o t \in Seq(S) /\ Len(s \o t) = Len(s) + Len(t)
         /\ Elems(s \o t) = Elems(s) \cup Elems(t)
<1> DEFINE u == s \o t
<1>1. /\ u \in Seq(S) /\ Len(u) = Len(s) + Len(t) /\ Len(s) \in Nat /\ Len(t) \in Nat
      /\ DOMAIN u = 1..(Len(s) + Len(t)) /\ DOMAIN s = 1..Len(s) /\ DOMAIN t = 1..Len(t)
      /\ \A i \in 1..(Len(s) + Len(t)) : u[i] = IF i <= Len(s) THEN s[i] ELSE t[i - Len(s)]
  OBVIOUS
<1> HIDE DEF u
<1>2. ASSUME NEW x \in Elems(u) PROVE x \in Elems(s) \cup Elems(t)
  <2>1. PICK i \in 1..(Len(s) + Len(t)) : x = u[i]
    BY <1>1 DEF Elems
  <2>2. CASE i <= Len(s)
    BY <2>1, <2>2, <1>1 DEF Elems
  <2>3. CASE ~(i <= Len(s))
    <3>1. i - Len(s) \in DOMAIN t /\ t[i - Len(s)] = x
      BY <2>1, <2>3, <1>1
    <3> QED BY <3>1 DEF Elems
  <2> QED BY <2>2, <2>3
<1>3. ASSUME NEW x \in Elems(s) PROVE x \in Elems(u)
  <2>1. PICK i \in 1..Len(s) : x = s[i]
    BY <1>1 DEF Elems
  <2>2. i \in DOMAIN u /\ u[i] = x
    BY <2>1, <1>1
  <2> QED BY <2>2 DEF Elems
<1>4. ASSUME NEW x \in Elems(t) PROVE x \in Elems(u)
  <2>1. PICK i \in 1..Len(t) : x = t[i]
    BY <1>1 DEF Elems
  <2>2. Len(s) + i \in DOMAIN u /\ u[Len(s) + i] = x
    BY <2>1, <1>1
  <2> QED BY <2>2 DEF Elems
<1> QED BY <1>1, <1>2, <1>3, <1>4 DEF u

LEMMA ElemsPrefix ==
  ASSUME NEW S, NEW s \in Seq(S), NEW n \in 0..Len(s)
  PROVE  /\ SubSeq(s, 1, n) \in Seq(S) /\ Len(SubSeq(s, 1, n)) = n
         /\ Elems(SubSeq(s, 1, n)) \subseteq Elems(s)
<1> DEFINE t == SubSeq(s, 1, n)
<1>1. /\ t \in Seq(S) /\ Len(t) = n /\ DOMAIN t = 1..n /\ DOMAIN s = 1..Len(s)
      /\ Len(s) \in Nat /\ \A i \in 1..n : t[i] = s[i]
  OBVIOUS
<1> HIDE DEF t
<1>2. Elems(t) \subseteq Elems(s)
  BY <1>1 DEF Elems
<1> QED BY <1>1, <1>2 DEF t

-----------------------------------------------------------------------------
\* What Retain takes out of a sequence: the ranks of the positions in P are
\* 1, 2, ..., Cardinality(P), each once.
\* Rank numbers the positions of P, without gaps and without repetition, and
\* so Retain keeps exactly the elements at P, each position once.
LEMMA RankIsNumbering ==
  ASSUME NEW n \in Nat, NEW P \in SUBSET (1..n)
  PROVE  /\ Cardinality(P) \in Nat
         /\ \A k \in 1..Cardinality(P) : \E i \in P : Rank(i, P) = k
         /\ \A i \in P : Rank(i, P) \in 1..Cardinality(P)
         /\ \A i, j \in P : Rank(i, P) = Rank(j, P) => i = j
<1> DEFINE upto(i) == {j \in P : j <= i}
<1>1. IsFiniteSet(P) /\ Cardinality(P) \in Nat
  <2>1. IsFiniteSet(1..n)
    BY FS_Interval
  <2> QED BY <2>1, FS_Subset, FS_CardinalityType
<1>2. ASSUME NEW i \in P
      PROVE  IsFiniteSet(upto(i)) /\ Rank(i, P) \in 1..Cardinality(P)
  <2>1. upto(i) \in SUBSET P /\ upto(i) # {}
    OBVIOUS
  <2>2. IsFiniteSet(upto(i)) /\ Cardinality(upto(i)) <= Cardinality(P)
    BY <1>1, <2>1, FS_Subset
  <2>3. Cardinality(upto(i)) \in Nat /\ Cardinality(upto(i)) # 0
    BY <2>1, <2>2, FS_CardinalityType, FS_EmptySet
  <2> QED BY <1>1, <2>2, <2>3 DEF Rank
<1>3. ASSUME NEW i \in P, NEW j \in P, i < j
      PROVE  Rank(i, P) # Rank(j, P)
  <2>1. upto(i) \in SUBSET upto(j) /\ j \in upto(j) /\ j \notin upto(i)
    <3>1. \A x \in P : x \in Nat
      OBVIOUS
    <3>2. i \in Nat /\ j \in Nat /\ i < j
      BY <3>1, <1>3
    <3>3. \A x \in P : x <= i => x <= j
      BY <3>1, <3>2
    <3>4. ~(j <= i) /\ j <= j
      BY <3>2
    <3> QED BY <3>3, <3>4, Zenon
  <2>2. IsFiniteSet(upto(j))
    BY <1>2
  <2>3. Cardinality(upto(i)) # Cardinality(upto(j))
    BY <2>1, <2>2, FS_Subset
  <2> QED BY <2>3 DEF Rank
<1> DEFINE r == [i \in P |-> Rank(i, P)]
           N == 1..Cardinality(P)
<1>8. ASSUME NEW i \in P, NEW j \in P, Rank(i, P) = Rank(j, P) PROVE i = j
  <2>1. ~(i < j) /\ ~(j < i)
    BY <1>8, <1>3
  <2> QED BY <2>1
<1>4. r \in Injection(P, N)
  <2>1. r \in [P -> N]
    BY <1>2
  <2>2. \A i, j \in P : r[i] = r[j] => i = j
    BY <1>8
  <2> HIDE DEF r, N
  <2> QED BY <2>1, <2>2 DEF Injection, IsInjective
<1>5. IsFiniteSet(N) /\ Cardinality(N) = Cardinality(P)
  BY <1>1, FS_Interval
<1>6. r \in Surjection(P, N)
  BY <1>1, <1>4, <1>5, FS_Injection
<1>7. \A k \in N : \E i \in P : r[i] = k
  BY <1>6 DEF Surjection
<1> QED BY <1>1, <1>2, <1>7, <1>8

LEMMA RetainFacts ==
  ASSUME NEW S, NEW q \in Seq(S), NEW P \in SUBSET DOMAIN q
  PROVE  /\ Retain(q, P) \in Seq(S) /\ Len(Retain(q, P)) = Cardinality(P)
         /\ Elems(Retain(q, P)) = {q[i] : i \in P}
         /\ \A k, l \in DOMAIN Retain(q, P) : k # l =>
              \E i, j \in P : i # j /\ Retain(q, P)[k] = q[i] /\ Retain(q, P)[l] = q[j]
<1> DEFINE c == Cardinality(P)
           at(k) == CHOOSE i \in P : Rank(i, P) = k
           t == Retain(q, P)
<1>1. DOMAIN q = 1..Len(q) /\ Len(q) \in Nat
  OBVIOUS
<1>2. /\ c \in Nat /\ \A k \in 1..c : \E i \in P : Rank(i, P) = k
      /\ \A i \in P : Rank(i, P) \in 1..c
      /\ \A i, j \in P : Rank(i, P) = Rank(j, P) => i = j
  BY <1>1, RankIsNumbering
<1>3. \A k \in 1..c : at(k) \in P /\ Rank(at(k), P) = k
  BY <1>2
<1>4. t = [k \in 1..c |-> q[at(k)]]
  BY DEF Retain
<1> HIDE DEF at, t, c
<1>5. DOMAIN t = 1..c /\ \A k \in 1..c : t[k] = q[at(k)] /\ t[k] \in S
  BY <1>1, <1>3, <1>4
<1>6. t \in Seq(S) /\ Len(t) = c
  BY <1>2, <1>4, <1>5
<1>7. ASSUME NEW i \in P PROVE q[i] \in Elems(t)
  <2>1. Rank(i, P) \in 1..c /\ at(Rank(i, P)) = i
    BY <1>2, <1>3
  <2>2. t[Rank(i, P)] = q[i]
    BY <2>1, <1>5
  <2> QED BY <2>1, <2>2, <1>5 DEF Elems
<1>8. Elems(t) = {q[i] : i \in P}
  BY <1>3, <1>5, <1>7 DEF Elems
<1>9. ASSUME NEW k \in DOMAIN t, NEW l \in DOMAIN t, k # l
      PROVE  \E i, j \in P : i # j /\ t[k] = q[i] /\ t[l] = q[j]
  <2>1. /\ at(k) \in P /\ at(l) \in P /\ at(k) # at(l)
        /\ t[k] = q[at(k)] /\ t[l] = q[at(l)]
    BY <1>3, <1>5, <1>9
  <2> QED BY <2>1
<1> QED BY <1>6, <1>8, <1>9 DEF t, c
-----------------------------------------------------------------------------
\* The elements are typed, and the history's view of an id is the one above.
LEMMA Typed ==
  ASSUME TypeOK
  PROVE  /\ Kept \subseteq Flight /\ Saved \subseteq Flight /\ Flights \subseteq Flight
         /\ Elems(mailbox) \subseteq Entry
         /\ Elems(toClient) \subseteq Down /\ Elems(toBroker) \subseteq Up
<1>1. Kept \subseteq Flight
  BY ElemsType DEF TypeOK, Kept
<1>2. Saved \subseteq Flight
  <2>1. CASE stored = NoImage
    BY <2>1 DEF Saved
  <2>2. CASE stored # NoImage
    <3>1. stored.inflight \in Seq(Flight)
      BY <2>2 DEF TypeOK, Image
    <3> QED BY <3>1, <2>2, ElemsType DEF Saved
  <2> QED BY <2>1, <2>2
<1>3. Elems(mailbox) \subseteq Entry
  BY ElemsType DEF TypeOK
<1>4. Elems(toClient) \subseteq Down
  BY ElemsType DEF TypeOK
<1>5. Elems(toBroker) \subseteq Up
  BY ElemsType DEF TypeOK
<1> QED BY <1>1, <1>2, <1>3, <1>4, <1>5 DEF Flights

LEMMA TypedNext ==
  TypeOK' => /\ Flights' \subseteq Flight /\ Elems(mailbox)' \subseteq Entry
             /\ Elems(toClient)' \subseteq Down /\ Elems(toBroker)' \subseteq Up
<1>1. TypeOK => /\ Flights \subseteq Flight /\ Elems(mailbox) \subseteq Entry
                /\ Elems(toClient) \subseteq Down /\ Elems(toBroker) \subseteq Up
  BY Typed
<1>2. TypeOK' => (/\ Flights \subseteq Flight /\ Elems(mailbox) \subseteq Entry
                  /\ Elems(toClient) \subseteq Down /\ Elems(toBroker) \subseteq Up)'
  BY <1>1, PTL
<1> QED BY <1>2

LEMMA FieldTypes ==
  /\ \A f \in Flight : f.id \in Ids /\ f.msg \in Msgs /\ f.stage \in Stages /\ f.retry \in 0..MaxRetry
  /\ \A e \in Entry : e.id \in 0..MaxId /\ e.msg \in Msgs
  /\ \A p \in Down : p.id \in Ids /\ p.type \in {"PUBLISH", "PUBREL"}
                     /\ (p.type = "PUBLISH" => p.msg \in Msgs)
  /\ \A a \in Up : a.id \in Ids /\ a.type \in {"PUBACK", "PUBREC", "PUBCOMP"}
  BY DEF Flight, Entry, Down, Up

LEMMA UsedByIs ==
  ASSUME TypeOK, NEW id
  PROVE  UsedBy(id) = {m \in Msgs : Uses(id, m)}
<1>1. CASE stored = NoImage
  BY <1>1 DEF UsedBy, Uses, Flights, Kept, Saved, Elems
<1>2. CASE stored # NoImage
  BY <1>2 DEF UsedBy, Uses, Flights, Kept, Saved, Elems
<1> QED BY <1>1, <1>2

LEMMA AnsweredIs ==
  ASSUME NEW id
  PROVE  Answered(id) <=> Answers(id)
  BY DEF Answered, Answers, Elems

LEMMA GotStays ==
  ASSUME TypeOK, TypeOK', NEW m \in Msgs, clashed \subseteq clashed', Got(m),
         \A x \in Msgs : delivered'[x] >= delivered[x]
  PROVE  Got(m)'
<1>1. delivered[m] \in Nat /\ delivered'[m] \in Nat
  BY DEF TypeOK
<1> QED BY <1>1 DEF Got

\* A step that carries everything along brings an id to no new message, and
\* so keeps what is known of acknowledgements.
LEMMA UsesCarried ==
  ASSUME TypeOK, TypeOK', Carried, NEW id \in Ids, NEW m \in Msgs, Uses(id, m)'
  PROVE  Uses(id, m)
<1>1. CASE \E f \in Flights' : f.id = id /\ f.msg = m
  BY <1>1 DEF Carried, FlightsCarried, Same, Uses
<1>2. CASE \E e \in Elems(mailbox') : e.id = id /\ e.msg = m
  <2>1. id # 0
    BY DEF Ids
  <2> QED BY <1>2, <2>1 DEF Carried, BoxCarried, Same, Uses
<1>3. CASE \E p \in Elems(toClient') : p.type = "PUBLISH" /\ p.id = id /\ p.msg = m
  <2>1. PICK p \in Elems(toClient') : p.type = "PUBLISH" /\ p.id = id /\ p.msg = m
    BY <1>3
  <2>2. p \in Elems(toClient) \/ \E e \in Elems(mailbox) : Same(p, e)
    BY <2>1 DEF Carried, SentCarried
  <2> QED BY <2>1, <2>2 DEF Same, Uses
<1>4. Elems(mailbox)' = Elems(mailbox') /\ Elems(toClient)' = Elems(toClient')
  BY DEF Elems
<1> QED BY <1>1, <1>2, <1>3, <1>4 DEF Uses

\* What was got by one of the messages that use an id was got by all of them
\* that are in flight.
LEMMA GotShared ==
  ASSUME TypeOK, TypeOK', SameIdSameMsg, NEW g \in Flights, NEW m \in Msgs,
         clashed \subseteq clashed', Uses(g.id, m), Got(m)'
  PROVE  Got(g.msg)'
<1>1. g.id \in Ids /\ g.msg \in Msgs
  BY Typed, FieldTypes
<1>2. Uses(g.id, g.msg)
  BY DEF Uses
<1>3. m = g.msg \/ g.msg \in clashed
  BY <1>1, <1>2 DEF SameIdSameMsg
<1> QED BY <1>3 DEF Got

LEMMA CarriedKeepsDelivery ==
  ASSUME TypeOK, TypeOK', Delivery, Carried
  PROVE  Delivery'
<1> USE Typed, FieldTypes
<1>a. /\ Elems(mailbox)' = Elems(mailbox') /\ Elems(toClient)' = Elems(toClient')
      /\ Elems(toBroker)' = Elems(toBroker')
  BY DEF Elems
<1>b. /\ clashed' = clashed /\ \A m \in Msgs : delivered'[m] >= delivered[m]
      /\ \A m \in Msgs : Got(m) => Got(m)'
  BY GotStays DEF Carried
<1>c. ASSUME NEW f \in Flights'
      PROVE  \E g \in Flights : /\ Same(f, g) /\ g.id \in Ids /\ g.msg \in Msgs
                                /\ (f.stage = "pubcomp" => g.stage = "pubcomp" \/ Answers(g.id))
  BY DEF Carried, FlightsCarried
<1>1. MsgsRouted'
  <2>1. \A f \in Flights' : f.msg \in routed'
    BY <1>c DEF Delivery, MsgsRouted, Same, Carried
  <2>2. \A e \in Elems(mailbox') : e.msg \in routed'
    BY DEF Delivery, MsgsRouted, Same, Carried, BoxCarried
  <2>3. \A p \in Elems(toClient') : p.type = "PUBLISH" => p.msg \in routed'
    BY DEF Delivery, MsgsRouted, Same, Carried, SentCarried
  <2> QED BY <2>1, <2>2, <2>3, <1>a DEF MsgsRouted
<1>2. SameIdSameMsg'
  <2>1. ASSUME NEW id \in Ids, NEW m \in Msgs, NEW n \in Msgs, Uses(id, m)', Uses(id, n)'
        PROVE  m = n \/ (m \in clashed' /\ n \in clashed')
    <3>1. Uses(id, m) /\ Uses(id, n)
      BY <2>1, UsesCarried
    <3> QED BY <3>1, <1>b DEF Delivery, SameIdSameMsg
  <2> QED BY <2>1 DEF SameIdSameMsg
<1>3. AnsweredIsGot'
  <2>1. ASSUME NEW f \in Flights', Answers(f.id)' PROVE Got(f.msg)'
    <3>1. PICK g \in Flights : Same(f, g) /\ g.id \in Ids /\ g.msg \in Msgs
      BY <1>c
    <3>2. ASSUME Answers(g.id) PROVE Got(g.msg)'
      BY <3>1, <3>2, <1>b DEF Delivery, AnsweredIsGot
    <3>3. ASSUME NEW p \in Elems(toClient), p.id = g.id, Receipt(p) PROVE Got(g.msg)'
      <4>1. CASE p.type = "PUBREL"
        BY <3>2, <3>3, <4>1 DEF Answers
      <4>2. CASE p.type = "PUBLISH"
        <5>1. p.msg \in Msgs /\ Uses(g.id, p.msg) /\ Uses(g.id, g.msg)
          BY <3>3, <4>2 DEF Uses
        <5>2. CASE Got(p.msg)'
          BY <5>1, <5>2, <1>b, GotShared DEF Delivery
        <5>3. CASE p.msg \in Qos2 /\ p.id \in released
          <6>1. p.msg = g.msg \/ g.msg \in clashed
            BY <5>1, <3>1 DEF Delivery, SameIdSameMsg
          <6>2. CASE p.msg = g.msg
            BY <5>3, <6>2, <3>3, <3>1, <1>b DEF Delivery, HeldIsGot
          <6>3. CASE g.msg \in clashed
            BY <6>3, <1>b DEF Got
          <6> QED BY <6>1, <6>2, <6>3
        <5> QED BY <5>2, <5>3, <4>2, <3>3 DEF Receipt
      <4> QED BY <4>1, <4>2
    <3>4. ASSUME NEW a \in Elems(toBroker'), a.id = g.id PROVE Got(g.msg)'
      <4>1. CASE a \in Elems(toBroker)
        BY <3>2, <3>4, <4>1 DEF Answers
      <4>2. CASE a \notin Elems(toBroker)
        BY <3>3, <3>4, <4>2 DEF Carried, AcksCarried
      <4> QED BY <4>1, <4>2
    <3>5. ASSUME NEW p \in Elems(toClient'), p.type = "PUBREL", p.id = g.id PROVE Got(g.msg)'
      <4>1. CASE p \in Elems(toClient) \/ Answers(p.id)
        BY <3>2, <3>5, <4>1 DEF Answers
      <4>2. CASE \E h \in Flights : h.id = p.id /\ h.stage = "pubcomp"
        <5>1. PICK h \in Flights : h.id = p.id /\ h.stage = "pubcomp"
          BY <4>2
        <5>2. Got(h.msg)' /\ Uses(g.id, h.msg) /\ h.msg \in Msgs
          BY <5>1, <3>5, <1>b DEF Delivery, PubcompIsGot, Uses
        <5> QED BY <5>2, <1>b, GotShared DEF Delivery
      <4> QED BY <4>1, <4>2, <3>5 DEF Carried, SentCarried
    <3>6. Got(g.msg)'
      BY <2>1, <3>1, <3>4, <3>5, <1>a DEF Answers, Same
    <3> QED BY <3>1, <3>6 DEF Same
  <2> QED BY <2>1 DEF AnsweredIsGot
<1>4. HeldIsGot'
  <2>1. ASSUME NEW f \in Flights', f.id \in released', f.msg \in Qos2 PROVE Got(f.msg)'
    <3>1. PICK g \in Flights : Same(f, g) /\ g.id \in Ids /\ g.msg \in Msgs
      BY <1>c
    <3>2. CASE g.id \in released
      BY <3>1, <3>2, <2>1, <1>b DEF Delivery, HeldIsGot, Same
    <3>3. CASE g.id \notin released
      <4>1. PICK p \in Elems(toClient) : p.type = "PUBLISH" /\ p.id = g.id /\ Got(p.msg)'
        BY <3>1, <3>3, <2>1 DEF Carried, HeldCarried, Same
      <4>2. p.msg \in Msgs /\ Uses(g.id, p.msg)
        BY <4>1 DEF Uses
      <4>3. Got(g.msg)'
        BY <4>1, <4>2, <1>b, GotShared DEF Delivery
      <4> QED BY <4>3, <3>1 DEF Same
    <3> QED BY <3>2, <3>3
  <2> QED BY <2>1 DEF HeldIsGot
<1>5. PubcompIsGot'
  <2>1. ASSUME NEW f \in Flights', f.stage = "pubcomp" PROVE Got(f.msg)'
    <3>1. PICK g \in Flights : /\ Same(f, g) /\ g.msg \in Msgs
                               /\ (g.stage = "pubcomp" \/ Answers(g.id))
      BY <1>c, <2>1
    <3>2. Got(g.msg)
      BY <3>1 DEF Delivery, PubcompIsGot, AnsweredIsGot
    <3> QED BY <3>1, <3>2, <1>b DEF Same
  <2> QED BY <2>1 DEF PubcompIsGot
<1> QED BY <1>1, <1>2, <1>3, <1>4, <1>5 DEF Delivery
-----------------------------------------------------------------------------
\* The step that gives message m the packet id n.
FreshFlight(m, n) ==
    [msg |-> m, id |-> n, retry |-> 0, stage |-> IF m \in Qos2 THEN "pubrec" ELSE "puback"]

Numbered(m, n) ==
    /\ Flights' = Flights \cup {FreshFlight(m, n)}
    /\ Elems(mailbox') \subseteq Elems(mailbox)
    /\ \A p \in Elems(toClient') :
        p \in Elems(toClient) \/ (p.type = "PUBLISH" /\ p.id = n /\ p.msg = m)
    /\ toBroker' = toBroker /\ released' = released /\ delivered' = delivered
    /\ routed' = routed /\ clashed' = clashed \cup Clash(m, n)

LEMMA FreshFields ==
  ASSUME NEW m, NEW n
  PROVE  /\ FreshFlight(m, n).msg = m /\ FreshFlight(m, n).id = n
         /\ FreshFlight(m, n).stage # "pubcomp"
  BY DEF FreshFlight

LEMMA NumberedKeepsDelivery ==
  ASSUME TypeOK, TypeOK', Delivery, NEW m \in routed, NEW n \in Ids, Numbered(m, n)
  PROVE  Delivery'
<1> USE Typed, FieldTypes
<1>a. /\ Elems(mailbox)' = Elems(mailbox') /\ Elems(toClient)' = Elems(toClient')
      /\ Elems(toBroker)' = Elems(toBroker') /\ Elems(toBroker') = Elems(toBroker)
  BY DEF Elems, Numbered
<1>b. /\ clashed \subseteq clashed' /\ m \in Msgs
      /\ \A x \in Msgs : Got(x) => Got(x)'
  BY DEF Numbered, Got, TypeOK
<1>c. PICK new : new = FreshFlight(m, n)
  OBVIOUS
<1>d. new.msg = m /\ new.id = n /\ new.stage # "pubcomp" /\ Flights' = Flights \cup {new}
  BY <1>c, FreshFields DEF Numbered
<1>e. ASSUME NEW id \in Ids, NEW x \in Msgs, Uses(id, x)'
      PROVE  Uses(id, x) \/ (id = n /\ x = m)
  <2>1. CASE \E f \in Flights' : f.id = id /\ f.msg = x
    BY <2>1, <1>d DEF Uses
  <2>2. CASE \E e \in Elems(mailbox') : e.id = id /\ e.msg = x
    BY <2>2 DEF Uses, Numbered
  <2>3. CASE \E p \in Elems(toClient') : p.type = "PUBLISH" /\ p.id = id /\ p.msg = x
    BY <2>3 DEF Uses, Numbered
  <2> QED BY <2>1, <2>2, <2>3, <1>e, <1>a DEF Uses
<1>f. ASSUME NEW x \in Msgs, Uses(n, x) PROVE x \in clashed' /\ m \in clashed'
  <2>1. x \in UsedBy(n)
    BY <1>f, UsedByIs
  <2>2. Clash(m, n) = {m} \cup UsedBy(n)
    BY <2>1 DEF Clash
  <2> QED BY <2>1, <2>2 DEF Numbered
<1>g. ASSUME NEW id \in Ids, Answers(id)' PROVE Answers(id)
  BY <1>g, <1>a DEF Answers, Numbered
<1>1. MsgsRouted'
  <2>1. \A f \in Flights' : f.msg \in routed'
    BY <1>d DEF Numbered, Delivery, MsgsRouted
  <2>2. \A e \in Elems(mailbox') : e.msg \in routed'
    BY DEF Numbered, Delivery, MsgsRouted
  <2>3. \A p \in Elems(toClient') : p.type = "PUBLISH" => p.msg \in routed'
    BY DEF Numbered, Delivery, MsgsRouted
  <2> QED BY <2>1, <2>2, <2>3, <1>a DEF MsgsRouted
<1>2. SameIdSameMsg'
  <2>1. ASSUME NEW id \in Ids, NEW x \in Msgs, NEW y \in Msgs, Uses(id, x)', Uses(id, y)'
        PROVE  x = y \/ (x \in clashed' /\ y \in clashed')
    <3>1. Uses(id, x) \/ (id = n /\ x = m)
      BY <2>1, <1>e
    <3>2. Uses(id, y) \/ (id = n /\ y = m)
      BY <2>1, <1>e
    <3>3. CASE Uses(id, x) /\ Uses(id, y)
      BY <3>3, <1>b DEF Delivery, SameIdSameMsg
    <3>4. CASE id = n /\ x = m
      BY <3>4, <3>2, <1>f
    <3>5. CASE id = n /\ y = m
      BY <3>5, <3>1, <1>f
    <3> QED BY <3>1, <3>2, <3>3, <3>4, <3>5
  <2> QED BY <2>1 DEF SameIdSameMsg
<1>3. AnsweredIsGot'
  <2>1. ASSUME NEW f \in Flights', Answers(f.id)' PROVE Got(f.msg)'
    <3>1. CASE f \in Flights
      <4>1. f.id \in Ids /\ f.msg \in Msgs
        BY <3>1
      <4>2. Answers(f.id)
        BY <4>1, <2>1, <1>g
      <4> QED BY <3>1, <4>1, <4>2, <1>b DEF Delivery, AnsweredIsGot
    <3>2. CASE f = new
      <4>1. Answered(n)
        BY <3>2, <2>1, <1>d, <1>g, AnsweredIs
      <4>2. m \in clashed'
        BY <4>1 DEF Clash, Numbered
      <4> QED BY <4>2, <3>2, <1>d DEF Got
    <3> QED BY <3>1, <3>2, <1>d
  <2> QED BY <2>1 DEF AnsweredIsGot
<1>4. HeldIsGot'
  <2>1. ASSUME NEW f \in Flights', f.id \in released', f.msg \in Qos2 PROVE Got(f.msg)'
    <3>1. CASE f \in Flights
      BY <3>1, <2>1, <1>b DEF Delivery, HeldIsGot, Numbered
    <3>2. CASE f = new
      <4>1. m \in clashed'
        BY <3>2, <2>1, <1>d DEF Clash, Numbered
      <4> QED BY <4>1, <3>2, <1>d DEF Got
    <3> QED BY <3>1, <3>2, <1>d
  <2> QED BY <2>1 DEF HeldIsGot
<1>5. PubcompIsGot'
  <2>1. ASSUME NEW f \in Flights', f.stage = "pubcomp" PROVE Got(f.msg)'
    <3>1. f \in Flights
      BY <2>1, <1>d
    <3> QED BY <3>1, <2>1, <1>b DEF Delivery, PubcompIsGot
  <2> QED BY <2>1 DEF PubcompIsGot
<1> QED BY <1>1, <1>2, <1>3, <1>4, <1>5 DEF Delivery
-----------------------------------------------------------------------------
\* The operators of the model, in these terms.
LEMMA QueueSame ==
  ASSUME TypeOK, NEW gone
  PROVE  QueueFrom(inflight_queue) /\ QueueDrops(inflight_queue, gone)
  BY DEF TypeOK, QueueFrom, QueueDrops, Kept, Same

LEMMA QueueEmpty ==
  ASSUME NEW gone, \A f \in Kept : f.msg \in gone
  PROVE  QueueFrom(<<>>) /\ QueueDrops(<<>>, gone)
  BY ElemsEmpty DEF QueueFrom, QueueDrops, Distinct

LEMMA QueueWithoutId ==
  ASSUME TypeOK, AnsweredIsGot, NEW id, Answers(id), NEW gone
  PROVE  QueueFrom(WithoutId(id)) /\ QueueDrops(WithoutId(id), gone)
<1> DEFINE P == {i \in DOMAIN inflight_queue : inflight_queue[i].id # id}
<1>1. inflight_queue \in Seq(Flight) /\ P \in SUBSET DOMAIN inflight_queue
  BY DEF TypeOK
<1>2. PICK q : q = Retain(inflight_queue, P)
  OBVIOUS
<1>3. /\ q \in Seq(Flight) /\ Elems(q) = {inflight_queue[i] : i \in P}
      /\ \A k, l \in DOMAIN q : k # l =>
           \E i, j \in P : i # j /\ q[k] = inflight_queue[i] /\ q[l] = inflight_queue[j]
  <2> HIDE DEF P
  <2> QED BY <1>1, <1>2, RetainFacts
<1>4. Distinct(inflight_queue) => Distinct(q)
  BY <1>3 DEF Distinct
<1>5. \A f \in Elems(q) : f \in Kept
  BY <1>3 DEF Kept, Elems
<1>6. \A f \in Kept : f \in Elems(q) \/ f.id = id
  BY <1>3 DEF Kept, Elems
<1>7. \A f \in Kept : f.id = id => Got(f.msg)
  BY DEF AnsweredIsGot, Flights
<1>8. QueueFrom(q)
  BY <1>3, <1>4, <1>5 DEF QueueFrom, Same
<1>9. QueueDrops(q, gone)
  BY <1>6, <1>7 DEF QueueDrops
<1> QED BY <1>2, <1>8, <1>9 DEF WithoutId

LEMMA QueueAdvance ==
  ASSUME TypeOK, NEW id, Answers(id), NEW gone
  PROVE  QueueFrom(Advance(id)) /\ QueueDrops(Advance(id), gone)
<1>1. PICK q : q = Advance(id)
  OBVIOUS
<1>2. /\ DOMAIN q = DOMAIN inflight_queue
      /\ \A i \in DOMAIN inflight_queue :
           \/ q[i] = inflight_queue[i]
           \/ /\ inflight_queue[i].id = id
              /\ q[i] = [inflight_queue[i] EXCEPT !.stage = "pubcomp", !.retry = 0]
  BY <1>1 DEF Advance
<1>3. inflight_queue \in Seq(Flight) /\ DOMAIN inflight_queue = 1..Len(inflight_queue)
      /\ Len(inflight_queue) \in Nat
  BY DEF TypeOK
<1>4. \A i \in DOMAIN inflight_queue :
        /\ q[i] \in Flight /\ Same(q[i], inflight_queue[i])
        /\ q[i].stage = "pubcomp" => inflight_queue[i].stage = "pubcomp" \/ Answers(inflight_queue[i].id)
  <2>1. ASSUME NEW i \in DOMAIN inflight_queue
        PROVE  /\ q[i] \in Flight /\ Same(q[i], inflight_queue[i])
               /\ q[i].stage = "pubcomp" =>
                    inflight_queue[i].stage = "pubcomp" \/ Answers(inflight_queue[i].id)
    <3>1. PICK f \in Flight : f = inflight_queue[i]
      BY <1>3
    <3>2. CASE q[i] = f
      BY <3>1, <3>2 DEF Same
    <3>3. CASE f.id = id /\ q[i] = [f EXCEPT !.stage = "pubcomp", !.retry = 0]
      <4>1. q[i] \in Flight /\ q[i].id = f.id /\ q[i].msg = f.msg
        <5>1. 0 \in 0..MaxRetry /\ "pubcomp" \in Stages
          BY OutboundAssumption DEF Stages
        <5> QED BY <5>1, <3>3 DEF Flight
      <4> QED BY <3>1, <3>3, <4>1 DEF Same
    <3> QED BY <1>2, <3>1, <3>2, <3>3
  <2> QED BY <2>1
<1>5. q \in Seq(Flight)
  <2>1. q = [i \in 1..Len(inflight_queue) |-> q[i]]
    BY <1>1, <1>3 DEF Advance
  <2>2. \A i \in 1..Len(inflight_queue) : q[i] \in Flight
    BY <1>3, <1>4
  <2> QED BY <2>1, <2>2, <1>3
<1>6. Distinct(inflight_queue) => Distinct(q)
  BY <1>2, <1>4 DEF Distinct, Same
<1>7. \A f \in Elems(q) : \E g \in Kept :
        Same(f, g) /\ (f.stage = "pubcomp" => g.stage = "pubcomp" \/ Answers(g.id))
  BY <1>2, <1>4 DEF Kept, Elems
<1>8. QueueFrom(q)
  BY <1>5, <1>6, <1>7 DEF QueueFrom
<1>9. QueueDrops(q, gone)
  <2>1. ASSUME NEW f \in Kept PROVE \E h \in Elems(q) : h.msg = f.msg
    <3>1. PICK i \in DOMAIN inflight_queue : f = inflight_queue[i]
      BY DEF Kept, Elems
    <3>2. q[i] \in Elems(q) /\ q[i].msg = f.msg
      BY <3>1, <1>2, <1>4 DEF Elems, Same
    <3> QED BY <3>2
  <2> QED BY <2>1 DEF QueueDrops
<1> QED BY <1>1, <1>8, <1>9

LEMMA TriedFacts ==
  ASSUME TypeOK, NEW D \in SUBSET DOMAIN inflight_queue, NEW i \in DOMAIN inflight_queue
  PROVE  /\ Same(Tried(i, D), inflight_queue[i])
         /\ Tried(i, D).stage = inflight_queue[i].stage
         /\ i \notin OverLimit(D) => Tried(i, D) \in Flight
<1>1. PICK f \in Flight : f = inflight_queue[i]
  BY DEF TypeOK
<1>2. f.retry \in Nat /\ f.retry + 1 \in Nat /\ MaxRetry \in Nat
  BY OutboundAssumption DEF Flight
<1>3. CASE i \in D
  <2>1. Tried(i, D) = [f EXCEPT !.retry = f.retry + 1]
    BY <1>1, <1>3 DEF Tried
  <2>2. /\ Tried(i, D).id = f.id /\ Tried(i, D).msg = f.msg /\ Tried(i, D).stage = f.stage
    BY <2>1 DEF Flight
  <2>3. ASSUME i \notin OverLimit(D) PROVE Tried(i, D) \in Flight
    <3>1. f.retry + 1 \in 0..MaxRetry
      BY <2>3, <1>1, <1>2, <1>3 DEF OverLimit
    <3> QED BY <3>1, <2>1 DEF Flight
  <2> QED BY <1>1, <2>2, <2>3 DEF Same
<1>4. CASE i \notin D
  BY <1>1, <1>4 DEF Tried, Same
<1> QED BY <1>3, <1>4

LEMMA QueueAfterTick ==
  ASSUME TypeOK, NEW D \in SUBSET DOMAIN inflight_queue, NEW gone,
         {inflight_queue[i].msg : i \in OverLimit(D)} \subseteq gone
  PROVE  QueueFrom(AfterTick(D)) /\ QueueDrops(AfterTick(D), gone)
<1> DEFINE P == DOMAIN inflight_queue \ OverLimit(D)
           U == {Tried(i, D) : i \in DOMAIN inflight_queue}
<1>1. PICK t : t = [i \in DOMAIN inflight_queue |-> Tried(i, D)]
  OBVIOUS
<1>2. DOMAIN inflight_queue = 1..Len(inflight_queue) /\ Len(inflight_queue) \in Nat
  BY DEF TypeOK
<1>3. DOMAIN t = DOMAIN inflight_queue /\ \A i \in DOMAIN t : t[i] = Tried(i, D)
  BY <1>1
<1>4. t \in Seq(U) /\ P \in SUBSET DOMAIN t
  BY <1>1, <1>2, <1>3
<1>5. PICK q : q = Retain(t, P)
  OBVIOUS
<1>6. /\ q \in Seq(U) /\ Elems(q) = {t[i] : i \in P}
      /\ \A k, l \in DOMAIN q : k # l => \E i, j \in P : i # j /\ q[k] = t[i] /\ q[l] = t[j]
  <2> HIDE DEF P, U
  <2> QED BY <1>4, <1>5, RetainFacts
<1>7. \A i \in P : t[i] \in Flight /\ Same(t[i], inflight_queue[i]) /\ t[i].stage = inflight_queue[i].stage
  BY <1>3, TriedFacts
<1>8. q \in Seq(Flight)
  <2>1. \A k \in DOMAIN q : q[k] \in Flight
    BY <1>6, <1>7 DEF Elems
  <2>2. Len(q) \in Nat /\ DOMAIN q = 1..Len(q) /\ q = [k \in 1..Len(q) |-> q[k]]
    BY <1>6
  <2> HIDE DEF U
  <2> QED BY <2>1, <2>2
<1>9. Distinct(inflight_queue) => Distinct(q)
  BY <1>6, <1>7 DEF Distinct, Same
<1>10. \A f \in Elems(q) : \E g \in Kept : Same(f, g) /\ f.stage = g.stage
  <2>1. \A i \in P : inflight_queue[i] \in Kept
    BY DEF Kept, Elems
  <2>2. \A f \in Elems(q) : \E i \in P : f = t[i]
    BY <1>6, Zenon
  <2> HIDE DEF P, U
  <2> QED BY <2>1, <2>2, <1>7
<1>11. QueueFrom(q)
  BY <1>8, <1>9, <1>10 DEF QueueFrom
<1>12. ASSUME NEW f \in Kept PROVE (\E h \in Elems(q) : h.msg = f.msg) \/ f.msg \in gone
  <2>1. PICK i \in DOMAIN inflight_queue : f = inflight_queue[i]
    BY DEF Kept, Elems
  <2>2. CASE i \in OverLimit(D)
    BY <2>1, <2>2
  <2>3. CASE i \notin OverLimit(D)
    BY <2>1, <2>3, <1>6, <1>7 DEF Same
  <2> QED BY <2>2, <2>3
<1>13. QueueDrops(q, gone)
  BY <1>12 DEF QueueDrops
<1> QED BY <1>1, <1>5, <1>11, <1>13 DEF AfterTick

LEMMA AgainFacts ==
  ASSUME TypeOK, NEW D \in SUBSET DOMAIN inflight_queue
  PROVE  /\ Again(D) \in Seq(Entry)
         /\ \A e \in Elems(Again(D)) : e.id # 0 /\ \E g \in Kept : Same(e, g)
<1> DEFINE P == {i \in D \ OverLimit(D) : inflight_queue[i].stage # "pubcomp"}
<1>1. PICK due : due = Retain(inflight_queue, P)
  OBVIOUS
<1>2. due \in Seq(Flight) /\ Elems(due) = {inflight_queue[i] : i \in P}
  <2>1. P \in SUBSET DOMAIN inflight_queue /\ inflight_queue \in Seq(Flight)
    BY DEF TypeOK
  <2> HIDE DEF P
  <2> QED BY <1>1, <2>1, RetainFacts
<1>3. PICK a : a = [k \in DOMAIN due |-> [msg |-> due[k].msg, id |-> due[k].id]]
  OBVIOUS
<1>4. /\ DOMAIN a = DOMAIN due /\ DOMAIN due = 1..Len(due) /\ Len(due) \in Nat
      /\ \A k \in DOMAIN due : a[k] = [msg |-> due[k].msg, id |-> due[k].id]
  BY <1>2, <1>3
<1>5. \A k \in DOMAIN due : due[k] \in Kept /\ due[k] \in Flight
  BY <1>2 DEF Elems, Kept
<1>6. \A k \in DOMAIN due : a[k] \in Entry /\ a[k].id # 0 /\ Same(a[k], due[k])
  <2>1. ASSUME NEW k \in DOMAIN due PROVE a[k] \in Entry /\ a[k].id # 0 /\ Same(a[k], due[k])
    <3>1. due[k].msg \in Msgs /\ due[k].id \in Ids
      BY <1>5, FieldTypes
    <3> QED BY <3>1, <1>4, OutboundAssumption DEF Entry, Same, Ids
  <2> QED BY <2>1
<1>7. a \in Seq(Entry)
  <2>1. a = [k \in 1..Len(due) |-> a[k]]
    BY <1>3, <1>4
  <2> QED BY <2>1, <1>4, <1>6
<1>8. \A e \in Elems(a) : e.id # 0 /\ \E g \in Kept : Same(e, g)
  BY <1>4, <1>5, <1>6 DEF Elems
<1> QED BY <1>1, <1>3, <1>7, <1>8 DEF Again

LEMMA ReleaseFacts ==
  ASSUME TypeOK, NEW D \in SUBSET DOMAIN inflight_queue
  PROVE  /\ Release(D) \in Seq(Down)
         /\ \A p \in Elems(Release(D)) :
              p.type = "PUBREL" /\ \E g \in Kept : g.id = p.id /\ g.stage = "pubcomp"
<1> DEFINE P == {i \in D \ OverLimit(D) : inflight_queue[i].stage = "pubcomp"}
<1>1. PICK due : due = Retain(inflight_queue, P)
  OBVIOUS
<1>2. due \in Seq(Flight) /\ Elems(due) = {inflight_queue[i] : i \in P}
  <2>1. P \in SUBSET DOMAIN inflight_queue /\ inflight_queue \in Seq(Flight)
    BY DEF TypeOK
  <2> HIDE DEF P
  <2> QED BY <1>1, <2>1, RetainFacts
<1>3. PICK a : a = [k \in DOMAIN due |-> [type |-> "PUBREL", id |-> due[k].id]]
  OBVIOUS
<1>4. /\ DOMAIN a = DOMAIN due /\ DOMAIN due = 1..Len(due) /\ Len(due) \in Nat
      /\ \A k \in DOMAIN due : a[k] = [type |-> "PUBREL", id |-> due[k].id]
  BY <1>2, <1>3
<1>5. \A k \in DOMAIN due : due[k] \in Kept /\ due[k] \in Flight /\ due[k].stage = "pubcomp"
  BY <1>2 DEF Elems, Kept
<1>6. \A k \in DOMAIN due : a[k] \in Down /\ a[k].type = "PUBREL" /\ a[k].id = due[k].id
  <2>1. ASSUME NEW k \in DOMAIN due
        PROVE  a[k] \in Down /\ a[k].type = "PUBREL" /\ a[k].id = due[k].id
    <3>1. due[k].id \in Ids
      BY <1>5, FieldTypes
    <3> QED BY <3>1, <1>4 DEF Down
  <2> QED BY <2>1
<1>7. a \in Seq(Down)
  <2>1. a = [k \in 1..Len(due) |-> a[k]]
    BY <1>3, <1>4
  <2> QED BY <2>1, <1>4, <1>6
<1>8. \A p \in Elems(a) : p.type = "PUBREL" /\ \E g \in Kept : g.id = p.id /\ g.stage = "pubcomp"
  BY <1>4, <1>5, <1>6 DEF Elems
<1> QED BY <1>1, <1>3, <1>7, <1>8 DEF Release
-----------------------------------------------------------------------------
\* A message waits for its packet id at one place of the mailbox only.
LEMMA OnceTail ==
  ASSUME NEW b \in Seq(Entry), b # <<>>, Once(b)
  PROVE  /\ Once(Tail(b))
         /\ Head(b).id = 0 => \A e \in Elems(Tail(b)) : ~(e.id = 0 /\ e.msg = Head(b).msg)
<1>1. PICK t : t = Tail(b)
  OBVIOUS
<1>2. /\ t \in Seq(Entry) /\ Len(t) = Len(b) - 1 /\ Len(b) \in Nat /\ Len(b) > 0
      /\ DOMAIN t = 1..(Len(b) - 1) /\ DOMAIN b = 1..Len(b)
      /\ \A i \in 1..(Len(b) - 1) : t[i] = b[i + 1] /\ i + 1 \in DOMAIN b /\ i + 1 # 1
      /\ Head(b) = b[1] /\ 1 \in DOMAIN b
  BY <1>1
<1>3. Once(t)
  <2>1. ASSUME NEW i \in DOMAIN t, NEW j \in DOMAIN t, t[i].id = 0, t[j].id = 0, t[i].msg = t[j].msg
        PROVE  i = j
    <3>1. i + 1 = j + 1
      BY <2>1, <1>2 DEF Once
    <3> QED BY <3>1, <1>2
  <2> QED BY <2>1 DEF Once
<1>4. ASSUME Head(b).id = 0, NEW i \in DOMAIN t, t[i].id = 0, t[i].msg = Head(b).msg PROVE FALSE
  <2>1. i + 1 = 1
    BY <1>4, <1>2 DEF Once
  <2> QED BY <2>1, <1>2
<1> QED BY <1>1, <1>3, <1>4 DEF Elems

LEMMA OnceConcat ==
  ASSUME NEW b \in Seq(Entry), NEW t \in Seq(Entry), Once(b), \A e \in Elems(t) : e.id # 0
  PROVE  Once(b \o t)
<1>1. PICK u : u = b \o t
  OBVIOUS
<1>2. /\ DOMAIN u = 1..(Len(b) + Len(t)) /\ DOMAIN b = 1..Len(b) /\ DOMAIN t = 1..Len(t)
      /\ Len(b) \in Nat /\ Len(t) \in Nat
      /\ \A i \in 1..(Len(b) + Len(t)) : u[i] = IF i <= Len(b) THEN b[i] ELSE t[i - Len(b)]
  BY <1>1
<1>3. ASSUME NEW i \in DOMAIN u, u[i].id = 0 PROVE i \in DOMAIN b /\ u[i] = b[i]
  <2>1. CASE i <= Len(b)
    BY <2>1, <1>2
  <2>2. CASE ~(i <= Len(b))
    <3>1. i - Len(b) \in DOMAIN t /\ u[i] = t[i - Len(b)]
      BY <2>2, <1>2
    <3>2. u[i] \in Elems(t)
      BY <3>1 DEF Elems
    <3> QED BY <3>2, <1>3
  <2> QED BY <2>1, <2>2
<1>4. Once(u)
  BY <1>3 DEF Once
<1> QED BY <1>1, <1>4

LEMMA OnceAppend ==
  ASSUME NEW b \in Seq(Entry), NEW m \in Msgs, Once(b), \A e \in Elems(b) : e.msg # m
  PROVE  Once(Append(b, [msg |-> m, id |-> 0]))
<1>1. PICK u : u = Append(b, [msg |-> m, id |-> 0])
  OBVIOUS
<1>2. /\ DOMAIN u = 1..(Len(b) + 1) /\ DOMAIN b = 1..Len(b) /\ Len(b) \in Nat
      /\ \A i \in 1..Len(b) : u[i] = b[i]
      /\ u[Len(b) + 1] = [msg |-> m, id |-> 0]
  BY <1>1
<1>3. \A i \in 1..Len(b) : u[i].msg # m
  BY <1>2 DEF Elems
<1>4. ASSUME NEW i \in DOMAIN u, NEW j \in DOMAIN u, u[i].id = 0, u[j].id = 0, u[i].msg = u[j].msg
      PROVE  i = j
  <2>1. u[Len(b) + 1].msg = m
    BY <1>2
  <2>2. CASE i \in 1..Len(b) /\ j \in 1..Len(b)
    BY <2>2, <1>2, <1>4 DEF Once
  <2>3. CASE ~(i \in 1..Len(b) /\ j \in 1..Len(b))
    BY <2>1, <2>3, <1>2, <1>3, <1>4
  <2> QED BY <2>2, <2>3
<1> QED BY <1>1, <1>4 DEF Once

LEMMA BoxSame ==
  ASSUME TypeOK, NEW gone
  PROVE  BoxFrom(mailbox) /\ BoxDrops(mailbox, gone)
  BY DEF TypeOK, BoxFrom, BoxDrops

LEMMA BoxTail ==
  ASSUME TypeOK, mailbox # <<>>, NEW gone, Head(mailbox).id = 0 => Head(mailbox).msg \in gone
  PROVE  BoxFrom(Tail(mailbox)) /\ BoxDrops(Tail(mailbox), gone)
<1>1. mailbox \in Seq(Entry) /\ Len(mailbox) \in Nat /\ Len(mailbox) <= MailboxCap /\ MailboxCap \in Nat
  BY OutboundAssumption DEF TypeOK
<1>2. PICK b : b = Tail(mailbox)
  OBVIOUS
<1>3. /\ b \in Seq(Entry) /\ Len(b) = Len(mailbox) - 1
      /\ Elems(mailbox) = {Head(mailbox)} \cup Elems(b)
  BY <1>1, <1>2, ElemsTail
<1>4. Once(mailbox) => Once(b)
  BY <1>1, <1>2, OnceTail
<1>5. BoxFrom(b)
  BY <1>1, <1>3, <1>4 DEF BoxFrom
<1>6. BoxDrops(b, gone)
  BY <1>3 DEF BoxDrops
<1> QED BY <1>2, <1>5, <1>6

LEMMA BoxMore ==
  ASSUME TypeOK, NEW gone, NEW t \in Seq(Entry), Len(mailbox) + Len(t) <= MailboxCap,
         \A e \in Elems(t) : e.id # 0 /\ \E g \in Kept : Same(e, g)
  PROVE  BoxFrom(mailbox \o t) /\ BoxDrops(mailbox \o t, gone)
<1>1. mailbox \in Seq(Entry)
  BY DEF TypeOK
<1>2. PICK b : b = mailbox \o t
  OBVIOUS
<1>3. /\ b \in Seq(Entry) /\ Len(b) = Len(mailbox) + Len(t)
      /\ Elems(b) = Elems(mailbox) \cup Elems(t)
  BY <1>1, <1>2, ElemsConcat
<1>4. Once(mailbox) => Once(b)
  BY <1>1, <1>2, OnceConcat
<1>5. BoxFrom(b)
  BY <1>3, <1>4 DEF BoxFrom
<1>6. BoxDrops(b, gone)
  BY <1>3 DEF BoxDrops
<1> QED BY <1>2, <1>5, <1>6

LEMMA BoxArrives ==
  ASSUME TypeOK, MsgsRouted, NEW gone, NEW m \in Msgs, m \notin routed, m \in routed',
         Len(mailbox) < MailboxCap
  PROVE  /\ BoxFrom(Append(mailbox, [msg |-> m, id |-> 0]))
         /\ BoxDrops(Append(mailbox, [msg |-> m, id |-> 0]), gone)
<1>1. mailbox \in Seq(Entry) /\ Len(mailbox) \in Nat /\ MailboxCap \in Nat
  BY OutboundAssumption DEF TypeOK
<1>2. PICK e : e = [msg |-> m, id |-> 0]
  OBVIOUS
<1>3. e \in Entry /\ e.id = 0 /\ e.msg = m
  BY <1>2, OutboundAssumption DEF Entry
<1>4. PICK b : b = Append(mailbox, e)
  OBVIOUS
<1>5. /\ b \in Seq(Entry) /\ Len(b) = Len(mailbox) + 1 /\ Elems(b) = Elems(mailbox) \cup {e}
  BY <1>1, <1>3, <1>4, ElemsAppend
<1>6. Once(mailbox) => Once(b)
  <2>1. \A x \in Elems(mailbox) : x.msg # m
    BY DEF MsgsRouted
  <2> QED BY <2>1, <1>1, <1>2, <1>4, OnceAppend
<1>7. BoxFrom(b)
  BY <1>1, <1>3, <1>5, <1>6 DEF BoxFrom
<1>8. BoxDrops(b, gone)
  BY <1>5 DEF BoxDrops
<1> QED BY <1>2, <1>4, <1>7, <1>8

LEMMA QueuedIs ==
  ASSUME NEW m
  PROVE  Queued(m) <=> \E e \in Elems(mailbox) : e.msg = m /\ e.id = 0
  BY DEF Queued, Elems

LEMMA InFlightIs ==
  ASSUME NEW m
  PROVE  InFlight(m) <=> \E f \in Kept : f.msg = m
  BY DEF InFlight, Kept, Elems

LEMMA InImageIs ==
  ASSUME NEW m
  PROVE  InImage(m) <=> \E f \in Saved : f.msg = m
<1>1. CASE stored = NoImage
  BY <1>1 DEF InImage, Saved
<1>2. CASE stored # NoImage
  BY <1>2 DEF InImage, Saved, Elems
<1> QED BY <1>1, <1>2
-----------------------------------------------------------------------------
\* Counting: every message that is numbered leaves one less to number.
LEMMA UnnumberedFinite ==
  ASSUME NoWrap, NEW T \in SUBSET Msgs
  PROVE  IsFiniteSet(T) /\ Cardinality(T) \in Nat /\ Cardinality(T) <= MaxId
<1>1. IsFiniteSet(Msgs) /\ Cardinality(Msgs) <= MaxId /\ MaxId \in Nat
  BY OutboundAssumption DEF NoWrap
<1>2. IsFiniteSet(T) /\ Cardinality(T) <= Cardinality(Msgs)
  BY <1>1, FS_Subset
<1>3. Cardinality(T) \in Nat /\ Cardinality(Msgs) \in Nat
  BY <1>1, <1>2, FS_CardinalityType
<1> QED BY <1>1, <1>2, <1>3

LEMMA FewerLeft ==
  ASSUME NoWrap, NEW S \in SUBSET Msgs, NEW T \in SUBSET S
  PROVE  /\ Cardinality(S) \in Nat /\ Cardinality(T) \in Nat
         /\ Cardinality(T) <= Cardinality(S)
         /\ (\E m \in S : m \notin T) => Cardinality(T) < Cardinality(S)
         /\ T # {} => Cardinality(T) > 0
<1>1. /\ IsFiniteSet(S) /\ IsFiniteSet(T)
      /\ Cardinality(S) \in Nat /\ Cardinality(T) \in Nat
  BY UnnumberedFinite
<1>2. Cardinality(T) <= Cardinality(S) /\ (Cardinality(S) = Cardinality(T) => S = T)
  BY <1>1, FS_Subset
<1>3. T # {} => Cardinality(T) # 0
  BY <1>1, FS_EmptySet
<1> QED BY <1>1, <1>2, <1>3

\* A counter that has room for what is left does not come round.
LEMMA CounterRoom ==
  ASSUME TypeOK, NoWrap, Unnumbered' \subseteq Unnumbered, CounterMoves,
         Unnumbered' # {}, Room(next_packet_id)
  PROVE  /\ next_packet_id' \in Nat /\ next_packet_id' >= next_packet_id
         /\ Room(next_packet_id)'
         /\ next_packet_id' = NextId =>
              next_packet_id' = next_packet_id + 1 \/ next_packet_id' = next_packet_id
<1> DEFINE S == Unnumbered
           T == Unnumbered'
<1>1. S \in SUBSET Msgs /\ T \in SUBSET S
  BY DEF Unnumbered
<1> HIDE DEF S, T
<1>2. /\ Cardinality(S) \in Nat /\ Cardinality(T) \in Nat
      /\ Cardinality(T) <= Cardinality(S)
      /\ (\E m \in S : m \notin T) => Cardinality(T) < Cardinality(S)
      /\ T # {} => Cardinality(T) > 0
  BY <1>1, FewerLeft
<1>3. next_packet_id \in Nat /\ MaxId \in Nat /\ Cardinality(S) + next_packet_id <= MaxId + 1
  BY OutboundAssumption DEF TypeOK, Ids, Room, S
<1>4. CASE next_packet_id' = next_packet_id
  <2>1. Cardinality(T) + next_packet_id' <= MaxId + 1
    BY <1>2, <1>3, <1>4
  <2> QED BY <2>1, <1>3, <1>4 DEF Room, T
<1>5. CASE next_packet_id' = NextId /\ \E m \in Unnumbered : m \notin Unnumbered'
  <2>1. Cardinality(T) < Cardinality(S) /\ Cardinality(T) > 0
    BY <1>2, <1>5 DEF S, T
  <2>2. next_packet_id # MaxId
    BY <2>1, <1>2, <1>3
  <2>3. next_packet_id' = next_packet_id + 1
    BY <1>5, <2>2 DEF NextId
  <2>4. Cardinality(T) + next_packet_id' <= MaxId + 1
    BY <1>2, <1>3, <2>1, <2>3
  <2> QED BY <2>3, <2>4, <1>3 DEF Room, T
<1> QED BY <1>4, <1>5 DEF CounterMoves

LEMMA RoomStays ==
  ASSUME NoWrap, Unnumbered' \subseteq Unnumbered, NEW n \in Nat, Room(n)
  PROVE  Cardinality(Unnumbered)' + n <= MaxId + 1
<1> DEFINE S == Unnumbered
           T == Unnumbered'
<1>1. S \in SUBSET Msgs /\ T \in SUBSET S
  BY DEF Unnumbered
<1> HIDE DEF S, T
<1>2. /\ Cardinality(S) \in Nat /\ Cardinality(T) \in Nat
      /\ Cardinality(T) <= Cardinality(S)
  BY <1>1, FewerLeft
<1>3. Cardinality(S) + n <= MaxId + 1 /\ MaxId \in Nat
  BY OutboundAssumption DEF Room, S
<1>4. Cardinality(T) + n <= MaxId + 1
  BY <1>2, <1>3
<1> QED BY <1>4 DEF T

\* With messages left, what carries an id lies below the counter.
LEMMA NextIdType ==
  ASSUME TypeOK
  PROVE  NextId \in Ids /\ next_packet_id \in Ids
  BY OutboundAssumption DEF TypeOK, NextId, Ids

LEMMA CounterTypes ==
  ASSUME TypeOK
  PROVE  next_packet_id \in Nat /\ (stored # NoImage => stored.next \in Nat)
<1>1. Ids \subseteq Nat
  BY OutboundAssumption DEF Ids
<1>2. next_packet_id \in Ids /\ (stored # NoImage => stored.next \in Ids)
  BY DEF TypeOK, Image
<1> QED BY <1>1, <1>2

LEMMA AllBelow ==
  ASSUME TypeOK, Below, ImageBelow, Unnumbered # {}, state # "absent"
  PROVE  /\ \A f \in Flights : f.id < next_packet_id
         /\ \A e \in Elems(mailbox) : e.id < next_packet_id
         /\ \A p \in Elems(toClient) : p.id < next_packet_id
         /\ \A a \in Elems(toBroker) : a.id < next_packet_id
         /\ \A id : Answers(id) => id < next_packet_id
<1>1. \A f \in Kept : f.id < next_packet_id
  BY DEF Below
<1>2. ASSUME NEW f \in Saved PROVE f.id < next_packet_id
  <2>1. stored # NoImage
    BY DEF Saved
  <2>2. stored.next \in Nat /\ next_packet_id \in Nat
    BY <2>1, CounterTypes
  <2>3. f.id \in Nat
    BY Typed, FieldTypes, OutboundAssumption DEF Ids
  <2>4. f.id < stored.next /\ stored.next <= next_packet_id
    BY <2>1 DEF ImageBelow
  <2> QED BY <2>2, <2>3, <2>4
<1>3. /\ \A e \in Elems(mailbox) : e.id < next_packet_id
      /\ \A p \in Elems(toClient) : p.id < next_packet_id
      /\ \A a \in Elems(toBroker) : a.id < next_packet_id
  BY DEF Below
<1> QED BY <1>1, <1>2, <1>3 DEF Flights, Answers

\* So the id that the next message gets is in nobody's use.
LEMMA NextIsFree ==
  ASSUME TypeOK, Below, ImageBelow, Unnumbered # {}, state # "absent"
  PROVE  UsedBy(next_packet_id) = {} /\ ~Answered(next_packet_id)
<1>1. next_packet_id \in Nat
  BY CounterTypes
<1>2. ASSUME NEW x \in Msgs, Uses(next_packet_id, x) PROVE FALSE
  <2>1. next_packet_id < next_packet_id
    BY <1>2, AllBelow DEF Uses
  <2> QED BY <1>1, <2>1
<1>3. ~Answers(next_packet_id)
  BY <1>1, AllBelow
<1> QED BY <1>2, <1>3, UsedByIs, AnsweredIs

\* The steps of a session that is there and stays.
\* A step that numbers nothing keeps all ids below the counter.
LEMMA StayNumbering ==
  ASSUME TypeOK, TypeOK', Numbering, Carried, CounterMoves, Unnumbered' \subseteq Unnumbered,
         state # "absent",
         stored' \in {stored, NoImage} \/ stored' = [inflight |-> inflight_queue', next |-> next_packet_id'],
         Distinct(inflight_queue) => Distinct(inflight_queue')
  PROVE  Numbering'
<1> SUFFICES ASSUME NoWrap
             PROVE  /\ Below' /\ ImageBelow'
                    /\ Distinct(inflight_queue') /\ (stored' # NoImage => Distinct(stored'.inflight))
  BY DEF Numbering, NoWrap, Distinct
<1>1. /\ Below /\ ImageBelow /\ Distinct(inflight_queue)
      /\ (stored # NoImage => Distinct(stored.inflight))
  BY DEF Numbering
<1>2. Distinct(inflight_queue')
  BY <1>1 DEF Carried
<1>3. stored' # NoImage => Distinct(stored'.inflight)
  BY <1>1, <1>2
<1>a. /\ Elems(mailbox)' = Elems(mailbox') /\ Elems(toClient)' = Elems(toClient')
      /\ Elems(toBroker)' = Elems(toBroker')
  BY DEF Elems
<1>4. ASSUME Unnumbered' # {}
      PROVE  /\ Unnumbered # {} /\ next_packet_id \in Nat /\ next_packet_id' \in Nat
             /\ 0 < next_packet_id /\ next_packet_id' >= next_packet_id /\ Room(next_packet_id)'
  <2>1. Unnumbered # {}
    BY <1>4
  <2>2. next_packet_id \in Nat /\ 0 < next_packet_id
    BY OutboundAssumption DEF TypeOK, Ids
  <2> QED BY <2>1, <2>2, <1>1, <1>4, CounterRoom DEF Below
<1>5. ASSUME Unnumbered' # {}
      PROVE  /\ \A f \in Flights' : f.id < next_packet_id'
             /\ \A e \in Elems(mailbox') : e.id < next_packet_id'
             /\ \A p \in Elems(toClient') : p.id < next_packet_id'
             /\ \A a \in Elems(toBroker') : a.id < next_packet_id'
  <2>1. /\ \A f \in Flights : f.id < next_packet_id
        /\ \A e \in Elems(mailbox) : e.id < next_packet_id
        /\ \A p \in Elems(toClient) : p.id < next_packet_id
        /\ \A a \in Elems(toBroker) : a.id < next_packet_id
        /\ \A id : Answers(id) => id < next_packet_id
    BY <1>1, <1>4, <1>5, AllBelow
  <2>2. /\ \A f \in Flights' : f.id \in Nat
        /\ \A e \in Elems(mailbox') : e.id \in Nat
        /\ \A p \in Elems(toClient') : p.id \in Nat
        /\ \A a \in Elems(toBroker') : a.id \in Nat
    <3>1. /\ Flights' \subseteq Flight /\ Elems(mailbox)' \subseteq Entry
          /\ Elems(toClient)' \subseteq Down /\ Elems(toBroker)' \subseteq Up
      BY TypedNext
    <3> QED BY <3>1, <1>a, FieldTypes, OutboundAssumption DEF Ids
  <2>3. \A x \in Nat : x < next_packet_id => x < next_packet_id'
    BY <1>4, <1>5
  <2>4. \A f \in Flights' : f.id < next_packet_id
    BY <2>1 DEF Carried, FlightsCarried, Same
  <2>5. \A e \in Elems(mailbox') : e.id < next_packet_id
    BY <2>1, <1>4, <1>5 DEF Carried, BoxCarried, Same
  <2>6. \A p \in Elems(toClient') : p.id < next_packet_id
    BY <2>1 DEF Carried, SentCarried, Same
  <2>7. \A a \in Elems(toBroker') : a.id < next_packet_id
    BY <2>1 DEF Carried, AcksCarried
  <2> QED BY <2>2, <2>3, <2>4, <2>5, <2>6, <2>7
<1>6. Below'
  BY <1>4, <1>5, <1>a DEF Below, Flights
<1>7. ImageBelow'
  <2>1. CASE stored' = NoImage
    BY <2>1 DEF ImageBelow
  <2>2. CASE stored' = stored /\ stored # NoImage
    <3>1. ASSUME Unnumbered' # {}
          PROVE  /\ Room(stored.next)' /\ \A f \in Saved' : f.id < stored'.next
                 /\ stored'.next <= next_packet_id'
      <4>1. /\ Room(stored.next) /\ \A f \in Saved : f.id < stored.next
            /\ stored.next <= next_packet_id
        BY <1>1, <1>4, <3>1, <2>2 DEF ImageBelow
      <4>2. stored.next \in Nat
        BY <2>2, CounterTypes
      <4>3. Saved' = Saved
        BY <2>2 DEF Saved, Elems
      <4>4. Room(stored.next)'
        BY <4>1, <4>2, <2>2, RoomStays DEF Room
      <4> QED BY <4>1, <4>2, <4>3, <4>4, <2>2, <1>4, <3>1
    <3> QED BY <3>1 DEF ImageBelow
  <2>3. CASE stored' = [inflight |-> inflight_queue', next |-> next_packet_id']
    <3>1. stored'.next = next_packet_id'
      BY <2>3
    <3>2. ASSUME Unnumbered' # {} PROVE Room(stored.next)' /\ \A f \in Saved' : f.id < stored'.next
      BY <1>4, <1>5, <3>1, <3>2 DEF Room, Flights
    <3>3. next_packet_id' \in Nat
      BY OutboundAssumption DEF TypeOK, Ids
    <3> QED BY <3>1, <3>2, <3>3 DEF ImageBelow
  <2> QED BY <2>1, <2>2, <2>3
<1> QED BY <1>2, <1>3, <1>6, <1>7

\* The end of a session, and a failed restore.
LEMMA AbsentNumbering ==
  ASSUME TypeOK, TypeOK', AbsentIsEmpty', Numbering, state' = "absent",
         Unnumbered' \subseteq Unnumbered, stored' \in {stored, NoImage}
  PROVE  Numbering'
<1> SUFFICES ASSUME NoWrap
             PROVE  /\ Below' /\ ImageBelow'
                    /\ Distinct(inflight_queue') /\ (stored' # NoImage => Distinct(stored'.inflight))
  BY DEF Numbering, NoWrap, Distinct
<1>1. /\ Below /\ ImageBelow /\ (stored # NoImage => Distinct(stored.inflight))
     
  BY DEF Numbering
<1>2. /\ mailbox' = <<>> /\ inflight_queue' = <<>> /\ next_packet_id' = 1
      /\ toClient' = <<>> /\ toBroker' = <<>>
  BY DEF AbsentIsEmpty
<1>3. /\ Elems(mailbox)' = {} /\ Kept' = {} /\ Elems(toClient)' = {} /\ Elems(toBroker)' = {}
      /\ Distinct(inflight_queue')
  BY <1>2 DEF Elems, Kept, Distinct
<1>4. Room(next_packet_id)'
  <2>1. Unnumbered' \in SUBSET Msgs
    BY DEF Unnumbered
  <2>2. PICK T \in SUBSET Msgs : T = Unnumbered'
    BY <2>1
  <2>3. Cardinality(T) \in Nat /\ Cardinality(T) <= MaxId /\ MaxId \in Nat
    BY UnnumberedFinite, OutboundAssumption
  <2>4. Cardinality(T) + 1 <= MaxId + 1
    BY <2>3
  <2> QED BY <2>2, <2>4, <1>2 DEF Room
<1>5. Below'
  BY <1>3, <1>4 DEF Below
<1>6. ImageBelow'
  <2>1. CASE stored' = NoImage
    BY <2>1 DEF ImageBelow
  <2>2. CASE stored' = stored /\ stored # NoImage
    <3>1. ASSUME Unnumbered' # {}
          PROVE  Room(stored.next)' /\ \A f \in Saved' : f.id < stored'.next
      <4>1. Room(stored.next) /\ \A f \in Saved : f.id < stored.next
        BY <1>1, <3>1, <2>2 DEF ImageBelow
      <4>2. stored.next \in Nat
        BY <2>2, CounterTypes
      <4>3. Saved' = Saved
        BY <2>2 DEF Saved, Elems
      <4>4. Room(stored.next)'
        BY <4>1, <4>2, <2>2, RoomStays DEF Room
      <4> QED BY <4>1, <4>3, <4>4, <2>2
    <3> QED BY <3>1 DEF ImageBelow
  <2> QED BY <2>1, <2>2
<1> QED BY <1>1, <1>3, <1>5, <1>6
-----------------------------------------------------------------------------
\* A session that comes back, with the image or with nothing.
LEMMA BackNumbering ==
  ASSUME TypeOK, TypeOK', AbsentIsEmpty, Numbering, state = "absent", stored' = NoImage,
         mailbox' = mailbox, toClient' = toClient, toBroker' = toBroker,
         Unnumbered' = Unnumbered,
         \/ inflight_queue' = inflight_queue /\ next_packet_id' = next_packet_id
         \/ stored # NoImage /\ inflight_queue' = stored.inflight /\ next_packet_id' = stored.next
  PROVE  Numbering'
<1> SUFFICES ASSUME NoWrap
             PROVE  /\ Below' /\ ImageBelow' /\ Distinct(inflight_queue')
  BY DEF Numbering, NoWrap, Distinct
<1>1. /\ Below /\ ImageBelow /\ Distinct(inflight_queue)
      /\ (stored # NoImage => Distinct(stored.inflight))
  BY DEF Numbering
<1>2. ImageBelow'
  BY DEF ImageBelow
<1>3. Distinct(inflight_queue')
  BY <1>1
<1>4. /\ Elems(mailbox) = {} /\ Elems(toClient) = {} /\ Elems(toBroker) = {}
      /\ Elems(mailbox)' = {} /\ Elems(toClient)' = {} /\ Elems(toBroker)' = {}
  BY DEF AbsentIsEmpty, Elems
<1>5. Below'
  <2>1. CASE inflight_queue' = inflight_queue /\ next_packet_id' = next_packet_id
    <3>1. Kept' = Kept
      BY <2>1 DEF Kept, Elems
    <3> QED BY <3>1, <2>1, <1>1, <1>4 DEF Below, Room
  <2>2. CASE stored # NoImage /\ inflight_queue' = stored.inflight /\ next_packet_id' = stored.next
    <3>1. Kept' = Saved
      BY <2>2 DEF Kept, Saved, Elems
    <3> QED BY <3>1, <2>2, <1>1, <1>4 DEF Below, ImageBelow, Room
  <2> QED BY <2>1, <2>2
<1> QED BY <1>1, <1>2, <1>3, <1>5

\* The message that is numbered gets an id that nothing else carries.
LEMMA NumberedNumbering ==
  ASSUME TypeOK, TypeOK', Numbering, state # "absent",
         NEW m \in Unnumbered, m \notin Unnumbered', Unnumbered' \subseteq Unnumbered,
         Numbered(m, next_packet_id), next_packet_id' = NextId, stored' = stored,
         inflight_queue' = Append(inflight_queue, FreshFlight(m, next_packet_id))
  PROVE  Numbering'
<1> SUFFICES ASSUME NoWrap
             PROVE  /\ Below' /\ ImageBelow'
                    /\ Distinct(inflight_queue') /\ (stored' # NoImage => Distinct(stored'.inflight))
  BY DEF Numbering, NoWrap, Distinct
<1> USE Typed, FieldTypes
<1>1. /\ Below /\ ImageBelow /\ Distinct(inflight_queue)
      /\ (stored # NoImage => Distinct(stored.inflight))
  BY DEF Numbering
<1>2. PICK n : n = next_packet_id
  OBVIOUS
<1>3. n \in Nat /\ n > 0 /\ n \in Ids
  <2>1. n \in Ids
    BY <1>2, NextIdType
  <2> QED BY <2>1, OutboundAssumption DEF Ids
<1>4. /\ \A f \in Flights : f.id < n
      /\ \A e \in Elems(mailbox) : e.id < n
      /\ \A p \in Elems(toClient) : p.id < n
      /\ \A a \in Elems(toBroker) : a.id < n
      /\ \A id : Answers(id) => id < n
  BY <1>1, <1>2, AllBelow
<1>5. PICK new : new = FreshFlight(m, n)
  OBVIOUS
<1>6. new.id = n /\ new.msg = m
  BY <1>5, FreshFields
<1>9. Distinct(inflight_queue')
  <2>1. /\ inflight_queue \in Seq(Flight) /\ inflight_queue' = Append(inflight_queue, new)
    BY <1>2, <1>5 DEF TypeOK
  <2>2. /\ DOMAIN inflight_queue' = 1..(Len(inflight_queue) + 1)
        /\ DOMAIN inflight_queue = 1..Len(inflight_queue) /\ Len(inflight_queue) \in Nat
        /\ \A i \in 1..Len(inflight_queue) : inflight_queue'[i] = inflight_queue[i]
        /\ inflight_queue'[Len(inflight_queue) + 1] = new
    BY <2>1
  <2>3. \A i \in 1..Len(inflight_queue) : inflight_queue[i].id # n
    <3>1. \A i \in 1..Len(inflight_queue) : inflight_queue[i] \in Kept
      BY <2>2 DEF Kept, Elems
    <3> QED BY <3>1, <1>3, <1>4 DEF Flights
  <2>4. ASSUME NEW i \in DOMAIN inflight_queue', NEW j \in DOMAIN inflight_queue',
               inflight_queue'[i].id = inflight_queue'[j].id
        PROVE  i = j
    <3>1. CASE i \in 1..Len(inflight_queue) /\ j \in 1..Len(inflight_queue)
      BY <3>1, <2>2, <2>4, <1>1 DEF Distinct
    <3>2. CASE ~(i \in 1..Len(inflight_queue) /\ j \in 1..Len(inflight_queue))
      BY <3>2, <2>2, <2>3, <2>4, <1>6
    <3> QED BY <3>1, <3>2
  <2> QED BY <2>4 DEF Distinct
<1>a. /\ Elems(mailbox)' = Elems(mailbox') /\ Elems(toClient)' = Elems(toClient')
      /\ Elems(toBroker)' = Elems(toBroker') /\ Elems(toBroker') = Elems(toBroker)
  BY DEF Elems, Numbered
<1>10. CounterMoves
  BY DEF CounterMoves
<1>11. ASSUME Unnumbered' # {}
       PROVE  next_packet_id' = n + 1 /\ Room(next_packet_id)'
  <2>1. Room(next_packet_id)
    BY <1>1 DEF Below
  <2>2. Room(next_packet_id)' /\ next_packet_id' \in Nat /\ next_packet_id' >= n
    BY <2>1, <1>2, <1>10, <1>11, CounterRoom
  <2>3. n # MaxId
    <3>1. CASE n = MaxId /\ MaxId = 1
      <4>1. PICK S \in SUBSET Msgs : S = Unnumbered
        BY DEF Unnumbered
      <4>2. PICK T \in SUBSET S : T = Unnumbered'
        BY <4>1
      <4>3. /\ Cardinality(S) \in Nat /\ Cardinality(T) \in Nat
            /\ Cardinality(T) < Cardinality(S) /\ Cardinality(T) > 0
        BY <4>1, <4>2, <1>11, FewerLeft
      <4>4. Cardinality(S) + 1 <= 2
        BY <2>1, <4>1, <3>1, <1>2 DEF Room
      <4> QED BY <4>3, <4>4
    <3>2. CASE n = MaxId /\ MaxId # 1
      BY <3>2, <2>2, <1>2, <1>3 DEF NextId
    <3> QED BY <3>1, <3>2
  <2> QED BY <2>2, <2>3, <1>2 DEF NextId
<1>12. Below'
  <2>1. ASSUME Unnumbered' # {}
        PROVE  /\ \A f \in Kept' : f.id < next_packet_id'
               /\ \A e \in Elems(mailbox') : e.id < next_packet_id'
               /\ \A p \in Elems(toClient') : p.id < next_packet_id'
               /\ \A a \in Elems(toBroker') : a.id < next_packet_id'
    <3>1. next_packet_id' = n + 1
      BY <1>11, <2>1
    <3>2. \A f \in Kept' : f \in Flights \/ f = new
      BY <1>2, <1>5 DEF Numbered, Flights
    <3>3. \A x \in Nat : x <= n => x < n + 1
      BY <1>3
    <3>4. /\ \A f \in Flights : f.id \in Nat /\ f.id <= n
          /\ \A e \in Elems(mailbox) : e.id \in Nat /\ e.id <= n
          /\ \A p \in Elems(toClient) : p.id \in Nat /\ p.id <= n
          /\ \A a \in Elems(toBroker) : a.id \in Nat /\ a.id <= n
      BY <1>3, <1>4, OutboundAssumption DEF Ids
    <3>5. \A f \in Kept' : f.id < n + 1
      BY <3>2, <3>3, <3>4, <1>3, <1>6
    <3>6. \A e \in Elems(mailbox') : e.id < n + 1
      BY <3>3, <3>4 DEF Numbered
    <3>7. \A p \in Elems(toClient') : p.id < n + 1
      BY <3>3, <3>4, <1>2, <1>3 DEF Numbered
    <3>8. \A a \in Elems(toBroker') : a.id < n + 1
      BY <3>3, <3>4, <1>a
    <3> QED BY <3>1, <3>5, <3>6, <3>7, <3>8
  <2> QED BY <2>1, <1>11, <1>a DEF Below
<1>13. ImageBelow'
  <2>1. ASSUME Unnumbered' # {}, stored # NoImage
        PROVE  /\ Room(stored.next)' /\ \A f \in Saved' : f.id < stored'.next
               /\ stored'.next <= next_packet_id'
    <3>1. /\ Room(stored.next) /\ \A f \in Saved : f.id < stored.next
          /\ stored.next <= next_packet_id
      BY <1>1, <2>1 DEF ImageBelow
    <3>2. stored.next \in Nat
      BY <2>1, CounterTypes
    <3>3. Saved' = Saved
      BY DEF Saved, Elems
    <3>4. Room(stored.next)'
      BY <3>1, <3>2, RoomStays DEF Room
    <3>5. stored'.next <= next_packet_id'
      BY <3>1, <3>2, <1>2, <1>3, <1>11, <2>1
    <3> QED BY <3>1, <3>3, <3>4, <3>5
  <2> QED BY <2>1 DEF ImageBelow
<1> QED BY <1>1, <1>9, <1>12, <1>13

-----------------------------------------------------------------------------
\* A step that takes no message out of sight.
LEMMA AccountedStep ==
  ASSUME TypeOK, TypeOK', NothingForgotten, Gone \subseteq Gone', clashed \subseteq clashed',
         \A m \in Msgs : delivered'[m] >= delivered[m],
         \A m \in routed' : m \in routed \/ Queued(m)',
         \A m \in routed : Queued(m) => Queued(m)' \/ InFlight(m)' \/ m \in Gone'
                                        \/ (state' = "absent" /\ InImage(m)'),
         \A m \in routed : InFlight(m) => InFlight(m)' \/ m \in Gone' \/ Got(m)
                                        \/ (state' = "absent" /\ InImage(m)'),
         \A m \in routed : state = "absent" /\ InImage(m) =>
                              InFlight(m)' \/ m \in Gone' \/ (state' = "absent" /\ InImage(m)')
  PROVE  NothingForgotten'
<1>1. ASSUME NEW m \in routed' PROVE Accounted(m)' \/ m \in clashed'
  <2>1. m \in Msgs /\ delivered[m] \in Nat /\ delivered'[m] \in Nat /\ delivered'[m] >= delivered[m]
    BY <1>1 DEF TypeOK
  <2>2. CASE Queued(m)'
    BY <2>2 DEF Accounted
  <2>3. CASE m \in routed
    <3>1. CASE Queued(m)
      BY <3>1, <2>3 DEF Accounted, Gone
    <3>2. CASE InFlight(m)
      BY <3>2, <2>1, <2>3 DEF Accounted, Gone, Got
    <3>3. CASE state = "absent" /\ InImage(m)
      BY <3>3, <2>3 DEF Accounted, Gone
    <3>4. CASE delivered[m] > 0
      BY <3>4, <2>1 DEF Accounted
    <3>5. CASE m \in Gone \/ m \in clashed
      BY <3>5 DEF Accounted, Gone
    <3> QED BY <2>3, <3>1, <3>2, <3>3, <3>4, <3>5 DEF NothingForgotten, Accounted, Gone
  <2> QED BY <1>1, <2>2, <2>3
<1> QED BY <1>1 DEF NothingForgotten
-----------------------------------------------------------------------------
\* The kinds of step.  First, those of a session that is there and stays.
LEMMA UnnumberedShrinks ==
  ASSUME routed \subseteq routed', BoxFrom(mailbox')
  PROVE  Unnumbered' \subseteq Unnumbered
<1>1. ASSUME NEW m \in Msgs, Queued(m)' PROVE Queued(m) \/ m \notin routed
  <2>1. PICK i \in DOMAIN mailbox' : mailbox'[i].msg = m /\ mailbox'[i].id = 0
    BY <1>1 DEF Queued
  <2>2. PICK e \in Elems(mailbox') : e.msg = m /\ e.id = 0
    BY <2>1 DEF Elems
  <2>3. e \in Elems(mailbox) \/ m \notin routed
    BY <2>2 DEF BoxFrom
  <2> QED BY <2>2, <2>3, QueuedIs
<1> QED BY <1>1 DEF Unnumbered

LEMMA StayStep ==
  ASSUME IInv, TypeOK', AbsentIsEmpty', state # "absent", state' # "absent",
         QueueFrom(inflight_queue'), QueueDrops(inflight_queue', Gone'),
         BoxFrom(mailbox'), BoxDrops(mailbox', Gone'), CounterMoves,
         stored' \in {stored, NoImage} \/ stored' = [inflight |-> inflight_queue', next |-> next_packet_id'],
         SentCarried, AcksCarried, HeldCarried, clashed' = clashed, Gone \subseteq Gone',
         \A m \in Msgs : delivered'[m] >= delivered[m],
         routed \subseteq routed', \A m \in routed' : m \in routed \/ Queued(m)'
  PROVE  IInv'
<1> USE DEF IInv
<1>1. Kept' = Elems(inflight_queue')
  BY DEF Kept, Elems
<1>2. FlightsCarried
  <2>1. \A f \in Kept' : \E g \in Kept :
          Same(f, g) /\ (f.stage = "pubcomp" => g.stage = "pubcomp" \/ Answers(g.id))
    BY <1>1 DEF QueueFrom
  <2>2. Saved' \subseteq Saved \cup Kept'
    <3>1. CASE stored' = NoImage
      BY <3>1 DEF Saved
    <3>2. CASE stored' = stored
      BY <3>2 DEF Saved, Elems
    <3>3. CASE stored' = [inflight |-> inflight_queue', next |-> next_packet_id']
      <4>1. stored'.inflight = inflight_queue'
        BY <3>3
      <4> QED BY <4>1 DEF Saved, Kept, Elems
    <3> QED BY <3>1, <3>2, <3>3
  <2>3. \A f \in Saved : Same(f, f)
    BY DEF Same
  <2> QED BY <2>1, <2>2, <2>3 DEF FlightsCarried, Flights
<1>3. BoxCarried
  BY DEF BoxFrom, BoxCarried, Flights
<1>4. Carried
  BY <1>2, <1>3 DEF Carried
<1>5. Delivery'
  BY <1>4, CarriedKeepsDelivery
<1>6. Unnumbered' \subseteq Unnumbered
  BY UnnumberedShrinks
<1>7. Numbering'
  <2>1. Distinct(inflight_queue) => Distinct(inflight_queue')
    BY DEF QueueFrom
  <2> QED BY <1>4, <1>6, <2>1, StayNumbering
<1>8. Once(mailbox)'
  BY DEF BoxFrom, Once
<1>9. NothingForgotten'
  <2>1. \A m \in routed : Queued(m) => Queued(m)' \/ m \in Gone'
    <3>1. ASSUME NEW m \in routed, Queued(m), m \notin Gone' PROVE Queued(m)'
      <4>1. PICK e \in Elems(mailbox) : e.msg = m /\ e.id = 0
        BY <3>1, QueuedIs
      <4>2. e \in Elems(mailbox')
        BY <4>1, <3>1 DEF BoxDrops
      <4> QED BY <4>1, <4>2 DEF Queued, Elems
    <3> QED BY <3>1
  <2>2. \A m \in routed : InFlight(m) => InFlight(m)' \/ m \in Gone' \/ Got(m)
    <3>1. ASSUME NEW m \in routed, InFlight(m), m \notin Gone', ~Got(m) PROVE InFlight(m)'
      <4>1. PICK f \in Kept : f.msg = m
        BY <3>1, InFlightIs
      <4>2. PICK h \in Elems(inflight_queue') : h.msg = m
        BY <4>1, <3>1 DEF QueueDrops
      <4> QED BY <4>2 DEF InFlight, Elems
    <3> QED BY <3>1
  <2> QED BY <2>1, <2>2, AccountedStep
<1> QED BY <1>5, <1>7, <1>8, <1>9

\* The session ends; storage keeps what it has.
LEMMA GoneStep ==
  ASSUME IInv, TypeOK', AbsentIsEmpty', state # "absent", state' = "absent",
         stored' = stored, clashed' = clashed, Gone \subseteq Gone',
         delivered' = delivered, released' = released, routed' = routed,
         \A m \in routed : Queued(m) \/ InFlight(m) => InImage(m) \/ m \in Gone'
  PROVE  IInv'
<1> USE DEF IInv
<1>1. /\ mailbox' = <<>> /\ inflight_queue' = <<>> /\ toClient' = <<>> /\ toBroker' = <<>>
  BY DEF AbsentIsEmpty
<1>2. /\ Elems(mailbox') = {} /\ Kept' = {} /\ Elems(toClient') = {} /\ Elems(toBroker') = {}
      /\ Saved' = Saved
  BY <1>1 DEF Elems, Kept, Saved
<1>3. Carried
  <2>1. FlightsCarried
    BY <1>2 DEF FlightsCarried, Flights, Same
  <2>2. \A m \in Msgs : delivered'[m] >= delivered[m]
    BY DEF TypeOK
  <2> QED BY <1>2, <2>1, <2>2 DEF Carried, BoxCarried, SentCarried, AcksCarried, HeldCarried
<1>4. Delivery'
  BY <1>3, CarriedKeepsDelivery
<1>5. Unnumbered' \subseteq Unnumbered
  BY <1>1 DEF Unnumbered, Queued
<1>6. Numbering'
  BY <1>5, AbsentNumbering
<1>7. Once(mailbox)'
  BY <1>1 DEF Once
<1>8. NothingForgotten'
  <2>1. \A m : InImage(m)' <=> InImage(m)
    BY DEF InImage
  <2>2. \A m \in Msgs : delivered'[m] >= delivered[m]
    BY DEF TypeOK
  <2> QED BY <2>1, <2>2, AccountedStep
<1> QED BY <1>4, <1>6, <1>7, <1>8

\* A session that is not there loses its image.
LEMMA RestoreFailsStep ==
  ASSUME IInv, RestoreFails, TypeOK'
  PROVE  IInv'
<1> USE DEF IInv
<1>1. /\ state = "absent" /\ state' = state /\ mailbox' = mailbox /\ inflight_queue' = inflight_queue
      /\ next_packet_id' = next_packet_id /\ stored' = NoImage /\ link' = link
      /\ toClient' = toClient /\ toBroker' = toBroker /\ released' = released
      /\ delivered' = delivered /\ routed' = routed /\ givenUp' = givenUp /\ stale' = stale
      /\ clashed' = clashed /\ behind' = behind /\ lost' = lost \cup {m \in routed : InImage(m)}
  BY DEF RestoreFails, session, client
<1>2. AbsentIsEmpty' /\ Once(mailbox)'
  BY <1>1 DEF AbsentIsEmpty, Once
<1>3. /\ Elems(mailbox') = Elems(mailbox) /\ Kept' = Kept /\ Saved' = {}
      /\ Elems(toClient') = Elems(toClient) /\ Elems(toBroker') = Elems(toBroker)
  BY <1>1 DEF Kept, Saved, Elems
<1>4. \A m \in Msgs : delivered'[m] >= delivered[m]
  BY <1>1 DEF TypeOK
<1>5. Carried
  <2>1. FlightsCarried
    BY <1>3 DEF FlightsCarried, Flights, Same
  <2> QED BY <1>1, <1>3, <1>4, <2>1 DEF Carried, BoxCarried, SentCarried, AcksCarried, HeldCarried
<1>6. Delivery'
  BY <1>5, CarriedKeepsDelivery
<1>7. Unnumbered' \subseteq Unnumbered
  BY <1>1 DEF Unnumbered, Queued
<1>8. Numbering'
  BY <1>1, <1>2, <1>7, AbsentNumbering
<1>9. NothingForgotten'
  <2>1. \A m : (Queued(m) => Queued(m)') /\ (InFlight(m) => InFlight(m)')
    BY <1>1 DEF Queued, InFlight
  <2>2. Gone \subseteq Gone' /\ \A m \in routed : InImage(m) => m \in Gone'
    BY <1>1 DEF Gone
  <2> QED BY <2>1, <2>2, <1>1, <1>4, AccountedStep
<1> QED BY <1>2, <1>6, <1>8, <1>9

\* A session comes back, with its image or without.
LEMMA BackStep ==
  ASSUME IInv, TypeOK', state = "absent", state' = "processing", stored' = NoImage,
         mailbox' = mailbox, toClient' = toClient, toBroker' = toBroker,
         released' \subseteq released, delivered' = delivered, clashed' = clashed,
         routed' = routed, Gone \subseteq Gone',
         \/ /\ inflight_queue' = inflight_queue /\ next_packet_id' = next_packet_id
            /\ \A m \in routed : InImage(m) => m \in Gone'
         \/ /\ stored # NoImage
            /\ inflight_queue' = stored.inflight /\ next_packet_id' = stored.next
  PROVE  IInv'
<1> USE DEF IInv
<1>1. AbsentIsEmpty' /\ Once(mailbox)'
  BY DEF AbsentIsEmpty, Once
<1>2. /\ Elems(mailbox') = Elems(mailbox) /\ Saved' = {}
      /\ Elems(toClient') = Elems(toClient) /\ Elems(toBroker') = Elems(toBroker)
  BY DEF Saved, Elems
<1>3. Kept' \subseteq Flights
  BY DEF Kept, Saved, Flights, Elems
<1>4. \A m \in Msgs : delivered'[m] >= delivered[m]
  BY DEF TypeOK
<1>5. Carried
  <2>1. FlightsCarried
    BY <1>2, <1>3 DEF FlightsCarried, Flights, Same
  <2> QED BY <1>2, <1>4, <2>1 DEF Carried, BoxCarried, SentCarried, AcksCarried, HeldCarried
<1>6. Delivery'
  BY <1>5, CarriedKeepsDelivery
<1>7. Unnumbered' = Unnumbered
  BY DEF Unnumbered, Queued
<1>8. Numbering'
  BY <1>7, BackNumbering
<1>9. NothingForgotten'
  <2>1. \A m : Queued(m) => Queued(m)'
    BY DEF Queued
  <2>2. \A m : InFlight(m) => FALSE
    BY DEF InFlight, AbsentIsEmpty
  <2>3. \A m \in routed : InImage(m) => InFlight(m)' \/ m \in Gone'
    BY DEF InFlight, InImage
  <2> QED BY <2>1, <2>2, <2>3, <1>4, AccountedStep
<1> QED BY <1>1, <1>6, <1>8, <1>9
-----------------------------------------------------------------------------
\* The session leaves do_processing.
LEMMA LeaveStep ==
  ASSUME IInv, state # "absent", NEW box, NEW q, NEW next \in Ids, NEW ends,
         Leave(box, q, next, ends), Cut,
         QueueFrom(q), QueueDrops(q, Gone'), BoxFrom(box), BoxDrops(box, Gone'),
         \/ next = next_packet_id
         \/ /\ next = NextId
            /\ \E m \in routed : Queued(m) /\ \A e \in Elems(box) : ~(e.id = 0 /\ e.msg = m),
         clean' \in BOOLEAN, breaks' \in 0..MaxBreaks, clashed' = clashed, behind' = behind,
         delivered' = delivered, released' = released, routed' = routed,
         givenUp' \subseteq routed, lost' \subseteq routed, givenUp \subseteq givenUp', lost \subseteq lost'
  PROVE  IInv'
<1> USE DEF IInv
<1>1. link' = "down" /\ toClient' = <<>> /\ toBroker' = <<>>
  BY DEF Leave, Cut
<1>2. Elems(toClient') = {} /\ Elems(toBroker') = {}
  BY <1>1, ElemsEmpty
<1>3. \A m \in Msgs : delivered'[m] >= delivered[m]
  BY DEF TypeOK
<1>4. CASE ends
  <2>1. /\ state' = "absent" /\ mailbox' = <<>> /\ inflight_queue' = <<>>
        /\ next_packet_id' = 1 /\ stale' = routed /\ stored' = stored
    BY <1>4 DEF Leave
  <2>2. TypeOK'
    <3>1. 1 \in Ids /\ Len(<<>>) = 0 /\ 0 <= MailboxCap
      BY OutboundAssumption DEF Ids
    <3> QED BY <1>1, <2>1, <3>1 DEF TypeOK
  <2>3. AbsentIsEmpty'
    BY <1>1, <2>1 DEF AbsentIsEmpty
  <2>4. Gone \subseteq Gone' /\ \A m \in routed : m \in Gone'
    BY <2>1 DEF Gone, TypeOK
  <2> QED BY <2>1, <2>2, <2>3, <2>4, GoneStep
<1>5. CASE ~ends
  <2>1. /\ state' = "pending" /\ mailbox' = box /\ inflight_queue' = q
        /\ next_packet_id' = next /\ stale' = stale
        /\ stored' = stored \/ stored' = [inflight |-> q, next |-> next]
    BY <1>5 DEF Leave
  <2>2. TypeOK'
    <3>1. q \in Seq(Flight) /\ box \in Seq(Entry) /\ Len(box) <= MailboxCap
      BY DEF QueueFrom, BoxFrom
    <3>2. stored' \in Image \cup {NoImage}
      BY <2>1, <3>1 DEF Image, TypeOK
    <3> QED BY <1>1, <2>1, <3>1, <3>2 DEF TypeOK
  <2>3. AbsentIsEmpty'
    BY <1>1, <2>1 DEF AbsentIsEmpty
  <2>4. SentCarried /\ AcksCarried /\ HeldCarried
    BY <1>2 DEF SentCarried, AcksCarried, HeldCarried
  <2>5. CounterMoves
    <3>1. CASE next = next_packet_id
      BY <3>1, <2>1 DEF CounterMoves
    <3>2. CASE /\ next = NextId
               /\ \E m \in routed : Queued(m) /\ \A e \in Elems(box) : ~(e.id = 0 /\ e.msg = m)
      <4>1. PICK m \in routed : Queued(m) /\ \A e \in Elems(box) : ~(e.id = 0 /\ e.msg = m)
        BY <3>2
      <4>2. m \in Unnumbered
        BY <4>1 DEF Unnumbered, TypeOK
      <4>3. m \notin Unnumbered'
        BY <4>1, <2>1 DEF Unnumbered, Queued, Elems
      <4> QED BY <3>2, <4>2, <4>3, <2>1 DEF CounterMoves
    <3> QED BY <3>1, <3>2
  <2>6. Gone \subseteq Gone'
    BY <2>1 DEF Gone
  <2>7. QueueFrom(inflight_queue') /\ QueueDrops(inflight_queue', Gone')
    BY <2>1
  <2>8. BoxFrom(mailbox') /\ BoxDrops(mailbox', Gone')
    BY <2>1
  <2>9. stored' \in {stored, NoImage} \/ stored' = [inflight |-> inflight_queue', next |-> next_packet_id']
    BY <2>1
  <2> QED BY <2>1, <2>2, <2>3, <2>4, <2>5, <2>6, <2>7, <2>8, <2>9, <1>3, StayStep
<1> QED BY <1>4, <1>5

LEMMA NoticeStep == IInv /\ Notice => IInv'
<1> SUFFICES ASSUME IInv, Notice PROVE IInv'
  OBVIOUS
<1> USE DEF IInv
<1>1. /\ state = "processing" /\ Leave(mailbox, inflight_queue, next_packet_id, clean) /\ Cut
      /\ clean' = clean /\ released' = released /\ delivered' = delivered /\ routed' = routed
      /\ givenUp' = givenUp /\ lost' = lost /\ clashed' = clashed /\ behind' = behind /\ breaks' = breaks
  BY DEF Notice, client
<1>2. QueueFrom(inflight_queue) /\ QueueDrops(inflight_queue, Gone')
  BY QueueSame
<1>3. BoxFrom(mailbox) /\ BoxDrops(mailbox, Gone')
  BY BoxSame
<1>4. /\ next_packet_id \in Ids /\ clean' \in BOOLEAN /\ breaks' \in 0..MaxBreaks
      /\ givenUp' \subseteq routed /\ lost' \subseteq routed
  BY <1>1 DEF TypeOK
<1> QED BY <1>1, <1>2, <1>3, <1>4, LeaveStep

LEMMA TakeoverFailsStep == ASSUME NEW c \in BOOLEAN PROVE IInv /\ TakeoverFails(c) => IInv'
<1> SUFFICES ASSUME IInv, TakeoverFails(c) PROVE IInv'
  OBVIOUS
<1> USE DEF IInv
<1>0. PICK ends \in BOOLEAN : state # "absent" /\ Leave(mailbox, inflight_queue, next_packet_id, ends)
  BY DEF TakeoverFails
<1>1. /\ Cut
      /\ clean' = clean /\ released' = released /\ delivered' = delivered /\ routed' = routed
      /\ givenUp' = givenUp /\ lost' = lost /\ clashed' = clashed /\ behind' = behind
      /\ breaks < MaxBreaks /\ breaks' = breaks + 1
  BY DEF TakeoverFails, client
<1>2. QueueFrom(inflight_queue) /\ QueueDrops(inflight_queue, Gone')
  BY QueueSame
<1>3. BoxFrom(mailbox) /\ BoxDrops(mailbox, Gone')
  BY BoxSame
<1>4. /\ next_packet_id \in Ids /\ clean' \in BOOLEAN
      /\ givenUp' \subseteq routed /\ lost' \subseteq routed
  BY <1>1 DEF TypeOK
<1>5. breaks' \in 0..MaxBreaks
  BY <1>1, OutboundAssumption DEF TypeOK
<1> QED BY <1>0, <1>1, <1>2, <1>3, <1>4, <1>5, LeaveStep

LEMMA OnPubRecFailsStep == IInv /\ OnPubRecFails => IInv'
<1> SUFFICES ASSUME IInv, OnPubRecFails PROVE IInv'
  OBVIOUS
<1> USE DEF IInv
<1>1. PICK id : id = Head(toBroker).id
  OBVIOUS
<1>2. /\ state = "processing" /\ toBroker # <<>>
      /\ Leave(mailbox, Advance(id), next_packet_id, clean) /\ Cut
      /\ clean' = clean /\ released' = released /\ delivered' = delivered /\ routed' = routed
      /\ givenUp' = givenUp /\ lost' = lost /\ clashed' = clashed /\ behind' = behind /\ breaks' = breaks
  BY <1>1 DEF OnPubRecFails, client
<1>3. Answers(id)
  <2>1. toBroker \in Seq(Up)
    BY DEF TypeOK
  <2>2. Head(toBroker) \in Elems(toBroker)
    BY <1>2, <2>1, ElemsTail
  <2> QED BY <2>2, <1>1 DEF Answers
<1>4. QueueFrom(Advance(id)) /\ QueueDrops(Advance(id), Gone')
  BY <1>3, QueueAdvance
<1>5. BoxFrom(mailbox) /\ BoxDrops(mailbox, Gone')
  BY BoxSame
<1>6. /\ next_packet_id \in Ids /\ clean' \in BOOLEAN /\ breaks' \in 0..MaxBreaks
      /\ givenUp' \subseteq routed /\ lost' \subseteq routed
  BY <1>2 DEF TypeOK
<1> QED BY <1>2, <1>4, <1>5, <1>6, LeaveStep

LEMMA OnMessageFailsStep == IInv /\ OnMessageFails => IInv'
<1> SUFFICES ASSUME IInv, OnMessageFails PROVE IInv'
  OBVIOUS
<1> USE DEF IInv
<1>1. PICK e : e = Head(mailbox)
  OBVIOUS
<1>2. PICK next : next = IF e.id = 0 THEN NextId ELSE next_packet_id
  OBVIOUS
<1>3. /\ state = "processing" /\ mailbox # <<>>
      /\ Leave(Tail(mailbox), inflight_queue, next, clean) /\ Cut
      /\ lost' = IF e.id = 0 THEN lost \cup {e.msg} ELSE lost
      /\ clean' = clean /\ released' = released /\ delivered' = delivered /\ routed' = routed
      /\ givenUp' = givenUp /\ clashed' = clashed /\ behind' = behind /\ breaks' = breaks
  BY <1>1, <1>2 DEF OnMessageFails, client
<1>4. mailbox \in Seq(Entry)
  BY DEF TypeOK
<1>5. /\ e \in Elems(mailbox) /\ e \in Entry /\ Elems(mailbox) = {e} \cup Elems(Tail(mailbox))
      /\ e.msg \in routed
  BY <1>1, <1>3, <1>4, ElemsTail DEF Delivery, MsgsRouted
<1>6. QueueFrom(inflight_queue) /\ QueueDrops(inflight_queue, Gone')
  BY QueueSame
<1>7. BoxFrom(Tail(mailbox)) /\ BoxDrops(Tail(mailbox), Gone')
  <2>1. e.id = 0 => e.msg \in Gone'
    BY <1>3 DEF Gone
  <2> QED BY <2>1, <1>1, <1>3, BoxTail
<1>8. next \in Ids
  BY <1>2, NextIdType
<1>9. \/ next = next_packet_id
      \/ /\ next = NextId
         /\ \E m \in routed : Queued(m) /\ \A x \in Elems(Tail(mailbox)) : ~(x.id = 0 /\ x.msg = m)
  <2>1. CASE e.id = 0
    <3>1. \A x \in Elems(Tail(mailbox)) : ~(x.id = 0 /\ x.msg = e.msg)
      BY <2>1, <1>1, <1>3, <1>4, OnceTail
    <3>2. Queued(e.msg)
      BY <2>1, <1>5, QueuedIs
    <3> QED BY <2>1, <3>1, <3>2, <1>2, <1>5
  <2>2. CASE e.id # 0
    BY <2>2, <1>2
  <2> QED BY <2>1, <2>2
<1>10. /\ clean' \in BOOLEAN /\ breaks' \in 0..MaxBreaks
       /\ givenUp' \subseteq routed /\ lost' \subseteq routed /\ lost \subseteq lost'
  BY <1>3, <1>5 DEF TypeOK
<1> QED BY <1>3, <1>6, <1>7, <1>8, <1>9, <1>10, LeaveStep

LEMMA GivenUpFacts ==
  ASSUME TypeOK, MsgsRouted, NEW D \in SUBSET DOMAIN inflight_queue, GiveUp(D)
  PROVE  /\ givenUp \subseteq givenUp' /\ givenUp' \subseteq routed
         /\ {inflight_queue[i].msg : i \in OverLimit(D)} \subseteq Gone'
<1>1. \A i \in DOMAIN inflight_queue : inflight_queue[i].msg \in routed
  BY DEF MsgsRouted, Flights, Kept, Elems
<1> QED BY <1>1 DEF GiveUp, Gone, OverLimit, TypeOK

LEMMA OnRetransmitFailsStep ==
  ASSUME NEW D \in SUBSET DOMAIN inflight_queue
  PROVE  IInv /\ OnRetransmitFails(D) => IInv'
<1> SUFFICES ASSUME IInv, OnRetransmitFails(D) PROVE IInv'
  OBVIOUS
<1> USE DEF IInv
<1>1. PICK a : a = Again(D)
  OBVIOUS
<1>2. PICK q : q = AfterTick(D)
  OBVIOUS
<1>3. /\ state = "processing" /\ Len(mailbox) + Len(a) <= MailboxCap
      /\ Leave(mailbox \o a, q, next_packet_id, clean) /\ GiveUp(D) /\ Cut
      /\ clean' = clean /\ released' = released /\ delivered' = delivered /\ routed' = routed
      /\ lost' = lost /\ clashed' = clashed /\ behind' = behind /\ breaks' = breaks
  BY <1>1, <1>2 DEF OnRetransmitFails, client
<1>4. /\ givenUp \subseteq givenUp' /\ givenUp' \subseteq routed
      /\ {inflight_queue[i].msg : i \in OverLimit(D)} \subseteq Gone'
  BY <1>3, GivenUpFacts DEF Delivery
<1>5. QueueFrom(q) /\ QueueDrops(q, Gone')
  BY <1>2, <1>4, QueueAfterTick
<1>6. BoxFrom(mailbox \o a) /\ BoxDrops(mailbox \o a, Gone')
  BY <1>1, <1>3, AgainFacts, BoxMore
<1>7. /\ next_packet_id \in Ids /\ clean' \in BOOLEAN /\ breaks' \in 0..MaxBreaks
      /\ lost' \subseteq routed
  BY <1>3 DEF TypeOK
<1> QED BY <1>3, <1>4, <1>5, <1>6, <1>7, LeaveStep
-----------------------------------------------------------------------------
\* The handlers of do_processing.
LEMMA WriteFacts ==
  ASSUME TypeOK, NEW ps \in Seq(Down), Write(ps)
  PROVE  toClient' \in Seq(Down) /\ Elems(toClient') \subseteq Elems(toClient) \cup Elems(ps)
<1>1. toClient \in Seq(Down)
  BY DEF TypeOK
<1>2. CASE link = "up"
  BY <1>1, <1>2, ElemsConcat DEF Write
<1>3. CASE link # "up"
  BY <1>1, <1>3 DEF Write
<1> QED BY <1>2, <1>3

LEMMA SinglePacket ==
  ASSUME NEW p \in Down
  PROVE  <<p>> \in Seq(Down) /\ Elems(<<p>>) = {p}
<1>1. DOMAIN <<p>> = {1} /\ <<p>>[1] = p
  OBVIOUS
<1> QED BY <1>1 DEF Elems

\* What a step that leaves the connection alone carries along.
LEMMA SameCarried ==
  ASSUME TypeOK, client' = client
  PROVE  /\ HeldCarried /\ \A m \in Msgs : delivered'[m] >= delivered[m]
         /\ released' = released /\ delivered' = delivered
         /\ toClient' = toClient => SentCarried
         /\ toBroker' = toBroker => AcksCarried
         /\ Elems(toClient') = {} => SentCarried
         /\ Elems(toBroker') \subseteq Elems(toBroker) => AcksCarried
<1>1. released' = released /\ delivered' = delivered
  BY DEF client
<1>2. \A m \in Msgs : delivered'[m] >= delivered[m]
  BY <1>1 DEF TypeOK
<1> QED BY <1>1, <1>2 DEF HeldCarried, SentCarried, AcksCarried

LEMMA ArriveStep == ASSUME NEW m \in Msgs PROVE IInv /\ Arrive(m) => IInv'
<1> SUFFICES ASSUME IInv, Arrive(m) PROVE IInv'
  OBVIOUS
<1> USE DEF IInv
<1>1. PICK b : b = Append(mailbox, [msg |-> m, id |-> 0])
  OBVIOUS
<1>2. /\ m \notin routed /\ state # "absent" /\ Len(mailbox) < MailboxCap
      /\ mailbox' = b /\ routed' = routed \cup {m}
      /\ state' = state /\ clean' = clean /\ inflight_queue' = inflight_queue
      /\ next_packet_id' = next_packet_id /\ stored' = stored /\ link' = link
      /\ toClient' = toClient /\ toBroker' = toBroker /\ client' = client
      /\ givenUp' = givenUp /\ lost' = lost /\ stale' = stale /\ clashed' = clashed /\ behind' = behind
      /\ breaks' = breaks
  BY <1>1 DEF Arrive
<1>3. BoxFrom(mailbox') /\ BoxDrops(mailbox', Gone')
  BY <1>1, <1>2, BoxArrives DEF Delivery
<1>4. QueueFrom(inflight_queue') /\ QueueDrops(inflight_queue', Gone')
  BY <1>2, QueueSame
<1>5. /\ HeldCarried /\ SentCarried /\ AcksCarried
      /\ \A x \in Msgs : delivered'[x] >= delivered[x]
      /\ released' = released /\ delivered' = delivered
  BY <1>2, SameCarried
<1>6. TypeOK'
  BY <1>2, <1>3, <1>5 DEF TypeOK, BoxFrom
<1>7. AbsentIsEmpty' /\ CounterMoves /\ Gone \subseteq Gone'
  BY <1>2 DEF AbsentIsEmpty, CounterMoves, Gone
<1>8. \A x \in routed' : x \in routed \/ Queued(x)'
  <2>1. Queued(m)'
    <3>1. mailbox \in Seq(Entry) /\ Len(mailbox) \in Nat
      BY DEF TypeOK
    <3>2. /\ Len(mailbox) + 1 \in DOMAIN mailbox'
          /\ mailbox'[Len(mailbox) + 1] = [msg |-> m, id |-> 0]
      BY <3>1, <1>1, <1>2
    <3>3. mailbox'[Len(mailbox) + 1].msg = m /\ mailbox'[Len(mailbox) + 1].id = 0
      BY <3>2
    <3> QED BY <3>2, <3>3 DEF Queued
  <2> QED BY <2>1, <1>2
<1>9. stored' \in {stored, NoImage} /\ state' # "absent" /\ routed \subseteq routed'
  BY <1>2
<1> QED BY <1>2, <1>3, <1>4, <1>5, <1>6, <1>7, <1>8, <1>9, StayStep

LEMMA OnAckStep == IInv /\ OnAck => IInv'
<1> SUFFICES ASSUME IInv, OnAck PROVE IInv'
  OBVIOUS
<1> USE DEF IInv
<1>1. PICK id : id = Head(toBroker).id
  OBVIOUS
<1>2. /\ state = "processing" /\ toBroker # <<>> /\ toBroker' = Tail(toBroker)
      /\ inflight_queue' = WithoutId(id)
      /\ state' = state /\ clean' = clean /\ mailbox' = mailbox
      /\ next_packet_id' = next_packet_id /\ stored' = stored /\ link' = link
      /\ toClient' = toClient /\ client' = client /\ routed' = routed
      /\ givenUp' = givenUp /\ lost' = lost /\ stale' = stale /\ clashed' = clashed /\ behind' = behind
      /\ breaks' = breaks
  BY <1>1 DEF OnAck, history
<1>3. /\ Head(toBroker) \in Elems(toBroker) /\ toBroker' \in Seq(Up)
      /\ Elems(toBroker') \subseteq Elems(toBroker)
  BY <1>2, ElemsTail DEF TypeOK
<1>4. QueueFrom(inflight_queue') /\ QueueDrops(inflight_queue', Gone')
  <2>1. Answers(id)
    BY <1>1, <1>3 DEF Answers
  <2> QED BY <2>1, <1>2, QueueWithoutId DEF Delivery
<1>5. BoxFrom(mailbox') /\ BoxDrops(mailbox', Gone')
  BY <1>2, BoxSame
<1>6. /\ HeldCarried /\ SentCarried /\ AcksCarried
      /\ \A x \in Msgs : delivered'[x] >= delivered[x]
      /\ released' = released /\ delivered' = delivered
  BY <1>2, <1>3, SameCarried
<1>7. TypeOK'
  BY <1>2, <1>3, <1>4, <1>6 DEF TypeOK, QueueFrom
<1>8. AbsentIsEmpty' /\ CounterMoves /\ Gone \subseteq Gone'
  BY <1>2 DEF AbsentIsEmpty, CounterMoves, Gone
<1>9. /\ stored' \in {stored, NoImage} /\ state # "absent" /\ state' # "absent"
      /\ routed \subseteq routed' /\ \A x \in routed' : x \in routed
  BY <1>2
<1> QED BY <1>2, <1>4, <1>5, <1>6, <1>7, <1>8, <1>9, StayStep

LEMMA OnPubRecStep == IInv /\ OnPubRec => IInv'
<1> SUFFICES ASSUME IInv, OnPubRec PROVE IInv'
  OBVIOUS
<1> USE DEF IInv
<1>1. PICK id : id = Head(toBroker).id
  OBVIOUS
<1>2. PICK p : p = [type |-> "PUBREL", id |-> id]
  OBVIOUS
<1>3. /\ state = "processing" /\ toBroker # <<>> /\ toBroker' = Tail(toBroker)
      /\ inflight_queue' = Advance(id) /\ Write(<<p>>)
      /\ state' = state /\ clean' = clean /\ mailbox' = mailbox
      /\ next_packet_id' = next_packet_id /\ stored' = stored /\ link' = link
      /\ client' = client /\ routed' = routed
      /\ givenUp' = givenUp /\ lost' = lost /\ stale' = stale /\ clashed' = clashed /\ behind' = behind
      /\ breaks' = breaks
  BY <1>1, <1>2 DEF OnPubRec, history
<1>4. /\ Head(toBroker) \in Elems(toBroker) /\ Head(toBroker) \in Up /\ toBroker' \in Seq(Up)
      /\ Elems(toBroker') \subseteq Elems(toBroker)
  BY <1>3, ElemsTail DEF TypeOK
<1>5. Answers(id) /\ id \in Ids
  BY <1>1, <1>4, FieldTypes DEF Answers
<1>6. p \in Down /\ p.type = "PUBREL" /\ p.id = id
  BY <1>2, <1>5 DEF Down
<1>7. toClient' \in Seq(Down) /\ Elems(toClient') \subseteq Elems(toClient) \cup {p}
  BY <1>3, <1>6, SinglePacket, WriteFacts
<1>8. SentCarried
  BY <1>5, <1>6, <1>7 DEF SentCarried
<1>9. QueueFrom(inflight_queue') /\ QueueDrops(inflight_queue', Gone')
  BY <1>3, <1>5, QueueAdvance
<1>10. BoxFrom(mailbox') /\ BoxDrops(mailbox', Gone')
  BY <1>3, BoxSame
<1>11. /\ HeldCarried /\ AcksCarried /\ \A x \in Msgs : delivered'[x] >= delivered[x]
       /\ released' = released /\ delivered' = delivered
  BY <1>3, <1>4, SameCarried
<1>12. TypeOK'
  BY <1>3, <1>4, <1>7, <1>9, <1>11 DEF TypeOK, QueueFrom
<1>13. AbsentIsEmpty' /\ CounterMoves /\ Gone \subseteq Gone'
  BY <1>3 DEF AbsentIsEmpty, CounterMoves, Gone
<1>14. /\ stored' \in {stored, NoImage} /\ state # "absent" /\ state' # "absent"
       /\ routed \subseteq routed' /\ \A x \in routed' : x \in routed
  BY <1>3
<1> QED BY <1>3, <1>8, <1>9, <1>10, <1>11, <1>12, <1>13, <1>14, StayStep

LEMMA OnRetransmitStep ==
  ASSUME NEW D \in SUBSET DOMAIN inflight_queue
  PROVE  IInv /\ OnRetransmit(D) => IInv'
<1> SUFFICES ASSUME IInv, OnRetransmit(D) PROVE IInv'
  OBVIOUS
<1> USE DEF IInv
<1>1. PICK a : a = Again(D)
  OBVIOUS
<1>2. PICK r : r = Release(D)
  OBVIOUS
<1>3. /\ state = "processing" /\ Len(mailbox) + Len(a) <= MailboxCap
      /\ inflight_queue' = AfterTick(D) /\ mailbox' = mailbox \o a /\ Write(r) /\ GiveUp(D)
      /\ state' = state /\ clean' = clean /\ next_packet_id' = next_packet_id
      /\ stored' = stored /\ link' = link /\ toBroker' = toBroker /\ client' = client
      /\ routed' = routed /\ lost' = lost /\ stale' = stale /\ clashed' = clashed /\ behind' = behind
      /\ breaks' = breaks
  BY <1>1, <1>2 DEF OnRetransmit
<1>4. /\ givenUp \subseteq givenUp' /\ givenUp' \subseteq routed
      /\ {inflight_queue[i].msg : i \in OverLimit(D)} \subseteq Gone'
  BY <1>3, GivenUpFacts DEF Delivery
<1>5. QueueFrom(inflight_queue') /\ QueueDrops(inflight_queue', Gone')
  BY <1>3, <1>4, QueueAfterTick
<1>6. BoxFrom(mailbox') /\ BoxDrops(mailbox', Gone')
  BY <1>1, <1>3, AgainFacts, BoxMore
<1>7. /\ r \in Seq(Down)
      /\ \A p \in Elems(r) : p.type = "PUBREL" /\ \E g \in Kept : g.id = p.id /\ g.stage = "pubcomp"
  BY <1>2, ReleaseFacts
<1>8. toClient' \in Seq(Down) /\ Elems(toClient') \subseteq Elems(toClient) \cup Elems(r)
  BY <1>3, <1>7, WriteFacts
<1>9. SentCarried
  BY <1>7, <1>8 DEF SentCarried, Flights
<1>10. /\ HeldCarried /\ AcksCarried /\ \A x \in Msgs : delivered'[x] >= delivered[x]
       /\ released' = released /\ delivered' = delivered
  BY <1>3, SameCarried
<1>11. TypeOK'
  BY <1>3, <1>4, <1>5, <1>6, <1>8, <1>10 DEF TypeOK, QueueFrom, BoxFrom
<1>12. AbsentIsEmpty' /\ CounterMoves /\ Gone \subseteq Gone'
  BY <1>3, <1>4 DEF AbsentIsEmpty, CounterMoves, Gone
<1>13. /\ stored' \in {stored, NoImage} /\ state # "absent" /\ state' # "absent"
       /\ routed \subseteq routed' /\ \A x \in routed' : x \in routed
  BY <1>3
<1> QED BY <1>3, <1>5, <1>6, <1>9, <1>10, <1>11, <1>12, <1>13, StayStep

LEMMA OnRetransmitHangsStep ==
  ASSUME NEW D \in SUBSET DOMAIN inflight_queue
  PROVE  IInv /\ OnRetransmitHangs(D) => IInv'
<1> SUFFICES ASSUME IInv, OnRetransmitHangs(D) PROVE IInv'
  OBVIOUS
<1> USE DEF IInv
<1>1. PICK a : a = Again(D)
  OBVIOUS
<1>2. PICK t : t = SubSeq(a, 1, MailboxCap - Len(mailbox))
  OBVIOUS
<1>3. /\ state = "processing" /\ Len(mailbox) + Len(a) > MailboxCap
      /\ inflight_queue' = AfterTick(D) /\ mailbox' = mailbox \o t /\ GiveUp(D)
      /\ state' = "hung" /\ clean' = clean /\ next_packet_id' = next_packet_id
      /\ stored' = stored /\ link' = link /\ toClient' = toClient /\ toBroker' = toBroker
      /\ client' = client /\ routed' = routed /\ lost' = lost /\ stale' = stale
      /\ clashed' = clashed /\ behind' = behind /\ breaks' = breaks
  BY <1>1, <1>2 DEF OnRetransmitHangs
<1>4. /\ givenUp \subseteq givenUp' /\ givenUp' \subseteq routed
      /\ {inflight_queue[i].msg : i \in OverLimit(D)} \subseteq Gone'
  BY <1>3, GivenUpFacts DEF Delivery
<1>5. QueueFrom(inflight_queue') /\ QueueDrops(inflight_queue', Gone')
  BY <1>3, <1>4, QueueAfterTick
<1>6. /\ a \in Seq(Entry)
      /\ \A e \in Elems(a) : e.id # 0 /\ \E g \in Kept : Same(e, g)
  BY <1>1, AgainFacts
<1>7. /\ t \in Seq(Entry) /\ Len(mailbox) + Len(t) <= MailboxCap
      /\ Elems(t) \subseteq Elems(a)
  <2>1. /\ Len(mailbox) \in Nat /\ MailboxCap \in Nat /\ Len(mailbox) <= MailboxCap
        /\ Len(a) \in Nat
    BY <1>6, OutboundAssumption DEF TypeOK
  <2>4. MailboxCap - Len(mailbox) \in 0..Len(a)
    BY <2>1, <1>3
  <2>2. PICK n \in 0..Len(a) : n = MailboxCap - Len(mailbox)
    BY <2>4, Zenon
  <2>3. t \in Seq(Entry) /\ Len(t) = n /\ Elems(t) \subseteq Elems(a)
    BY <2>2, <1>2, <1>6, ElemsPrefix
  <2> QED BY <2>1, <2>2, <2>3
<1>8. BoxFrom(mailbox') /\ BoxDrops(mailbox', Gone')
  BY <1>3, <1>6, <1>7, BoxMore
<1>9. /\ HeldCarried /\ SentCarried /\ AcksCarried
      /\ \A x \in Msgs : delivered'[x] >= delivered[x]
      /\ released' = released /\ delivered' = delivered
  BY <1>3, SameCarried
<1>10. TypeOK'
  BY <1>3, <1>4, <1>5, <1>8, <1>9 DEF TypeOK, QueueFrom, BoxFrom
<1>11. AbsentIsEmpty' /\ CounterMoves /\ Gone \subseteq Gone'
  BY <1>3, <1>4 DEF AbsentIsEmpty, CounterMoves, Gone
<1>12. /\ stored' \in {stored, NoImage} /\ state # "absent" /\ state' # "absent"
       /\ routed \subseteq routed' /\ \A x \in routed' : x \in routed
  BY <1>3
<1> QED BY <1>3, <1>5, <1>8, <1>9, <1>10, <1>11, <1>12, StayStep
-----------------------------------------------------------------------------
\* The connection and the session's life.
LEMMA BreakStep == IInv /\ Break => IInv'
<1> SUFFICES ASSUME IInv, Break PROVE IInv'
  OBVIOUS
<1> USE DEF IInv
<1>1. /\ link = "up" /\ breaks < MaxBreaks /\ link' = "broken" /\ breaks' = breaks + 1
      /\ toClient' = <<>> /\ state' = state /\ clean' = clean /\ mailbox' = mailbox
      /\ inflight_queue' = inflight_queue /\ next_packet_id' = next_packet_id
      /\ stored' = stored /\ client' = client /\ routed' = routed
      /\ givenUp' = givenUp /\ lost' = lost /\ stale' = stale /\ clashed' = clashed /\ behind' = behind
  BY DEF Break, session, history
<1>2. state \notin {"absent", "pending"}
  BY <1>1 DEF AbsentIsEmpty
<1>3. toBroker' \in Seq(Up) /\ Elems(toBroker') \subseteq Elems(toBroker)
  <2>1. PICK n \in 0..Len(toBroker) : toBroker' = SubSeq(toBroker, 1, n)
    BY DEF Break
  <2> QED BY <2>1, ElemsPrefix DEF TypeOK
<1>4. Elems(toClient') = {}
  BY <1>1, ElemsEmpty
<1>5. /\ HeldCarried /\ SentCarried /\ AcksCarried
      /\ \A x \in Msgs : delivered'[x] >= delivered[x]
      /\ released' = released /\ delivered' = delivered
  BY <1>1, <1>3, <1>4, SameCarried
<1>6. breaks' \in 0..MaxBreaks
  BY <1>1, OutboundAssumption DEF TypeOK
<1>7. TypeOK'
  BY <1>1, <1>3, <1>5, <1>6 DEF TypeOK
<1>8. AbsentIsEmpty' /\ CounterMoves /\ Gone \subseteq Gone'
  BY <1>1, <1>2 DEF AbsentIsEmpty, CounterMoves, Gone
<1>9. QueueFrom(inflight_queue') /\ QueueDrops(inflight_queue', Gone')
  BY <1>1, QueueSame
<1>10. BoxFrom(mailbox') /\ BoxDrops(mailbox', Gone')
  BY <1>1, BoxSame
<1>11. /\ stored' \in {stored, NoImage} /\ state # "absent" /\ state' # "absent"
       /\ routed \subseteq routed' /\ \A x \in routed' : x \in routed
  BY <1>1, <1>2
<1> QED BY <1>1, <1>5, <1>7, <1>8, <1>9, <1>10, <1>11, StayStep

LEMMA ResumeStep == IInv /\ Resume => IInv'
<1> SUFFICES ASSUME IInv, Resume PROVE IInv'
  OBVIOUS
<1> USE DEF IInv
<1>1. /\ state \in {"pending", "processing"} /\ state' = "processing" /\ clean' = FALSE
      /\ link' = "up" /\ toClient' = <<>> /\ toBroker' = <<>> /\ mailbox' = mailbox
      /\ inflight_queue' = inflight_queue /\ next_packet_id' = next_packet_id
      /\ stored' = stored /\ client' = client /\ routed' = routed
      /\ givenUp' = givenUp /\ lost' = lost /\ stale' = stale /\ clashed' = clashed /\ behind' = behind
      /\ breaks' = breaks \/ (breaks < MaxBreaks /\ breaks' = breaks + 1)
  BY DEF Resume, Cut, history
<1>2. Elems(toClient') = {} /\ Elems(toBroker') = {}
  BY <1>1, ElemsEmpty
<1>3. /\ HeldCarried /\ SentCarried /\ AcksCarried
      /\ \A x \in Msgs : delivered'[x] >= delivered[x]
      /\ released' = released /\ delivered' = delivered
  BY <1>1, <1>2, SameCarried
<1>4. breaks' \in 0..MaxBreaks
  BY <1>1, OutboundAssumption DEF TypeOK
<1>5. TypeOK'
  <2>1. clean' \in BOOLEAN
    BY <1>1, Zenon
  <2>2. /\ state' \in {"processing", "pending", "hung", "absent"}
        /\ link' \in {"up", "broken", "down"} /\ toClient' \in Seq(Down) /\ toBroker' \in Seq(Up)
    BY <1>1
  <2>3. /\ mailbox' \in Seq(Entry) /\ Len(mailbox') <= MailboxCap
        /\ inflight_queue' \in Seq(Flight) /\ next_packet_id' \in Ids
        /\ stored' \in Image \cup {NoImage} /\ released' \subseteq Ids
        /\ delivered' \in [Msgs -> Nat]
    BY <1>1, <1>3 DEF TypeOK
  <2>4. /\ routed' \subseteq Msgs /\ givenUp' \subseteq routed' /\ lost' \subseteq routed'
        /\ stale' \subseteq routed' /\ clashed' \subseteq routed' /\ behind' \subseteq Msgs
    BY <1>1 DEF TypeOK
  <2> QED BY <2>1, <2>2, <2>3, <2>4, <1>4 DEF TypeOK
<1>6. AbsentIsEmpty' /\ CounterMoves /\ Gone \subseteq Gone'
  BY <1>1 DEF AbsentIsEmpty, CounterMoves, Gone
<1>7. QueueFrom(inflight_queue') /\ QueueDrops(inflight_queue', Gone')
  BY <1>1, QueueSame
<1>8. BoxFrom(mailbox') /\ BoxDrops(mailbox', Gone')
  BY <1>1, BoxSame
<1>9. /\ stored' \in {stored, NoImage} /\ state # "absent" /\ state' # "absent"
      /\ routed \subseteq routed' /\ \A x \in routed' : x \in routed
  BY <1>1
<1> QED BY <1>1, <1>3, <1>5, <1>6, <1>7, <1>8, <1>9, StayStep

LEMMA StartCleanStep == IInv /\ StartClean => IInv'
<1> SUFFICES ASSUME IInv, StartClean PROVE IInv'
  OBVIOUS
<1> USE DEF IInv
<1>1. /\ state \in {"pending", "processing"} /\ state' = "processing" /\ clean' = TRUE
      /\ link' = "up" /\ toClient' = <<>> /\ toBroker' = <<>> /\ mailbox' = mailbox
      /\ inflight_queue' = <<>> /\ next_packet_id' = next_packet_id
      /\ stored' = NoImage /\ released' = {} /\ delivered' = delivered /\ routed' = routed
      /\ givenUp' = givenUp /\ lost' = lost /\ stale' = routed /\ clashed' = clashed /\ behind' = behind
      /\ breaks < MaxBreaks /\ breaks' = breaks + 1
  BY DEF StartClean, Cut
<1>2. Elems(toClient') = {} /\ Elems(toBroker') = {}
  BY <1>1, ElemsEmpty
<1>3. /\ HeldCarried /\ SentCarried /\ AcksCarried
      /\ \A x \in Msgs : delivered'[x] >= delivered[x]
  BY <1>1, <1>2 DEF HeldCarried, SentCarried, AcksCarried, TypeOK
<1>4. breaks' \in 0..MaxBreaks
  BY <1>1, OutboundAssumption DEF TypeOK
<1>5. TypeOK'
  BY <1>1, <1>4 DEF TypeOK
<1>6. AbsentIsEmpty' /\ CounterMoves /\ Gone \subseteq Gone'
  BY <1>1 DEF AbsentIsEmpty, CounterMoves, Gone, TypeOK
<1>7. QueueFrom(inflight_queue') /\ QueueDrops(inflight_queue', Gone')
  <2>1. \A f \in Kept : f.msg \in Gone'
    BY <1>1 DEF Delivery, MsgsRouted, Flights, Gone
  <2> QED BY <2>1, <1>1, QueueEmpty
<1>8. BoxFrom(mailbox') /\ BoxDrops(mailbox', Gone')
  BY <1>1, BoxSame
<1>9. /\ stored' \in {stored, NoImage} /\ state # "absent" /\ state' # "absent"
      /\ routed \subseteq routed' /\ \A x \in routed' : x \in routed
  BY <1>1
<1> QED BY <1>1, <1>3, <1>5, <1>6, <1>7, <1>8, <1>9, StayStep

LEMMA RestartStep == IInv /\ Restart => IInv'
<1> SUFFICES ASSUME IInv, Restart PROVE IInv'
  OBVIOUS
<1> USE DEF IInv
<1>1. /\ state # "absent" /\ state' = "absent" /\ link' = "down"
      /\ toClient' = <<>> /\ toBroker' = <<>> /\ mailbox' = <<>> /\ inflight_queue' = <<>>
      /\ next_packet_id' = 1 /\ clean' = clean /\ stored' = stored
      /\ released' = released /\ delivered' = delivered /\ routed' = routed
      /\ givenUp' = givenUp /\ stale' = stale /\ clashed' = clashed
      /\ lost' = lost \cup {m \in routed : (Queued(m) \/ InFlight(m)) /\ ~InImage(m)}
      /\ breaks < MaxBreaks /\ breaks' = breaks + 1
  BY DEF Restart, Cut, client
<1>2. breaks' \in 0..MaxBreaks /\ 1 \in Ids /\ 0 <= MailboxCap
  BY <1>1, OutboundAssumption DEF TypeOK, Ids
<1>3. behind' \subseteq Msgs
  <2>1. Overtaken \subseteq Flight
    BY DEF Overtaken, TypeOK, Image
  <2> QED BY <2>1, FieldTypes DEF Restart, TypeOK
<1>6. TypeOK'
  BY <1>1, <1>2, <1>3 DEF TypeOK
<1>4. AbsentIsEmpty' /\ Gone \subseteq Gone'
  BY <1>1 DEF AbsentIsEmpty, Gone
<1>5. \A m \in routed : Queued(m) \/ InFlight(m) => InImage(m) \/ m \in Gone'
  BY <1>1 DEF Gone
<1> QED BY <1>1, <1>4, <1>5, <1>6, GoneStep

LEMMA RestoreStep == IInv /\ Restore => IInv'
<1> SUFFICES ASSUME IInv, Restore PROVE IInv'
  OBVIOUS
<1> USE DEF IInv
<1>1. /\ state = "absent" /\ state' = "processing" /\ clean' = FALSE /\ link' = "up"
      /\ stored' = NoImage /\ mailbox' = mailbox /\ toClient' = toClient /\ toBroker' = toBroker
      /\ delivered' = delivered /\ routed' = routed /\ givenUp' = givenUp /\ lost' = lost
      /\ stale' = stale /\ clashed' = clashed /\ behind' = behind /\ breaks' = breaks
  BY DEF Restore, history
<1>2. \/ /\ stored = NoImage /\ released' = {}
         /\ inflight_queue' = inflight_queue /\ next_packet_id' = next_packet_id
      \/ /\ stored # NoImage /\ released' = released
         /\ inflight_queue' = stored.inflight /\ next_packet_id' = stored.next
  BY DEF Restore
<1>3. stored # NoImage => stored.inflight \in Seq(Flight) /\ stored.next \in Ids
  BY DEF TypeOK, Image
<1>4. TypeOK'
  BY <1>1, <1>2, <1>3 DEF TypeOK
<1>5. released' \subseteq released /\ Gone \subseteq Gone'
  BY <1>1, <1>2 DEF Gone
<1>6. stored = NoImage => \A m \in routed : InImage(m) => m \in Gone'
  BY DEF InImage
<1> QED BY <1>1, <1>2, <1>4, <1>5, <1>6, BackStep

LEMMA ConnectCleanStep == IInv /\ ConnectClean => IInv'
<1> SUFFICES ASSUME IInv, ConnectClean PROVE IInv'
  OBVIOUS
<1> USE DEF IInv
<1>1. /\ state = "absent" /\ state' = "processing" /\ clean' = TRUE /\ link' = "up"
      /\ stored' = NoImage /\ mailbox' = mailbox /\ toClient' = toClient /\ toBroker' = toBroker
      /\ inflight_queue' = inflight_queue /\ next_packet_id' = next_packet_id
      /\ released' = {} /\ delivered' = delivered /\ routed' = routed /\ givenUp' = givenUp
      /\ lost' = lost /\ stale' = routed /\ clashed' = clashed /\ behind' = behind /\ breaks' = breaks
  BY DEF ConnectClean
<1>2. TypeOK'
  BY <1>1 DEF TypeOK
<1>3. /\ released' \subseteq released /\ Gone \subseteq Gone'
      /\ \A m \in routed : InImage(m) => m \in Gone'
  BY <1>1 DEF Gone, TypeOK
<1> QED BY <1>1, <1>2, <1>3, BackStep

LEMMA RestoreFailsType == IInv /\ RestoreFails => IInv'
<1> SUFFICES ASSUME IInv, RestoreFails PROVE IInv'
  OBVIOUS
<1>1. TypeOK'
  BY DEF IInv, TypeOK, RestoreFails, session, client
<1> QED BY <1>1, RestoreFailsStep
-----------------------------------------------------------------------------
\* on_message sends a retransmission, or numbers a message and sends it.
LEMMA OnMessageAgainStep ==
  ASSUME IInv, OnMessage, Head(mailbox).id # 0
  PROVE  IInv'
<1> USE DEF IInv
<1>1. PICK e : e = Head(mailbox)
  OBVIOUS
<1>2. PICK p : p = [type |-> "PUBLISH", id |-> e.id, msg |-> e.msg]
  OBVIOUS
<1>3. /\ state = "processing" /\ mailbox # <<>> /\ mailbox' = Tail(mailbox) /\ Write(<<p>>)
      /\ inflight_queue' = inflight_queue /\ next_packet_id' = next_packet_id
      /\ clashed' = clashed /\ behind' = behind /\ state' = state /\ clean' = clean /\ stored' = stored
      /\ link' = link /\ toBroker' = toBroker /\ client' = client /\ routed' = routed
      /\ givenUp' = givenUp /\ lost' = lost /\ stale' = stale /\ breaks' = breaks
  BY <1>1, <1>2 DEF OnMessage
<1>4. /\ e \in Elems(mailbox) /\ e \in Entry /\ e.id # 0
  BY <1>1, <1>3, ElemsTail DEF TypeOK
<1>5. p \in Down /\ p.type = "PUBLISH" /\ Same(p, e)
  <2>1. e.id \in Ids /\ e.msg \in Msgs
    BY <1>4, FieldTypes, OutboundAssumption DEF Ids
  <2> QED BY <2>1, <1>2 DEF Down, Same
<1>6. toClient' \in Seq(Down) /\ Elems(toClient') \subseteq Elems(toClient) \cup {p}
  BY <1>3, <1>5, SinglePacket, WriteFacts
<1>7. SentCarried
  BY <1>4, <1>5, <1>6 DEF SentCarried
<1>8. QueueFrom(inflight_queue') /\ QueueDrops(inflight_queue', Gone')
  BY <1>3, QueueSame
<1>9. BoxFrom(mailbox') /\ BoxDrops(mailbox', Gone')
  BY <1>1, <1>3, <1>4, BoxTail
<1>10. /\ HeldCarried /\ AcksCarried
       /\ \A x \in Msgs : delivered'[x] >= delivered[x]
       /\ released' = released /\ delivered' = delivered
  BY <1>3, SameCarried
<1>11. TypeOK'
  BY <1>3, <1>6, <1>9, <1>10 DEF TypeOK, BoxFrom
<1>12. AbsentIsEmpty' /\ CounterMoves /\ Gone \subseteq Gone'
  BY <1>3 DEF AbsentIsEmpty, CounterMoves, Gone
<1>13. /\ stored' \in {stored, NoImage} /\ state # "absent" /\ state' # "absent"
       /\ routed \subseteq routed' /\ \A x \in routed' : x \in routed
  BY <1>3
<1> QED BY <1>3, <1>7, <1>8, <1>9, <1>10, <1>11, <1>12, <1>13, StayStep

LEMMA OnMessageNewStep ==
  ASSUME IInv, OnMessage, Head(mailbox).id = 0
  PROVE  IInv'
<1> USE DEF IInv
<1>1. PICK e : e = Head(mailbox)
  OBVIOUS
<1>2. PICK m : m = e.msg
  OBVIOUS
<1>3. PICK n : n = next_packet_id
  OBVIOUS
<1>4. PICK new : new = FreshFlight(m, n)
  OBVIOUS
<1>5. PICK p : p = [type |-> "PUBLISH", id |-> n, msg |-> m]
  OBVIOUS
<1>6. /\ state = "processing" /\ mailbox # <<>> /\ mailbox' = Tail(mailbox) /\ Write(<<p>>)
      /\ inflight_queue' = Append(inflight_queue, new) /\ next_packet_id' = NextId
      /\ clashed' = clashed \cup Clash(m, n) /\ behind' = behind /\ state' = state /\ clean' = clean
      /\ stored' = stored /\ link' = link /\ toBroker' = toBroker
      /\ released' = released /\ delivered' = delivered /\ routed' = routed
      /\ givenUp' = givenUp /\ lost' = lost /\ stale' = stale /\ breaks' = breaks
  BY <1>1, <1>2, <1>3, <1>4, <1>5 DEF OnMessage, FreshFlight, client
<1>7. mailbox \in Seq(Entry) /\ inflight_queue \in Seq(Flight) /\ n \in Ids
  BY <1>3 DEF TypeOK
<1>8. /\ e \in Elems(mailbox) /\ e \in Entry /\ e.id = 0
      /\ Elems(mailbox) = {e} \cup Elems(mailbox') /\ mailbox' \in Seq(Entry)
      /\ Len(mailbox') = Len(mailbox) - 1
  BY <1>1, <1>6, <1>7, ElemsTail
<1>9. m \in routed /\ m \in Msgs
  BY <1>2, <1>8 DEF Delivery, MsgsRouted, TypeOK
<1>10. new \in Flight
  BY <1>4, <1>7, <1>9, OutboundAssumption DEF FreshFlight, Flight, Stages
<1>11. p \in Down /\ p.type = "PUBLISH" /\ p.id = n /\ p.msg = m
  BY <1>5, <1>7, <1>9 DEF Down
<1>12. toClient' \in Seq(Down) /\ Elems(toClient') \subseteq Elems(toClient) \cup {p}
  BY <1>6, <1>11, SinglePacket, WriteFacts
<1>13. /\ inflight_queue' \in Seq(Flight)
       /\ Elems(inflight_queue') = Elems(inflight_queue) \cup {new}
  BY <1>6, <1>7, <1>10, ElemsAppend
<1>14. Flights' = Flights \cup {new}
  <2>1. Kept' = Kept \cup {new}
    BY <1>13 DEF Kept, Elems
  <2>2. Saved' = Saved
    BY <1>6 DEF Saved, Elems
  <2> QED BY <2>1, <2>2 DEF Flights
<1>15. Numbered(m, n)
  BY <1>4, <1>6, <1>8, <1>11, <1>12, <1>14 DEF Numbered
<1>16. TypeOK'
  <2>1. Clash(m, n) \subseteq routed
    <3>1. UsedBy(n) \subseteq routed
      BY UsedByIs DEF Uses, Delivery, MsgsRouted
    <3> QED BY <3>1, <1>9 DEF Clash
  <2>2. Len(mailbox') <= MailboxCap
    BY <1>7, <1>8, OutboundAssumption DEF TypeOK
  <2>3. next_packet_id' \in Ids
    BY <1>6, NextIdType
  <2> QED BY <2>1, <2>2, <2>3, <1>6, <1>8, <1>12, <1>13 DEF TypeOK
<1>17. AbsentIsEmpty'
  BY <1>6 DEF AbsentIsEmpty
<1>18. Once(mailbox)' /\ \A x \in Elems(mailbox') : ~(x.id = 0 /\ x.msg = m)
  <2>1. Once(mailbox') /\ \A x \in Elems(mailbox') : ~(x.id = 0 /\ x.msg = m)
    BY <1>1, <1>2, <1>6, <1>7, <1>8, OnceTail
  <2> QED BY <2>1 DEF Once
<1>19. Delivery'
  BY <1>7, <1>9, <1>15, <1>16, NumberedKeepsDelivery
<1>20. \A x : Queued(x)' <=> \E y \in Elems(mailbox') : y.msg = x /\ y.id = 0
  BY DEF Queued, Elems
<1>21. /\ m \in Unnumbered /\ m \notin Unnumbered' /\ Unnumbered' \subseteq Unnumbered
  <2>1. Queued(m)
    BY <1>2, <1>8, QueuedIs
  <2>2. ~Queued(m)'
    BY <1>18, <1>20
  <2>3. \A x : Queued(x)' => Queued(x)
    BY <1>8, <1>20, QueuedIs
  <2> QED BY <2>1, <2>2, <2>3, <1>6, <1>9 DEF Unnumbered
<1>22. Numbering'
  BY <1>3, <1>4, <1>6, <1>15, <1>16, <1>21, NumberedNumbering
<1>23. NothingForgotten'
  <2>1. Gone \subseteq Gone' /\ clashed \subseteq clashed'
    BY <1>6 DEF Gone
  <2>2. \A x \in Msgs : delivered'[x] >= delivered[x]
    BY <1>6 DEF TypeOK
  <2>3. \A x : InFlight(x)' <=> \E f \in Elems(inflight_queue') : f.msg = x
    BY DEF InFlight, Elems
  <2>4. new.msg = m
    BY <1>4, FreshFields
  <2>5. \A x \in routed : Queued(x) => Queued(x)' \/ InFlight(x)'
    BY <2>3, <2>4, <1>2, <1>8, <1>13, <1>20, QueuedIs
  <2>6. \A x \in routed : InFlight(x) => InFlight(x)'
    BY <2>3, <1>13, InFlightIs DEF Kept
  <2> QED BY <2>1, <2>2, <2>5, <2>6, <1>6, <1>16, AccountedStep
<1> QED BY <1>16, <1>17, <1>18, <1>19, <1>22, <1>23

LEMMA OnMessageStep == IInv /\ OnMessage => IInv'
  BY OnMessageAgainStep, OnMessageNewStep

\* The subscriber takes a packet and answers it.
LEMMA ClientReceivesStep == IInv /\ ClientReceives => IInv'
<1> SUFFICES ASSUME IInv, ClientReceives PROVE IInv'
  OBVIOUS
<1> USE DEF IInv
<1>1. PICK p : p = Head(toClient)
  OBVIOUS
<1>2. /\ link = "up" /\ toClient # <<>> /\ toClient' = Tail(toClient)
      /\ inflight_queue' = inflight_queue /\ next_packet_id' = next_packet_id
      /\ mailbox' = mailbox /\ state' = state /\ clean' = clean /\ stored' = stored
      /\ link' = link /\ clashed' = clashed /\ behind' = behind /\ routed' = routed
      /\ givenUp' = givenUp /\ lost' = lost /\ stale' = stale /\ breaks' = breaks
  BY DEF ClientReceives, session, history
<1>3. \/ /\ p.type = "PUBREL" /\ released' = released \ {p.id} /\ delivered' = delivered
         /\ toBroker' = Append(toBroker, [type |-> "PUBCOMP", id |-> p.id])
      \/ /\ p.type = "PUBLISH"
         /\ delivered' = [delivered EXCEPT ![p.msg] = @ + 1] /\ released' = released
         /\ toBroker' = Append(toBroker, [type |-> "PUBACK", id |-> p.id])
      \/ /\ p.type = "PUBLISH" /\ p.msg \in Qos2
         /\ \/ p.id \in released /\ delivered' = delivered
            \/ delivered' = [delivered EXCEPT ![p.msg] = @ + 1]
         /\ released' = released \cup {p.id}
         /\ toBroker' = Append(toBroker, [type |-> "PUBREC", id |-> p.id])
  BY <1>1 DEF ClientReceives, Reply
<1>4. /\ p \in Elems(toClient) /\ p \in Down /\ toClient' \in Seq(Down)
      /\ Elems(toClient') \subseteq Elems(toClient)
  BY <1>1, <1>2, ElemsTail DEF TypeOK
<1>5. p.id \in Ids /\ (p.type = "PUBLISH" => p.msg \in Msgs)
  BY <1>4, FieldTypes
<1>6. /\ delivered' \in [Msgs -> Nat] /\ released' \subseteq Ids
      /\ \A x \in Msgs : delivered'[x] >= delivered[x]
      /\ delivered' # delivered => p.type = "PUBLISH" /\ delivered'[p.msg] > 0
  <2>1. delivered \in [Msgs -> Nat] /\ released \subseteq Ids
    BY DEF TypeOK
  <2>2. released' \subseteq Ids
    BY <2>1, <1>3, <1>5
  <2>3. CASE delivered' = delivered
    BY <2>1, <2>2, <2>3
  <2>4. CASE p.type = "PUBLISH" /\ delivered' = [delivered EXCEPT ![p.msg] = @ + 1]
    BY <2>1, <2>2, <2>4, <1>5
  <2> QED BY <2>3, <2>4, <1>3
<1>7. \/ p.type = "PUBREL"
      \/ p.type = "PUBLISH" /\ delivered'[p.msg] > 0
      \/ p.type = "PUBLISH" /\ p.msg \in Qos2 /\ p.id \in released
  <2>1. CASE p.type = "PUBLISH" /\ delivered' = [delivered EXCEPT ![p.msg] = @ + 1]
    BY <2>1, <1>5 DEF TypeOK
  <2> QED BY <2>1, <1>3
<1>8. Receipt(p)
  BY <1>7 DEF Receipt, Got
<1>9. PICK a \in Up : a.id = p.id /\ toBroker' = Append(toBroker, a)
  <2>1. \A t \in {"PUBACK", "PUBREC", "PUBCOMP"} : [type |-> t, id |-> p.id] \in Up
    BY <1>5 DEF Up
  <2>2. \A t : [type |-> t, id |-> p.id].id = p.id
    OBVIOUS
  <2> QED BY <2>1, <2>2, <1>3
<1>10. toBroker' \in Seq(Up) /\ Elems(toBroker') = Elems(toBroker) \cup {a}
  BY <1>9, ElemsAppend DEF TypeOK
<1>11. AcksCarried
  BY <1>4, <1>8, <1>9, <1>10 DEF AcksCarried
<1>12. SentCarried
  BY <1>4 DEF SentCarried
<1>13. HeldCarried
  <2>1. ASSUME NEW i \in released', i \notin released
        PROVE  p.type = "PUBLISH" /\ p.id = i /\ delivered'[p.msg] > 0
    BY <2>1, <1>3, <1>7
  <2> QED BY <2>1, <1>4 DEF HeldCarried, Got
<1>14. TypeOK'
  BY <1>2, <1>4, <1>6, <1>10 DEF TypeOK
<1>15. state \notin {"absent", "pending"}
  BY <1>2 DEF AbsentIsEmpty
<1>16. AbsentIsEmpty' /\ CounterMoves /\ Gone \subseteq Gone'
  BY <1>2, <1>15 DEF AbsentIsEmpty, CounterMoves, Gone
<1>17. QueueFrom(inflight_queue') /\ QueueDrops(inflight_queue', Gone')
  BY <1>2, QueueSame
<1>18. BoxFrom(mailbox') /\ BoxDrops(mailbox', Gone')
  BY <1>2, BoxSame
<1>19. /\ stored' \in {stored, NoImage} /\ state # "absent" /\ state' # "absent"
       /\ routed \subseteq routed' /\ \A x \in routed' : x \in routed
  BY <1>2, <1>15
<1> QED BY <1>2, <1>6, <1>11, <1>12, <1>13, <1>14, <1>16, <1>17, <1>18, <1>19, StayStep
-----------------------------------------------------------------------------
LEMMA InitHolds == Init => IInv
<1> SUFFICES ASSUME Init PROVE IInv
  OBVIOUS
<1>1. /\ state = "processing" /\ clean = FALSE /\ mailbox = <<>> /\ inflight_queue = <<>>
      /\ next_packet_id = 1 /\ stored = NoImage /\ link = "up" /\ toClient = <<>>
      /\ toBroker = <<>> /\ released = {} /\ delivered = [m \in Msgs |-> 0]
      /\ routed = {} /\ givenUp = {} /\ lost = {} /\ stale = {} /\ clashed = {} /\ behind = {} /\ breaks = 0
  BY DEF Init
<1>2. TypeOK
  <2>1. /\ 1 \in Ids /\ 0 \in 0..MaxBreaks /\ Len(<<>>) = 0 /\ 0 <= MailboxCap
        /\ delivered \in [Msgs -> Nat]
    BY <1>1, OutboundAssumption DEF Ids
  <2>2. /\ state \in {"processing", "pending", "hung", "absent"} /\ clean \in BOOLEAN
        /\ link \in {"up", "broken", "down"}
    BY <1>1
  <2> QED BY <1>1, <2>1, <2>2 DEF TypeOK
<1>3. AbsentIsEmpty /\ NothingForgotten /\ Once(mailbox)
  BY <1>1 DEF AbsentIsEmpty, NothingForgotten, Once
<1>4. /\ Flights = {} /\ Saved = {} /\ Kept = {} /\ Elems(mailbox) = {}
      /\ Elems(toClient) = {} /\ Elems(toBroker) = {}
  BY <1>1, ElemsEmpty DEF Flights, Kept, Saved
<1>5. Delivery
  BY <1>4 DEF Delivery, MsgsRouted, SameIdSameMsg, AnsweredIsGot, HeldIsGot, PubcompIsGot, Uses
<1>6. Numbering
  <2>1. NoWrap => Room(next_packet_id)
    <3>1. Unnumbered \in SUBSET Msgs
      BY DEF Unnumbered
    <3>2. NoWrap => Cardinality(Unnumbered) \in Nat /\ Cardinality(Unnumbered) <= MaxId
      BY <3>1, UnnumberedFinite
    <3> QED BY <3>2, <1>1, OutboundAssumption DEF Room
  <2> QED BY <2>1, <1>1, <1>4 DEF Numbering, Below, ImageBelow, Distinct
<1> QED BY <1>2, <1>3, <1>5, <1>6 DEF IInv

LEMMA StutterHolds == IInv /\ UNCHANGED vars => IInv'
<1> SUFFICES ASSUME IInv, UNCHANGED vars PROVE IInv'
  OBVIOUS
<1> USE DEF vars, session, client, history
<1>1. TypeOK' /\ AbsentIsEmpty' /\ Once(mailbox)'
  BY DEF IInv, TypeOK, AbsentIsEmpty, Once
<1>2. /\ Kept' = Kept /\ Saved' = Saved /\ Flights' = Flights
      /\ Elems(mailbox)' = Elems(mailbox) /\ Elems(toClient)' = Elems(toClient)
      /\ Elems(toBroker)' = Elems(toBroker)
  BY DEF Kept, Saved, Flights, Elems
<1>3. /\ \A id, m : Uses(id, m)' <=> Uses(id, m)
      /\ \A id : Answers(id)' <=> Answers(id)
      /\ \A m : Got(m)' <=> Got(m)
  BY <1>2 DEF Uses, Answers, Got
<1>4. Delivery'
  BY <1>2, <1>3 DEF IInv, Delivery, MsgsRouted, SameIdSameMsg, AnsweredIsGot, HeldIsGot, PubcompIsGot
<1>5. \A m : /\ Queued(m)' <=> Queued(m)
             /\ InFlight(m)' <=> InFlight(m)
             /\ InImage(m)' <=> InImage(m)
  BY DEF Queued, InFlight, InImage
<1>6. NothingForgotten'
  BY <1>5 DEF IInv, NothingForgotten, Accounted
<1>7. Unnumbered' = Unnumbered
  BY <1>5 DEF Unnumbered
<1>8. Numbering'
  BY <1>2, <1>7 DEF IInv, Numbering, Below, ImageBelow, Room, Distinct, NoWrap
<1> QED BY <1>1, <1>4, <1>6, <1>8 DEF IInv

LEMMA NextHolds == IInv /\ [Next]_vars => IInv'
<1> SUFFICES ASSUME IInv, [Next]_vars PROVE IInv'
  OBVIOUS
<1>1. CASE \E m \in Msgs : Arrive(m)
  BY <1>1, ArriveStep
<1>2. CASE OnMessage \/ OnMessageFails \/ OnAck \/ OnPubRec \/ OnPubRecFails
  BY <1>2, OnMessageStep, OnMessageFailsStep, OnAckStep, OnPubRecStep, OnPubRecFailsStep
<1>3. ASSUME NEW D \in SUBSET DOMAIN inflight_queue,
             OnRetransmit(D) \/ OnRetransmitFails(D) \/ OnRetransmitHangs(D)
      PROVE  IInv'
  BY <1>3, OnRetransmitStep, OnRetransmitFailsStep, OnRetransmitHangsStep
<1>4. CASE Break \/ Notice \/ Resume \/ StartClean \/ Restart
  BY <1>4, BreakStep, NoticeStep, ResumeStep, StartCleanStep, RestartStep
<1>5. CASE Restore \/ RestoreFails \/ ConnectClean
  BY <1>5, RestoreStep, RestoreFailsType, ConnectCleanStep
<1>6. CASE \E c \in BOOLEAN : TakeoverFails(c)
  BY <1>6, TakeoverFailsStep
<1>7. CASE ClientReceives
  BY <1>7, ClientReceivesStep
<1>8. CASE UNCHANGED vars
  BY <1>8, StutterHolds
<1> QED BY <1>1, <1>2, <1>3, <1>4, <1>5, <1>6, <1>7, <1>8 DEF Next

LEMMA SpecIInv == Spec => []IInv
  BY InitHolds, NextHolds, PTL DEF Spec

-----------------------------------------------------------------------------
\* The session, its mailbox and in-flight queue, the connection and the image
\* in storage keep their types: next_packet_id() never yields 0, and
\* on_retransmit never overfills the mailbox nor passes the limit of retries.
THEOREM TypeCorrect == Spec => []TypeOK
<1>1. IInv => TypeOK
  BY DEF IInv
<1> QED BY <1>1, SpecIInv, PTL

\* on_puback and on_pubcomp remove, and on_retransmit, on_takeover and a
\* restart drop, no message that is neither delivered nor accounted for, unless
\* its packet id was in use twice.
THEOREM NothingIsForgotten == Spec => []NothingForgotten
<1>1. IInv => NothingForgotten
  BY DEF IInv
<1> QED BY <1>1, SpecIInv, PTL

\* on_pubrec moves an entry on only when the subscriber has its message: a
\* PUBREC that is late, repeated or left over from an earlier connection never
\* releases another one, unless its packet id was in use twice.
THEOREM ReleasedWasDelivered == Spec => []ReleasedIsDelivered
<1>1. IInv => ReleasedIsDelivered
  BY DEF IInv, Delivery, PubcompIsGot, ReleasedIsDelivered, Flights, Kept, Elems, Got
<1> QED BY <1>1, SpecIInv, PTL

\* As long as the counter does not come round, next_packet_id() never gives an
\* id to a second entry of the in-flight queue, also after restore_from_storage.
THEOREM IdsAreUnique == Spec => []IdsUnique
<1>1. IInv => IdsUnique
  BY DEF IInv, Numbering, Distinct, IdsUnique
<1> QED BY <1>1, SpecIInv, PTL

\* As long as the counter does not come round, the id that next_packet_id()
\* gives to a waiting message is free: it is not in flight, not in the image,
\* not in a queued retransmission and not under way, whatever old image and
\* counter restore_from_storage has brought back.
THEOREM NextIdWasFree == Spec => []NextIdIsFree
<1>1. IInv => NextIdIsFree
  <2> SUFFICES ASSUME IInv, NoWrap, state # "absent", NEW m \in Msgs, Queued(m)
               PROVE  UsedBy(next_packet_id) = {} /\ ~Answered(next_packet_id)
    BY DEF NextIdIsFree
  <2>1. Unnumbered # {}
    BY DEF Unnumbered
  <2> QED BY <2>1, NextIsFree DEF IInv, Numbering
<1> QED BY <1>1, SpecIInv, PTL
=============================================================================

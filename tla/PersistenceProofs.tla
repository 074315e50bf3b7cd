-------------------------- MODULE PersistenceProofs --------------------------
(***************************************************************************)
(* Proofs about Persistence, for any clients, topics, states and retained  *)
(* messages.                                                               *)
(*                                                                         *)
(* Final(T, q) is, in closed form, what a sequence q of statements makes   *)
(* of the tables T.  Executing the first statement of q does not change it *)
(* (FinalStep), so it says from Begin on what Commit will write.           *)
(* Holding(I, R) is the tables of whole images I and retained messages R.  *)
(* For every storage operation, Final of its statements on Holding(I, R)   *)
(* is Holding of what the abstract operation makes of I and R              *)
(* (HoldingSave, HoldingDelete, HoldingExpire, HoldingRetain,              *)
(* HoldingForget), and reading Holding(I, R) yields I and R (ReadBack).    *)
(*                                                                         *)
(* The inductive invariant Inv says that the committed tables hold whole   *)
(* images (Whole), that the open transaction leads to those of one         *)
(* abstract operation which its caller is in the phase for (Open), and     *)
(* where the promised state of each session is (Sessions).                 *)
(***************************************************************************)
EXTENDS Persistence, FiniteSetTheorems, SequenceTheorems, TLAPS

\* The statement s removes the row r from the table t, or adds it.
Kills(s, t, r) ==
    /\ s.table = t
    /\ \/ s.do = "delete" /\ r.owner = s.owner
       \/ s.do = "upsert" /\ r.owner = s.row.owner

Adds(s, t, r) == s.table = t /\ s.do # "delete" /\ r = s.row

Statement(s) == s.do \in {"delete", "insert", "upsert"} /\ s.table \in Tables

Untouched(q, t, r) == \A k \in DOMAIN q : ~Kills(q[k], t, r)
Added(q, t, r)     == \E k \in DOMAIN q : Adds(q[k], t, r) /\ \A i \in DOMAIN q : i > k => ~Kills(q[i], t, r)

\* The tables once the statements q have been executed on the tables T.
Final(T, q) ==
    [t \in Tables |-> {r \in T[t] \cup {q[k].row : k \in {j \in DOMAIN q : q[j].do # "delete"}} :
                         (r \in T[t] /\ Untouched(q, t, r)) \/ Added(q, t, r)}]

IsTables(T) == T = [t \in Tables |-> T[t]]

Owners  == Clients \cup Topics
Records == [owner : Owners, key : {Only} \cup {r[1] : r \in Row},
            data : {r[2] : r \in Row} \cup Payloads \cup [next : Nat, at : Nat]]

Statements ==
    [do : {"delete"}, table : Tables, owner : Owners]
        \cup [do : {"insert", "upsert"}, table : Tables, row : Records]

\* The rows of client c that stand for rows.
RowsOf(c, rows) == {[owner |-> c, key |-> r[1], data |-> r[2]] : r \in rows}

SessionRow(c, d) == [owner |-> c, key |-> Only, data |-> d]

SavedRow(c, x) == SessionRow(c, [next |-> x.next, at |-> x.at])

\* What the abstract storage may hold.
AllHeld     == [Clients -> AllImages \cup {None}]
AllRetained == [Topics -> Payloads \cup {None}]

Undated(x) == IF x = None THEN None ELSE [next |-> x.next, rows |-> x.rows]

\* The abstract storage, read from the tables.
Held == [c \in Clients |-> StoredImage(c)]
Kept == [t \in Topics |-> StoredMessage(t)]

ReadsAs(I, R) ==
    /\ Held = I /\ Kept = R
    /\ \A c \in Clients : Image(c) = Undated(I[c])
    /\ \A c : (\E r \in db["sessions"] : r.owner = c) <=> c \in Clients /\ I[c] # None
    /\ \A r \in db["sessions"] : r.owner \in Clients /\ r.data.at = I[r.owner].at
    /\ NoOrphans

\* The images of the clients C go.
Gone(I, C) == [k \in Clients |-> IF k \in C THEN None ELSE I[k]]

SavedBefore(I, t) == {c \in Clients : I[c] # None /\ I[c].at < t}

\* The tables hold whole images.
Whole == Held \in AllHeld /\ Kept \in AllRetained /\ db = Holding(Held, Kept)

\* What an open transaction leads to, if it is committed.
Saves(F)   == /\ tx.by \in Clients /\ phase[tx.by] = "pending"
              /\ F = Holding([Held EXCEPT ![tx.by] = Dated(AsImage(mem[tx.by]), Now)], Kept)
Deletes(F) == /\ tx.by \in Clients /\ phase[tx.by] \in {"connack", "processing"}
              /\ F = Holding(Gone(Held, {tx.by}), Kept)
Expires(F) == /\ tx.by = None
              /\ \E t \in Times : SavedBefore(Held, t) \subseteq lost
                               /\ F = Holding(Gone(Held, SavedBefore(Held, t)), Kept)
Retains(F) == /\ tx.by \in Topics
              /\ \E p \in Payloads \cup {None} : F = Holding(Held, [Kept EXCEPT ![tx.by] = p])

Outcome(F) == Saves(F) \/ Deletes(F) \/ Expires(F) \/ Retains(F)

Open ==
    ~Idle => /\ IsTables(tx.tables) /\ tx.todo \in Seq(Statements)
             /\ tx = [by |-> tx.by, tables |-> tx.tables, todo |-> tx.todo]
             /\ Outcome(Final(tx.tables, tx.todo))

Typed ==
    /\ phase \in [Clients -> {"absent", "restoring", "connack", "processing", "pending"}]
    /\ clean \in [Clients -> BOOLEAN] /\ mem \in [Clients -> State]
    /\ content \in [Clients -> [next : Nat, rows : [Children -> SUBSET Row]] \cup {None}]
    /\ lost \subseteq Clients /\ unsaved \subseteq Clients /\ undeleted \subseteq Clients
    /\ \A c \in Clients : \E m \in AllStates : AsImage(mem[c]) = AsImage(m)

\* The promised state is in memory and, except while the session is connected
\* or being saved, in storage.
Safe(c) ==
    content[c] # None /\ c \notin lost =>
        /\ phase[c] # "absent" => AsImage(mem[c]) = content[c]
        /\ phase[c] \in {"absent", "restoring"} => Image(c) = content[c]
        /\ phase[c] = "pending" => c \in unsaved \/ Image(c) = content[c]

\* A client to which nothing is promised has no image, or one that a delete
\* has failed to remove.
Clear(c) == content[c] = None /\ c \notin undeleted => Image(c) = None

\* A session that is kept is promised, a clean one is not.
Promised(c) ==
    /\ phase[c] = "pending" => content[c] # None
    /\ phase[c] = "restoring" => ~clean[c]
    /\ phase[c] = "processing" /\ ~clean[c] => content[c] # None
    /\ phase[c] \in {"connack", "processing"} /\ clean[c] => content[c] = None

Sessions == Typed /\ \A c \in Clients : Safe(c) /\ Clear(c) /\ Promised(c)

\* The inductive invariant.
Inv == Whole /\ Open /\ Sessions

-----------------------------------------------------------------------------
(***************************************************************************)
(* What a sequence of statements does to the tables.                       *)
(***************************************************************************)
LEMMA FinalMember ==
    ASSUME NEW T, NEW q, NEW t \in Tables, NEW r
    PROVE  r \in Final(T, q)[t] <=> (r \in T[t] /\ Untouched(q, t, r)) \/ Added(q, t, r)
<1>1. Final(T, q)[t] = {x \in T[t] \cup {q[k].row : k \in {j \in DOMAIN q : q[j].do # "delete"}} :
                          (x \in T[t] /\ Untouched(q, t, x)) \/ Added(q, t, x)}
  BY DEF Final
<1>2. Added(q, t, r) => r \in {q[k].row : k \in {j \in DOMAIN q : q[j].do # "delete"}}
  BY DEF Added, Adds
<1> QED BY <1>1, <1>2

LEMMA TablesEqual ==
    ASSUME NEW T, NEW U, IsTables(T), IsTables(U),
           \A t \in Tables : \A r : r \in T[t] <=> r \in U[t]
    PROVE  T = U
<1>1. \A t \in Tables : T[t] = U[t]
  OBVIOUS
<1> QED BY <1>1 DEF IsTables

LEMMA FinalIsTables == \A T, q : IsTables(Final(T, q))
BY DEF IsTables, Final

LEMMA FinalNothing ==
    ASSUME NEW T, IsTables(T)
    PROVE  Final(T, <<>>) = T
<1>1. \A t \in Tables : \A r : r \in Final(T, <<>>)[t] <=> r \in T[t]
  BY FinalMember DEF Untouched, Added
<1> QED BY <1>1, TablesEqual, FinalIsTables

LEMMA ApplyMember ==
    ASSUME NEW T, IsTables(T), NEW s, Statement(s), NEW t \in Tables, NEW r
    PROVE  r \in Apply(s, T)[t] <=> (r \in T[t] /\ ~Kills(s, t, r)) \/ Adds(s, t, r)
<1>1. DOMAIN T = Tables
  BY DEF IsTables
<1>2. CASE t = s.table
  BY <1>1, <1>2 DEF Apply, Kills, Adds, Statement
<1>3. CASE t # s.table
  BY <1>1, <1>3 DEF Apply, Kills, Adds, Statement
<1> QED BY <1>2, <1>3

LEMMA ApplyIsTables ==
    ASSUME NEW T, IsTables(T), NEW s
    PROVE  IsTables(Apply(s, T))
<1>1. DOMAIN T = Tables
  BY DEF IsTables
<1>2. \A X : IsTables([T EXCEPT ![s.table] = X])
  BY <1>1 DEF IsTables
<1> QED BY <1>2 DEF Apply

\* Two sequences, one after the other.
LEMMA ConcatFacts ==
    ASSUME NEW S, NEW p \in Seq(S), NEW q \in Seq(S), NEW t, NEW r
    PROVE  /\ Untouched(p \o q, t, r) <=> Untouched(p, t, r) /\ Untouched(q, t, r)
           /\ Added(p \o q, t, r) <=> (Added(p, t, r) /\ Untouched(q, t, r)) \/ Added(q, t, r)
<1> DEFINE m == Len(p)
           n == Len(q)
           w == p \o q
<1>1. m \in Nat /\ n \in Nat /\ DOMAIN p = 1..m /\ DOMAIN q = 1..n
  OBVIOUS
<1>2. w \in Seq(S) /\ Len(w) = m + n /\ DOMAIN w = 1..(m + n)
      /\ (\A k \in 1..m : w[k] = p[k]) /\ (\A k \in 1..n : w[m + k] = q[k])
  BY <1>1, ConcatProperties
<1> HIDE DEF m, n, w
<1>3. /\ \A k \in 1..m : k \in 1..(m + n)
      /\ \A k \in 1..n : m + k \in 1..(m + n) /\ m + k > m /\ m + k \notin 1..m
      /\ \A k \in 1..(m + n) : k \in 1..m \/ (k - m \in 1..n /\ k = m + (k - m))
  BY <1>1
<1>4. Untouched(w, t, r) <=> Untouched(p, t, r) /\ Untouched(q, t, r)
  <2>1. ASSUME Untouched(w, t, r) PROVE Untouched(p, t, r) /\ Untouched(q, t, r)
    BY <1>1, <1>2, <1>3, <2>1 DEF Untouched
  <2>2. ASSUME Untouched(p, t, r), Untouched(q, t, r), NEW k \in 1..(m + n) PROVE ~Kills(w[k], t, r)
    <3>1. CASE k \in 1..m
      BY <1>1, <1>2, <2>2, <3>1 DEF Untouched
    <3>2. CASE k - m \in 1..n /\ k = m + (k - m)
      BY <1>1, <1>2, <2>2, <3>2 DEF Untouched
    <3> QED BY <1>3, <3>1, <3>2
  <2> QED BY <1>2, <2>1, <2>2 DEF Untouched
<1>5. ASSUME Added(q, t, r) PROVE Added(w, t, r)
  <2>1. PICK k \in 1..n : Adds(q[k], t, r) /\ \A i \in 1..n : i > k => ~Kills(q[i], t, r)
    BY <1>1, <1>5 DEF Added
  <2>2. m + k \in 1..(m + n) /\ Adds(w[m + k], t, r)
    BY <1>2, <1>3, <2>1
  <2>3. ASSUME NEW i \in 1..(m + n), i > m + k PROVE ~Kills(w[i], t, r)
    <3>1. i - m \in 1..n /\ i = m + (i - m) /\ i - m > k
      BY <1>1, <1>3, <2>3
    <3> QED BY <1>2, <2>1, <3>1
  <2> QED BY <1>2, <2>2, <2>3 DEF Added
<1>6. ASSUME Added(p, t, r), Untouched(q, t, r) PROVE Added(w, t, r)
  <2>1. PICK k \in 1..m : Adds(p[k], t, r) /\ \A i \in 1..m : i > k => ~Kills(p[i], t, r)
    BY <1>1, <1>6 DEF Added
  <2>2. k \in 1..(m + n) /\ Adds(w[k], t, r)
    BY <1>2, <1>3, <2>1
  <2>3. ASSUME NEW i \in 1..(m + n), i > k PROVE ~Kills(w[i], t, r)
    <3>1. CASE i \in 1..m
      BY <1>2, <2>1, <2>3, <3>1
    <3>2. CASE i - m \in 1..n /\ i = m + (i - m)
      BY <1>1, <1>2, <1>6, <3>2 DEF Untouched
    <3> QED BY <1>3, <3>1, <3>2
  <2> QED BY <1>2, <2>2, <2>3 DEF Added
<1>7. ASSUME Added(w, t, r), ~Added(q, t, r) PROVE Added(p, t, r) /\ Untouched(q, t, r)
  <2>1. PICK k \in 1..(m + n) : Adds(w[k], t, r) /\ \A i \in 1..(m + n) : i > k => ~Kills(w[i], t, r)
    BY <1>2, <1>7 DEF Added
  <2>2. k \in 1..m
    <3> SUFFICES ASSUME k - m \in 1..n, k = m + (k - m) PROVE FALSE
      BY <1>3
    <3>1. Adds(q[k - m], t, r)
      BY <1>2, <2>1
    <3>2. ASSUME NEW i \in 1..n, i > k - m PROVE ~Kills(q[i], t, r)
      <4>1. m + i \in 1..(m + n) /\ m + i > k
        BY <1>1, <1>3, <3>2
      <4> QED BY <1>2, <2>1, <4>1
    <3> QED BY <1>1, <1>7, <3>1, <3>2 DEF Added
  <2>3. ASSUME NEW i \in 1..n PROVE ~Kills(q[i], t, r)
    <3>1. m + i \in 1..(m + n) /\ m + i > k
      BY <1>1, <1>3, <2>2
    <3> QED BY <1>2, <2>1, <3>1
  <2>4. Adds(p[k], t, r) /\ \A i \in 1..m : i > k => ~Kills(p[i], t, r)
    BY <1>2, <1>3, <2>1, <2>2
  <2> QED BY <1>1, <2>2, <2>3, <2>4 DEF Added, Untouched
<1> QED BY <1>4, <1>5, <1>6, <1>7 DEF w

LEMMA FinalConcat ==
    ASSUME NEW S, NEW p \in Seq(S), NEW q \in Seq(S), NEW T
    PROVE  Final(T, p \o q) = Final(Final(T, p), q)
<1>1. ASSUME NEW t \in Tables, NEW r PROVE r \in Final(T, p \o q)[t] <=> r \in Final(Final(T, p), q)[t]
  <2>1. r \in Final(T, p \o q)[t] <=> (r \in T[t] /\ Untouched(p \o q, t, r)) \/ Added(p \o q, t, r)
    BY FinalMember
  <2>2. r \in Final(T, p)[t] <=> (r \in T[t] /\ Untouched(p, t, r)) \/ Added(p, t, r)
    BY FinalMember
  <2>3. r \in Final(Final(T, p), q)[t] <=> (r \in Final(T, p)[t] /\ Untouched(q, t, r)) \/ Added(q, t, r)
    BY FinalMember
  <2> QED BY <2>1, <2>2, <2>3, ConcatFacts
<1> QED BY <1>1, TablesEqual, FinalIsTables

LEMMA FinalOne ==
    ASSUME NEW T, IsTables(T), NEW s, Statement(s)
    PROVE  Final(T, <<s>>) = Apply(s, T)
<1>1. ASSUME NEW t, NEW r PROVE (Untouched(<<s>>, t, r) <=> ~Kills(s, t, r)) /\ (Added(<<s>>, t, r) <=> Adds(s, t, r))
  BY DEF Untouched, Added
<1>2. ASSUME NEW t \in Tables, NEW r PROVE r \in Final(T, <<s>>)[t] <=> r \in Apply(s, T)[t]
  BY <1>1, FinalMember, ApplyMember
<1> QED BY <1>2, TablesEqual, FinalIsTables, ApplyIsTables

\* A statement is executed.
LEMMA FinalStep ==
    ASSUME NEW S, NEW q \in Seq(S), q # <<>>, \A s \in S : Statement(s), NEW T, IsTables(T)
    PROVE  /\ Final(Apply(Head(q), T), Tail(q)) = Final(T, q)
           /\ IsTables(Apply(Head(q), T)) /\ Tail(q) \in Seq(S)
<1>1. Head(q) \in S /\ Tail(q) \in Seq(S) /\ <<Head(q)>> \in Seq(S) /\ q = <<Head(q)>> \o Tail(q)
  OBVIOUS
<1>2. Final(T, <<Head(q)>> \o Tail(q)) = Final(Final(T, <<Head(q)>>), Tail(q))
  BY <1>1, FinalConcat
<1>3. Final(T, <<Head(q)>>) = Apply(Head(q), T)
  BY <1>1, FinalOne
<1> QED BY <1>1, <1>2, <1>3, ApplyIsTables

LEMMA StatementFacts ==
    /\ \A s \in Statements : Statement(s)
    /\ \A t \in Tables, o \in Owners : Delete(t, o) \in Statements
    /\ \A t \in Tables, o \in Owners, r \in Row : Insert(t, o, r[1], r[2]) \in Statements
    /\ \A t \in Tables, o \in Owners, d \in Payloads \cup [next : Nat, at : Nat] : Upsert(t, o, d) \in Statements
<1>1. \A s \in Statements : Statement(s)
  BY DEF Statements, Statement
<1>2. \A t \in Tables, o \in Owners : Delete(t, o) \in Statements
  BY DEF Delete, Statements
<1>3. \A t \in Tables, o \in Owners, r \in Row : Insert(t, o, r[1], r[2]) \in Statements
  BY DEF Insert, Statements, Records
<1>4. \A t \in Tables, o \in Owners, d \in Payloads \cup [next : Nat, at : Nat] : Upsert(t, o, d) \in Statements
  BY DEF Upsert, Statements, Records
<1> QED BY <1>1, <1>2, <1>3, <1>4

\* All rows of a client in a table are replaced.
LEMMA FinalReplace ==
    ASSUME NEW T, IsTables(T), NEW t \in Tables, NEW c \in Owners, NEW rows \in Seq(Row)
    PROVE  /\ Replace(t, c, rows) \in Seq(Statements)
           /\ \A u \in Tables : u # t => \A r : r \in Final(T, Replace(t, c, rows))[u] <=> r \in T[u]
           /\ \A r : r \in Final(T, Replace(t, c, rows))[t] <=>
                        (r \in T[t] /\ r.owner # c) \/ r \in RowsOf(c, ToSet(rows))
<1> DEFINE d == Delete(t, c)
           q == [i \in DOMAIN rows |-> Insert(t, c, rows[i][1], rows[i][2])]
<1>1. d \in Statements /\ Statement(d) /\ <<d>> \in Seq(Statements)
  BY StatementFacts
<1>2. DOMAIN rows = 1..Len(rows) /\ Len(rows) \in Nat /\ \A i \in 1..Len(rows) : rows[i] \in Row
  OBVIOUS
<1>3. q \in Seq(Statements) /\ DOMAIN q = 1..Len(rows)
  <2>1. \A i \in 1..Len(rows) : Insert(t, c, rows[i][1], rows[i][2]) \in Statements
    BY <1>2, StatementFacts
  <2>2. q \in [1..Len(rows) -> Statements]
    BY <1>2, <2>1
  <2> QED BY <1>2, <2>2, SeqDef
<1>4. Replace(t, c, rows) = <<d>> \o q
  BY DEF Replace
<1>5. \A i \in 1..Len(rows) : /\ q[i].do = "insert" /\ q[i].table = t
                              /\ q[i].row = [owner |-> c, key |-> rows[i][1], data |-> rows[i][2]]
  BY <1>2 DEF Insert
<1>6. d.do = "delete" /\ d.table = t /\ d.owner = c
  BY DEF Delete
<1> HIDE DEF d, q
<1>7. ASSUME NEW u \in Tables, NEW r
      PROVE  /\ Untouched(q, u, r)
             /\ Added(q, u, r) <=> u = t /\ \E i \in 1..Len(rows) : r = q[i].row
  <2>1. \A i \in 1..Len(rows) : ~Kills(q[i], u, r) /\ (Adds(q[i], u, r) <=> u = t /\ r = q[i].row)
    BY <1>5 DEF Kills, Adds
  <2> QED BY <1>3, <2>1 DEF Untouched, Added
<1>8. ASSUME NEW r PROVE r \in RowsOf(c, ToSet(rows)) <=> \E i \in 1..Len(rows) : r = q[i].row
  BY <1>2, <1>5 DEF RowsOf, ToSet
<1>9. Final(T, Replace(t, c, rows)) = Final(Apply(d, T), q)
  <2>1. Final(T, <<d>> \o q) = Final(Final(T, <<d>>), q)
    BY <1>1, <1>3, FinalConcat
  <2> QED BY <1>1, <1>4, <2>1, FinalOne
<1>10. ASSUME NEW u \in Tables, NEW r
       PROVE  r \in Apply(d, T)[u] <=> r \in T[u] /\ (u = t => r.owner # c)
  BY <1>1, <1>6, ApplyMember DEF Kills, Adds
<1>11. ASSUME NEW u \in Tables, NEW r
       PROVE  r \in Final(T, Replace(t, c, rows))[u] <=>
                 (r \in T[u] /\ (u = t => r.owner # c)) \/ (u = t /\ r \in RowsOf(c, ToSet(rows)))
  BY <1>7, <1>8, <1>9, <1>10, FinalMember
<1>12. Replace(t, c, rows) \in Seq(Statements)
  BY <1>1, <1>3, <1>4, ConcatProperties
<1> QED BY <1>11, <1>12

LEMMA FinalUpsert ==
    ASSUME NEW T, IsTables(T), NEW t \in Tables, NEW c \in Owners, NEW d \in Payloads \cup [next : Nat, at : Nat]
    PROVE  /\ <<Upsert(t, c, d)>> \in Seq(Statements)
           /\ \A u \in Tables : u # t => \A r : r \in Final(T, <<Upsert(t, c, d)>>)[u] <=> r \in T[u]
           /\ \A r : r \in Final(T, <<Upsert(t, c, d)>>)[t] <=> (r \in T[t] /\ r.owner # c) \/ r = SessionRow(c, d)
<1> DEFINE s == Upsert(t, c, d)
<1>1. s \in Statements /\ Statement(s)
  BY StatementFacts
<1>2. s.do = "upsert" /\ s.table = t /\ s.row = SessionRow(c, d) /\ s.row.owner = c
  BY DEF Upsert, SessionRow
<1>3. Final(T, <<s>>) = Apply(s, T)
  BY <1>1, FinalOne
<1> HIDE DEF s
<1>4. ASSUME NEW u \in Tables, NEW r
      PROVE  r \in Apply(s, T)[u] <=> (r \in T[u] /\ (u = t => r.owner # c)) \/ (u = t /\ r = SessionRow(c, d))
  BY <1>1, <1>2, ApplyMember DEF Kills, Adds
<1>5. <<s>> \in Seq(Statements)
  BY <1>1
<1> QED BY <1>3, <1>4, <1>5 DEF s

LEMMA FinalDeleteOne ==
    ASSUME NEW T, IsTables(T), NEW t \in Tables, NEW c \in Owners
    PROVE  /\ <<Delete(t, c)>> \in Seq(Statements)
           /\ \A u \in Tables : u # t => \A r : r \in Final(T, <<Delete(t, c)>>)[u] <=> r \in T[u]
           /\ \A r : r \in Final(T, <<Delete(t, c)>>)[t] <=> r \in T[t] /\ r.owner # c
<1> DEFINE s == Delete(t, c)
<1>1. s \in Statements /\ Statement(s)
  BY StatementFacts
<1>2. s.do = "delete" /\ s.table = t /\ s.owner = c
  BY DEF Delete
<1>3. Final(T, <<s>>) = Apply(s, T)
  BY <1>1, FinalOne
<1> HIDE DEF s
<1>4. ASSUME NEW u \in Tables, NEW r
      PROVE  r \in Apply(s, T)[u] <=> r \in T[u] /\ (u = t => r.owner # c)
  BY <1>1, <1>2, ApplyMember DEF Kills, Adds
<1>5. <<s>> \in Seq(Statements)
  BY <1>1
<1> QED BY <1>3, <1>4, <1>5 DEF s

LEMMA TableNames ==
    /\ Children \subseteq Tables /\ "sessions" \in Tables /\ "retained_messages" \in Tables
    /\ "sessions" \notin Children /\ "retained_messages" \notin Children /\ "sessions" # "retained_messages"
    /\ \A t \in Tables : t \in Children \/ t = "sessions" \/ t = "retained_messages"
    /\ "subscriptions" \in Children /\ "inflight_messages" \in Children /\ "inbound_qos2_messages" \in Children
    /\ \A t \in Children : t = "subscriptions" \/ t = "inflight_messages" \/ t = "inbound_qos2_messages"
BY DEF Children, Tables

\* save_session: the row of the client in sessions and its rows in the others.
LEMMA FinalSave ==
    ASSUME NEW T, IsTables(T), NEW c \in Owners, NEW d \in [next : Nat, at : Nat], NEW rows \in [Children -> Seq(Row)]
    PROVE  /\ save_session(c, d, rows) \in Seq(Statements)
           /\ \A r : r \in Final(T, save_session(c, d, rows))["sessions"] <=>
                       (r \in T["sessions"] /\ r.owner # c) \/ r = SessionRow(c, d)
           /\ \A r : r \in Final(T, save_session(c, d, rows))["retained_messages"] <=> r \in T["retained_messages"]
           /\ \A t \in Children : \A r : r \in Final(T, save_session(c, d, rows))[t] <=>
                       (r \in T[t] /\ r.owner # c) \/ r \in RowsOf(c, ToSet(rows[t]))
<1> DEFINE q0 == <<Upsert("sessions", c, d)>>
           q1 == Replace("subscriptions", c, rows["subscriptions"])
           q2 == Replace("inflight_messages", c, rows["inflight_messages"])
           q3 == Replace("inbound_qos2_messages", c, rows["inbound_qos2_messages"])
           T0 == Final(T, q0)
           T1 == Final(T0, q1)
           T2 == Final(T1, q2)
           T3 == Final(T2, q3)
<1>1. \A t \in Children : rows[t] \in Seq(Row)
  OBVIOUS
<1>2. /\ q0 \in Seq(Statements)
      /\ \A u \in Tables : u # "sessions" => \A r : r \in T0[u] <=> r \in T[u]
      /\ \A r : r \in T0["sessions"] <=> (r \in T["sessions"] /\ r.owner # c) \/ r = SessionRow(c, d)
  BY TableNames, FinalUpsert
<1>3. IsTables(T0) /\ IsTables(T1) /\ IsTables(T2)
  BY FinalIsTables
<1> HIDE DEF T0
<1>4. /\ q1 \in Seq(Statements)
      /\ \A u \in Tables : u # "subscriptions" => \A r : r \in T1[u] <=> r \in T0[u]
      /\ \A r : r \in T1["subscriptions"] <=>
                  (r \in T0["subscriptions"] /\ r.owner # c) \/ r \in RowsOf(c, ToSet(rows["subscriptions"]))
  BY <1>1, <1>3, TableNames, FinalReplace
<1> HIDE DEF T1
<1>5. /\ q2 \in Seq(Statements)
      /\ \A u \in Tables : u # "inflight_messages" => \A r : r \in T2[u] <=> r \in T1[u]
      /\ \A r : r \in T2["inflight_messages"] <=>
                  (r \in T1["inflight_messages"] /\ r.owner # c) \/ r \in RowsOf(c, ToSet(rows["inflight_messages"]))
  BY <1>1, <1>3, TableNames, FinalReplace
<1> HIDE DEF T2
<1>6. /\ q3 \in Seq(Statements)
      /\ \A u \in Tables : u # "inbound_qos2_messages" => \A r : r \in T3[u] <=> r \in T2[u]
      /\ \A r : r \in T3["inbound_qos2_messages"] <=>
                  (r \in T2["inbound_qos2_messages"] /\ r.owner # c)
                    \/ r \in RowsOf(c, ToSet(rows["inbound_qos2_messages"]))
  BY <1>1, <1>3, TableNames, FinalReplace
<1> HIDE DEF T3, q0, q1, q2, q3
<1>7. q0 \o q1 \in Seq(Statements) /\ (q0 \o q1) \o q2 \in Seq(Statements)
      /\ ((q0 \o q1) \o q2) \o q3 \in Seq(Statements)
  BY <1>2, <1>4, <1>5, <1>6, ConcatProperties
<1>8. Final(T, ((q0 \o q1) \o q2) \o q3) = T3
  <2>1. Final(T, q0 \o q1) = T1
    BY <1>2, <1>4, FinalConcat DEF T0, T1
  <2>2. Final(T, (q0 \o q1) \o q2) = T2
    BY <1>5, <1>7, <2>1, FinalConcat DEF T2
  <2> QED BY <1>6, <1>7, <2>2, FinalConcat DEF T3
<1>9. save_session(c, d, rows) = ((q0 \o q1) \o q2) \o q3
  BY DEF save_session, q0, q1, q2, q3
<1>10. \A r : r \in T3["sessions"] <=> (r \in T["sessions"] /\ r.owner # c) \/ r = SessionRow(c, d)
  BY <1>2, <1>4, <1>5, <1>6, TableNames
<1>11. \A r : r \in T3["retained_messages"] <=> r \in T["retained_messages"]
  BY <1>2, <1>4, <1>5, <1>6, TableNames
<1>12. ASSUME NEW t \in Children, NEW r
       PROVE  r \in T3[t] <=> (r \in T[t] /\ r.owner # c) \/ r \in RowsOf(c, ToSet(rows[t]))
  BY <1>2, <1>4, <1>5, <1>6, TableNames
<1> QED BY <1>7, <1>8, <1>9, <1>10, <1>11, <1>12

LEMMA FinalDeletes ==
    ASSUME NEW T, NEW q \in Seq(Statements), \A k \in DOMAIN q : q[k].do = "delete", NEW t \in Tables, NEW r
    PROVE  r \in Final(T, q)[t] <=>
              r \in T[t] /\ ~(\E k \in DOMAIN q : q[k].table = t /\ q[k].owner = r.owner)
<1>1. ~Added(q, t, r)
  BY DEF Added, Adds
<1>2. Untouched(q, t, r) <=> ~(\E k \in DOMAIN q : q[k].table = t /\ q[k].owner = r.owner)
  BY DEF Untouched, Kills
<1> QED BY <1>1, <1>2, FinalMember

Erased == Children \cup {"sessions"}

LEMMA DeleteFacts ==
    ASSUME NEW c
    PROVE  /\ Len(delete_client_data(c)) = 4 /\ DOMAIN delete_client_data(c) = 1..4
           /\ \A k \in 1..4 : \E t \in Erased : delete_client_data(c)[k] = Delete(t, c)
           /\ \A t \in Erased : \E k \in 1..4 : delete_client_data(c)[k] = Delete(t, c)
<1> DEFINE q == delete_client_data(c)
<1>1. /\ q[1] = Delete("inflight_messages", c) /\ q[2] = Delete("inbound_qos2_messages", c)
      /\ q[3] = Delete("subscriptions", c) /\ q[4] = Delete("sessions", c)
      /\ Len(q) = 4 /\ DOMAIN q = 1..4
  BY DEF delete_client_data
<1>2. \A k \in 1..4 : k = 1 \/ k = 2 \/ k = 3 \/ k = 4
  OBVIOUS
<1>3. 1 \in 1..4 /\ 2 \in 1..4 /\ 3 \in 1..4 /\ 4 \in 1..4
  OBVIOUS
<1> HIDE DEF q
<1>4. \A k \in 1..4 : \E t \in Erased : q[k] = Delete(t, c)
  BY <1>1, <1>2, TableNames DEF Erased
<1>5. ASSUME NEW t \in Erased PROVE \E k \in 1..4 : q[k] = Delete(t, c)
  BY <1>1, <1>3, TableNames DEF Erased
<1> QED BY <1>1, <1>4, <1>5 DEF q

\* delete_expired_sessions: every row of the clients cs.
LEMMA FinalExpire ==
    ASSUME NEW T, NEW cs \in Seq(Clients)
    PROVE  /\ delete_expired_sessions(cs) \in Seq(Statements)
           /\ \A t \in Erased : \A r :
                r \in Final(T, delete_expired_sessions(cs))[t] <=> r \in T[t] /\ r.owner \notin ToSet(cs)
           /\ \A r : r \in Final(T, delete_expired_sessions(cs))["retained_messages"] <=> r \in T["retained_messages"]
<1> DEFINE n == Len(cs)
           q == delete_expired_sessions(cs)
<1>1. n \in Nat /\ DOMAIN cs = 1..n /\ \A i \in 1..n : cs[i] \in Clients
  OBVIOUS
<1>2. q = [k \in 1..(4 * n) |-> delete_client_data(cs[1 + ((k - 1) \div 4)])[1 + ((k - 1) % 4)]]
  <2>1. Len(delete_client_data(None)) = 4
    BY DeleteFacts
  <2> QED BY <2>1 DEF delete_expired_sessions
<1>3. ASSUME NEW k \in 1..(4 * n) PROVE 1 + ((k - 1) \div 4) \in 1..n /\ 1 + ((k - 1) % 4) \in 1..4
  BY <1>1
<1>4. ASSUME NEW i \in 1..n, NEW j \in 1..4
      PROVE  LET k == 4 * (i - 1) + j IN
             k \in 1..(4 * n) /\ 1 + ((k - 1) \div 4) = i /\ 1 + ((k - 1) % 4) = j
  BY <1>1
<1> HIDE DEF n, q
<1>5. ASSUME NEW k \in 1..(4 * n) PROVE \E t \in Erased : \E i \in 1..n : q[k] = Delete(t, cs[i])
  BY <1>2, <1>3, DeleteFacts
<1>6. ASSUME NEW i \in 1..n, NEW t \in Erased PROVE \E k \in 1..(4 * n) : q[k] = Delete(t, cs[i])
  <2>1. PICK j \in 1..4 : delete_client_data(cs[i])[j] = Delete(t, cs[i])
    BY DeleteFacts
  <2> DEFINE k == 4 * (i - 1) + j
  <2>2. k \in 1..(4 * n) /\ 1 + ((k - 1) \div 4) = i /\ 1 + ((k - 1) % 4) = j
    BY <1>4
  <2> HIDE DEF k
  <2> QED BY <1>2, <2>1, <2>2
<1>7. Erased \subseteq Tables /\ "retained_messages" \notin Erased
  BY TableNames DEF Erased
<1>8. ASSUME NEW k \in 1..(4 * n) PROVE q[k] \in Statements
  BY <1>1, <1>5, <1>7, StatementFacts DEF Owners
<1>9. q \in Seq(Statements) /\ DOMAIN q = 1..(4 * n)
  <2>1. q \in [1..(4 * n) -> Statements]
    BY <1>2, <1>8
  <2> QED BY <1>1, <2>1, SeqDef
<1>10. \A t, c : Delete(t, c).do = "delete" /\ Delete(t, c).table = t /\ Delete(t, c).owner = c
  BY DEF Delete
<1>11. \A k \in DOMAIN q : q[k].do = "delete"
  BY <1>5, <1>9, <1>10
<1>12. ASSUME NEW t \in Erased, NEW r
       PROVE  (\E k \in DOMAIN q : q[k].table = t /\ q[k].owner = r.owner) <=> r.owner \in ToSet(cs)
  <2>1. r.owner \in ToSet(cs) <=> \E i \in 1..n : r.owner = cs[i]
    BY <1>1 DEF ToSet
  <2>2. ASSUME NEW i \in 1..n, r.owner = cs[i] PROVE \E k \in DOMAIN q : q[k].table = t /\ q[k].owner = r.owner
    BY <1>6, <1>9, <1>10, <2>2
  <2>3. ASSUME NEW k \in DOMAIN q, q[k].table = t, q[k].owner = r.owner PROVE \E i \in 1..n : r.owner = cs[i]
    BY <1>5, <1>9, <1>10, <2>3
  <2> QED BY <2>1, <2>2, <2>3
<1>13. \A k \in DOMAIN q : q[k].table # "retained_messages"
  BY <1>5, <1>7, <1>9, <1>10
<1>14. ASSUME NEW t \in Erased, NEW r PROVE r \in Final(T, q)[t] <=> r \in T[t] /\ r.owner \notin ToSet(cs)
  <2>1. r \in Final(T, q)[t] <=> r \in T[t] /\ ~(\E k \in DOMAIN q : q[k].table = t /\ q[k].owner = r.owner)
    <3>1. t \in Tables /\ q \in Seq(Statements)
      BY <1>7, <1>9
    <3> QED BY <1>11, <3>1, FinalDeletes
  <2> QED BY <1>12, <2>1
<1>15. ASSUME NEW r PROVE r \in Final(T, q)["retained_messages"] <=> r \in T["retained_messages"]
  BY <1>9, <1>11, <1>13, FinalDeletes, TableNames
<1> QED BY <1>9, <1>14, <1>15 DEF q

LEMMA FinalDelete ==
    ASSUME NEW T, NEW c \in Clients
    PROVE  /\ delete_client_data(c) \in Seq(Statements)
           /\ \A t \in Erased : \A r : r \in Final(T, delete_client_data(c))[t] <=> r \in T[t] /\ r.owner # c
           /\ \A r : r \in Final(T, delete_client_data(c))["retained_messages"] <=> r \in T["retained_messages"]
<1> DEFINE q == delete_client_data(c)
<1>1. /\ DOMAIN q = 1..4 /\ q = [k \in 1..4 |-> q[k]]
      /\ \A k \in 1..4 : \E t \in Erased : q[k] = Delete(t, c)
      /\ \A t \in Erased : \E k \in 1..4 : q[k] = Delete(t, c)
  <2>1. q = [k \in 1..4 |-> q[k]]
    BY DEF delete_client_data
  <2> QED BY <2>1, DeleteFacts
<1>2. Erased \subseteq Tables /\ "retained_messages" \notin Erased /\ c \in Owners
  BY TableNames DEF Erased, Owners
<1>3. q \in Seq(Statements)
  <2>1. \A k \in 1..4 : q[k] \in Statements
    BY <1>1, <1>2, StatementFacts
  <2> QED BY <2>1 DEF delete_client_data
<1> HIDE DEF q
<1>4. \A t, o : Delete(t, o).do = "delete" /\ Delete(t, o).table = t /\ Delete(t, o).owner = o
  BY DEF Delete
<1>5. \A k \in DOMAIN q : q[k].do = "delete" /\ q[k].table # "retained_messages" /\ q[k].owner = c
  BY <1>1, <1>2, <1>4
<1>6. ASSUME NEW t \in Erased, NEW r
      PROVE  (\E k \in DOMAIN q : q[k].table = t /\ q[k].owner = r.owner) <=> r.owner = c
  BY <1>1, <1>4, <1>5
<1> QED BY <1>2, <1>3, <1>5, <1>6, FinalDeletes, TableNames DEF q

-----------------------------------------------------------------------------
(***************************************************************************)
(* Tables that hold images, and what is read back from them.               *)
(***************************************************************************)
LEMMA ToSetFacts ==
    ASSUME NEW s \in Seq(Row)
    PROVE  ToSet(s) \in SUBSET Row /\ IsFiniteSet(ToSet(s))
<1>1. DOMAIN s = 1..Len(s) /\ Len(s) \in Nat /\ s \in [1..Len(s) -> Row]
  OBVIOUS
<1>2. ToSet(s) \in SUBSET Row
  BY <1>1 DEF ToSet
<1>3. s \in Surjection(1..Len(s), ToSet(s))
  BY <1>1 DEF Surjection, ToSet
<1>4. IsFiniteSet(1..Len(s))
  BY <1>1, FS_Interval
<1> QED BY <1>2, <1>3, <1>4, FS_Surjection

LEMMA WithoutFacts ==
    ASSUME NEW m \in State, NEW F \in SUBSET Children
    PROVE  /\ Without(m, F) \in State /\ AsImage(Without(m, F)).next = m.next
           /\ \A t \in Children : AsImage(Without(m, F)).rows[t] = IF t \in F THEN {} ELSE ToSet(m.rows[t])
<1>1. Without(m, F) \in State
  BY DEF State, Without
<1>2. \A t \in Children : Without(m, F).rows[t] = IF t \in F THEN <<>> ELSE m.rows[t]
  BY DEF Without
<1>3. ToSet(<<>>) = {}
  BY DEF ToSet
<1>4. Without(m, F).next = m.next
  BY DEF Without
<1>5. \A t \in Children : AsImage(Without(m, F)).rows[t] = ToSet(Without(m, F).rows[t])
  BY DEF AsImage
<1>6. AsImage(Without(m, F)).next = m.next
  BY <1>4 DEF AsImage
<1> QED BY <1>1, <1>2, <1>3, <1>5, <1>6

LEMMA StateFacts ==
    ASSUME NEW m \in State
    PROVE  /\ m # None /\ m.next \in Nat /\ m.rows \in [Children -> Seq(Row)]
           /\ AsImage(m) \in [next : Nat, rows : [Children -> SUBSET Row]] /\ AsImage(m) # None
           /\ AsImage(m).next = m.next /\ \A t \in Children : AsImage(m).rows[t] = ToSet(m.rows[t])
<1>1. m # None /\ m.next \in Nat /\ m.rows \in [Children -> Seq(Row)]
  BY PersistenceAssumption DEF State
<1>2. \A t \in Children : ToSet(m.rows[t]) \in SUBSET Row
  BY <1>1, ToSetFacts
<1>3. AsImage(m) \in [next : Nat, rows : [Children -> SUBSET Row]]
  BY <1>1, <1>2 DEF AsImage
<1>4. AsImage(m).next = m.next /\ \A t \in Children : AsImage(m).rows[t] = ToSet(m.rows[t])
  BY DEF AsImage
<1> QED BY <1>1, <1>3, <1>4, PersistenceAssumption

LEMMA AllStatesType == AllStates \subseteq State
<1>1. \A c \in Clients : \A m \in States[c] : m \in State
  BY PersistenceAssumption
<1>2. Fresh \in State
  BY PersistenceAssumption
<1>3. ASSUME NEW x \in AllStates PROVE x \in State
  <2> DEFINE Some == UNION {States[c] : c \in Clients}
  <2>1. PICK m \in Some \cup {Fresh}, F \in SUBSET Children : x = Without(m, F)
    BY DEF AllStates
  <2>2. CASE m = Fresh
    BY <1>2, <2>1, <2>2, WithoutFacts
  <2>3. CASE m \in Some
    <3>1. PICK c \in Clients : m \in States[c]
      BY <2>3
    <3>2. m \in State
      BY <1>1, <3>1
    <3> QED BY <2>1, <3>2, WithoutFacts
  <2> HIDE DEF Some
  <2> QED BY <2>1, <2>2, <2>3
<1> QED BY <1>3

LEMMA ImageFacts ==
    ASSUME NEW x \in AllImages
    PROVE  /\ x # None /\ x.next \in Nat /\ x.at \in Times /\ x.at \in Nat
           /\ x.rows \in [Children -> SUBSET Row] /\ x = Dated(Undated(x), x.at)
           /\ \A t \in Children : IsFiniteSet(x.rows[t])
           /\ Undated(x) = [next |-> x.next, rows |-> x.rows]
           /\ \E m \in AllStates : AsImage(m) = Undated(x)
<1>1. PICK m \in AllStates, a \in Times : x = Dated(AsImage(m), a)
  BY DEF AllImages
<1>2. m \in State /\ a \in Nat
  BY AllStatesType DEF Times
<1>3. x.next = AsImage(m).next /\ x.rows = AsImage(m).rows /\ x.at = a
      /\ x = [next |-> x.next, rows |-> x.rows, at |-> x.at]
  BY <1>1 DEF Dated
<1>4. x.next \in Nat /\ x.rows \in [Children -> SUBSET Row] /\ \A t \in Children : IsFiniteSet(x.rows[t])
  BY <1>2, <1>3, StateFacts, ToSetFacts
<1>5. x # None
  BY <1>2, <1>3, <1>4, PersistenceAssumption
<1>6. Undated(x) = [next |-> x.next, rows |-> x.rows]
  BY <1>5 DEF Undated
<1>7. AsImage(m) = [next |-> AsImage(m).next, rows |-> AsImage(m).rows]
  BY <1>2, StateFacts
<1>8. AsImage(m) = Undated(x)
  BY <1>3, <1>6, <1>7
<1>9. x = Dated(Undated(x), x.at)
  BY <1>3, <1>6 DEF Dated
<1> QED BY <1>1, <1>2, <1>3, <1>4, <1>5, <1>6, <1>8, <1>9

LEMMA HoldingMember ==
    ASSUME NEW I \in AllHeld, NEW R \in AllRetained
    PROVE  /\ IsTables(Holding(I, R))
           /\ \A r : r \in Holding(I, R)["sessions"] <=>
                \E c \in Clients : I[c] # None /\ r = SavedRow(c, I[c])
           /\ \A r : r \in Holding(I, R)["retained_messages"] <=>
                \E x \in Topics : R[x] # None /\ r = SessionRow(x, R[x])
           /\ \A t \in Children : \A r : r \in Holding(I, R)[t] <=>
                \E c \in Clients : I[c] # None /\ r \in RowsOf(c, I[c].rows[t])
<1> DEFINE saved == {c \in Clients : I[c] # None}
<1>1. IsTables(Holding(I, R))
  BY DEF Holding, IsTables
<1>2. Holding(I, R)["sessions"] = {SavedRow(c, I[c]) : c \in saved}
  BY TableNames DEF Holding, SessionRow, SavedRow
<1>3. Holding(I, R)["retained_messages"] = {SessionRow(x, R[x]) : x \in {y \in Topics : R[y] # None}}
  BY TableNames DEF Holding, SessionRow
<1>4. ASSUME NEW t \in Children PROVE Holding(I, R)[t] = UNION {RowsOf(c, I[c].rows[t]) : c \in saved}
  BY TableNames DEF Holding, RowsOf
<1> QED BY <1>1, <1>2, <1>3, <1>4

LEMMA OwnerFacts ==
    /\ \A c, d : SessionRow(c, d).owner = c /\ SessionRow(c, d).key = Only /\ SessionRow(c, d).data = d
    /\ \A c, x : SavedRow(c, x).owner = c /\ SavedRow(c, x).key = Only
                  /\ SavedRow(c, x).data.next = x.next /\ SavedRow(c, x).data.at = x.at
    /\ \A c, rows : \A r \in RowsOf(c, rows) : r.owner = c
<1>1. \A c, d : SessionRow(c, d).owner = c /\ SessionRow(c, d).key = Only /\ SessionRow(c, d).data = d
  BY DEF SessionRow
<1>2. ASSUME NEW c, NEW x
      PROVE  /\ SavedRow(c, x).owner = c /\ SavedRow(c, x).key = Only
             /\ SavedRow(c, x).data.next = x.next /\ SavedRow(c, x).data.at = x.at
  BY DEF SessionRow, SavedRow
<1>3. \A c, rows : \A r \in RowsOf(c, rows) : r.owner = c
  BY DEF RowsOf
<1> QED BY <1>1, <1>2, <1>3

\* save_session on tables that hold I and R.
LEMMA HoldingSave ==
    ASSUME NEW I \in AllHeld, NEW R \in AllRetained, NEW c \in Clients, NEW m \in State, NEW a \in Times,
           NEW x, x = Dated(AsImage(m), a), x \in AllImages
    PROVE  Final(Holding(I, R), save_session(c, [next |-> m.next, at |-> a], m.rows)) = Holding([I EXCEPT ![c] = x], R)
<1> DEFINE T == Holding(I, R)
           J == [I EXCEPT ![c] = x]
           d == [next |-> m.next, at |-> a]
           U == Final(T, save_session(c, d, m.rows))
           V == Holding(J, R)
<1>1. J \in AllHeld /\ J[c] = x /\ \A k \in Clients : k # c => J[k] = I[k]
  BY DEF AllHeld
<1>2. x # None /\ SavedRow(c, x) = SessionRow(c, d) /\ \A t \in Children : x.rows[t] = ToSet(m.rows[t])
  BY ImageFacts, StateFacts DEF Dated, SavedRow
<1>3. c \in Owners /\ d \in [next : Nat, at : Nat] /\ m.rows \in [Children -> Seq(Row)]
  BY StateFacts DEF Owners, Times
<1>4. IsTables(T) /\ IsTables(U) /\ IsTables(V)
  BY <1>1, HoldingMember, FinalIsTables
<1> HIDE DEF J
<1>5. /\ \A r : r \in T["sessions"] <=>
                \E k \in Clients : I[k] # None /\ r = SavedRow(k, I[k])
      /\ \A r : r \in T["retained_messages"] <=> \E k \in Topics : R[k] # None /\ r = SessionRow(k, R[k])
      /\ \A t \in Children : \A r : r \in T[t] <=> \E k \in Clients : I[k] # None /\ r \in RowsOf(k, I[k].rows[t])
  BY HoldingMember
<1>6. /\ \A r : r \in V["sessions"] <=>
                \E k \in Clients : J[k] # None /\ r = SavedRow(k, J[k])
      /\ \A r : r \in V["retained_messages"] <=> \E k \in Topics : R[k] # None /\ r = SessionRow(k, R[k])
      /\ \A t \in Children : \A r : r \in V[t] <=> \E k \in Clients : J[k] # None /\ r \in RowsOf(k, J[k].rows[t])
  BY <1>1, HoldingMember
<1> HIDE DEF T, V, d
<1>7. /\ \A r : r \in U["sessions"] <=> (r \in T["sessions"] /\ r.owner # c) \/ r = SessionRow(c, d)
      /\ \A r : r \in U["retained_messages"] <=> r \in T["retained_messages"]
      /\ \A t \in Children : \A r : r \in U[t] <=>
                       (r \in T[t] /\ r.owner # c) \/ r \in RowsOf(c, ToSet(m.rows[t]))
  BY <1>3, <1>4, FinalSave
<1> HIDE DEF U
<1>8. ASSUME NEW r PROVE r \in U["sessions"] <=> r \in V["sessions"]
  BY <1>1, <1>2, <1>5, <1>6, <1>7, OwnerFacts
<1>9. ASSUME NEW r PROVE r \in U["retained_messages"] <=> r \in V["retained_messages"]
  BY <1>5, <1>6, <1>7
<1>10. ASSUME NEW t \in Children, NEW r PROVE r \in U[t] <=> r \in V[t]
  BY <1>1, <1>2, <1>5, <1>6, <1>7, OwnerFacts
<1>11. \A t \in Tables : \A r : r \in U[t] <=> r \in V[t]
  BY <1>8, <1>9, <1>10, TableNames
<1>12. U = V
  BY <1>4, <1>11, TablesEqual
<1> QED BY <1>12 DEF U, V, T, J, d

LEMMA HoldingGone ==
    ASSUME NEW I \in AllHeld, NEW R \in AllRetained, NEW C, NEW U, IsTables(U),
           \A t \in Erased : \A r : r \in U[t] <=> r \in Holding(I, R)[t] /\ r.owner \notin C,
           \A r : r \in U["retained_messages"] <=> r \in Holding(I, R)["retained_messages"]
    PROVE  U = Holding(Gone(I, C), R) /\ Gone(I, C) \in AllHeld
<1> DEFINE J == Gone(I, C)
           V == Holding(J, R)
           T == Holding(I, R)
<1>1. J \in AllHeld /\ \A k \in Clients : J[k] = IF k \in C THEN None ELSE I[k]
  BY DEF AllHeld, Gone
<1> HIDE DEF J
<1>2. IsTables(V)
  BY <1>1, HoldingMember
<1>5. /\ \A r : r \in T["sessions"] <=>
                \E k \in Clients : I[k] # None /\ r = SavedRow(k, I[k])
      /\ \A r : r \in T["retained_messages"] <=> \E k \in Topics : R[k] # None /\ r = SessionRow(k, R[k])
      /\ \A t \in Children : \A r : r \in T[t] <=> \E k \in Clients : I[k] # None /\ r \in RowsOf(k, I[k].rows[t])
  BY HoldingMember
<1>6. /\ \A r : r \in V["sessions"] <=>
                \E k \in Clients : J[k] # None /\ r = SavedRow(k, J[k])
      /\ \A r : r \in V["retained_messages"] <=> \E k \in Topics : R[k] # None /\ r = SessionRow(k, R[k])
      /\ \A t \in Children : \A r : r \in V[t] <=> \E k \in Clients : J[k] # None /\ r \in RowsOf(k, J[k].rows[t])
  BY <1>1, HoldingMember
<1>7. /\ \A t \in Erased : \A r : r \in U[t] <=> r \in T[t] /\ r.owner \notin C
      /\ \A r : r \in U["retained_messages"] <=> r \in T["retained_messages"]
      /\ "sessions" \in Erased /\ Children \subseteq Erased
  BY DEF Erased
<1> HIDE DEF T, V
<1>8. ASSUME NEW r PROVE r \in U["sessions"] <=> r \in V["sessions"]
  BY <1>1, <1>5, <1>6, <1>7, OwnerFacts
<1>9. ASSUME NEW r PROVE r \in U["retained_messages"] <=> r \in V["retained_messages"]
  BY <1>5, <1>6, <1>7
<1>10. ASSUME NEW t \in Children, NEW r PROVE r \in U[t] <=> r \in V[t]
  BY <1>1, <1>5, <1>6, <1>7, OwnerFacts
<1>11. \A t \in Tables : \A r : r \in U[t] <=> r \in V[t]
  BY <1>8, <1>9, <1>10, TableNames
<1>12. U = V
  BY <1>2, <1>11, TablesEqual
<1> QED BY <1>1, <1>12 DEF V, J

LEMMA HoldingDelete ==
    ASSUME NEW I \in AllHeld, NEW R \in AllRetained, NEW c \in Clients
    PROVE  /\ Final(Holding(I, R), delete_client_data(c)) = Holding(Gone(I, {c}), R)
           /\ Gone(I, {c}) \in AllHeld
<1>1. IsTables(Final(Holding(I, R), delete_client_data(c)))
  BY FinalIsTables
<1>2. \A r : r.owner # c <=> r.owner \notin {c}
  OBVIOUS
<1> QED BY <1>1, <1>2, FinalDelete, HoldingGone

LEMMA HoldingExpire ==
    ASSUME NEW I \in AllHeld, NEW R \in AllRetained, NEW cs \in Seq(Clients)
    PROVE  /\ Final(Holding(I, R), delete_expired_sessions(cs)) = Holding(Gone(I, ToSet(cs)), R)
           /\ Gone(I, ToSet(cs)) \in AllHeld
<1>1. IsTables(Final(Holding(I, R), delete_expired_sessions(cs)))
  BY FinalIsTables
<1> QED BY <1>1, FinalExpire, HoldingGone

\* The retained message of topic x becomes p, or goes.
LEMMA HoldingRetained ==
    ASSUME NEW I \in AllHeld, NEW R \in AllRetained, NEW x \in Topics, NEW p \in Payloads \cup {None},
           NEW U, IsTables(U),
           \A t \in Tables : t # "retained_messages" => \A r : r \in U[t] <=> r \in Holding(I, R)[t],
           \A r : r \in U["retained_messages"] <=>
                    \/ r \in Holding(I, R)["retained_messages"] /\ r.owner # x
                    \/ p # None /\ r = SessionRow(x, p)
    PROVE  U = Holding(I, [R EXCEPT ![x] = p]) /\ [R EXCEPT ![x] = p] \in AllRetained
<1> DEFINE Q == [R EXCEPT ![x] = p]
           V == Holding(I, Q)
           T == Holding(I, R)
<1>1. Q \in AllRetained /\ Q[x] = p /\ \A k \in Topics : k # x => Q[k] = R[k]
  BY DEF AllRetained
<1> HIDE DEF Q
<1>2. IsTables(V)
  BY <1>1, HoldingMember
<1>3. /\ \A r : r \in T["sessions"] <=>
                \E k \in Clients : I[k] # None /\ r = SavedRow(k, I[k])
      /\ \A r : r \in T["retained_messages"] <=> \E k \in Topics : R[k] # None /\ r = SessionRow(k, R[k])
      /\ \A t \in Children : \A r : r \in T[t] <=> \E k \in Clients : I[k] # None /\ r \in RowsOf(k, I[k].rows[t])
  BY HoldingMember
<1>4. /\ \A r : r \in V["sessions"] <=>
                \E k \in Clients : I[k] # None /\ r = SavedRow(k, I[k])
      /\ \A r : r \in V["retained_messages"] <=> \E k \in Topics : Q[k] # None /\ r = SessionRow(k, Q[k])
      /\ \A t \in Children : \A r : r \in V[t] <=> \E k \in Clients : I[k] # None /\ r \in RowsOf(k, I[k].rows[t])
  BY <1>1, HoldingMember
<1>5. /\ \A t \in Tables : t # "retained_messages" => \A r : r \in U[t] <=> r \in T[t]
      /\ \A r : r \in U["retained_messages"] <=>
                    \/ r \in T["retained_messages"] /\ r.owner # x
                    \/ p # None /\ r = SessionRow(x, p)
  OBVIOUS
<1> HIDE DEF T, V
<1>6. ASSUME NEW r PROVE r \in U["retained_messages"] <=> r \in V["retained_messages"]
  BY <1>1, <1>3, <1>4, <1>5, OwnerFacts
<1>7. ASSUME NEW t \in Tables, t # "retained_messages", NEW r PROVE r \in U[t] <=> r \in V[t]
  <2>1. r \in T[t] <=> r \in V[t]
    <3>1. CASE t = "sessions"
      BY <1>3, <1>4, <3>1
    <3>2. CASE t \in Children
      BY <1>3, <1>4, <3>2
    <3> QED BY <1>7, <3>1, <3>2, TableNames
  <2> QED BY <1>5, <1>7, <2>1
<1>8. U = V
  BY <1>2, <1>6, <1>7, TablesEqual
<1> QED BY <1>1, <1>8 DEF V, Q

LEMMA HoldingRetain ==
    ASSUME NEW I \in AllHeld, NEW R \in AllRetained, NEW x \in Topics, NEW p \in Payloads
    PROVE  /\ save_retained_message(x, p) \in Seq(Statements)
           /\ Final(Holding(I, R), save_retained_message(x, p)) = Holding(I, [R EXCEPT ![x] = p])
           /\ [R EXCEPT ![x] = p] \in AllRetained
<1>1. IsTables(Holding(I, R)) /\ x \in Owners /\ p # None /\ "retained_messages" \in Tables
  BY HoldingMember, TableNames, PersistenceAssumption DEF Owners
<1>2. save_retained_message(x, p) = <<Upsert("retained_messages", x, p)>>
  BY DEF save_retained_message
<1> DEFINE U == Final(Holding(I, R), <<Upsert("retained_messages", x, p)>>)
<1>3. /\ <<Upsert("retained_messages", x, p)>> \in Seq(Statements)
      /\ \A u \in Tables : u # "retained_messages" => \A r : r \in U[u] <=> r \in Holding(I, R)[u]
      /\ \A r : r \in U["retained_messages"] <=>
           (r \in Holding(I, R)["retained_messages"] /\ r.owner # x) \/ r = SessionRow(x, p)
  BY <1>1, FinalUpsert
<1>4. IsTables(U)
  BY FinalIsTables
<1> HIDE DEF U
<1>5. U = Holding(I, [R EXCEPT ![x] = p]) /\ [R EXCEPT ![x] = p] \in AllRetained
  BY <1>1, <1>3, <1>4, HoldingRetained
<1> QED BY <1>2, <1>3, <1>5 DEF U

LEMMA HoldingForget ==
    ASSUME NEW I \in AllHeld, NEW R \in AllRetained, NEW x \in Topics
    PROVE  /\ delete_retained_message(x) \in Seq(Statements)
           /\ Final(Holding(I, R), delete_retained_message(x)) = Holding(I, [R EXCEPT ![x] = None])
           /\ [R EXCEPT ![x] = None] \in AllRetained
<1>1. IsTables(Holding(I, R)) /\ x \in Owners /\ "retained_messages" \in Tables
  BY HoldingMember, TableNames DEF Owners
<1>2. delete_retained_message(x) = <<Delete("retained_messages", x)>>
  BY DEF delete_retained_message
<1> DEFINE U == Final(Holding(I, R), <<Delete("retained_messages", x)>>)
<1>3. /\ <<Delete("retained_messages", x)>> \in Seq(Statements)
      /\ \A u \in Tables : u # "retained_messages" => \A r : r \in U[u] <=> r \in Holding(I, R)[u]
      /\ \A r : r \in U["retained_messages"] <=> r \in Holding(I, R)["retained_messages"] /\ r.owner # x
  BY <1>1, FinalDeleteOne
<1>4. IsTables(U)
  BY FinalIsTables
<1> HIDE DEF U
<1>5. U = Holding(I, [R EXCEPT ![x] = None]) /\ [R EXCEPT ![x] = None] \in AllRetained
  BY <1>3, <1>4, HoldingRetained
<1> QED BY <1>2, <1>3, <1>5 DEF U

\* What the loads return.
LEMMA ReadBack ==
    ASSUME NEW I \in AllHeld, NEW R \in AllRetained, db = Holding(I, R)
    PROVE  /\ \A c \in Clients : Image(c) = Undated(I[c]) /\ StoredImage(c) = I[c]
           /\ \A x \in Topics : StoredMessage(x) = R[x]
           /\ \A c : (\E r \in db["sessions"] : r.owner = c) <=> c \in Clients /\ I[c] # None
           /\ \A r \in db["sessions"] : r.owner \in Clients /\ r.data.at = I[r.owner].at
           /\ NoOrphans
<1>1. /\ \A r : r \in db["sessions"] <=>
                \E c \in Clients : I[c] # None /\ r = SavedRow(c, I[c])
      /\ \A r : r \in db["retained_messages"] <=> \E x \in Topics : R[x] # None /\ r = SessionRow(x, R[x])
      /\ \A t \in Children : \A r : r \in db[t] <=> \E c \in Clients : I[c] # None /\ r \in RowsOf(c, I[c].rows[t])
  BY HoldingMember
<1>2. ASSUME NEW c \in Clients, I[c] = None PROVE load("sessions", c) = {}
  BY <1>1, <1>2, OwnerFacts DEF load
<1>3. ASSUME NEW c \in Clients, I[c] # None
      PROVE  /\ load("sessions", c) # {}
             /\ \A x \in load("sessions", c) : x[2].next = I[c].next /\ x[2].at = I[c].at
  <2> DEFINE row == SavedRow(c, I[c])
  <2>1. row \in db["sessions"] /\ row.owner = c /\ row.data.next = I[c].next /\ row.data.at = I[c].at
    BY <1>1, <1>3, OwnerFacts
  <2>2. \A r \in db["sessions"] : r.owner = c => r = row
    BY <1>1, OwnerFacts
  <2> HIDE DEF row
  <2>3. {s \in db["sessions"] : s.owner = c} = {row}
    BY <2>1, <2>2
  <2>4. load("sessions", c) = {<<row.key, row.data>>}
    BY <2>3 DEF load
  <2>5. ASSUME NEW x \in load("sessions", c) PROVE x[2].next = I[c].next /\ x[2].at = I[c].at
    <3>1. x[2] = row.data
      BY <2>4
    <3> QED BY <2>1, <3>1
  <2> QED BY <2>4, <2>5
<1>4. ASSUME NEW c \in Clients, I[c] # None, NEW t \in Children PROVE load(t, c) = I[c].rows[t]
  <2>1. I[c] \in AllImages
    BY <1>4 DEF AllHeld
  <2>2. I[c].rows[t] \subseteq Row
    BY <2>1, ImageFacts
  <2>3. {s \in db[t] : s.owner = c} = RowsOf(c, I[c].rows[t])
    BY <1>1, <1>4, OwnerFacts
  <2>4. \A r \in I[c].rows[t] : <<r[1], r[2]>> = r
    BY <2>2, PersistenceAssumption
  <2>5. {<<r.key, r.data>> : r \in RowsOf(c, I[c].rows[t])} = {<<r[1], r[2]>> : r \in I[c].rows[t]}
    <3> DEFINE G(r) == [owner |-> c, key |-> r[1], data |-> r[2]]
    <3>1. \A r : G(r).key = r[1] /\ G(r).data = r[2]
      OBVIOUS
    <3>2. RowsOf(c, I[c].rows[t]) = {G(r) : r \in I[c].rows[t]}
      BY DEF RowsOf
    <3> HIDE DEF G
    <3>3. {<<r.key, r.data>> : r \in {G(x) : x \in I[c].rows[t]}} = {<<G(x).key, G(x).data>> : x \in I[c].rows[t]}
      OBVIOUS
    <3>4. {<<G(x).key, G(x).data>> : x \in I[c].rows[t]} = {<<x[1], x[2]>> : x \in I[c].rows[t]}
      BY <3>1
    <3> QED BY <3>2, <3>3, <3>4
  <2>6. {<<r[1], r[2]>> : r \in I[c].rows[t]} = I[c].rows[t]
    BY <2>4
  <2> QED BY <2>3, <2>5, <2>6 DEF load
<1>5. ASSUME NEW c \in Clients PROVE Image(c) = Undated(I[c]) /\ StoredImage(c) = I[c]
  <2>1. CASE I[c] = None
    BY <1>2, <2>1 DEF Image, StoredImage, Undated
  <2>2. CASE I[c] # None
    <3>1. I[c] \in AllImages
      BY <2>2 DEF AllHeld
    <3>2. I[c].rows = [t \in Children |-> I[c].rows[t]]
      BY <3>1, ImageFacts
    <3> DEFINE s == CHOOSE x \in load("sessions", c) : TRUE
    <3>3. load("sessions", c) # {} /\ s \in load("sessions", c)
      BY <1>3, <2>2
    <3>4. s[2].next = I[c].next /\ s[2].at = I[c].at
      BY <1>3, <2>2, <3>3
    <3> HIDE DEF s
    <3>5. [t \in Children |-> load(t, c)] = I[c].rows
      BY <1>4, <2>2, <3>2
    <3>6. Image(c) = [next |-> I[c].next, rows |-> I[c].rows]
      BY <3>3, <3>4, <3>5 DEF Image, s
    <3>7. Image(c) = Undated(I[c])
      BY <3>1, <3>6, ImageFacts
    <3>8. Image(c) # None
      BY <3>1, <3>6, ImageFacts, PersistenceAssumption
    <3>9. StoredImage(c) = I[c]
      BY <3>1, <3>4, <3>7, <3>8, ImageFacts DEF StoredImage, s
    <3> QED BY <3>7, <3>9
  <2> QED BY <2>1, <2>2
<1>6. ASSUME NEW x \in Topics PROVE StoredMessage(x) = R[x]
  <2>1. CASE R[x] = None
    <3>1. load("retained_messages", x) = {}
      BY <1>1, <2>1, OwnerFacts DEF load
    <3> QED BY <2>1, <3>1 DEF StoredMessage
  <2>2. CASE R[x] # None
    <3> DEFINE row == SessionRow(x, R[x])
    <3>1. row \in db["retained_messages"] /\ row.owner = x /\ row.key = Only /\ row.data = R[x]
      BY <1>1, <2>2, OwnerFacts
    <3>2. \A r \in db["retained_messages"] : r.owner = x => r = row
      BY <1>1, OwnerFacts
    <3> HIDE DEF row
    <3>3. {s \in db["retained_messages"] : s.owner = x} = {row}
      BY <3>1, <3>2
    <3>4. load("retained_messages", x) = {<<Only, R[x]>>}
      BY <3>1, <3>3 DEF load
    <3>5. \A y \in load("retained_messages", x) : y[2] = R[x]
      BY <3>4
    <3>6. load("retained_messages", x) # {} /\ (CHOOSE y \in load("retained_messages", x) : TRUE) \in load("retained_messages", x)
      BY <3>4
    <3> QED BY <3>5, <3>6 DEF StoredMessage
  <2> QED BY <2>1, <2>2
<1>7. \A c : (\E r \in db["sessions"] : r.owner = c) <=> c \in Clients /\ I[c] # None
  BY <1>1, OwnerFacts
<1>8. \A r \in db["sessions"] : r.owner \in Clients /\ r.data.at = I[r.owner].at
  BY <1>1, OwnerFacts
<1>9. NoOrphans
  <2>1. ASSUME NEW t \in Children, NEW r \in db[t] PROVE \E s \in db["sessions"] : s.owner = r.owner
    BY <1>1, <1>7, OwnerFacts
  <2> QED BY <2>1 DEF NoOrphans
<1> QED BY <1>5, <1>6, <1>7, <1>8, <1>9

LEMMA ReadsWhole == \A I \in AllHeld, R \in AllRetained : db = Holding(I, R) => ReadsAs(I, R)
<1> SUFFICES ASSUME NEW I \in AllHeld, NEW R \in AllRetained, db = Holding(I, R) PROVE ReadsAs(I, R)
  OBVIOUS
<1>1. I = [c \in Clients |-> I[c]] /\ R = [x \in Topics |-> R[x]]
  BY DEF AllHeld, AllRetained
<1>2. Held = I
  BY <1>1, ReadBack DEF Held
<1>3. Kept = R
  BY <1>1, ReadBack DEF Kept
<1> QED BY <1>2, <1>3, ReadBack DEF ReadsAs

LEMMA ReadsWholeNext == \A I \in AllHeld, R \in AllRetained : db' = Holding(I, R) => ReadsAs(I, R)'
<1>1. (\A I \in AllHeld, R \in AllRetained : db = Holding(I, R) => ReadsAs(I, R))'
  BY ReadsWhole, PTL
<1> QED BY <1>1

\* The tables are replaced by whole ones, or stay.
LEMMA WholeNext ==
    ASSUME NEW I \in AllHeld, NEW R \in AllRetained, db' = Holding(I, R)
    PROVE  /\ Whole' /\ Held' = I /\ Kept' = R
           /\ \A c \in Clients : Image(c)' = Undated(I[c])
<1>1. ReadsAs(I, R)'
  BY ReadsWholeNext
<1>2. Held' = I /\ Kept' = R /\ \A c \in Clients : Image(c)' = Undated(I[c])
  BY <1>1 DEF ReadsAs
<1> QED BY <1>2 DEF Whole

LEMMA SameTables ==
    ASSUME Whole, db' = db
    PROVE  /\ Whole' /\ Held' = Held /\ Kept' = Kept
           /\ \A c \in Clients : Image(c)' = Image(c)
<1>1. PICK I \in AllHeld, R \in AllRetained : I = Held /\ R = Kept /\ db = Holding(I, R)
  BY DEF Whole
<1>2. ReadsAs(I, R)
  BY <1>1, ReadsWhole
<1>3. Whole' /\ Held' = I /\ Kept' = R /\ \A c \in Clients : Image(c)' = Undated(I[c])
  BY <1>1, WholeNext
<1> QED BY <1>1, <1>2, <1>3 DEF ReadsAs

\* Sequences of the elements of a set.
LEMMA SeqsFacts ==
    ASSUME NEW S, IsFiniteSet(S), NEW s \in SetToSeqs(S)
    PROVE  s \in Seq(S) /\ ToSet(s) = S
<1> DEFINE n == Cardinality(S)
<1>1. n \in Nat
  BY FS_CardinalityType
<1>2. s \in [1..n -> S] /\ \A i, j \in 1..n : i # j => s[i] # s[j]
  BY DEF SetToSeqs
<1>3. s \in Injection(1..n, S)
  BY <1>2 DEF Injection, IsInjective
<1>4. IsFiniteSet(1..n) /\ Cardinality(1..n) = n
  <2>1. 0 \in Int /\ 1 \in Int /\ n \in Int
    BY <1>1
  <2>2. Cardinality(1..n) = IF 1 > n THEN 0 ELSE n - 1 + 1
    BY <2>1, FS_Interval
  <2> QED BY <1>1, <2>1, <2>2, FS_Interval
<1>5. s \in Surjection(1..n, S)
  BY <1>3, <1>4, FS_Injection
<1>6. \A t \in S : \E i \in 1..n : s[i] = t
  BY <1>5 DEF Surjection
<1> HIDE DEF n
<1>7. s \in Seq(S) /\ DOMAIN s = 1..n
  BY <1>1, <1>2
<1> QED BY <1>2, <1>6, <1>7 DEF ToSet

LEMMA SeqFacts ==
    ASSUME NEW S, IsFiniteSet(S)
    PROVE  SetToSeq(S) \in Seq(S) /\ ToSet(SetToSeq(S)) = S
<1> DEFINE n == Cardinality(S)
<1>1. ExistsBijection(1..n, S)
  BY FS_CardinalityType
<1>2. \E f \in [1..n -> S] : IsInjective(f)
  BY <1>1 DEF ExistsBijection, Bijection, Injection
<1>3. SetToSeq(S) \in [1..n -> S] /\ IsInjective(SetToSeq(S))
  BY <1>2 DEF SetToSeq
<1>4. SetToSeq(S) \in SetToSeqs(S)
  BY <1>3 DEF IsInjective, SetToSeqs
<1> QED BY <1>4, SeqsFacts

LEMMA SameImage ==
    \A x, y \in [next : Nat, rows : [Children -> SUBSET Row]] :
        x.next = y.next /\ (\A t \in Children : x.rows[t] = y.rows[t]) => x = y
<1> SUFFICES ASSUME NEW x \in [next : Nat, rows : [Children -> SUBSET Row]],
                    NEW y \in [next : Nat, rows : [Children -> SUBSET Row]],
                    x.next = y.next, \A t \in Children : x.rows[t] = y.rows[t]
             PROVE  x = y
  OBVIOUS
<1>1. x.rows = y.rows
  OBVIOUS
<1> QED BY <1>1

\* The states a session may be in, as images.
LEMMA ImagesOfStates ==
    /\ \A c \in Clients : \A m \in States[c] : m \in State /\ \E x \in AllStates : AsImage(m) = AsImage(x)
    /\ Fresh \in State /\ \E x \in AllStates : AsImage(Fresh) = AsImage(x)
    /\ \A m \in State, F \in SUBSET Children :
         (\E x \in AllStates : AsImage(m) = AsImage(x)) =>
            \E x \in AllStates : AsImage(Without(m, F)) = AsImage(x)
<1>1. ASSUME NEW m \in (UNION {States[c] : c \in Clients}) \cup {Fresh}, m \in State
      PROVE  \E x \in AllStates : AsImage(m) = AsImage(x)
  <2>1. PICK F \in SUBSET Children : F = {}
    OBVIOUS
  <2>2. Without(m, F) \in AllStates
    BY DEF AllStates
  <2>3. AsImage(m) = AsImage(Without(m, F))
    <3>1. /\ AsImage(Without(m, F)).next = m.next
          /\ \A t \in Children : AsImage(Without(m, F)).rows[t] = ToSet(m.rows[t])
      BY <1>1, <2>1, WithoutFacts
    <3>2. Without(m, F) \in State
      BY <1>1, WithoutFacts
    <3>3. /\ AsImage(Without(m, F)) \in [next : Nat, rows : [Children -> SUBSET Row]]
          /\ AsImage(m) \in [next : Nat, rows : [Children -> SUBSET Row]]
          /\ AsImage(m).next = m.next /\ \A t \in Children : AsImage(m).rows[t] = ToSet(m.rows[t])
      BY <1>1, <3>2, StateFacts
    <3> QED BY <3>1, <3>3
  <2> QED BY <2>2, <2>3
<1>2. Fresh \in State /\ \A c \in Clients : \A m \in States[c] : m \in State
  BY PersistenceAssumption
<1>3. ASSUME NEW m \in State, NEW F \in SUBSET Children, NEW x \in AllStates, AsImage(m) = AsImage(x)
      PROVE  \E y \in AllStates : AsImage(Without(m, F)) = AsImage(y)
  <2>1. PICK b \in (UNION {States[c] : c \in Clients}) \cup {Fresh}, G \in SUBSET Children : x = Without(b, G)
    BY DEF AllStates
  <2>2. b \in State
    BY <1>2
  <2>4. PICK H \in SUBSET Children : H = G \cup F
    OBVIOUS
  <2>3. Without(b, H) \in AllStates
    BY DEF AllStates
  <2>5. /\ AsImage(Without(b, H)) \in [next : Nat, rows : [Children -> SUBSET Row]]
        /\ AsImage(Without(b, H)).next = b.next
        /\ \A t \in Children : AsImage(Without(b, H)).rows[t] = IF t \in H THEN {} ELSE ToSet(b.rows[t])
    <3>1. Without(b, H) \in State
      BY <2>2, WithoutFacts
    <3>2. AsImage(Without(b, H)) \in [next : Nat, rows : [Children -> SUBSET Row]]
      BY <3>1, StateFacts
    <3> QED BY <2>2, <3>2, WithoutFacts
  <2>6. /\ AsImage(Without(m, F)) \in [next : Nat, rows : [Children -> SUBSET Row]]
        /\ AsImage(Without(m, F)).next = m.next
        /\ \A t \in Children : AsImage(Without(m, F)).rows[t] = IF t \in F THEN {} ELSE ToSet(m.rows[t])
    <3>1. Without(m, F) \in State
      BY WithoutFacts
    <3>2. AsImage(Without(m, F)) \in [next : Nat, rows : [Children -> SUBSET Row]]
      BY <3>1, StateFacts
    <3> QED BY <3>2, WithoutFacts
  <2>7. /\ AsImage(x).next = b.next
        /\ \A t \in Children : AsImage(x).rows[t] = IF t \in G THEN {} ELSE ToSet(b.rows[t])
    BY <2>1, <2>2, WithoutFacts
  <2>8. AsImage(m).next = m.next /\ \A t \in Children : AsImage(m).rows[t] = ToSet(m.rows[t])
    BY StateFacts
  <2>9. \A t \in Children : ToSet(m.rows[t]) = IF t \in G THEN {} ELSE ToSet(b.rows[t])
    BY <1>3, <2>7, <2>8
  <2>10. m.next = b.next
    BY <1>3, <2>7, <2>8
  <2>11. \A t \in Children : AsImage(Without(m, F)).rows[t] = AsImage(Without(b, H)).rows[t]
    BY <2>4, <2>5, <2>6, <2>9
  <2>12. AsImage(Without(m, F)) = AsImage(Without(b, H))
    <3>1. AsImage(Without(m, F)).next = AsImage(Without(b, H)).next
      BY <2>5, <2>6, <2>10
    <3> QED BY <2>5, <2>6, <2>11, <3>1, SameImage
  <2> QED BY <2>3, <2>12
<1> QED BY <1>1, <1>2, <1>3

LEMMA InitKeeps == Init => Inv
<1> SUFFICES ASSUME Init PROVE Inv
  OBVIOUS
<1> DEFINE I == [c \in Clients |-> IF c \in Away THEN Dated(AsImage(CHOOSE m \in States[c] : TRUE), Before) ELSE None]
           R == [t \in Topics |-> None]
<1>1. I \in AllHeld
  <2> SUFFICES ASSUME NEW c \in Clients
               PROVE  Dated(AsImage(CHOOSE m \in States[c] : TRUE), Before) \in AllImages
    BY DEF AllHeld
  <2>1. PICK m : m \in States[c] /\ m = CHOOSE x \in States[c] : TRUE
    BY PersistenceAssumption
  <2>2. PICK x \in AllStates : AsImage(m) = AsImage(x)
    BY <2>1, ImagesOfStates
  <2>3. Before \in Times
    BY DEF Before, Times
  <2>4. Dated(AsImage(x), Before) \in AllImages
    BY <2>3 DEF AllImages
  <2> QED BY <2>1, <2>2, <2>4
<1>2. R \in AllRetained
  BY DEF AllRetained
<1>3. db = Holding(I, R) /\ Idle
  BY DEF Init, StorageInit, SavedEarlier, Idle
<1> HIDE DEF I, R
<1>4. ReadsAs(I, R)
  BY <1>1, <1>2, <1>3, ReadsWhole
<1>5. Whole
  BY <1>1, <1>2, <1>3, <1>4 DEF Whole, ReadsAs
<1>6. \A c \in Clients : Image(c) = Undated(I[c])
  BY <1>4 DEF ReadsAs
<1>7. \A c \in Clients : Image(c) = None \/ Image(c) \in [next : Nat, rows : [Children -> SUBSET Row]]
  <2> SUFFICES ASSUME NEW c \in Clients, I[c] # None
               PROVE  Undated(I[c]) \in [next : Nat, rows : [Children -> SUBSET Row]]
    BY <1>6 DEF Undated
  <2>1. I[c] \in AllImages
    BY <1>1 DEF AllHeld
  <2>2. PICK m \in AllStates : AsImage(m) = Undated(I[c])
    BY <2>1, ImageFacts
  <2> QED BY <2>2, AllStatesType, StateFacts
<1>8. /\ \A c \in Clients : phase[c] = "absent" /\ content[c] = Image(c) /\ mem[c] = Fresh
      /\ phase = [c \in Clients |-> "absent"] /\ clean \in [Clients -> BOOLEAN]
      /\ mem = [c \in Clients |-> Fresh] /\ content = [c \in Clients |-> Image(c)]
      /\ lost = {} /\ unsaved = {} /\ undeleted = {}
  BY DEF Init
<1>9. Typed
  BY <1>7, <1>8, ImagesOfStates DEF Typed
<1>10. \A c \in Clients : Safe(c) /\ Clear(c) /\ Promised(c)
  BY <1>8 DEF Safe, Clear, Promised
<1> QED BY <1>3, <1>5, <1>9, <1>10 DEF Inv, Open, Sessions

\* The storage calls that open a transaction.
LEMMA SaveOpens ==
    ASSUME Inv, NEW c \in Clients, Save(c), phase'[c] = "pending", mem'[c] = mem[c]
    PROVE  Open'
<1>1. PICK I \in AllHeld, R \in AllRetained : I = Held /\ R = Kept /\ db = Holding(I, R)
  BY DEF Inv, Whole
<1>2. db' = db /\ Held' = I /\ Kept' = R
  BY <1>1, SameTables DEF Inv, Save, Begin
<1>3. PICK m \in State : m = mem[c]
  BY DEF Inv, Sessions, Typed
<1>4. PICK x : x = Dated(AsImage(m), Now) /\ x \in AllImages
  <2>1. PICK y \in AllStates : AsImage(m) = AsImage(y)
    BY <1>3 DEF Inv, Sessions, Typed
  <2>2. Now \in Times
    BY DEF Now, Times
  <2>3. Dated(AsImage(y), Now) \in AllImages
    BY <2>2 DEF AllImages
  <2> QED BY <2>1, <2>3
<1> DEFINE q == save_session(c, [next |-> m.next, at |-> Now], m.rows)
<1>5. tx' = [by |-> c, tables |-> Holding(I, R), todo |-> q]
  BY <1>1, <1>3 DEF Save, Begin
<1>6. IsTables(Holding(I, R))
  BY HoldingMember
<1>7. m.next \in Nat /\ m.rows \in [Children -> Seq(Row)] /\ Now \in Times /\ Now \in Nat /\ c \in Owners
  BY StateFacts DEF Now, Times, Owners
<1>8. q \in Seq(Statements)
  BY <1>6, <1>7, FinalSave
<1>9. Final(Holding(I, R), q) = Holding([I EXCEPT ![c] = x], R)
  BY <1>4, <1>7, HoldingSave
<1> HIDE DEF q
<1>10. tx'.by = c /\ tx'.tables = Holding(I, R) /\ tx'.todo = q
  BY <1>5
<1>11. Saves(Final(Holding(I, R), q))'
  BY <1>2, <1>3, <1>4, <1>9, <1>10 DEF Saves
<1>12. Outcome(Final(tx.tables, tx.todo))'
  BY <1>10, <1>11 DEF Outcome
<1> QED BY <1>5, <1>6, <1>8, <1>10, <1>12 DEF Open

LEMMA DeleteOpens ==
    ASSUME Inv, NEW c \in Clients, DeleteImage(c), phase'[c] \in {"connack", "processing"}
    PROVE  Open'
<1>1. PICK I \in AllHeld, R \in AllRetained : I = Held /\ R = Kept /\ db = Holding(I, R)
  BY DEF Inv, Whole
<1>2. db' = db /\ Held' = I /\ Kept' = R
  BY <1>1, SameTables DEF Inv, DeleteImage, Begin
<1> DEFINE q == delete_client_data(c)
<1>5. tx' = [by |-> c, tables |-> Holding(I, R), todo |-> q]
  BY <1>1 DEF DeleteImage, Begin
<1>6. IsTables(Holding(I, R))
  BY HoldingMember
<1>8. q \in Seq(Statements)
  BY FinalDelete
<1>9. Final(Holding(I, R), q) = Holding(Gone(I, {c}), R)
  BY HoldingDelete
<1> HIDE DEF q
<1>10. tx'.by = c /\ tx'.tables = Holding(I, R) /\ tx'.todo = q
  BY <1>5
<1>11. Deletes(Final(Holding(I, R), q))'
  BY <1>2, <1>9, <1>10 DEF Deletes
<1>12. Outcome(Final(tx.tables, tx.todo))'
  BY <1>10, <1>11 DEF Outcome
<1> QED BY <1>5, <1>6, <1>8, <1>10, <1>12 DEF Open

\* The sessions are as they were, apart from the history variable lost, which
\* may grow, and from what an open transaction does.
LEMMA SessionsSame ==
    ASSUME Inv, db' = db, UNCHANGED <<sessions, content, unsaved, undeleted>>, lost \subseteq lost', lost' \subseteq Clients
    PROVE  Sessions'
<1>1. \A c \in Clients : Image(c)' = Image(c)
  BY SameTables DEF Inv
<1>2. Typed'
  BY DEF Inv, Sessions, Typed, sessions
<1>3. \A c \in Clients : Safe(c)' /\ Clear(c)' /\ Promised(c)'
  BY <1>1 DEF Inv, Sessions, Safe, Clear, Promised, sessions
<1> QED BY <1>2, <1>3 DEF Sessions

\* A step of the session c, whose state becomes m in phase ph.
Phases   == {"absent", "restoring", "connack", "processing", "pending"}
Contents == [next : Nat, rows : [Children -> SUBSET Row]] \cup {None}
Others(S, T, c) == \A d \in Clients : d # c => (d \in S <=> d \in T)

LEMMA OneSession ==
    ASSUME Inv, NEW c \in Clients, db' = db,
           NEW ph \in Phases, NEW cl \in BOOLEAN, NEW m \in State, NEW k \in Contents,
           \E x \in AllStates : AsImage(m) = AsImage(x),
           phase' = [phase EXCEPT ![c] = ph], clean' = [clean EXCEPT ![c] = cl],
           mem' = [mem EXCEPT ![c] = m], content' = [content EXCEPT ![c] = k],
           lost' \subseteq Clients, unsaved' \subseteq Clients, undeleted' \subseteq Clients,
           Others(lost', lost, c), Others(unsaved', unsaved, c), Others(undeleted', undeleted, c),
           k # None /\ c \notin lost' =>
               /\ ph # "absent" => AsImage(m) = k
               /\ ph \in {"absent", "restoring"} => Image(c) = k
               /\ ph = "pending" => c \in unsaved' \/ Image(c) = k,
           k = None /\ c \notin undeleted' => Image(c) = None,
           /\ ph = "pending" => k # None
           /\ ph = "restoring" => ~cl
           /\ ph = "processing" /\ ~cl => k # None
           /\ ph \in {"connack", "processing"} /\ cl => k = None
    PROVE  Sessions'
<1>1. \A d \in Clients : Image(d)' = Image(d)
  BY SameTables DEF Inv
<1>2. /\ phase \in [Clients -> Phases] /\ clean \in [Clients -> BOOLEAN] /\ mem \in [Clients -> State]
      /\ content \in [Clients -> Contents]
      /\ \A d \in Clients : \E y \in AllStates : AsImage(mem[d]) = AsImage(y)
  BY DEF Inv, Sessions, Typed, Phases, Contents
<1>3. /\ phase' \in [Clients -> Phases] /\ clean' \in [Clients -> BOOLEAN] /\ mem' \in [Clients -> State]
      /\ content' \in [Clients -> Contents]
  BY <1>2
<1>4. \A d \in Clients : /\ phase'[d] = IF d = c THEN ph ELSE phase[d]
                         /\ clean'[d] = IF d = c THEN cl ELSE clean[d]
                         /\ mem'[d] = IF d = c THEN m ELSE mem[d]
                         /\ content'[d] = IF d = c THEN k ELSE content[d]
  BY <1>2
<1>5. \A d \in Clients : \E y \in AllStates : AsImage(mem'[d]) = AsImage(y)
  BY <1>2, <1>4
<1>6. Typed'
  BY <1>3, <1>5 DEF Typed, Phases, Contents
<1>7. ASSUME NEW d \in Clients PROVE Safe(d)' /\ Clear(d)' /\ Promised(d)'
  <2>1. CASE d = c
    <3>1. phase'[d] = ph /\ clean'[d] = cl /\ mem'[d] = m /\ content'[d] = k /\ Image(d)' = Image(c)
      BY <1>1, <1>4, <2>1
    <3>2. Safe(d)'
      BY <2>1, <3>1 DEF Safe
    <3>3. Clear(d)'
      BY <2>1, <3>1 DEF Clear
    <3>4. Promised(d)'
      BY <2>1, <3>1 DEF Promised
    <3> QED BY <3>2, <3>3, <3>4
  <2>2. CASE d # c
    <3>1. /\ phase'[d] = phase[d] /\ clean'[d] = clean[d] /\ mem'[d] = mem[d] /\ content'[d] = content[d]
          /\ Image(d)' = Image(d)
      BY <1>1, <1>4, <2>2
    <3>2. (d \in lost' <=> d \in lost) /\ (d \in unsaved' <=> d \in unsaved) /\ (d \in undeleted' <=> d \in undeleted)
      BY <2>2 DEF Others
    <3>3. Safe(d) /\ Clear(d) /\ Promised(d)
      BY DEF Inv, Sessions
    <3>4. Safe(d)'
      BY <3>1, <3>2, <3>3 DEF Safe
    <3>5. Clear(d)'
      BY <3>1, <3>2, <3>3 DEF Clear
    <3>6. Promised(d)'
      BY <3>1, <3>3 DEF Promised
    <3> QED BY <3>4, <3>5, <3>6
  <2> QED BY <2>1, <2>2
<1> QED BY <1>6, <1>7 DEF Sessions

\* What Inv says of the session c.
LEMMA SessionFacts ==
    ASSUME Inv, NEW c \in Clients
    PROVE  /\ phase[c] \in Phases /\ clean[c] \in BOOLEAN /\ mem[c] \in State /\ content[c] \in Contents
           /\ phase \in [Clients -> Phases] /\ clean \in [Clients -> BOOLEAN] /\ mem \in [Clients -> State]
           /\ content \in [Clients -> Contents]
           /\ lost \subseteq Clients /\ unsaved \subseteq Clients /\ undeleted \subseteq Clients
           /\ \E x \in AllStates : AsImage(mem[c]) = AsImage(x)
           /\ Safe(c) /\ Clear(c) /\ Promised(c)
           /\ AsImage(mem[c]) \in Contents /\ AsImage(mem[c]) # None
           /\ phase = [phase EXCEPT ![c] = phase[c]] /\ clean = [clean EXCEPT ![c] = clean[c]]
           /\ mem = [mem EXCEPT ![c] = mem[c]] /\ content = [content EXCEPT ![c] = content[c]]
<1>1. /\ phase \in [Clients -> Phases] /\ clean \in [Clients -> BOOLEAN] /\ mem \in [Clients -> State]
      /\ content \in [Clients -> Contents]
  BY DEF Inv, Sessions, Typed, Phases, Contents
<1>2. /\ lost \subseteq Clients /\ unsaved \subseteq Clients /\ undeleted \subseteq Clients
      /\ \E x \in AllStates : AsImage(mem[c]) = AsImage(x)
      /\ Safe(c) /\ Clear(c) /\ Promised(c)
  BY DEF Inv, Sessions, Typed
<1>3. phase[c] \in Phases /\ clean[c] \in BOOLEAN /\ mem[c] \in State /\ content[c] \in Contents
  BY <1>1
<1>4. AsImage(mem[c]) \in Contents /\ AsImage(mem[c]) # None
  BY <1>3, StateFacts DEF Contents
<1>5. /\ phase = [phase EXCEPT ![c] = phase[c]] /\ clean = [clean EXCEPT ![c] = clean[c]]
      /\ mem = [mem EXCEPT ![c] = mem[c]] /\ content = [content EXCEPT ![c] = content[c]]
  BY <1>1
<1> QED BY <1>1, <1>2, <1>3, <1>4, <1>5

LEMMA ConnectCleanKeeps == ASSUME Inv, NEW c \in Clients, ConnectClean(c) PROVE Open' /\ Sessions' /\ db' = db
<1>1. /\ db' = db /\ undeleted' = undeleted \cup {c} /\ lost' = lost /\ unsaved' = unsaved
      /\ phase' = [phase EXCEPT ![c] = "connack"] /\ clean' = [clean EXCEPT ![c] = TRUE]
      /\ mem' = [mem EXCEPT ![c] = Fresh] /\ content' = [content EXCEPT ![c] = None]
  BY DEF ConnectClean, DeleteImage, Begin, Go, Be, Promise
<1>2. phase'[c] = "connack"
  BY <1>1, SessionFacts
<1>3. Open'
  BY <1>2, DeleteOpens DEF ConnectClean
<1>4. lost' \subseteq Clients /\ unsaved' \subseteq Clients /\ undeleted' \subseteq Clients
  BY <1>1, SessionFacts
<1>5. Others(lost', lost, c) /\ Others(unsaved', unsaved, c) /\ Others(undeleted', undeleted, c)
  BY <1>1 DEF Others
<1>6. "connack" \in Phases /\ None \in Contents /\ TRUE \in BOOLEAN /\ c \in undeleted'
  BY <1>1 DEF Phases, Contents
<1>7. Sessions'
  BY <1>1, <1>4, <1>5, <1>6, ImagesOfStates, OneSession
<1> QED BY <1>1, <1>3, <1>7

LEMMA ConnectNewKeeps == ASSUME Inv, NEW c \in Clients, ConnectNew(c) PROVE Open' /\ Sessions' /\ db' = db
<1>1. /\ db' = db /\ undeleted' = undeleted /\ unsaved' = unsaved /\ Idle'
      /\ phase' = [phase EXCEPT ![c] = "connack"] /\ clean' = [clean EXCEPT ![c] = FALSE]
      /\ mem' = [mem EXCEPT ![c] = Fresh] /\ content' = content
      /\ lost' = IF content[c] # None THEN lost \cup {c} ELSE lost
  BY DEF ConnectNew, Go, Be, storage, Idle
<1>2. content' = [content EXCEPT ![c] = content[c]] /\ content[c] \in Contents
  BY <1>1, SessionFacts
<1>3. lost' \subseteq Clients /\ unsaved' \subseteq Clients /\ undeleted' \subseteq Clients
  BY <1>1, SessionFacts
<1>4. Others(lost', lost, c) /\ Others(unsaved', unsaved, c) /\ Others(undeleted', undeleted, c)
  BY <1>1 DEF Others
<1>5. "connack" \in Phases /\ FALSE \in BOOLEAN /\ (content[c] # None => c \in lost')
  BY <1>1 DEF Phases
<1>6. content[c] = None /\ c \notin undeleted' => Image(c) = None
  BY <1>1, SessionFacts DEF Clear
<1>7. Sessions'
  BY <1>1, <1>2, <1>3, <1>4, <1>5, <1>6, ImagesOfStates, OneSession
<1> QED BY <1>1, <1>7 DEF Open

\* What the loads find, in any order.
LEMMA LoadKeeps ==
    ASSUME Inv, NEW c \in Clients, NEW F \in SUBSET Children, Load(c, F)
    PROVE  Open' /\ Sessions' /\ db' = db
<1>1. PICK I \in AllHeld, R \in AllRetained : I = Held /\ R = Kept /\ db = Holding(I, R)
  BY DEF Inv, Whole
<1>2. ReadsAs(I, R)
  BY <1>1, ReadsWhole
<1>3. PICK x \in AllImages : Image(c) = Undated(x)
  <2>1. Image(c) = Undated(I[c]) /\ Image(c) # None
    BY <1>2 DEF ReadsAs, Load
  <2>2. I[c] # None
    BY <2>1 DEF Undated
  <2>3. I[c] \in AllImages
    BY <2>2 DEF AllHeld
  <2> QED BY <2>1, <2>3
<1>4. PICK y \in AllStates : AsImage(y) = Image(c)
  BY <1>3, ImageFacts
<1>5. /\ Image(c) = [next |-> x.next, rows |-> x.rows] /\ x.next \in Nat /\ x.rows \in [Children -> SUBSET Row]
      /\ \A t \in Children : IsFiniteSet(x.rows[t])
  BY <1>3, ImageFacts
<1>6. Image(c).next = x.next /\ Image(c).rows = x.rows
  BY <1>5
<1>7. PICK order \in SetToSeqs(x.rows["inflight_messages"]) :
        mem' = [mem EXCEPT ![c] =
                  Without([next |-> x.next,
                           rows |-> [t \in Children |->
                              IF t = "inflight_messages" THEN order ELSE SetToSeq(x.rows[t])]], F)]
  BY <1>6 DEF Load, Be
<1> DEFINE m == [next |-> x.next,
                 rows |-> [t \in Children |-> IF t = "inflight_messages" THEN order ELSE SetToSeq(x.rows[t])]]
<1>8. "inflight_messages" \in Children
  BY TableNames
<1>9. ASSUME NEW t \in Children PROVE m.rows[t] \in Seq(Row) /\ ToSet(m.rows[t]) = x.rows[t]
  <2>1. IsFiniteSet(x.rows[t]) /\ x.rows[t] \subseteq Row
    BY <1>5
  <2>2. \A s \in Seq(x.rows[t]) : s \in Seq(Row)
    BY <2>1
  <2>3. CASE t = "inflight_messages"
    <3>1. m.rows[t] = order /\ order \in SetToSeqs(x.rows[t])
      BY <1>7, <2>3
    <3>2. order \in Seq(x.rows[t]) /\ ToSet(order) = x.rows[t]
      BY <2>1, <3>1, SeqsFacts
    <3> QED BY <2>2, <3>1, <3>2
  <2>4. CASE t # "inflight_messages"
    <3>1. m.rows[t] = SetToSeq(x.rows[t])
      BY <2>4
    <3>2. SetToSeq(x.rows[t]) \in Seq(x.rows[t]) /\ ToSet(SetToSeq(x.rows[t])) = x.rows[t]
      BY <2>1, SeqFacts
    <3> QED BY <2>2, <3>1, <3>2
  <2> QED BY <2>3, <2>4
<1>10. m \in State /\ m.next = x.next
  BY <1>5, <1>9 DEF State
<1>11. mem' = [mem EXCEPT ![c] = Without(m, F)]
  BY <1>7
<1> HIDE DEF m
<1>12. AsImage(m) = Image(c)
  <2>1. /\ AsImage(m) \in [next : Nat, rows : [Children -> SUBSET Row]]
        /\ AsImage(m).next = m.next /\ \A t \in Children : AsImage(m).rows[t] = ToSet(m.rows[t])
    BY <1>10, StateFacts
  <2>2. AsImage(m).next = x.next /\ \A t \in Children : AsImage(m).rows[t] = x.rows[t]
    BY <1>9, <1>10, <2>1
  <2> QED BY <1>5, <2>1, <2>2
<1>13. Without(m, F) \in State /\ \E z \in AllStates : AsImage(Without(m, F)) = AsImage(z)
  BY <1>4, <1>10, <1>12, WithoutFacts, ImagesOfStates
<1>14. (\A t \in F : x.rows[t] = {}) => AsImage(Without(m, F)) = Image(c)
  <2> SUFFICES ASSUME \A t \in F : x.rows[t] = {} PROVE AsImage(Without(m, F)) = Image(c)
    OBVIOUS
  <2>1. /\ AsImage(Without(m, F)) \in [next : Nat, rows : [Children -> SUBSET Row]]
        /\ AsImage(Without(m, F)).next = x.next
        /\ \A t \in Children : AsImage(Without(m, F)).rows[t] = IF t \in F THEN {} ELSE ToSet(m.rows[t])
    BY <1>10, WithoutFacts, StateFacts
  <2>2. \A t \in Children : AsImage(Without(m, F)).rows[t] = x.rows[t]
    BY <1>9, <2>1
  <2> QED BY <1>5, <2>1, <2>2
<1>15. /\ db' = db /\ Idle' /\ content' = content /\ unsaved' = unsaved /\ undeleted' = undeleted
       /\ phase' = [phase EXCEPT ![c] = "restoring"] /\ clean' = [clean EXCEPT ![c] = FALSE]
       /\ lost' = IF \E t \in F : x.rows[t] # {} THEN lost \cup {c} ELSE lost
       /\ phase[c] = "absent"
  BY <1>6 DEF Load, Go, storage, Idle
<1>16. content' = [content EXCEPT ![c] = content[c]] /\ content[c] \in Contents
  BY <1>15, SessionFacts
<1>17. lost' \subseteq Clients /\ unsaved' \subseteq Clients /\ undeleted' \subseteq Clients
  BY <1>15, SessionFacts
<1>18. Others(lost', lost, c) /\ Others(unsaved', unsaved, c) /\ Others(undeleted', undeleted, c)
  BY <1>15 DEF Others
<1>19. "restoring" \in Phases /\ FALSE \in BOOLEAN
  BY DEF Phases
<1>20. content[c] # None /\ c \notin lost' => AsImage(Without(m, F)) = content[c] /\ Image(c) = content[c]
  BY <1>14, <1>15, SessionFacts DEF Safe
<1>21. content[c] = None /\ c \notin undeleted' => Image(c) = None
  BY <1>15, SessionFacts DEF Clear
<1>22. Sessions'
  BY <1>11, <1>13, <1>15, <1>16, <1>17, <1>18, <1>19, <1>20, <1>21, OneSession
<1> QED BY <1>15, <1>22 DEF Open

LEMMA FinishRestoreKeeps == ASSUME Inv, NEW c \in Clients, FinishRestore(c) PROVE Open' /\ Sessions' /\ db' = db
<1>1. /\ db' = db /\ undeleted' = undeleted \cup {c} /\ lost' = lost /\ unsaved' = unsaved
      /\ phase' = [phase EXCEPT ![c] = "connack"] /\ clean' = clean /\ mem' = mem /\ content' = content
      /\ phase[c] = "restoring"
  BY DEF FinishRestore, DeleteImage, Begin, Go
<1>2. phase'[c] = "connack"
  BY <1>1, SessionFacts
<1>3. Open'
  BY <1>2, DeleteOpens DEF FinishRestore
<1>4. lost' \subseteq Clients /\ unsaved' \subseteq Clients /\ undeleted' \subseteq Clients
  BY <1>1, SessionFacts
<1>5. Others(lost', lost, c) /\ Others(unsaved', unsaved, c) /\ Others(undeleted', undeleted, c)
  BY <1>1 DEF Others
<1>6. "connack" \in Phases /\ c \in undeleted'
  BY <1>1 DEF Phases
<1>7. /\ clean' = [clean EXCEPT ![c] = clean[c]] /\ mem' = [mem EXCEPT ![c] = mem[c]]
      /\ content' = [content EXCEPT ![c] = content[c]]
      /\ clean[c] \in BOOLEAN /\ mem[c] \in State /\ content[c] \in Contents
      /\ \E x \in AllStates : AsImage(mem[c]) = AsImage(x)
  BY <1>1, SessionFacts
<1>8. content[c] # None /\ c \notin lost' => AsImage(mem[c]) = content[c]
  BY <1>1, SessionFacts DEF Safe
<1>9. ~clean[c]
  BY <1>1, SessionFacts DEF Promised
<1>10. Sessions'
  BY <1>1, <1>4, <1>5, <1>6, <1>7, <1>8, <1>9, OneSession
<1> QED BY <1>1, <1>3, <1>10

LEMMA AnswerKeeps == ASSUME Inv, NEW c \in Clients, Answer(c) PROVE Open' /\ Sessions' /\ db' = db
<1> DEFINE k == IF clean[c] THEN None ELSE AsImage(mem[c])
<1>1. mem[c] # None /\ AsImage(mem[c]) # None /\ k \in Contents
  BY SessionFacts, StateFacts DEF Contents
<1>2. /\ db' = db /\ Idle' /\ undeleted' = undeleted /\ unsaved' = unsaved /\ lost' = lost \ {c}
      /\ phase' = [phase EXCEPT ![c] = "processing"] /\ clean' = clean /\ mem' = mem
      /\ content' = [content EXCEPT ![c] = k] /\ phase[c] = "connack"
  BY <1>1 DEF Answer, Go, Promise, storage, Idle
<1>3. lost' \subseteq Clients /\ unsaved' \subseteq Clients /\ undeleted' \subseteq Clients
  BY <1>2, SessionFacts
<1>4. Others(lost', lost, c) /\ Others(unsaved', unsaved, c) /\ Others(undeleted', undeleted, c)
  BY <1>2 DEF Others
<1>5. /\ clean' = [clean EXCEPT ![c] = clean[c]] /\ mem' = [mem EXCEPT ![c] = mem[c]]
      /\ clean[c] \in BOOLEAN /\ mem[c] \in State
      /\ \E x \in AllStates : AsImage(mem[c]) = AsImage(x)
  BY <1>2, SessionFacts
<1>6. "processing" \in Phases
  BY DEF Phases
<1>7. (k # None => AsImage(mem[c]) = k /\ ~clean[c]) /\ (k = None => clean[c])
  BY <1>1
<1>8. k = None /\ c \notin undeleted' => Image(c) = None
  BY <1>2, <1>7, SessionFacts DEF Clear, Promised
<1> HIDE DEF k
<1>9. Sessions'
  BY <1>1, <1>2, <1>3, <1>4, <1>5, <1>6, <1>7, <1>8, OneSession
<1> QED BY <1>2, <1>9 DEF Open

LEMMA AnswerFailsKeeps == ASSUME Inv, NEW c \in Clients, AnswerFails(c) PROVE Open' /\ Sessions' /\ db' = db
<1>1. /\ db' = db /\ Idle' /\ undeleted' = undeleted /\ unsaved' = unsaved
      /\ phase' = [phase EXCEPT ![c] = "absent"] /\ clean' = clean /\ mem' = [mem EXCEPT ![c] = Fresh]
      /\ content' = content
  BY DEF AnswerFails, Go, Be, storage, Idle
<1>2. lost' = IF content[c] # None THEN lost \cup {c} ELSE lost
  BY DEF AnswerFails, Vanish
<1>3. lost' \subseteq Clients /\ unsaved' \subseteq Clients /\ undeleted' \subseteq Clients
  BY <1>1, <1>2, SessionFacts
<1>4. Others(lost', lost, c) /\ Others(unsaved', unsaved, c) /\ Others(undeleted', undeleted, c)
  BY <1>1, <1>2 DEF Others
<1>5. /\ clean' = [clean EXCEPT ![c] = clean[c]] /\ content' = [content EXCEPT ![c] = content[c]]
      /\ clean[c] \in BOOLEAN /\ content[c] \in Contents
  BY <1>1, SessionFacts
<1>6. "absent" \in Phases /\ (content[c] # None => c \in lost')
  BY <1>2 DEF Phases
<1>7. content[c] = None /\ c \notin undeleted' => Image(c) = None
  BY <1>1, SessionFacts DEF Clear
<1>8. Sessions'
  BY <1>1, <1>3, <1>4, <1>5, <1>6, <1>7, ImagesOfStates, OneSession
<1> QED BY <1>1, <1>8 DEF Open

LEMMA ServeKeeps == ASSUME Inv, NEW c \in Clients, Serve(c) PROVE Open' /\ Sessions' /\ db' = db
<1>1. PICK m \in States[c] : /\ mem' = [mem EXCEPT ![c] = m]
                             /\ content' = [content EXCEPT ![c] = IF (IF clean[c] THEN None ELSE m) = None THEN None
                                                                  ELSE AsImage(IF clean[c] THEN None ELSE m)]
  BY DEF Serve, Be, Promise
<1> DEFINE k == IF clean[c] THEN None ELSE AsImage(m)
<1>2. /\ m \in State /\ m # None /\ AsImage(m) # None /\ k \in Contents
      /\ \E x \in AllStates : AsImage(m) = AsImage(x)
  BY ImagesOfStates, StateFacts DEF Contents
<1>3. content' = [content EXCEPT ![c] = k]
  BY <1>1, <1>2
<1>4. /\ db' = db /\ Idle' /\ undeleted' = undeleted /\ unsaved' = unsaved /\ lost' = lost
      /\ phase' = phase /\ clean' = clean /\ phase[c] = "processing"
  BY DEF Serve, storage, Idle
<1>5. lost' \subseteq Clients /\ unsaved' \subseteq Clients /\ undeleted' \subseteq Clients
  BY <1>4, SessionFacts
<1>6. Others(lost', lost, c) /\ Others(unsaved', unsaved, c) /\ Others(undeleted', undeleted, c)
  BY <1>4 DEF Others
<1>7. /\ clean' = [clean EXCEPT ![c] = clean[c]] /\ phase' = [phase EXCEPT ![c] = "processing"]
      /\ clean[c] \in BOOLEAN /\ "processing" \in Phases
  BY <1>4, SessionFacts DEF Phases
<1>8. (k # None => AsImage(m) = k /\ ~clean[c]) /\ (k = None => clean[c])
  BY <1>2
<1>9. k = None /\ c \notin undeleted' => Image(c) = None
  BY <1>4, <1>8, SessionFacts DEF Clear, Promised
<1> HIDE DEF k
<1>10. Sessions'
  BY <1>1, <1>2, <1>3, <1>4, <1>5, <1>6, <1>7, <1>8, <1>9, OneSession
<1> QED BY <1>4, <1>10 DEF Open

LEMMA LoseConnectionKeeps == ASSUME Inv, NEW c \in Clients, LoseConnection(c) PROVE Open' /\ Sessions' /\ db' = db
<1>1. /\ db' = db /\ undeleted' = undeleted /\ lost' = lost /\ clean' = clean /\ content' = content
      /\ phase[c] = "processing"
  BY DEF LoseConnection, Save, Begin, storage
<1>2. /\ clean' = [clean EXCEPT ![c] = clean[c]] /\ content' = [content EXCEPT ![c] = content[c]]
      /\ clean[c] \in BOOLEAN /\ content[c] \in Contents
  BY <1>1, SessionFacts
<1>3. content[c] = None /\ c \notin undeleted' => Image(c) = None
  BY <1>1, SessionFacts DEF Clear
<1>4. CASE clean[c] /\ Idle /\ Go(c, "absent") /\ Be(c, Fresh) /\ UNCHANGED <<storage, unsaved>>
  <2>1. /\ Idle' /\ unsaved' = unsaved /\ phase' = [phase EXCEPT ![c] = "absent"]
        /\ mem' = [mem EXCEPT ![c] = Fresh]
    BY <1>4 DEF Go, Be, storage, Idle
  <2>2. lost' \subseteq Clients /\ unsaved' \subseteq Clients /\ undeleted' \subseteq Clients
    BY <1>1, <2>1, SessionFacts
  <2>3. Others(lost', lost, c) /\ Others(unsaved', unsaved, c) /\ Others(undeleted', undeleted, c)
    BY <1>1, <2>1 DEF Others
  <2>4. content[c] = None /\ "absent" \in Phases
    BY <1>1, <1>4, SessionFacts DEF Promised, Phases
  <2>5. Sessions'
    BY <1>1, <1>2, <1>3, <2>1, <2>2, <2>3, <2>4, ImagesOfStates, OneSession
  <2> QED BY <1>1, <2>1, <2>5 DEF Open
<1>5. CASE ~clean[c] /\ Save(c) /\ Go(c, "pending") /\ UNCHANGED mem
  <2>1. /\ unsaved' = unsaved \cup {c} /\ phase' = [phase EXCEPT ![c] = "pending"] /\ mem' = mem
    BY <1>5 DEF Go, Save
  <2>2. phase'[c] = "pending" /\ mem'[c] = mem[c]
    BY <2>1, SessionFacts
  <2>3. Open'
    BY <1>5, <2>2, SaveOpens
  <2>4. lost' \subseteq Clients /\ unsaved' \subseteq Clients /\ undeleted' \subseteq Clients
    BY <1>1, <2>1, SessionFacts
  <2>5. Others(lost', lost, c) /\ Others(unsaved', unsaved, c) /\ Others(undeleted', undeleted, c)
    BY <1>1, <2>1 DEF Others
  <2>6. content[c] # None /\ "pending" \in Phases /\ c \in unsaved'
    BY <1>1, <1>5, <2>1, SessionFacts DEF Promised, Phases
  <2>7. c \notin lost' => AsImage(mem[c]) = content[c]
    BY <1>1, <2>6, SessionFacts DEF Safe
  <2>8. /\ mem' = [mem EXCEPT ![c] = mem[c]] /\ mem[c] \in State
        /\ \E x \in AllStates : AsImage(mem[c]) = AsImage(x)
    BY <2>1, SessionFacts
  <2>9. Sessions'
    BY <1>1, <1>2, <2>1, <2>4, <2>5, <2>6, <2>7, <2>8, OneSession
  <2> QED BY <1>1, <2>3, <2>9
<1> QED BY <1>4, <1>5 DEF LoseConnection

LEMMA TakeoverKeeps ==
    ASSUME Inv, NEW c \in Clients, NEW cl \in BOOLEAN, Takeover(c, cl)
    PROVE  Open' /\ Sessions' /\ db' = db
<1>1. /\ db' = db /\ lost' = lost /\ unsaved' = unsaved
      /\ phase' = [phase EXCEPT ![c] = "processing"] /\ clean' = [clean EXCEPT ![c] = cl]
      /\ phase[c] \in {"processing", "pending"} /\ Idle
  BY DEF Takeover, DeleteImage, Begin, storage, Go
<1>2. phase'[c] = "processing" /\ "processing" \in Phases
  BY <1>1, SessionFacts DEF Phases
<1>3. CASE /\ cl /\ DeleteImage(c) /\ Promise(c, None)
           /\ Be(c, Without(mem[c], {"subscriptions", "inflight_messages"}))
  <2> DEFINE m == Without(mem[c], {"subscriptions", "inflight_messages"})
  <2>1. /\ undeleted' = undeleted \cup {c} /\ mem' = [mem EXCEPT ![c] = m]
        /\ content' = [content EXCEPT ![c] = None] /\ None \in Contents
    BY <1>3 DEF DeleteImage, Be, Promise, Contents
  <2>2. {"subscriptions", "inflight_messages"} \in SUBSET Children
    BY TableNames
  <2>3. m \in State /\ \E x \in AllStates : AsImage(m) = AsImage(x)
    BY <2>2, SessionFacts, WithoutFacts, ImagesOfStates
  <2> HIDE DEF m
  <2>4. Open'
    BY <1>2, <1>3, DeleteOpens
  <2>5. lost' \subseteq Clients /\ unsaved' \subseteq Clients /\ undeleted' \subseteq Clients
    BY <1>1, <2>1, SessionFacts
  <2>6. Others(lost', lost, c) /\ Others(unsaved', unsaved, c) /\ Others(undeleted', undeleted, c)
    BY <1>1, <2>1 DEF Others
  <2>7. c \in undeleted' /\ cl
    BY <1>3, <2>1
  <2>8. Sessions'
    BY <1>1, <1>2, <2>1, <2>3, <2>5, <2>6, <2>7, OneSession
  <2> QED BY <1>1, <2>4, <2>8
<1>4. CASE ~cl /\ Promise(c, mem[c]) /\ UNCHANGED <<storage, mem, undeleted>>
  <2>1. mem[c] # None /\ AsImage(mem[c]) # None /\ AsImage(mem[c]) \in Contents
    BY SessionFacts, StateFacts
  <2>2. /\ Idle' /\ undeleted' = undeleted /\ mem' = mem
        /\ content' = [content EXCEPT ![c] = AsImage(mem[c])]
    BY <1>1, <1>4, <2>1 DEF storage, Idle, Promise
  <2>3. /\ mem' = [mem EXCEPT ![c] = mem[c]] /\ mem[c] \in State
        /\ \E x \in AllStates : AsImage(mem[c]) = AsImage(x)
    BY <2>2, SessionFacts
  <2>4. lost' \subseteq Clients /\ unsaved' \subseteq Clients /\ undeleted' \subseteq Clients
    BY <1>1, <2>2, SessionFacts
  <2>5. Others(lost', lost, c) /\ Others(unsaved', unsaved, c) /\ Others(undeleted', undeleted, c)
    BY <1>1, <2>2 DEF Others
  <2>6. Sessions'
    BY <1>1, <1>2, <1>4, <2>1, <2>2, <2>3, <2>4, <2>5, OneSession
  <2> QED BY <1>1, <2>2, <2>6 DEF Open
<1> QED BY <1>3, <1>4 DEF Takeover

LEMMA TakeoverFailsKeeps ==
    ASSUME Inv, NEW c \in Clients, NEW cl \in BOOLEAN, TakeoverFails(c, cl)
    PROVE  Open' /\ Sessions' /\ db' = db
<1>1. db' = db /\ undeleted' = undeleted /\ clean' = clean
  BY DEF TakeoverFails, Save, Begin, storage
<1>2. /\ clean' = [clean EXCEPT ![c] = clean[c]] /\ clean[c] \in BOOLEAN
      /\ mem[c] \in State /\ \E x \in AllStates : AsImage(mem[c]) = AsImage(x)
      /\ mem = [mem EXCEPT ![c] = mem[c]] /\ content = [content EXCEPT ![c] = content[c]]
      /\ content[c] \in Contents /\ AsImage(mem[c]) \in Contents /\ AsImage(mem[c]) # None /\ mem[c] # None
  BY <1>1, SessionFacts, StateFacts
<1>3. content[c] = None /\ c \notin undeleted' => Image(c) = None
  BY <1>1, SessionFacts DEF Clear
<1>4. CASE /\ phase[c] = "processing" /\ cl /\ Idle
           /\ Go(c, "absent") /\ Be(c, Fresh) /\ Vanish({c}) /\ UNCHANGED <<storage, content, unsaved>>
  <2>1. /\ Idle' /\ unsaved' = unsaved /\ phase' = [phase EXCEPT ![c] = "absent"] /\ content' = content
        /\ mem' = [mem EXCEPT ![c] = Fresh]
    BY <1>4 DEF Go, Be, storage, Idle
  <2>2. lost' = IF content[c] # None THEN lost \cup {c} ELSE lost
    BY <1>4 DEF Vanish
  <2>3. lost' \subseteq Clients /\ unsaved' \subseteq Clients /\ undeleted' \subseteq Clients
    BY <1>1, <2>1, <2>2, SessionFacts
  <2>4. Others(lost', lost, c) /\ Others(unsaved', unsaved, c) /\ Others(undeleted', undeleted, c)
    BY <1>1, <2>1, <2>2 DEF Others
  <2>5. "absent" \in Phases /\ (content[c] # None => c \in lost')
    BY <2>2 DEF Phases
  <2>6. /\ content' = [content EXCEPT ![c] = content[c]] /\ content[c] \in Contents
        /\ clean' = [clean EXCEPT ![c] = clean[c]] /\ clean[c] \in BOOLEAN
        /\ Fresh \in State /\ \E x \in AllStates : AsImage(Fresh) = AsImage(x)
    BY <1>2, <2>1, ImagesOfStates
  <2>7. Sessions'
    BY <1>1, <1>3, <2>1, <2>3, <2>4, <2>5, <2>6, OneSession
  <2> QED BY <1>1, <2>1, <2>7 DEF Open
<1>5. CASE /\ phase[c] = "processing" /\ ~cl
           /\ Save(c) /\ Go(c, "pending") /\ Promise(c, mem[c]) /\ UNCHANGED <<mem, lost>>
  <2>1. /\ unsaved' = unsaved \cup {c} /\ phase' = [phase EXCEPT ![c] = "pending"] /\ mem' = mem /\ lost' = lost
        /\ content' = [content EXCEPT ![c] = AsImage(mem[c])]
    BY <1>2, <1>5 DEF Go, Save, Promise
  <2>2. phase'[c] = "pending" /\ mem'[c] = mem[c] /\ "pending" \in Phases /\ c \in unsaved'
    BY <2>1, SessionFacts DEF Phases
  <2>3. Open'
    BY <1>5, <2>2, SaveOpens
  <2>4. lost' \subseteq Clients /\ unsaved' \subseteq Clients /\ undeleted' \subseteq Clients
    BY <1>1, <2>1, SessionFacts
  <2>5. Others(lost', lost, c) /\ Others(unsaved', unsaved, c) /\ Others(undeleted', undeleted, c)
    BY <1>1, <2>1 DEF Others
  <2>6. mem' = [mem EXCEPT ![c] = mem[c]]
    BY <1>2, <2>1
  <2>7. Sessions'
    BY <1>1, <1>2, <2>1, <2>2, <2>4, <2>5, <2>6, OneSession
  <2> QED BY <1>1, <2>3, <2>7
<1>6. CASE /\ phase[c] = "pending"
           /\ Save(c) /\ UNCHANGED <<phase, mem, content, lost>>
  <2>1. /\ unsaved' = unsaved \cup {c} /\ phase' = phase /\ mem' = mem /\ lost' = lost /\ content' = content
    BY <1>6 DEF Save
  <2>2. phase'[c] = "pending" /\ mem'[c] = mem[c] /\ "pending" \in Phases /\ c \in unsaved'
    BY <1>6, <2>1 DEF Phases
  <2>3. Open'
    BY <1>6, <2>2, SaveOpens
  <2>4. lost' \subseteq Clients /\ unsaved' \subseteq Clients /\ undeleted' \subseteq Clients
    BY <1>1, <2>1, SessionFacts
  <2>5. Others(lost', lost, c) /\ Others(unsaved', unsaved, c) /\ Others(undeleted', undeleted, c)
    BY <1>1, <2>1 DEF Others
  <2>6. /\ mem' = [mem EXCEPT ![c] = mem[c]] /\ content' = [content EXCEPT ![c] = content[c]]
        /\ phase' = [phase EXCEPT ![c] = "pending"] /\ clean' = [clean EXCEPT ![c] = clean[c]]
        /\ mem[c] \in State /\ content[c] \in Contents /\ clean[c] \in BOOLEAN
        /\ \E x \in AllStates : AsImage(mem[c]) = AsImage(x)
    BY <1>2, <1>6, <2>1, SessionFacts
  <2>7. content[c] # None /\ (c \notin lost' => AsImage(mem[c]) = content[c])
    BY <1>6, <2>1, SessionFacts DEF Safe, Promised
  <2>8. Sessions'
    BY <1>1, <2>2, <2>4, <2>5, <2>6, <2>7, OneSession
  <2> QED BY <1>1, <2>3, <2>8
<1> QED BY <1>4, <1>5, <1>6 DEF TakeoverFails

LEMMA RestartKeeps == ASSUME Inv, Restart PROVE Open' /\ Sessions' /\ db' = db
<1>1. /\ db' = db /\ Idle' /\ clean' = clean /\ content' = content /\ unsaved' = unsaved /\ undeleted' = undeleted
      /\ phase' = [c \in Clients |-> "absent"] /\ mem' = [c \in Clients |-> Fresh]
      /\ lost' = lost \cup {c \in Clients : /\ content[c] # None
                                            /\ \/ phase[c] \in {"connack", "processing"}
                                               \/ phase[c] = "pending" /\ c \in unsaved}
  BY DEF Restart, Vanish, Idle
<1>2. \A c \in Clients : Image(c)' = Image(c)
  BY <1>1, SameTables DEF Inv
<1>3. \A c \in Clients : phase'[c] = "absent" /\ mem'[c] = Fresh
  BY <1>1
<1>4. \A c \in Clients : phase[c] \in Phases /\ Safe(c) /\ Clear(c)
  BY SessionFacts
<1>5. lost' \subseteq Clients
  BY <1>1 DEF Inv, Sessions, Typed
<1>6. Typed'
  <2>1. /\ clean' \in [Clients -> BOOLEAN] /\ unsaved' \subseteq Clients /\ undeleted' \subseteq Clients
        /\ content' \in [Clients -> [next : Nat, rows : [Children -> SUBSET Row]] \cup {None}]
    BY <1>1 DEF Inv, Sessions, Typed
  <2>2. phase' \in [Clients -> Phases] /\ mem' \in [Clients -> State]
    BY <1>1, ImagesOfStates DEF Phases
  <2> QED BY <1>3, <1>5, <2>1, <2>2, ImagesOfStates DEF Typed, Phases
<1>7. ASSUME NEW c \in Clients PROVE Safe(c)' /\ Clear(c)' /\ Promised(c)'
  <2>1. content[c] # None /\ c \notin lost' => phase[c] \in {"absent", "restoring"} \/ (phase[c] = "pending" /\ c \notin unsaved)
    BY <1>1, <1>4 DEF Phases
  <2>2. content[c] # None /\ c \notin lost' => Image(c) = content[c]
    BY <1>1, <1>4, <2>1 DEF Safe
  <2>3. Safe(c)'
    BY <1>1, <1>2, <1>3, <2>2 DEF Safe
  <2>4. Clear(c)'
    BY <1>1, <1>2, <1>4 DEF Clear
  <2>5. Promised(c)'
    BY <1>3 DEF Promised
  <2> QED BY <2>3, <2>4, <2>5
<1> QED BY <1>1, <1>6, <1>7 DEF Sessions, Open

LEMMA RetainKeeps == ASSUME Inv, NEW x \in Topics, Retain(x) PROVE Open' /\ Sessions' /\ db' = db
<1>1. PICK I \in AllHeld, R \in AllRetained : I = Held /\ R = Kept /\ db = Holding(I, R)
  BY DEF Inv, Whole
<1>2. db' = db /\ UNCHANGED <<sessions, history>>
  BY DEF Retain, Begin
<1>3. Held' = I /\ Kept' = R
  BY <1>1, <1>2, SameTables DEF Inv
<1>4. Sessions'
  BY <1>2, SessionsSame DEF Inv, Sessions, Typed, history
<1>5. IsTables(Holding(I, R))
  BY HoldingMember
<1>6. PICK q \in Seq(Statements), p \in Payloads \cup {None} :
        /\ Begin(x, q)
        /\ Final(Holding(I, R), q) = Holding(I, [R EXCEPT ![x] = p])
  <2>1. ASSUME NEW p \in Payloads, Begin(x, save_retained_message(x, p))
        PROVE  /\ save_retained_message(x, p) \in Seq(Statements) /\ p \in Payloads \cup {None}
               /\ Final(Holding(I, R), save_retained_message(x, p)) = Holding(I, [R EXCEPT ![x] = p])
    BY HoldingRetain
  <2>2. /\ delete_retained_message(x) \in Seq(Statements) /\ None \in Payloads \cup {None}
        /\ Final(Holding(I, R), delete_retained_message(x)) = Holding(I, [R EXCEPT ![x] = None])
    BY HoldingForget
  <2> QED BY <2>1, <2>2 DEF Retain
<1>7. tx' = [by |-> x, tables |-> Holding(I, R), todo |-> q]
  BY <1>1, <1>6 DEF Begin
<1>8. tx'.by = x /\ tx'.tables = Holding(I, R) /\ tx'.todo = q
  BY <1>7
<1>9. Retains(Final(Holding(I, R), q))'
  BY <1>3, <1>6, <1>8 DEF Retains
<1>10. Outcome(Final(tx.tables, tx.todo))'
  BY <1>8, <1>9 DEF Outcome
<1>11. Open'
  BY <1>5, <1>6, <1>7, <1>8, <1>10 DEF Open
<1> QED BY <1>2, <1>4, <1>11

\* The rows of sessions that are older are those of the images saved before.
LEMMA ExpiredFacts ==
    ASSUME NEW I \in AllHeld, NEW R \in AllRetained, ReadsAs(I, R), NEW t
    PROVE  Expired(t) = SavedBefore(I, t)
<1>1. \A c : (\E r \in db["sessions"] : r.owner = c) <=> c \in Clients /\ I[c] # None
  BY DEF ReadsAs
<1>2. \A r \in db["sessions"] : r.owner \in Clients /\ r.data.at = I[r.owner].at
  BY DEF ReadsAs
<1>3. ASSUME NEW c \in Expired(t) PROVE c \in SavedBefore(I, t)
  BY <1>1, <1>2, <1>3 DEF Expired, SavedBefore
<1>4. ASSUME NEW c \in SavedBefore(I, t) PROVE c \in Expired(t)
  <2>1. c \in Clients /\ I[c] # None /\ I[c].at < t
    BY <1>4 DEF SavedBefore
  <2>2. PICK r \in db["sessions"] : r.owner = c
    BY <1>1, <2>1
  <2>3. r.data.at < t
    BY <1>2, <2>1, <2>2
  <2> QED BY <2>2, <2>3 DEF Expired
<1> QED BY <1>3, <1>4

LEMMA ExpireKeeps == ASSUME Inv, NEW t \in Times, Expire(t) PROVE Open' /\ Sessions' /\ db' = db
<1>1. PICK I \in AllHeld, R \in AllRetained : I = Held /\ R = Kept /\ db = Holding(I, R)
  BY DEF Inv, Whole
<1>2. PICK cs \in SetToSeqs(Expired(t)) : Begin(None, delete_expired_sessions(cs))
  BY DEF Expire
<1>3. db' = db /\ UNCHANGED <<sessions, content, unsaved, undeleted>> /\ lost' = lost \cup Expired(t)
  BY <1>2 DEF Expire, Begin
<1>4. Held' = I /\ Kept' = R
  BY <1>1, <1>3, SameTables DEF Inv
<1>5. Expired(t) = SavedBefore(I, t)
  BY <1>1, ReadsWhole, ExpiredFacts
<1>6. Expired(t) \subseteq Clients
  BY <1>5 DEF SavedBefore
<1>7. Sessions'
  BY <1>3, <1>6, SessionsSame DEF Inv, Sessions, Typed
<1>8. IsFiniteSet(Expired(t))
  BY <1>6, FS_Subset, PersistenceAssumption
<1>9. cs \in Seq(Clients) /\ ToSet(cs) = SavedBefore(I, t)
  BY <1>2, <1>5, <1>6, <1>8, SeqsFacts
<1> DEFINE q == delete_expired_sessions(cs)
<1>10. tx' = [by |-> None, tables |-> Holding(I, R), todo |-> q]
  BY <1>1, <1>2 DEF Begin
<1>11. IsTables(Holding(I, R))
  BY HoldingMember
<1>12. q \in Seq(Statements)
  BY <1>9, FinalExpire
<1>13. Final(Holding(I, R), q) = Holding(Gone(I, SavedBefore(I, t)), R)
  BY <1>9, HoldingExpire
<1> HIDE DEF q
<1>14. tx'.by = None /\ tx'.tables = Holding(I, R) /\ tx'.todo = q
  BY <1>10
<1>15. SavedBefore(I, t) \subseteq lost'
  BY <1>3, <1>5
<1>16. Expires(Final(Holding(I, R), q))'
  BY <1>4, <1>13, <1>14, <1>15 DEF Expires
<1>17. Outcome(Final(tx.tables, tx.todo))'
  BY <1>14, <1>16 DEF Outcome
<1>18. Open'
  BY <1>10, <1>11, <1>12, <1>14, <1>17 DEF Open
<1> QED BY <1>3, <1>7, <1>18

\* What the open transaction leads to, once the sessions and the committed
\* tables are the same, is the same.
LEMMA ExecuteKeeps ==
    ASSUME Inv, Execute, UNCHANGED <<sessions, content, lost, unsaved, undeleted>>
    PROVE  Open' /\ Sessions' /\ db' = db
<1>1. db' = db /\ ~Idle /\ tx.todo # <<>>
      /\ tx' = [tx EXCEPT !.tables = Apply(Head(tx.todo), tx.tables), !.todo = Tail(tx.todo)]
  BY DEF Execute
<1>2. PICK T, q, b : /\ tx = [by |-> b, tables |-> T, todo |-> q] /\ IsTables(T) /\ q \in Seq(Statements)
                     /\ T = tx.tables /\ q = tx.todo /\ b = tx.by
  <2>1. /\ IsTables(tx.tables) /\ tx.todo \in Seq(Statements)
        /\ tx = [by |-> tx.by, tables |-> tx.tables, todo |-> tx.todo]
    BY <1>1 DEF Inv, Open
  <2> QED BY <2>1, Zenon
<1>3. PICK F : F = Final(T, q) /\ Outcome(F)
  BY <1>1, <1>2 DEF Inv, Open
<1>4. tx' = [by |-> b, tables |-> Apply(Head(q), T), todo |-> Tail(q)]
  BY <1>1, <1>2
<1>5. tx'.by = b /\ tx'.tables = Apply(Head(q), T) /\ tx'.todo = Tail(q)
  BY <1>4
<1>6. Final(Apply(Head(q), T), Tail(q)) = F /\ IsTables(Apply(Head(q), T)) /\ Tail(q) \in Seq(Statements)
  BY <1>1, <1>2, <1>3, StatementFacts, FinalStep
<1>7. Held' = Held /\ Kept' = Kept
  BY <1>1, SameTables DEF Inv
<1>8. tx'.by = tx.by /\ phase' = phase /\ mem' = mem /\ lost' = lost
  BY <1>2, <1>5 DEF sessions
<1>9. Outcome(F)'
  <2>1. Saves(F) => Saves(F)'
    BY <1>7, <1>8 DEF Saves
  <2>2. Deletes(F) => Deletes(F)'
    BY <1>7, <1>8 DEF Deletes
  <2>3. Expires(F) => Expires(F)'
    BY <1>7, <1>8 DEF Expires
  <2>4. Retains(F) => Retains(F)'
    BY <1>7, <1>8 DEF Retains
  <2> QED BY <1>3, <2>1, <2>2, <2>3, <2>4 DEF Outcome
<1>10. Outcome(Final(tx.tables, tx.todo))'
  BY <1>5, <1>6, <1>9
<1>11. Open'
  BY <1>4, <1>5, <1>6, <1>10 DEF Open
<1>12. Sessions'
  BY <1>1, SessionsSame DEF Inv, Sessions, Typed
<1> QED BY <1>1, <1>11, <1>12

\* The abstract operation that the commit of a transaction is.
Committed(I, R, J, Q) ==
    \/ \E c \in Clients : /\ phase[c] = "pending" /\ tx.by = c
                          /\ J[c] = Dated(AsImage(mem[c]), Now) /\ J = [I EXCEPT ![c] = J[c]] /\ Q = R
    \/ \E c \in Clients : /\ phase[c] \in {"connack", "processing"} /\ tx.by = c
                          /\ J = Gone(I, {c}) /\ Q = R
    \/ \E t \in Times : /\ SavedBefore(I, t) \subseteq lost /\ tx.by = None
                        /\ J = Gone(I, SavedBefore(I, t)) /\ Q = R
    \/ \E x \in Topics, p \in Payloads \cup {None} : tx.by = x /\ J = I /\ Q = [R EXCEPT ![x] = p]

LEMMA CommitFacts ==
    ASSUME Inv, Commit
    PROVE  \E I \in AllHeld, R \in AllRetained, J \in AllHeld, Q \in AllRetained :
             /\ I = Held /\ R = Kept /\ db = Holding(I, R)
             /\ tx.tables = Holding(J, Q) /\ db' = Holding(J, Q)
             /\ Committed(I, R, J, Q)
<1>1. PICK I \in AllHeld, R \in AllRetained : I = Held /\ R = Kept /\ db = Holding(I, R)
  BY DEF Inv, Whole
<1>2. ~Idle /\ tx.todo = <<>> /\ db' = tx.tables
  BY DEF Commit
<1>3. IsTables(tx.tables) /\ Outcome(Final(tx.tables, tx.todo))
  BY <1>2 DEF Inv, Open
<1>4. Final(tx.tables, tx.todo) = tx.tables
  BY <1>2, <1>3, FinalNothing
<1>5. PICK F : F = tx.tables /\ Outcome(F)
  BY <1>3, <1>4
<1>6. CASE Saves(F)
  <2>1. PICK c \in Clients : c = tx.by /\ phase[c] = "pending"
                             /\ F = Holding([I EXCEPT ![c] = Dated(AsImage(mem[c]), Now)], R)
    BY <1>1, <1>6 DEF Saves
  <2>2. PICK m \in AllStates : AsImage(mem[c]) = AsImage(m)
    BY SessionFacts
  <2>3. Dated(AsImage(mem[c]), Now) \in AllImages
    BY <2>2 DEF AllImages, Now, Times
  <2>4. PICK J : J = [I EXCEPT ![c] = Dated(AsImage(mem[c]), Now)]
    OBVIOUS
  <2>5. J \in AllHeld /\ J[c] = Dated(AsImage(mem[c]), Now) /\ J = [I EXCEPT ![c] = J[c]]
    BY <2>3, <2>4 DEF AllHeld
  <2>6. Committed(I, R, J, R)
    BY <2>1, <2>5 DEF Committed
  <2> QED BY <1>1, <1>2, <1>5, <2>1, <2>4, <2>5, <2>6
<1>7. CASE Deletes(F)
  <2>1. PICK c \in Clients : c = tx.by /\ phase[c] \in {"connack", "processing"} /\ F = Holding(Gone(I, {c}), R)
    BY <1>1, <1>7 DEF Deletes
  <2>2. Gone(I, {c}) \in AllHeld
    BY HoldingDelete
  <2>3. Committed(I, R, Gone(I, {c}), R)
    BY <2>1 DEF Committed
  <2> QED BY <1>1, <1>2, <1>5, <2>1, <2>2, <2>3
<1>8. CASE Expires(F)
  <2>1. PICK t \in Times : SavedBefore(I, t) \subseteq lost /\ tx.by = None /\ F = Holding(Gone(I, SavedBefore(I, t)), R)
    BY <1>1, <1>8 DEF Expires
  <2>2. Gone(I, SavedBefore(I, t)) \in AllHeld
    BY DEF Gone, AllHeld
  <2>3. Committed(I, R, Gone(I, SavedBefore(I, t)), R)
    BY <2>1 DEF Committed
  <2> QED BY <1>1, <1>2, <1>5, <2>1, <2>2, <2>3
<1>9. CASE Retains(F)
  <2>1. PICK x \in Topics, p \in Payloads \cup {None} : tx.by = x /\ F = Holding(I, [R EXCEPT ![x] = p])
    BY <1>1, <1>9 DEF Retains
  <2>2. [R EXCEPT ![x] = p] \in AllRetained
    BY DEF AllRetained
  <2>3. Committed(I, R, I, [R EXCEPT ![x] = p])
    BY <2>1 DEF Committed
  <2> QED BY <1>1, <1>2, <1>5, <2>1, <2>2, <2>3
<1> QED BY <1>5, <1>6, <1>7, <1>8, <1>9 DEF Outcome

LEMMA CommitKeeps ==
    ASSUME Inv, Commit, unsaved' = unsaved \ {tx.by},
           undeleted' = {c \in undeleted : \E r \in tx.tables["sessions"] : r.owner = c},
           UNCHANGED <<sessions, content, lost>>
    PROVE  Inv'
<1>1. PICK I \in AllHeld, R \in AllRetained, J \in AllHeld, Q \in AllRetained :
        /\ I = Held /\ R = Kept /\ db = Holding(I, R)
        /\ tx.tables = Holding(J, Q) /\ db' = Holding(J, Q)
        /\ Committed(I, R, J, Q)
  BY CommitFacts
<1>2. \A c \in Clients : Image(c) = Undated(I[c])
  BY <1>1, ReadsWhole DEF ReadsAs
<1>3. Whole' /\ \A c \in Clients : Image(c)' = Undated(J[c])
  BY <1>1, WholeNext
<1>4. \A c \in Clients : (\E r \in tx.tables["sessions"] : r.owner = c) <=> J[c] # None
  <2>1. ReadsAs(J, Q)'
    BY <1>1, ReadsWholeNext
  <2>2. \A c : (\E r \in db'["sessions"] : r.owner = c) <=> c \in Clients /\ J[c] # None
    BY <2>1 DEF ReadsAs
  <2> QED BY <1>1, <2>2
<1>5. Idle'
  BY DEF Commit, Idle
<1>6. /\ phase' = phase /\ clean' = clean /\ mem' = mem /\ content' = content /\ lost' = lost
      /\ unsaved' \subseteq unsaved /\ undeleted' \subseteq undeleted
  BY DEF sessions
<1>7. Typed'
  BY <1>6 DEF Inv, Sessions, Typed
<1>8. \A c \in Clients : phase[c] \in Phases /\ Safe(c) /\ Clear(c) /\ Promised(c)
  BY SessionFacts
<1>9. \A c \in Clients : Promised(c)'
  BY <1>6, <1>8 DEF Promised
<1>10. \A c \in Clients : c \in undeleted' <=> c \in undeleted /\ J[c] # None
  BY <1>4
<1>11. \A c \in Clients : c \notin undeleted' => c \notin undeleted \/ J[c] = None
  BY <1>10
<1>12. ASSUME \A c \in Clients : J[c] = I[c] \/ J[c] = None \/ content[c] # None PROVE \A c \in Clients : Clear(c)'
  <2> SUFFICES ASSUME NEW c \in Clients, content[c] = None, c \notin undeleted' PROVE Undated(J[c]) = None
    BY <1>3, <1>6 DEF Clear
  <2>1. CASE J[c] = None
    BY <2>1 DEF Undated
  <2>2. CASE J[c] # None
    <3>1. J[c] = I[c] /\ c \notin undeleted
      BY <1>11, <1>12, <2>2
    <3>2. Image(c) = None
      BY <1>8, <3>1 DEF Clear
    <3> QED BY <1>2, <3>1, <3>2
  <2> QED BY <2>1, <2>2
<1>13. ASSUME NEW c \in Clients, J[c] = I[c], c # tx.by PROVE Safe(c)'
  <2>1. Image(c)' = Image(c) /\ (c \in unsaved' <=> c \in unsaved)
    BY <1>2, <1>3, <1>13
  <2> QED BY <1>6, <1>8, <2>1 DEF Safe
<1>14. (\A c \in Clients : Safe(c)') /\ (\A c \in Clients : Clear(c)')
  <2>1. CASE \E c \in Clients : /\ phase[c] = "pending" /\ tx.by = c
                                /\ J[c] = Dated(AsImage(mem[c]), Now) /\ J = [I EXCEPT ![c] = J[c]] /\ Q = R
    <3>1. PICK c \in Clients : /\ phase[c] = "pending" /\ tx.by = c
                               /\ J[c] = Dated(AsImage(mem[c]), Now) /\ J = [I EXCEPT ![c] = J[c]]
      BY <2>1
    <3>2. \A d \in Clients : d # c => J[d] = I[d]
      <4>1. J \in [Clients -> AllImages \cup {None}] /\ I \in [Clients -> AllImages \cup {None}]
        BY DEF AllHeld
      <4> QED BY <3>1, <4>1
    <3>3. content[c] # None
      BY <1>8, <3>1 DEF Promised
    <3>4. Undated(J[c]) = AsImage(mem[c])
      <4>1. mem[c] \in State
        BY SessionFacts
      <4>2. AsImage(mem[c]) \in [next : Nat, rows : [Children -> SUBSET Row]]
        BY <4>1, StateFacts
      <4>3. J[c] = [next |-> AsImage(mem[c]).next, rows |-> AsImage(mem[c]).rows, at |-> Now]
        BY <3>1 DEF Dated
      <4>4. J[c].next = AsImage(mem[c]).next /\ J[c].rows = AsImage(mem[c]).rows
        BY <4>3
      <4>5. J[c] \in [next : Nat, rows : [Children -> SUBSET Row], at : Nat]
        BY <4>2, <4>3 DEF Now
      <4>6. J[c] # None
        BY <4>5, PersistenceAssumption
      <4> QED BY <4>2, <4>4, <4>6 DEF Undated
    <3>5. c \notin lost => AsImage(mem[c]) = content[c]
      BY <1>8, <3>1, <3>3 DEF Safe
    <3>6. Safe(c)'
      BY <1>3, <1>6, <3>1, <3>4, <3>5 DEF Safe
    <3>7. \A d \in Clients : Safe(d)'
      BY <1>13, <3>1, <3>2, <3>6
    <3>8. \A d \in Clients : J[d] = I[d] \/ J[d] = None \/ content[d] # None
      BY <3>2, <3>3
    <3> QED BY <1>12, <3>7, <3>8
  <2>2. CASE \E c \in Clients : /\ phase[c] \in {"connack", "processing"} /\ tx.by = c
                                /\ J = Gone(I, {c}) /\ Q = R
    <3>1. PICK c \in Clients : phase[c] \in {"connack", "processing"} /\ tx.by = c /\ J = Gone(I, {c})
      BY <2>2
    <3>2. \A d \in Clients : J[d] = IF d = c THEN None ELSE I[d]
      BY <3>1 DEF Gone
    <3>3. Safe(c)'
      BY <1>6, <1>8, <3>1 DEF Safe
    <3>4. \A d \in Clients : Safe(d)'
      BY <1>13, <3>1, <3>2, <3>3
    <3> QED BY <1>12, <3>2, <3>4
  <2>3. CASE \E t \in Times : /\ SavedBefore(I, t) \subseteq lost /\ tx.by = None
                              /\ J = Gone(I, SavedBefore(I, t)) /\ Q = R
    <3>1. PICK t \in Times : SavedBefore(I, t) \subseteq lost /\ tx.by = None /\ J = Gone(I, SavedBefore(I, t))
      BY <2>3
    <3>2. \A d \in Clients : J[d] = IF d \in SavedBefore(I, t) THEN None ELSE I[d]
      BY <3>1 DEF Gone
    <3>3. None \notin Clients
      BY OwnersAssumption
    <3>4. \A d \in Clients : d \in lost => Safe(d)'
      BY <1>6 DEF Safe
    <3>5. \A d \in Clients : Safe(d)'
      BY <1>13, <3>1, <3>2, <3>3, <3>4
    <3> QED BY <1>12, <3>2, <3>5
  <2>4. CASE \E x \in Topics, p \in Payloads \cup {None} : tx.by = x /\ J = I /\ Q = [R EXCEPT ![x] = p]
    <3>1. tx.by \notin Clients /\ \A d \in Clients : J[d] = I[d]
      BY <2>4, OwnersAssumption
    <3>2. \A d \in Clients : Safe(d)'
      BY <1>13, <3>1
    <3> QED BY <1>12, <3>1, <3>2
  <2> QED BY <1>1, <2>1, <2>2, <2>3, <2>4 DEF Committed
<1> QED BY <1>3, <1>5, <1>7, <1>9, <1>14 DEF Inv, Open, Sessions

LEMMA RollbackKeeps ==
    ASSUME Inv, Rollback, UNCHANGED <<sessions, content, lost, unsaved, undeleted>>
    PROVE  Open' /\ Sessions' /\ db' = db
<1>1. db' = db /\ Idle'
  BY DEF Rollback, Idle
<1>2. Sessions'
  BY <1>1, SessionsSame DEF Inv, Sessions, Typed
<1> QED BY <1>1, <1>2 DEF Open

LEMMA StutterKeeps == ASSUME Inv, UNCHANGED vars PROVE Open' /\ Sessions' /\ db' = db
<1>1. db' = db /\ tx' = tx /\ phase' = phase /\ mem' = mem /\ lost' = lost
      /\ UNCHANGED <<sessions, content, unsaved, undeleted>>
  BY DEF vars, storage, sessions, history
<1>2. Sessions'
  BY <1>1, SessionsSame DEF Inv, Sessions, Typed
<1>3. Held' = Held /\ Kept' = Kept
  BY <1>1, SameTables DEF Inv
<1>4. Open'
  BY <1>1, <1>3 DEF Inv, Open, Idle, Outcome, Saves, Deletes, Expires, Retains
<1> QED BY <1>1, <1>2, <1>4

\* A step of the system commits a transaction or leaves the tables alone.
LEMMA StepKeeps ==
    ASSUME Inv, [Next]_vars
    PROVE  Inv' /\ (db' = db \/ Commit)
<1>1. (Open' /\ Sessions' /\ db' = db) => Inv' /\ (db' = db \/ Commit)
  BY SameTables DEF Inv
<1>2. ASSUME NEW c \in Clients \ Away, Session(c) PROVE Open' /\ Sessions' /\ db' = db
  BY <1>2, ConnectCleanKeeps, ConnectNewKeeps, FinishRestoreKeeps, AnswerKeeps, AnswerFailsKeeps, LoadKeeps,
     ServeKeeps, LoseConnectionKeeps, TakeoverKeeps, TakeoverFailsKeeps DEF Session
<1>3. ASSUME NEW t \in Topics, Retain(t) PROVE Open' /\ Sessions' /\ db' = db
  BY <1>3, RetainKeeps
<1>4. ASSUME NEW t \in Times, Expire(t) PROVE Open' /\ Sessions' /\ db' = db
  BY <1>4, ExpireKeeps
<1>5. ASSUME Step PROVE Inv' /\ (db' = db \/ Commit)
  <2>1. CASE Execute /\ UNCHANGED <<unsaved, undeleted>>
    BY <1>1, <1>5, <2>1, ExecuteKeeps DEF Step
  <2>2. CASE Rollback /\ UNCHANGED <<unsaved, undeleted>>
    BY <1>1, <1>5, <2>2, RollbackKeeps DEF Step
  <2>3. CASE /\ Commit /\ unsaved' = unsaved \ {tx.by}
             /\ undeleted' = {c \in undeleted : \E r \in tx.tables["sessions"] : r.owner = c}
    BY <1>5, <2>3, CommitKeeps DEF Step
  <2> QED BY <1>5, <2>1, <2>2, <2>3 DEF Step
<1>6. ASSUME Restart PROVE Open' /\ Sessions' /\ db' = db
  BY <1>6, RestartKeeps
<1>7. ASSUME UNCHANGED vars PROVE Open' /\ Sessions' /\ db' = db
  BY <1>7, StutterKeeps
<1>8. Next => Inv' /\ (db' = db \/ Commit)
  BY <1>1, <1>2, <1>3, <1>4, <1>5, <1>6 DEF Next
<1> QED BY <1>1, <1>7, <1>8

LEMMA InvHolds == Spec => []Inv
<1>1. Inv /\ [Next]_vars => Inv'
  BY StepKeeps
<1> QED BY InitKeeps, <1>1, PTL DEF Spec

(***************************************************************************)
(* NoOrphans: for any clients, topics and states, no statement sequence    *)
(* that commits leaves rows of a client that has no row in sessions.       *)
(***************************************************************************)
THEOREM NoOrphanRows == Spec => []NoOrphans
<1>1. Inv => NoOrphans
  BY ReadsWhole DEF Inv, Whole, ReadsAs
<1> QED BY <1>1, InvHolds, PTL

(***************************************************************************)
(* StateKept: a promised state is in the session or in storage, unless one *)
(* of the named causes has lost it.                                        *)
(***************************************************************************)
THEOREM PromisesKept == Spec => []StateKept
<1>1. Inv => StateKept
  <2> SUFFICES ASSUME Inv, NEW c \in Clients, content[c] # None, c \notin lost
               PROVE  \/ phase[c] \in {"restoring", "connack", "processing", "pending"} /\ AsImage(mem[c]) = content[c]
                      \/ phase[c] = "absent" /\ Image(c) = content[c]
    BY DEF StateKept
  <2>1. phase[c] \in Phases /\ Safe(c)
    BY SessionFacts
  <2> QED BY <2>1 DEF Safe, Phases
<1> QED BY <1>1, InvHolds, PTL

(***************************************************************************)
(* CleanIsForgotten: what a clean connection was to forget is not in       *)
(* storage once its deletion is committed.                                 *)
(***************************************************************************)
THEOREM CleanForgets == Spec => []CleanIsForgotten
<1>1. Inv => CleanIsForgotten
  BY DEF Inv, Sessions, Clear, CleanIsForgotten
<1> QED BY <1>1, InvHolds, PTL

(***************************************************************************)
(* The refinement: read as images and retained messages, the committed     *)
(* tables behave as the abstract Storage.  Every commit is one of its      *)
(* operations, every other step changes nothing.                           *)
(***************************************************************************)
LEMMA CommitImplements == ASSUME Inv, Commit PROVE Abstract!Next
<1>1. PICK I \in AllHeld, R \in AllRetained, J \in AllHeld, Q \in AllRetained :
        /\ I = Held /\ R = Kept /\ db = Holding(I, R)
        /\ tx.tables = Holding(J, Q) /\ db' = Holding(J, Q)
        /\ Committed(I, R, J, Q)
  BY CommitFacts
<1>2. Held' = J /\ Kept' = Q
  BY <1>1, WholeNext
<1>3. /\ [c \in Clients |-> StoredImage(c)] = I /\ [t \in Topics |-> StoredMessage(t)] = R
      /\ [c \in Clients |-> StoredImage(c)]' = J /\ [t \in Topics |-> StoredMessage(t)]' = Q
  BY <1>1, <1>2 DEF Held, Kept
<1>4. I = [c \in Clients |-> I[c]] /\ R = [t \in Topics |-> R[t]]
  BY DEF AllHeld, AllRetained
<1>5. CASE \E c \in Clients : /\ phase[c] = "pending" /\ tx.by = c
                              /\ J[c] = Dated(AsImage(mem[c]), Now) /\ J = [I EXCEPT ![c] = J[c]] /\ Q = R
  <2>1. PICK c \in Clients : J[c] = Dated(AsImage(mem[c]), Now) /\ J = [I EXCEPT ![c] = J[c]] /\ Q = R
    BY <1>5
  <2>2. PICK m \in AllStates : AsImage(mem[c]) = AsImage(m)
    BY SessionFacts
  <2>3. J[c] \in AllImages
    BY <2>1, <2>2 DEF AllImages, Now, Times
  <2>4. Abstract!save_session(c)
    BY <1>3, <2>1, <2>3 DEF Abstract!save_session
  <2> QED BY <2>4 DEF Abstract!Next
<1>6. CASE \E c \in Clients : /\ phase[c] \in {"connack", "processing"} /\ tx.by = c
                              /\ J = Gone(I, {c}) /\ Q = R
  <2>1. PICK c \in Clients : J = Gone(I, {c}) /\ Q = R
    BY <1>6
  <2>2. J = [I EXCEPT ![c] = None]
    BY <1>4, <2>1 DEF Gone
  <2>3. Abstract!delete_session(c)
    BY <1>3, <2>1, <2>2 DEF Abstract!delete_session
  <2> QED BY <2>3 DEF Abstract!Next
<1>7. CASE \E t \in Times : /\ SavedBefore(I, t) \subseteq lost /\ tx.by = None
                            /\ J = Gone(I, SavedBefore(I, t)) /\ Q = R
  <2>1. PICK t \in Times : J = Gone(I, SavedBefore(I, t)) /\ Q = R
    BY <1>7
  <2>2. J = [c \in Clients |-> IF I[c] # None /\ I[c].at < t THEN None ELSE I[c]]
    BY <2>1 DEF Gone, SavedBefore
  <2>3. Abstract!delete_expired_sessions(t)
    BY <1>3, <2>1, <2>2 DEF Abstract!delete_expired_sessions
  <2> QED BY <2>3 DEF Abstract!Next
<1>8. CASE \E x \in Topics, p \in Payloads \cup {None} : tx.by = x /\ J = I /\ Q = [R EXCEPT ![x] = p]
  <2>1. PICK x \in Topics, p \in Payloads \cup {None} : J = I /\ Q = [R EXCEPT ![x] = p]
    BY <1>8
  <2>2. Q[x] = p
    BY <1>4, <2>1
  <2>3. CASE p \in Payloads
    <3>1. Abstract!save_retained_message(x)
      BY <1>3, <2>1, <2>2, <2>3 DEF Abstract!save_retained_message
    <3> QED BY <3>1 DEF Abstract!Next
  <2>4. CASE p = None
    <3>1. Abstract!delete_retained_message(x)
      BY <1>3, <2>1, <2>4 DEF Abstract!delete_retained_message
    <3> QED BY <3>1 DEF Abstract!Next
  <2> QED BY <2>3, <2>4
<1> QED BY <1>1, <1>5, <1>6, <1>7, <1>8 DEF Committed

\* ImplementsStorage: whatever fails and wherever the broker stops, the tables
\* of SqliteStorage go from one whole image to the next.
THEOREM SqliteImplementsStorage == Spec => ImplementsStorage
<1>1. Init => Abstract!Init
  <2> SUFFICES ASSUME Init PROVE Abstract!Init
    OBVIOUS
  <2>1. Held \in AllHeld /\ Kept \in AllRetained
    BY InitKeeps DEF Inv, Whole
  <2> QED BY <2>1 DEF Abstract!Init, Held, Kept, AllHeld, AllRetained
<1>2. ASSUME Inv, [Next]_vars PROVE [Abstract!Next]_(Abstract!vars)
  <2>1. CASE db' = db
    <3>1. Held' = Held /\ Kept' = Kept
      BY <1>2, <2>1, SameTables DEF Inv
    <3> QED BY <3>1 DEF Abstract!vars, Held, Kept
  <2>2. CASE Commit
    BY <1>2, <2>2, CommitImplements
  <2> QED BY <1>2, <2>1, <2>2, StepKeeps
<1> QED BY <1>1, <1>2, InvHolds, PTL DEF Spec, ImplementsStorage, Abstract!Spec
=============================================================================

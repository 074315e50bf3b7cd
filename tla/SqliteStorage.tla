---------------------------- MODULE SqliteStorage ----------------------------
(***************************************************************************)
(* The SQLite backend (src/src/storage/sqlite.rs).  An operation that      *)
(* writes is a sequence of statements executed one by one on the tables as *)
(* its transaction sees them; they replace the committed tables when it    *)
(* commits.  The connection's mutex admits one operation at a time.  An    *)
(* operation on a retained message is one statement, which SQLite wraps    *)
(* into a transaction of its own.                                          *)
(*                                                                         *)
(* Abstractions.  A row has its owner (client id or topic), the rest of    *)
(* its primary key and its other columns as one value; the columns are     *)
(* written and read back by conversions that are inverse to each other     *)
(* (StoredQoS, PersistedQos2State, the four columns of the will).  Times   *)
(* are compared as RFC 3339 strings in UTC, which order like the times.    *)
(* created_at, which nothing reads except to sort rows that all have the   *)
(* same one, is left out.                                                  *)
(***************************************************************************)
EXTENDS Naturals, Sequences, FiniteSets

CONSTANTS
    Clients, Topics, None,
    Only \* the key of a row whose owner has no other in the table

ASSUME OwnersAssumption == Clients \cap Topics = {} /\ None \notin Clients \cup Topics

VARIABLES
    db, \* the committed tables: for each the set of its rows
    tx  \* the open transaction: who asked, its tables, its statements; or None

storage == <<db, tx>>

Children == {"subscriptions", "inflight_messages", "inbound_qos2_messages"}
Tables   == Children \cup {"sessions", "retained_messages"}

NoRows == [t \in Tables |-> {}]

\* initialize_schema: CREATE TABLE IF NOT EXISTS keeps what is there.
StorageInit(tables) == db = tables /\ tx = None

-----------------------------------------------------------------------------
(***************************************************************************)
(* Statements and the operations made of them.                             *)
(***************************************************************************)
Delete(t, o)       == [do |-> "delete", table |-> t, owner |-> o]
Insert(t, o, k, d) == [do |-> "insert", table |-> t, row |-> [owner |-> o, key |-> k, data |-> d]]
Upsert(t, o, d)    == [do |-> "upsert", table |-> t, row |-> [owner |-> o, key |-> Only, data |-> d]]

\* INSERT into a table with PRIMARY KEY (owner, key).
Conflicts(s, tables) ==
    /\ s.do = "insert"
    /\ \E r \in tables[s.table] : r.owner = s.row.owner /\ r.key = s.row.key

Apply(s, tables) ==
    [tables EXCEPT ![s.table] =
        CASE s.do = "delete" -> {r \in @ : r.owner # s.owner}
          [] s.do = "insert" -> @ \cup {s.row}
          [] s.do = "upsert" -> {r \in @ : r.owner # s.row.owner} \cup {s.row}]

\* Delete all rows of a client, then insert the given ones, each <<key, data>>.
Replace(t, c, rows) ==
    <<Delete(t, c)>> \o [i \in DOMAIN rows |-> Insert(t, c, rows[i][1], rows[i][2])]

save_session(c, session, rows) ==
    <<Upsert("sessions", c, session)>>
        \o Replace("subscriptions", c, rows["subscriptions"])
        \o Replace("inflight_messages", c, rows["inflight_messages"])
        \o Replace("inbound_qos2_messages", c, rows["inbound_qos2_messages"])

\* Mutant: one table is forgotten.
DeleteKeepsInbound(c) ==
    <<Delete("inflight_messages", c), Delete("subscriptions", c), Delete("sessions", c)>>

delete_client_data(c) ==
    <<Delete("inflight_messages", c), Delete("inbound_qos2_messages", c),
      Delete("subscriptions", c), Delete("sessions", c)>>

\* The sessions that delete_expired_sessions finds, and what it does with them
\* in the order cs in which the query returned them.
Expired(older_than) == {r.owner : r \in {s \in db["sessions"] : s.data.at < older_than}}

delete_expired_sessions(cs) ==
    LET n == Len(delete_client_data(None))
    IN  [k \in 1..(n * Len(cs)) |-> delete_client_data(cs[1 + ((k - 1) \div n)])[1 + ((k - 1) % n)]]

save_retained_message(t, p) == <<Upsert("retained_messages", t, p)>>
delete_retained_message(t)  == <<Delete("retained_messages", t)>>

\* load_session, load_subscriptions, load_inflight_messages,
\* load_inbound_qos2_messages and load_retained_message.
load(t, o) == {<<r.key, r.data>> : r \in {s \in db[t] : s.owner = o}}

-----------------------------------------------------------------------------
Idle == tx = None

Begin(by, statements) ==
    /\ Idle
    /\ tx' = [by |-> by, tables |-> db, todo |-> statements]
    /\ UNCHANGED db

\* Mutant: the statement runs on the connection and not in the transaction.
ExecuteAutocommit ==
    /\ ~Idle /\ tx.todo # <<>>
    /\ ~Conflicts(Head(tx.todo), tx.tables)
    /\ db' = Apply(Head(tx.todo), db)
    /\ tx' = [tx EXCEPT !.tables = Apply(Head(tx.todo), @), !.todo = Tail(@)]

Execute ==
    /\ ~Idle /\ tx.todo # <<>>
    /\ ~Conflicts(Head(tx.todo), tx.tables)
    /\ tx' = [tx EXCEPT !.tables = Apply(Head(tx.todo), @), !.todo = Tail(@)]
    /\ UNCHANGED db

Commit ==
    /\ ~Idle /\ tx.todo = <<>>
    /\ db' = tx.tables
    /\ tx' = None

\* A statement or the commit fails, by a conflict or by an I/O error: the
\* Transaction is dropped, which rolls it back, and the caller gets the error.
Rollback ==
    /\ ~Idle
    /\ tx' = None
    /\ UNCHANGED db
=============================================================================

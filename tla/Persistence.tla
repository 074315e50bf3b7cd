----------------------------- MODULE Persistence -----------------------------
(***************************************************************************)
(* Sessions and the SQLite backend together: when a session of             *)
(* src/src/session.rs saves, restores and deletes its image, with errors   *)
(* of the storage, of the connection and crashes of the broker anywhere in *)
(* between.                                                                *)
(*                                                                         *)
(* A storage call is synchronous, so no other session runs before it has   *)
(* returned, and its caller only logs an error.  The caller's next phase   *)
(* is therefore set when the call begins.  Restoring awaits the router     *)
(* between its loads and its delete.                                       *)
(*                                                                         *)
(* Abstractions.  The state of a session is one of States; how handlers    *)
(* change it is the subject of Outbound and Inbound.  The will is part of  *)
(* the row in "sessions", as is next_packet_id.  A client has one session  *)
(* at a time.                                                              *)
(***************************************************************************)
EXTENDS SqliteStorage, SequencesExt

CONSTANTS
    States,   \* client -> the states its session may be in
    Fresh,    \* the state of a new session
    Away,     \* clients saved by an earlier broker that do not connect to this one
    Row,      \* what a row of a session holds besides its owner: <<key, data>>
    Payloads  \* retained messages the router stores

State == [next : Nat, rows : [Children -> Seq(Row)]]

ASSUME PersistenceAssumption ==
    /\ IsFiniteSet(Clients) /\ Away \subseteq Clients
    /\ Fresh \in State /\ \A c \in Clients : States[c] # {} /\ States[c] \subseteq State
    /\ \A r \in Row : r = <<r[1], r[2]>>
    /\ None \notin Payloads /\ None \notin State
    /\ None \notin [next : Nat, rows : [Children -> SUBSET Row]]
    /\ None \notin [next : Nat, rows : [Children -> SUBSET Row], at : Nat]

\* updated_at of what an earlier broker saved, and of what this one saves.
Before == 1
Now    == 2
Times  == 1..3

VARIABLES
    phase,     \* "absent", "restoring", "connack", "processing" or "pending"
    clean,     \* clean_session
    mem,       \* the session's state in memory; Fresh if absent
    content,   \* history: the persistent state the client was last promised, or None
    lost,      \* history: clients whose promised state was lost, by a cause named below
    unsaved,   \* history: clients whose last save has not been committed
    undeleted  \* history: clients whose image had to go and has not

sessions == <<phase, clean, mem>>
history  == <<content, lost, unsaved, undeleted>>
vars     == <<storage, sessions, history>>

\* What save_session writes of a state, and what is in the tables.
AsImage(m) == [next |-> m.next, rows |-> [t \in Children |-> ToSet(m.rows[t])]]

Image(c) ==
    IF load("sessions", c) = {} THEN None
    ELSE LET s == CHOOSE x \in load("sessions", c) : TRUE
         IN  [next |-> s[2].next, rows |-> [t \in Children |-> load(t, c)]]

Without(m, F) == [next |-> m.next, rows |-> [t \in Children |-> IF t \in F THEN <<>> ELSE m.rows[t]]]

\* The tables that hold the images I and the retained messages R.
Holding(I, R) ==
    LET saved == {c \in Clients : I[c] # None}
    IN  [t \in Tables |->
           CASE t = "sessions" ->
                  {[owner |-> c, key |-> Only, data |-> [next |-> I[c].next, at |-> I[c].at]] : c \in saved}
             [] t = "retained_messages" ->
                  {[owner |-> x, key |-> Only, data |-> R[x]] : x \in {y \in Topics : R[y] # None}}
             [] OTHER ->
                  UNION {{[owner |-> c, key |-> r[1], data |-> r[2]] : r \in I[c].rows[t]} : c \in saved}]

Dated(image, at) == [next |-> image.next, rows |-> image.rows, at |-> at]

SavedEarlier ==
    Holding([c \in Clients |-> IF c \in Away THEN Dated(AsImage(CHOOSE m \in States[c] : TRUE), Before)
                                              ELSE None],
            [t \in Topics |-> None])

Init ==
    /\ StorageInit(SavedEarlier)
    /\ phase = [c \in Clients |-> "absent"] /\ clean = [c \in Clients |-> TRUE]
    /\ mem   = [c \in Clients |-> Fresh]
    /\ content = [c \in Clients |-> Image(c)] /\ lost = {} /\ unsaved = {} /\ undeleted = {}

-----------------------------------------------------------------------------
Go(c, ph) == phase' = [phase EXCEPT ![c] = ph]
Be(c, m)  == mem' = [mem EXCEPT ![c] = m]

Promise(c, m) == content' = [content EXCEPT ![c] = IF m = None THEN None ELSE AsImage(m)]

\* The sessions C are gone.  What they promised is lost if they had not got as
\* far as saving it, or had restored it and so deleted it from storage.
Vanish(C) ==
    lost' = lost \cup {c \in C : /\ content[c] # None
                               /\ \/ phase[c] \in {"connack", "processing"}
                                  \/ phase[c] = "pending" /\ c \in unsaved}

\* save_to_storage
Save(c) ==
    /\ Begin(c, save_session(c, [next |-> mem[c].next, at |-> Now], mem[c].rows))
    /\ unsaved' = unsaved \cup {c}

\* delete_session
DeleteImage(c) ==
    /\ Begin(c, delete_client_data(c))
    /\ undeleted' = undeleted \cup {c}

\* Mutant: a clean connection leaves the image.
ConnectCleanKeepsImage(c) ==
    /\ Idle /\ phase[c] = "absent"
    /\ Go(c, "connack") /\ clean' = [clean EXCEPT ![c] = TRUE] /\ Be(c, Fresh)
    /\ Promise(c, None)
    /\ UNCHANGED <<storage, lost, unsaved, undeleted>>

\* on_connect without a collision, clean_session = true.
ConnectClean(c) ==
    /\ phase[c] = "absent"
    /\ DeleteImage(c)
    /\ Go(c, "connack") /\ clean' = [clean EXCEPT ![c] = TRUE] /\ Be(c, Fresh)
    /\ Promise(c, None)
    /\ UNCHANGED <<lost, unsaved>>

\* on_connect with clean_session = false: no image, or load_session fails.
ConnectNew(c) ==
    /\ Idle /\ phase[c] = "absent"
    /\ Go(c, "connack") /\ clean' = [clean EXCEPT ![c] = FALSE] /\ Be(c, Fresh)
    /\ lost' = IF content[c] # None THEN lost \cup {c} ELSE lost
    /\ UNCHANGED <<storage, content, unsaved, undeleted>>

\* Mutant: the image is deleted before it is loaded.
LoadDeletesFirst(c, F) ==
    /\ phase[c] = "absent"
    /\ DeleteImage(c)
    /\ Go(c, "connack") /\ clean' = [clean EXCEPT ![c] = FALSE] /\ Be(c, Fresh)
    /\ UNCHANGED <<content, lost, unsaved>>

\* restore_from_storage: load_session has found the image, the loads of the
\* tables F fail and yield nothing.  Rows come in any order: the in-flight
\* messages were all written with the same created_at.
Load(c, F) ==
    /\ Idle /\ phase[c] = "absent" /\ Image(c) # None
    /\ Go(c, "restoring") /\ clean' = [clean EXCEPT ![c] = FALSE]
    /\ \E order \in SetToSeqs(Image(c).rows["inflight_messages"]) :
        Be(c, Without([next |-> Image(c).next,
                       rows |-> [t \in Children |->
                          IF t = "inflight_messages" THEN order
                          ELSE SetToSeq(Image(c).rows[t])]], F))
    /\ lost' = IF \E t \in F : Image(c).rows[t] # {} THEN lost \cup {c} ELSE lost
    /\ UNCHANGED <<storage, content, unsaved, undeleted>>

\* The subscriptions are back in the router: the image is deleted, whatever
\* the loads have yielded.
FinishRestore(c) ==
    /\ phase[c] = "restoring"
    /\ DeleteImage(c)
    /\ Go(c, "connack")
    /\ UNCHANGED <<clean, mem, content, lost, unsaved>>

\* The CONNACK is written.  What the session has now is what it promises.
Answer(c) ==
    /\ Idle /\ phase[c] = "connack"
    /\ Go(c, "processing")
    /\ Promise(c, IF clean[c] THEN None ELSE mem[c])
    /\ lost' = lost \ {c}
    /\ UNCHANGED <<storage, clean, mem, unsaved, undeleted>>

\* The CONNACK cannot be written: Cleanup, without a save.
AnswerFails(c) ==
    /\ Idle /\ phase[c] = "connack"
    /\ Go(c, "absent") /\ Be(c, Fresh)
    /\ Vanish({c})
    /\ UNCHANGED <<storage, clean, content, unsaved, undeleted>>

-----------------------------------------------------------------------------
\* The handlers of do_processing change the state.
Serve(c) ==
    /\ Idle /\ phase[c] = "processing"
    /\ \E m \in States[c] \ {mem[c]} :
        /\ Be(c, m)
        /\ Promise(c, IF clean[c] THEN None ELSE m)
    /\ UNCHANGED <<storage, phase, clean, lost, unsaved, undeleted>>

\* do_processing ends: a clean session goes to Cleanup, any other to Pending.
LoseConnection(c) ==
    /\ phase[c] = "processing"
    /\ \/ clean[c] /\ Idle /\ Go(c, "absent") /\ Be(c, Fresh) /\ UNCHANGED <<storage, unsaved>>
       \/ ~clean[c] /\ Save(c) /\ Go(c, "pending") /\ UNCHANGED mem
    /\ UNCHANGED <<clean, content, lost, undeleted>>

\* on_takeover: the image of a session that goes on stays, that of one that
\* starts clean is deleted with its subscriptions and in-flight messages.
Takeover(c, cl) ==
    /\ Idle /\ phase[c] \in {"processing", "pending"}
    /\ Go(c, "processing") /\ clean' = [clean EXCEPT ![c] = cl]
    /\ \/ cl /\ DeleteImage(c) /\ Promise(c, None)
             /\ Be(c, Without(mem[c], {"subscriptions", "inflight_messages"}))
       \/ ~cl /\ Promise(c, mem[c]) /\ UNCHANGED <<storage, mem, undeleted>>
    /\ UNCHANGED <<lost, unsaved>>

\* The CONNACK of a takeover cannot be written.  A processing session that a
\* clean connection tried to take ends without a save; one that the other kind
\* tried to take is saved, also if it was clean, as if it had been promised.
TakeoverFails(c, cl) ==
    /\ \/ /\ phase[c] = "processing" /\ cl /\ Idle
          /\ Go(c, "absent") /\ Be(c, Fresh) /\ Vanish({c}) /\ UNCHANGED <<storage, content, unsaved>>
       \/ /\ phase[c] = "processing" /\ ~cl
          /\ Save(c) /\ Go(c, "pending") /\ Promise(c, mem[c]) /\ UNCHANGED <<mem, lost>>
       \/ /\ phase[c] = "pending"
          /\ Save(c) /\ UNCHANGED <<phase, mem, content, lost>>
    /\ UNCHANGED <<clean, undeleted>>

\* The broker is stopped (Cancel goes to Cleanup, which does not save) or
\* crashes, also inside a transaction; the next one opens the same file.
Restart ==
    /\ tx' = None /\ UNCHANGED db
    /\ phase' = [c \in Clients |-> "absent"] /\ mem' = [c \in Clients |-> Fresh]
    /\ Vanish(Clients)
    /\ UNCHANGED <<clean, content, unsaved, undeleted>>

-----------------------------------------------------------------------------
\* handle_retained_message
Retain(t) ==
    /\ \/ \E p \in Payloads : Begin(t, save_retained_message(t, p))
       \/ Begin(t, delete_retained_message(t))
    /\ UNCHANGED <<sessions, history>>

\* delete_expired_sessions, which the trait offers and the broker never
\* calls: housekeeping may end any session that was saved long ago.
Expire(older_than) ==
    /\ \E cs \in SetToSeqs(Expired(older_than)) : Begin(None, delete_expired_sessions(cs))
    /\ lost' = lost \cup Expired(older_than)
    /\ UNCHANGED <<sessions, content, unsaved, undeleted>>

\* The storage call in progress takes its next step.
Step ==
    /\ \/ Execute /\ UNCHANGED <<unsaved, undeleted>>
       \/ Rollback /\ UNCHANGED <<unsaved, undeleted>>
       \/ /\ Commit /\ unsaved' = unsaved \ {tx.by}
          /\ undeleted' = {c \in undeleted : \E r \in tx.tables["sessions"] : r.owner = c}
    /\ UNCHANGED <<sessions, content, lost>>

Session(c) ==
    \/ ConnectClean(c) \/ ConnectNew(c) \/ FinishRestore(c) \/ Answer(c) \/ AnswerFails(c)
    \/ \E F \in SUBSET Children : Load(c, F)
    \/ Serve(c) \/ LoseConnection(c)
    \/ \E cl \in BOOLEAN : Takeover(c, cl) \/ TakeoverFails(c, cl)

Next ==
    \/ \E c \in Clients \ Away : Session(c)
    \/ \E t \in Topics : Retain(t)
    \/ \E t \in Times : Expire(t)
    \/ Step \/ Restart

Spec == Init /\ [][Next]_vars

-----------------------------------------------------------------------------
AllStates ==
    {Without(m, F) : m \in (UNION {States[c] : c \in Clients}) \cup {Fresh}, F \in SUBSET Children}

AllImages == {Dated(AsImage(m), t) : m \in AllStates, t \in Times}

\* The committed tables, read as the abstract storage.
StoredImage(c) ==
    IF Image(c) = None THEN None
    ELSE Dated(Image(c), (CHOOSE x \in load("sessions", c) : TRUE)[2].at)

StoredMessage(t) ==
    IF load("retained_messages", t) = {} THEN None
    ELSE (CHOOSE x \in load("retained_messages", t) : TRUE)[2]

Abstract == INSTANCE Storage WITH
    images   <- [c \in Clients |-> StoredImage(c)],
    retained <- [t \in Topics |-> StoredMessage(t)],
    Images   <- AllImages,
    Durable  <- TRUE

\* SqliteStorage implements Storage (docs: "Atomic state save - All-or-nothing
\* session persistence"): whatever fails and wherever the broker stops, the
\* tables go from one whole image to the next.
ImplementsStorage == Abstract!Spec

\* No table keeps rows of a client that has no row in sessions: there are no
\* foreign keys, every operation must delete from all four tables.
NoOrphans ==
    \A t \in Children : \A r \in db[t] : \E s \in db["sessions"] : s.owner = r.owner

\* A promised state is in the session or in storage, through restores, rolled
\* back transactions and crashes anywhere between a load and its delete or
\* inside a save, unless it was lost in one of these ways: a load or a save
\* failed, the CONNACK could not be written after a restore, the session ended
\* or the broker stopped before do_pending had saved, or the image expired.
StateKept ==
    \A c \in Clients : Idle /\ content[c] # None /\ c \notin lost =>
        \/ phase[c] \in {"restoring", "connack", "processing", "pending"} /\ AsImage(mem[c]) = content[c]
        \/ phase[c] = "absent" /\ Image(c) = content[c]

\* What a clean connection was to forget does not come back, unless its
\* deletion has failed.
CleanIsForgotten ==
    \A c \in Clients : Idle /\ phase[c] = "absent" /\ content[c] = None /\ c \notin undeleted
        => Image(c) = None
=============================================================================

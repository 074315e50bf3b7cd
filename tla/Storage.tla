------------------------------- MODULE Storage -------------------------------
(***************************************************************************)
(* What the trait Storage of src/src/storage/traits.rs promises: for every *)
(* client one image of its session, saved and deleted as a whole, and for  *)
(* every topic one retained message.  InMemoryStorage                      *)
(* (src/src/storage/memory.rs) is this module as it stands: each operation *)
(* takes the write locks of all the maps it needs before it changes one.   *)
(*                                                                         *)
(* An image holds its rows as sets: the order in which a backend returns   *)
(* them is not promised.                                                   *)
(***************************************************************************)
EXTENDS Naturals

CONSTANTS
    Clients,  \* client ids
    Topics,   \* topics of retained messages
    Images,   \* what a session may be saved as; .at is its updated_at
    Payloads, \* retained messages
    Times,    \* points in time
    None,     \* no image, no retained message
    Durable   \* the backend survives a restart: SqliteStorage, not InMemoryStorage

VARIABLES
    images,  \* sessions, subscriptions, inflight and inbound_qos2, by client
    retained

vars == <<images, retained>>

Empty == images = [c \in Clients |-> None] /\ retained = [t \in Topics |-> None]

\* A durable backend starts with what it held when the last broker stopped.
Init ==
    \/ Empty
    \/ /\ Durable
       /\ images   \in [Clients -> Images \cup {None}]
       /\ retained \in [Topics -> Payloads \cup {None}]

save_session(c) ==
    /\ images'[c] \in Images /\ images' = [images EXCEPT ![c] = images'[c]]
    /\ UNCHANGED retained

delete_session(c) ==
    /\ images' = [images EXCEPT ![c] = None]
    /\ UNCHANGED retained

delete_expired_sessions(older_than) ==
    /\ images' = [c \in Clients |->
                    IF images[c] # None /\ images[c].at < older_than THEN None ELSE images[c]]
    /\ UNCHANGED retained

save_retained_message(t) ==
    /\ retained'[t] \in Payloads /\ retained' = [retained EXCEPT ![t] = retained'[t]]
    /\ UNCHANGED images

delete_retained_message(t) ==
    /\ retained' = [retained EXCEPT ![t] = None]
    /\ UNCHANGED images

Restart == ~Durable /\ Empty'

Next ==
    \/ \E c \in Clients : save_session(c) \/ delete_session(c)
    \/ \E t \in Times : delete_expired_sessions(t)
    \/ \E t \in Topics : save_retained_message(t) \/ delete_retained_message(t)
    \/ Restart

Spec == Init /\ [][Next]_vars
=============================================================================

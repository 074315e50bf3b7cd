------------------------------ MODULE MCBroker ------------------------------
(***************************************************************************)
(* Small instances of Broker: one topic and one filter that matches it, so *)
(* that what a run explores is who waits for whom.                         *)
(***************************************************************************)
EXTENDS Broker, TLC

MCMatches   == {<<"t", "#">>}
MCRequests  == {{"#"}}
MCPublished == {[topic |-> "t", payload |-> "x", retain |-> FALSE]}

\* Everything but the history variables of Router, which no action reads and no
\* property of the run is about.
MCView == <<tables, retained, mailbox, dropped, lockq, calls, registryVars, sessionVars>>

MCSymmetry == Permutations(Connected)
=============================================================================

----------------------------- MODULE TopicFilters -----------------------------
(***************************************************************************)
(* Topic names and topic filters as the router of iotd sees them           *)
(* (src/src/router.rs): the checks of PUBLISH and SUBSCRIBE, and what it   *)
(* means for a filter to cover a topic.                                    *)
(*                                                                         *)
(* A string is the sequence of the levels split('/') yields, so the empty  *)
(* string is one empty level.  Of a level only its identity and whether    *)
(* it contains '+', '#' or a null character matter.                        *)
(***************************************************************************)
EXTENDS Naturals, Sequences

CONSTANTS
    Levels,     \* the strings between two '/'
    EmptyLevel, \* ""
    Plus,       \* "+"
    Hash,       \* "#"
    WithPlus,   \* the levels that contain '+'
    WithHash,   \* the levels that contain '#'
    WithNul     \* the levels that contain a null character

ASSUME LevelsAssumption ==
    /\ {EmptyLevel, Plus, Hash} \subseteq Levels
    /\ WithPlus \cup WithHash \cup WithNul \subseteq Levels
    /\ Plus \in WithPlus \ WithHash /\ Hash \in WithHash \ WithPlus
    /\ EmptyLevel \notin WithPlus \cup WithHash \cup WithNul
    /\ WithNul \cap {Plus, Hash} = {}

Name == Seq(Levels) \ {<<>>}

validate_publish_topic(topic) ==
    /\ topic # <<EmptyLevel>>
    /\ \A i \in DOMAIN topic : topic[i] \notin WithNul

\* Mutant: only '+' is looked for.
HasPlus(filter) == \E i \in DOMAIN filter : filter[i] \in WithPlus

has_wildcards(filter) == \E i \in DOMAIN filter : filter[i] \in WithPlus \cup WithHash

validate_subscribe_filter(filter) ==
    /\ filter # <<EmptyLevel>>
    /\ \A i \in DOMAIN filter :
        /\ filter[i] \notin WithNul
        /\ filter[i] \in WithHash => filter[i] = Hash /\ i = Len(filter)
        /\ filter[i] \in WithPlus => filter[i] = Plus

-----------------------------------------------------------------------------
(***************************************************************************)
(* What a filter stands for, without an order of evaluation: level by      *)
(* level, '+' covers any one level that is not empty, and a last '#'       *)
(* covers whatever follows the levels before it, nothing included.         *)
(***************************************************************************)
LevelCovers(f, t) == IF f = Plus THEN t # EmptyLevel ELSE t = f

Covers(filter, topic) ==
    LET n == Len(filter)
    IN  IF filter[n] = Hash
        THEN /\ Len(topic) >= n - 1
             /\ \A i \in 1..(n - 1) : LevelCovers(filter[i], topic[i])
        ELSE /\ Len(topic) = n
             /\ \A i \in 1..n : LevelCovers(filter[i], topic[i])
=============================================================================

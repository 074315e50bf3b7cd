---------------------------- MODULE TopicMatching ----------------------------
(***************************************************************************)
(* topic_matches and match_parts of src/src/router.rs, one call of the     *)
(* recursive match_parts to a step, and the two places that use them: a    *)
(* route that looks for the subscribers of a topic, and a subscribe that   *)
(* looks for the retained messages of a filter.  The second one takes a    *)
(* shortcut: a filter without wildcards is looked up as a topic name.      *)
(*                                                                         *)
(* A behaviour takes one topic and one filter through both.  Indices start *)
(* at 1 here, at 0 in the code.                                            *)
(***************************************************************************)
EXTENDS TopicFilters

CONSTANTS
    Topics, \* topic names of PUBLISH packets
    Filters \* topic filters of SUBSCRIBE packets

ASSUME NamesAssumption == Topics \cup Filters \subseteq Name

VARIABLES
    topic, filter, \* the arguments
    pc,            \* "subscribe", "route", "retained", "match" or "done"
    caller,        \* who waits for the answer of match_parts
    topic_idx, filter_idx,
    answer         \* what route and the retained look-up were told

args == <<topic, filter>>
vars == <<args, pc, caller, topic_idx, filter_idx, answer>>

Callers == {"route", "retained"}
Answers == {"none", "yes", "no", "refused"}

TypeOK ==
    /\ topic \in Topics /\ filter \in Filters
    /\ pc \in {"subscribe", "match", "done"} \cup Callers
    /\ caller \in Callers
    /\ topic_idx \in 1..(Len(topic) + 1) /\ filter_idx \in 1..(Len(filter) + 1)
    /\ answer \in [Callers -> Answers]

Init ==
    /\ topic \in Topics /\ filter \in Filters
    /\ pc = "subscribe" /\ caller = "route"
    /\ topic_idx = 1 /\ filter_idx = 1
    /\ answer = [c \in Callers |-> "none"]

-----------------------------------------------------------------------------
\* The answer goes to the caller; the retained look-up follows the route.
Return(c, yes) ==
    /\ answer' = [answer EXCEPT ![c] = IF yes THEN "yes" ELSE "no"]
    /\ pc' = IF c = "route" THEN "retained" ELSE "done"
    /\ topic_idx' = 1 /\ filter_idx' = 1
    /\ UNCHANGED <<args, caller>>

\* Router::subscribe and Router::route: an invalid filter is not entered into
\* the table, an invalid topic is not routed and not stored.
Refuse ==
    /\ pc = "subscribe"
    /\ ~validate_subscribe_filter(filter) \/ ~validate_publish_topic(topic)
    /\ pc' = "done" /\ answer' = [c \in Callers |-> "refused"]
    /\ UNCHANGED <<args, caller, topic_idx, filter_idx>>

Subscribe ==
    /\ pc = "subscribe"
    /\ validate_subscribe_filter(filter) /\ validate_publish_topic(topic)
    /\ pc' = "route"
    /\ UNCHANGED <<args, caller, topic_idx, filter_idx, answer>>

\* topic_matches: equal strings match, all others are compared by parts.
TopicMatches(c) ==
    \/ topic = filter /\ Return(c, TRUE)
    \/ /\ topic # filter
       /\ pc' = "match" /\ caller' = c
       /\ UNCHANGED <<args, topic_idx, filter_idx, answer>>

Route == pc = "route" /\ TopicMatches("route")

\* find_retained_for_filter
Retained ==
    /\ pc = "retained"
    /\ \/ ~has_wildcards(filter) /\ Return("retained", topic = filter)
       \/ has_wildcards(filter) /\ TopicMatches("retained")

-----------------------------------------------------------------------------
(***************************************************************************)
(* The cases of match_parts, in the order of the code.                     *)
(***************************************************************************)
FilterLeft == filter_idx <= Len(filter)
BothLeft   == FilterLeft /\ topic_idx <= Len(topic)

FilterConsumed ==
    /\ pc = "match" /\ ~FilterLeft
    /\ Return(caller, topic_idx > Len(topic))

TopicConsumed ==
    /\ pc = "match" /\ FilterLeft /\ topic_idx > Len(topic)
    /\ Return(caller, filter_idx = Len(filter) /\ filter[filter_idx] = Hash)

MultiLevel ==
    /\ pc = "match" /\ BothLeft /\ filter[filter_idx] = Hash
    /\ Return(caller, filter_idx = Len(filter))

NextLevel ==
    /\ topic_idx' = topic_idx + 1 /\ filter_idx' = filter_idx + 1
    /\ UNCHANGED <<args, pc, caller, answer>>

\* Mutant: '+' swallows an empty level without moving past it in the filter.
SingleLevelSkips ==
    /\ pc = "match" /\ BothLeft /\ filter[filter_idx] = Plus
    /\ IF topic[topic_idx] = EmptyLevel
       THEN /\ topic_idx' = topic_idx + 1 /\ UNCHANGED <<args, pc, caller, filter_idx, answer>>
       ELSE NextLevel

SingleLevel ==
    /\ pc = "match" /\ BothLeft /\ filter[filter_idx] = Plus
    /\ IF topic[topic_idx] = EmptyLevel THEN Return(caller, FALSE) ELSE NextLevel

\* Mutant: a level that differs is tried again, for ever.
LiteralWaits ==
    /\ pc = "match" /\ BothLeft /\ filter[filter_idx] \notin {Hash, Plus}
    /\ topic[topic_idx] = filter[filter_idx] /\ NextLevel

Literal ==
    /\ pc = "match" /\ BothLeft /\ filter[filter_idx] \notin {Hash, Plus}
    /\ IF topic[topic_idx] = filter[filter_idx] THEN NextLevel ELSE Return(caller, FALSE)

MatchParts == FilterConsumed \/ TopicConsumed \/ MultiLevel \/ SingleLevel \/ Literal

Next == Refuse \/ Subscribe \/ Route \/ Retained \/ MatchParts

Spec == Init /\ [][Next]_vars

\* The code is sequential: it runs on until it returns.
FairSpec == Spec /\ WF_vars(Next)

-----------------------------------------------------------------------------
\* The inductive argument: match_parts walks both sequences in step, and all
\* it has passed is covered and free of '#'.
WalksInStep ==
    pc = "match" =>
        /\ topic_idx = filter_idx
        /\ \A i \in 1..(filter_idx - 1) :
            filter[i] # Hash /\ LevelCovers(filter[i], topic[i])

\* Live and retained delivery agree with the meaning of the filter, and so
\* with each other: the shortcuts of topic_matches and of
\* find_retained_for_filter change no answer, at no position of '#', for
\* empty levels and for topic names that contain wildcard characters.
AnswerIsCovers ==
    \A c \in Callers :
        answer[c] \in {"yes", "no"} => (answer[c] = "yes" <=> Covers(filter, topic))

\* Both callers get an answer: the recursion of match_parts ends.
Answered == <>(\A c \in Callers : answer[c] # "none")
=============================================================================

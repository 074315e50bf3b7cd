------------------------------ MODULE MCRouter ------------------------------
(***************************************************************************)
(* A small instance of Router: a topic under two overlapping filters, one  *)
(* topic that competes with it for the limit, is stored and deleted, one   *)
(* filter and one topic name the validators refuse, a mailbox of one       *)
(* message and room for one retained message.  Which filter is valid and   *)
(* which topic it covers is taken from TopicFilters.                       *)
(***************************************************************************)
EXTENDS Router, TopicFilters, TLC

AB == <<"a", "b">>
BC == <<"b", "c">>
APlus == <<"a", "+">>
BadFilter == <<"a", "#", "b">>
BadTopic == <<"">>

MCTopics == {AB, BC, BadTopic}
MCFilters == {APlus, AB, BadFilter}
MCInvalidFilters == {f \in MCFilters : ~validate_subscribe_filter(f)}
MCWildcards == {f \in MCFilters : has_wildcards(f)}
MCInvalidTopics == {t \in MCTopics : ~validate_publish_topic(t)}
MCMatches == {<<t, f>> \in MCTopics \X MCFilters : Covers(f, t)}
MCRequests == {{APlus, AB}, {APlus, BadFilter}}
MCPublished ==
    {[topic |-> AB, payload |-> "x", retain |-> TRUE],
     [topic |-> BC, payload |-> "", retain |-> TRUE],
     [topic |-> BC, payload |-> "x", retain |-> TRUE],
     [topic |-> BadTopic, payload |-> "x", retain |-> TRUE]}

MCSymmetry == Permutations(Sessions)
=============================================================================

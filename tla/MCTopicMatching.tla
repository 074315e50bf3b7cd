--------------------------- MODULE MCTopicMatching ---------------------------
(***************************************************************************)
(* All topics and filters of up to three levels.  A topic may contain      *)
(* wildcards, which validate_publish_topic does not look for, and "a#" and *)
(* "n0" stand for levels with a misplaced wildcard and a null character.   *)
(***************************************************************************)
EXTENDS TopicMatching

UpTo(S, n) == UNION {[1..k -> S] : k \in 1..n}

MCTopics  == UpTo({"", "a", "+", "#", "n0"}, 3)
MCFilters == UpTo({"", "a", "b", "+", "#", "a#"}, 3)
=============================================================================

------------------------ MODULE TopicMatchingProofs -------------------------
(***************************************************************************)
(* match_parts and the shortcuts around it give the answer of Covers, for  *)
(* topics and filters of any length over any levels.                       *)
(***************************************************************************)
EXTENDS TopicMatching, SequenceTheorems, TLAPS

\* What is known of the arguments wherever an answer can be given: both have
\* passed their check, and outside match_parts the indices are those of its
\* first call.
Checked ==
    /\ pc \in {"route", "retained", "match"} =>
        validate_subscribe_filter(filter) /\ validate_publish_topic(topic)
    /\ pc # "match" => topic_idx = 1 /\ filter_idx = 1

Inv == TypeOK /\ Checked /\ WalksInStep /\ AnswerIsCovers

-----------------------------------------------------------------------------
(***************************************************************************)
(* The cases of match_parts as facts about sequences.                      *)
(***************************************************************************)
LEMMA NamesAreNonempty ==
    ASSUME NEW s \in Name
    PROVE  s \in Seq(Levels) /\ Len(s) \in Nat \ {0} /\ \A i \in 1..Len(s) : s[i] \in Levels
<1>1. s \in Seq(Levels) /\ s # <<>>
  BY DEF Name
<1> QED BY <1>1, EmptySeq

\* match_parts has passed the first k - 1 levels of both.
Passed(f, t, k) == \A i \in 1..(k - 1) : f[i] # Hash /\ LevelCovers(f[i], t[i])

LEMMA FilterEnds ==
    ASSUME NEW f \in Name, NEW t \in Name, Len(t) >= Len(f), Passed(f, t, Len(f) + 1)
    PROVE  Covers(f, t) <=> Len(f) + 1 > Len(t)
BY NamesAreNonempty DEF Covers, Passed

LEMMA TopicEnds ==
    ASSUME NEW f \in Name, NEW t \in Name, Len(t) < Len(f), Passed(f, t, Len(t) + 1)
    PROVE  Covers(f, t) <=> Len(t) + 1 = Len(f) /\ f[Len(t) + 1] = Hash
BY NamesAreNonempty DEF Covers, Passed

LEMMA HashMeets ==
    ASSUME NEW f \in Name, NEW t \in Name, validate_subscribe_filter(f),
           NEW k \in 1..Len(f), k <= Len(t), Passed(f, t, k), f[k] = Hash
    PROVE  Covers(f, t) /\ k = Len(f)
<1>1. k = Len(f)
  BY NamesAreNonempty, LevelsAssumption DEF validate_subscribe_filter
<1> QED BY <1>1, NamesAreNonempty DEF Covers, Passed

LEMMA LevelDiffers ==
    ASSUME NEW f \in Name, NEW t \in Name, NEW k \in 1..Len(f), k <= Len(t),
           f[k] # Hash, ~LevelCovers(f[k], t[k])
    PROVE  ~Covers(f, t)
<1>1. k \in 1..(Len(f) - 1) \/ (k = Len(f) /\ f[Len(f)] # Hash)
  BY NamesAreNonempty
<1> QED BY <1>1, NamesAreNonempty DEF Covers

\* Both shortcuts: equal strings match, and a filter without wildcards matches
\* nothing else.
LEMMA SameCovers ==
    ASSUME NEW f \in Name
    PROVE  Covers(f, f)
BY NamesAreNonempty, LevelsAssumption DEF Covers, LevelCovers

LEMMA PlainCoversItself ==
    ASSUME NEW f \in Name, NEW t \in Name, ~has_wildcards(f)
    PROVE  Covers(f, t) <=> t = f
<1>1. \A i \in 1..Len(f) : f[i] # Hash /\ f[i] # Plus
  BY NamesAreNonempty, LevelsAssumption DEF has_wildcards
<1>2. ASSUME Covers(f, t) PROVE t = f
  <2>1. Len(t) = Len(f) /\ \A i \in 1..Len(f) : t[i] = f[i]
    BY <1>1, <1>2, NamesAreNonempty DEF Covers, LevelCovers
  <2> QED BY <2>1, NamesAreNonempty, SeqEqual
<1> QED BY <1>2, SameCovers

-----------------------------------------------------------------------------
LEMMA InitInv == Init => Inv
<1> SUFFICES ASSUME Init PROVE Inv
  OBVIOUS
<1>1. topic \in Name /\ filter \in Name
  BY NamesAssumption DEF Init
<1> QED BY <1>1, NamesAreNonempty DEF Init, Inv, TypeOK, Checked, WalksInStep, AnswerIsCovers, Callers, Answers

\* A right answer, from wherever it is given, keeps the invariant.
LEMMA ReturnKeeps ==
    ASSUME Inv, NEW c \in Callers, NEW yes \in BOOLEAN, pc \in {"route", "retained", "match"},
           yes <=> Covers(filter, topic), Return(c, yes)
    PROVE  Inv'
<1>1. topic \in Name /\ filter \in Name
  BY NamesAssumption DEF Inv, TypeOK
<1>2. TypeOK'
  BY <1>1, NamesAreNonempty DEF Inv, TypeOK, Return, args, Answers, Callers
<1>3. Checked' /\ WalksInStep'
  BY DEF Inv, Checked, WalksInStep, Return, args, validate_subscribe_filter, validate_publish_topic
<1>4. AnswerIsCovers'
  BY DEF Inv, TypeOK, AnswerIsCovers, Return, args, Answers, Covers
<1> QED BY <1>2, <1>3, <1>4 DEF Inv

LEMMA TopicMatchesKeeps ==
    ASSUME Inv, NEW c \in Callers, pc \in Callers, TopicMatches(c)
    PROVE  Inv'
<1>1. topic \in Name /\ filter \in Name
  BY NamesAssumption DEF Inv, TypeOK
<1>2. CASE topic = filter /\ Return(c, TRUE)
  BY <1>1, <1>2, SameCovers, ReturnKeeps DEF Callers
<1>3. CASE topic # filter /\ pc' = "match" /\ caller' = c
            /\ UNCHANGED <<args, topic_idx, filter_idx, answer>>
  <2>1. TypeOK'
    BY <1>3 DEF Inv, TypeOK, args
  <2>2. Checked'
    BY <1>3 DEF Inv, Checked, args, Callers, validate_subscribe_filter, validate_publish_topic
  <2>3. WalksInStep'
    BY <1>3 DEF Inv, Checked, WalksInStep, args, Callers
  <2>4. AnswerIsCovers'
    BY <1>3 DEF Inv, AnswerIsCovers, args, Covers
  <2> QED BY <2>1, <2>2, <2>3, <2>4 DEF Inv
<1> QED BY <1>2, <1>3 DEF TopicMatches

\* One level further, when that level is covered.
LEMMA NextLevelKeeps ==
    ASSUME Inv, pc = "match", BothLeft, filter[filter_idx] # Hash,
           LevelCovers(filter[filter_idx], topic[topic_idx]), NextLevel
    PROVE  Inv'
<1>1. topic \in Name /\ filter \in Name
  BY NamesAssumption DEF Inv, TypeOK
<1>2. TypeOK'
  BY <1>1, NamesAreNonempty DEF Inv, TypeOK, NextLevel, BothLeft, FilterLeft, args
<1>3. Checked'
  BY DEF Inv, Checked, NextLevel, args, validate_subscribe_filter, validate_publish_topic
<1>4. WalksInStep'
  <2>1. filter_idx' = filter_idx + 1 /\ topic_idx' = filter_idx' /\ filter_idx \in Nat
    BY <1>1, NamesAreNonempty DEF Inv, TypeOK, WalksInStep, NextLevel
  <2>2. \A i \in 1..(filter_idx' - 1) : i \in 1..(filter_idx - 1) \/ i = filter_idx
    BY <2>1
  <2>3. \A i \in 1..(filter_idx' - 1) : filter[i] # Hash /\ LevelCovers(filter[i], topic[i])
    BY <2>1, <2>2 DEF Inv, WalksInStep
  <2> QED BY <2>1, <2>3 DEF WalksInStep, NextLevel, args, LevelCovers
<1>5. AnswerIsCovers'
  BY DEF Inv, AnswerIsCovers, NextLevel, args, Covers
<1> QED BY <1>2, <1>3, <1>4, <1>5 DEF Inv

LEMMA MatchPartsKeeps ==
    ASSUME Inv, MatchParts
    PROVE  Inv'
<1>1. /\ topic \in Name /\ filter \in Name /\ caller \in Callers
      /\ topic_idx \in Nat /\ topic_idx <= Len(topic) + 1
      /\ filter_idx \in 1..(Len(filter) + 1) /\ pc = "match"
      /\ validate_subscribe_filter(filter)
  <2>1. pc = "match"
    BY DEF MatchParts, FilterConsumed, TopicConsumed, MultiLevel, SingleLevel, Literal
  <2>2. topic \in Name /\ filter \in Name
    BY NamesAssumption DEF Inv, TypeOK
  <2> QED BY <2>1, <2>2, NamesAreNonempty DEF Inv, TypeOK, Checked
<1>2. topic_idx = filter_idx /\ Passed(filter, topic, filter_idx)
  BY <1>1 DEF Inv, WalksInStep, Passed
<1>3. CASE FilterConsumed
  <2>1. filter_idx = Len(filter) + 1 /\ Len(topic) >= Len(filter)
    BY <1>1, <1>2, <1>3, NamesAreNonempty DEF FilterConsumed, FilterLeft
  <2>2. topic_idx > Len(topic) <=> Covers(filter, topic)
    BY <1>1, <1>2, <2>1, FilterEnds
  <2>3. (topic_idx > Len(topic)) \in BOOLEAN
    BY <1>1, NamesAreNonempty
  <2>4. Return(caller, topic_idx > Len(topic))
    BY <1>3 DEF FilterConsumed
  <2> QED BY <1>1, <2>2, <2>3, <2>4, ReturnKeeps, Zenon
<1>4. CASE TopicConsumed
  <2>1. topic_idx = Len(topic) + 1 /\ Len(topic) < Len(filter)
    BY <1>1, <1>2, <1>4, NamesAreNonempty DEF TopicConsumed, FilterLeft
  <2>2. (filter_idx = Len(filter) /\ filter[filter_idx] = Hash) <=> Covers(filter, topic)
    BY <1>1, <1>2, <2>1, TopicEnds
  <2> QED BY <1>1, <1>4, <2>2, ReturnKeeps DEF TopicConsumed
<1>5. CASE MultiLevel
  <2>1. filter_idx \in 1..Len(filter) /\ filter_idx <= Len(topic) /\ filter[filter_idx] = Hash
    BY <1>1, <1>2, <1>5, NamesAreNonempty DEF MultiLevel, BothLeft, FilterLeft
  <2>2. (filter_idx = Len(filter)) <=> Covers(filter, topic)
    BY <1>1, <1>2, <2>1, HashMeets
  <2> QED BY <1>1, <1>5, <2>2, ReturnKeeps DEF MultiLevel
<1>6. CASE SingleLevel
  <2>1. /\ filter_idx \in 1..Len(filter) /\ filter_idx <= Len(topic) /\ BothLeft
        /\ filter[filter_idx] = Plus /\ filter[filter_idx] # Hash
    BY <1>1, <1>2, <1>6, NamesAreNonempty, LevelsAssumption DEF SingleLevel, BothLeft, FilterLeft
  <2>2. CASE topic[topic_idx] = EmptyLevel
    <3>1. ~Covers(filter, topic)
      BY <1>1, <1>2, <2>1, <2>2, LevelDiffers DEF LevelCovers
    <3> QED BY <1>1, <1>6, <2>2, <3>1, ReturnKeeps DEF SingleLevel
  <2>3. CASE topic[topic_idx] # EmptyLevel
    <3>1. LevelCovers(filter[filter_idx], topic[topic_idx]) /\ NextLevel
      BY <1>6, <2>1, <2>3 DEF SingleLevel, LevelCovers
    <3> QED BY <1>1, <2>1, <3>1, NextLevelKeeps
  <2> QED BY <2>2, <2>3
<1>7. CASE Literal
  <2>1. /\ filter_idx \in 1..Len(filter) /\ filter_idx <= Len(topic) /\ BothLeft
        /\ filter[filter_idx] # Plus /\ filter[filter_idx] # Hash
    BY <1>1, <1>2, <1>7, NamesAreNonempty DEF Literal, BothLeft, FilterLeft
  <2>2. CASE topic[topic_idx] = filter[filter_idx]
    <3>1. LevelCovers(filter[filter_idx], topic[topic_idx]) /\ NextLevel
      BY <1>7, <2>1, <2>2 DEF Literal, LevelCovers
    <3> QED BY <1>1, <2>1, <3>1, NextLevelKeeps
  <2>3. CASE topic[topic_idx] # filter[filter_idx]
    <3>1. ~Covers(filter, topic)
      BY <1>1, <1>2, <2>1, <2>3, LevelDiffers DEF LevelCovers
    <3> QED BY <1>1, <1>7, <2>3, <3>1, ReturnKeeps DEF Literal
  <2> QED BY <2>2, <2>3
<1> QED BY <1>3, <1>4, <1>5, <1>6, <1>7 DEF MatchParts

LEMMA NextInv ==
    ASSUME Inv, [Next]_vars
    PROVE  Inv'
<1>1. CASE Refuse
  BY <1>1 DEF Refuse, Inv, TypeOK, Checked, WalksInStep, AnswerIsCovers, args, Answers, Callers
<1>2. CASE Subscribe
  <2>1. TypeOK' /\ WalksInStep'
    BY <1>2 DEF Subscribe, Inv, TypeOK, WalksInStep, args, Callers
  <2>2. Checked'
    BY <1>2 DEF Subscribe, Inv, Checked, args, validate_subscribe_filter, validate_publish_topic
  <2>3. AnswerIsCovers'
    BY <1>2 DEF Subscribe, Inv, AnswerIsCovers, args, Covers
  <2> QED BY <2>1, <2>2, <2>3 DEF Inv
<1>3. CASE Route
  BY <1>3, TopicMatchesKeeps DEF Route, Callers
<1>4. CASE Retained
  <2>1. topic \in Name /\ filter \in Name /\ pc = "retained" /\ "retained" \in Callers
    BY <1>4, NamesAssumption DEF Inv, TypeOK, Retained, Callers
  <2>2. CASE ~has_wildcards(filter) /\ Return("retained", topic = filter)
    BY <2>1, <2>2, PlainCoversItself, ReturnKeeps
  <2>3. CASE has_wildcards(filter) /\ TopicMatches("retained")
    BY <2>1, <2>3, TopicMatchesKeeps
  <2> QED BY <1>4, <2>2, <2>3 DEF Retained
<1>5. CASE MatchParts
  BY <1>5, MatchPartsKeeps
<1>6. CASE UNCHANGED vars
  <2>1. TypeOK' /\ WalksInStep'
    BY <1>6 DEF vars, args, Inv, TypeOK, WalksInStep, LevelCovers
  <2>2. Checked'
    BY <1>6 DEF vars, args, Inv, Checked, validate_subscribe_filter, validate_publish_topic
  <2>3. AnswerIsCovers'
    BY <1>6 DEF vars, args, Inv, AnswerIsCovers, Covers
  <2> QED BY <2>1, <2>2, <2>3 DEF Inv
<1> QED BY <1>1, <1>2, <1>3, <1>4, <1>5, <1>6 DEF Next

LEMMA InvHolds == Spec => []Inv
BY InitInv, NextInv, PTL DEF Spec

\* The recursion of match_parts compares level by level: it is at the same
\* level of topic and filter, and has passed neither '#' nor a difference.
THEOREM WalksStayInStep == Spec => []WalksInStep
<1>1. Inv => WalksInStep
  BY DEF Inv
<1> QED BY <1>1, InvHolds, PTL

\* The answer of match_parts and those of the shortcuts of topic_matches and
\* find_retained_for_filter are what the filter stands for: for topics and
\* filters of any length.
THEOREM MatchingCorrect == Spec => []AnswerIsCovers
<1>1. Inv => AnswerIsCovers
  BY DEF Inv
<1> QED BY <1>1, InvHolds, PTL
=============================================================================

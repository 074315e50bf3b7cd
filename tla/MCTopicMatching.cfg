SPECIFICATION FairSpec
CONSTANTS
  Levels = {"", "a", "b", "+", "#", "a#", "n0"}
  EmptyLevel = ""
  Plus = "+"
  Hash = "#"
  WithPlus = {"+"}
  WithHash = {"#", "a#"}
  WithNul = {"n0"}
  Topics <- MCTopics
  Filters <- MCFilters
INVARIANTS WalksInStep AnswerIsCovers
PROPERTY Answered
CHECK_DEADLOCK FALSE

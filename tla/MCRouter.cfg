SPECIFICATION Spec
CONSTANTS
  s1 = s1
  s2 = s2
  Sessions = {s1, s2}
  NoTarget = NoTarget
  Levels = {"", "a", "b", "c", "+", "#"}
  EmptyLevel = ""
  Plus = "+"
  Hash = "#"
  WithPlus = {"+"}
  WithHash = {"#"}
  WithNul = {}
  Topics <- MCTopics
  Filters <- MCFilters
  InvalidFilters <- MCInvalidFilters
  InvalidTopics <- MCInvalidTopics
  Wildcards <- MCWildcards
  Matches <- MCMatches
  Requests <- MCRequests
  Published <- MCPublished
  Payloads = {"", "x"}
  Empty = ""
  MailboxCap = 1
  RetainedLimit = 1
SYMMETRY MCSymmetry
INVARIANTS TypeOK TablesAgree RouteTargetsLive NoRetainedGap RetainedBounded
CHECK_DEADLOCK FALSE

SPECIFICATION BrokerSpec
CONSTANTS
  s1 = s1
  s2 = s2
  s3 = s3
  Sessions = {s1, s2, s3}
  Connected = {s1, s2}
  Fresh = {s3}
  NoSession = NoSession
  NoTarget = NoTarget
  Topics = {"t"}
  Filters = {"#"}
  InvalidFilters = {}
  InvalidTopics = {}
  Wildcards = {"#"}
  Matches <- MCMatches
  Requests <- MCRequests
  Published <- MCPublished
  Payloads = {"", "x"}
  Empty = ""
  MailboxCap = 1
  RetainedLimit = 1
  MaxPackets = 2
CHECK_DEADLOCK FALSE
SYMMETRY MCSymmetry
VIEW MCView
INVARIANTS BrokerTypeOK ExitedLeavesNothing CancelReachesAll

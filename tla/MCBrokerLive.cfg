SPECIFICATION FairBrokerSpec
CONSTANTS
  s1 = s1
  s2 = s2

  Sessions = {s1, s2}
  Connected = {s1, s2}
  Fresh = {}
  NoSession = NoSession
  NoTarget = NoTarget
  Topics = {"t"}
  Filters = {"#"}
  InvalidFilters = {}
  InvalidTopics = {}
  Wildcards = {"#"}
  Matches <- MCMatches
  Requests <- MCRequests
  Published <- MCPublished
  Payloads = {"", "x"}
  Empty = ""
  MailboxCap = 2
  RetainedLimit = 1
  MaxPackets = 2
CHECK_DEADLOCK FALSE
PROPERTIES CallsReturn EndedIsRemoved

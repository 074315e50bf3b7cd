SPECIFICATION FairSpec
CONSTANTS
  m1 = m1
  m2 = m2
  Msgs = {m1, m2}
  Qos2 = {m2}
  MaxId = 2
  MaxRetry = 1
  Retransmits = TRUE
  MailboxCap = 2
  MaxBreaks = 2
  NoImage = NoImage
INVARIANTS TypeOK NothingForgotten ReleasedIsDelivered RetryIsRecognised IdsUnique 
PROPERTY EverythingSettles
CHECK_DEADLOCK FALSE

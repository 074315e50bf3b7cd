SPECIFICATION Spec
CONSTANTS
  m1 = m1
  m2 = m2
  Msgs = {m1, m2}
  Qos2 = {m2}
  MaxId = 3
  MaxRetry = 1
  Retransmits = TRUE
  MailboxCap = 2
  MaxBreaks = 0
  NoImage = NoImage
INVARIANT ExactlyOnce
CHECK_DEADLOCK FALSE

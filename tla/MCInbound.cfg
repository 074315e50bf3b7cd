SPECIFICATION FairSpec
CONSTANTS
  m1 = m1
  m2 = m2
  m3 = m3
  i1 = i1
  i2 = i2
  Msgs = {m1, m2, m3}
  Qos2 = {m1, m2}
  Refused = {m2}
  Ids = {i1, i2}
  None = None
  MaxBreaks = 2
  MaxCleans = 1
  MaxRestarts = 1
INVARIANTS TypeOK AtMostOnce CompletedIsRouted HeldIsInFlight AckedIsRouted
PROPERTY ExchangesComplete
CHECK_DEADLOCK FALSE

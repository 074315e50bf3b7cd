SPECIFICATION FairSpec
CONSTANTS
  c1 = c1
  c2 = c2
  c3 = c3
  b = b
  n = n
  A = A
  B = B
  Conns = {c1, c2, c3}
  Clients = {A}
  ClientOf <- MCClientOf
  Anonymous = Anonymous
  Wills = {}
  None = None
  NoImage = NoImage
  CommandCap = 1
INVARIANT TypeOK
PROPERTY TakeoverAnswered
CHECK_DEADLOCK FALSE

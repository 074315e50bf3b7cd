SPECIFICATION Spec
CONSTANTS
  c1 = c1
  c2 = c2
  c3 = c3
  b = b
  n = n
  A = A
  B = B
  Conns = {c1, c2, b, n}
  Clients = {A, B}
  ClientOf <- MCClientOf
  Anonymous = Anonymous
  Wills = {c1, c2}
  None = None
  NoImage = NoImage
  CommandCap = 1
SYMMETRY MCSymmetry
INVARIANTS NamedIsLive OwnClientOnly OneSessionPerClient WillIsDue
CHECK_DEADLOCK FALSE

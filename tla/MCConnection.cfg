SPECIFICATION FairSpec
CONSTANTS
  LengthBase = 5
  MaxLengthBytes = 2
  NotUtf8 = 255
  PROTOCOL_NAME <- MCName
  PROTOCOL_LEVEL = 4
  MaxClientId = 2
  AuthFile = TRUE
  Passwords <- MCPasswords
  AclFile = TRUE
  Rules <- MCRules
  Connects <- MCConnects
  Packets <- MCPackets
  InvalidFilters <- MCInvalid
  MaxSent = 3
INVARIANTS InStep ErrorHasCause AnswersMatch
PROPERTY PacketsHandled
CHECK_DEADLOCK FALSE

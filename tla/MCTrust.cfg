CONSTANTS
  MaxKeys = 2
  MaxSessions = 3
  MaxMail = 2
  MaxCommands = 4
  MaxFaults = 1
SPECIFICATION Spec
CHECK_DEADLOCK FALSE
INVARIANTS
  VerifiedWasCompared
  SessionMatchesPin
PROPERTIES
  PinHolds

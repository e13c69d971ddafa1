CONSTANTS
  A = a
  B = b
  MaxQueueAge = 1
  MaxClockSkew = 0
  Durations = {1}
  MaxTime = 2
  MaxWrong = 1
  MaxCommands = 3
  MaxFaults = 1
SPECIFICATION Spec
SYMMETRY Interchangeable
CHECK_DEADLOCK FALSE
INVARIANTS
  TypeOK
  TranscriptInOrder
  HonestTimesKept
  TimersAgree
  DeletedEverywhere
PROPERTIES
  HeldItsTime

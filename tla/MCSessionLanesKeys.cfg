CONSTANTS
  KemStepInterval = 10
  MaxSkip = 256
  MaxSent <- ThreeTwo
  MaxCrashes = 0
SPECIFICATION LanesSpec
INVARIANT NoKeyReuse
CHECK_DEADLOCK FALSE

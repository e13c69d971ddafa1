CONSTANTS
  KemStepInterval = 2
  MaxSkip = 2
  MaxSent <- Six
SPECIFICATION MCSpec
INVARIANTS
  NoKeyReuse
  SpentOnce
  CurrentChainOpens
  CalmOpens
CHECK_DEADLOCK FALSE

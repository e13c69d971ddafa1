CONSTANTS
  Alice = alice
  Bob = bob
  MaxTexts = 3
  OneTimeKeys = 1
  MaxRemovals = 2
  MaxFaults = 1
  KemStepInterval = 2
  MaxSkip = 2
  MaxSent <- ThreeTwo
  MaxCrashes = 1
SPECIFICATION MCSpec
SYMMETRY Interchangeable
INVARIANTS
  AnsweredOnce
  FirstDeliveryAnswered
  SessionsMeet
PROPERTIES
  ImplementsRatchet
CHECK_DEADLOCK FALSE

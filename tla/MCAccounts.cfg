CONSTANTS
  Worker = {w1, w2}
  Idle = 0
  NonceTTL = 0
  Burst = 1
  Window = 1
  PrekeyCap = 1
  Batch = 1
  ClaimRetries = 2
  MaxClock = 1
  MaxKeys = 2
  MaxTokens = 2
  MaxNonces = 2
  MaxPrekeys = 3
SPECIFICATION Spec
SYMMETRY Interchangeable
INVARIANTS
  PrekeyHandedOnce
  CodesMatchIdentity
  OldIdentityOut
  NonceGoodForOneRound
  ChallengesPaced
CHECK_DEADLOCK FALSE

CONSTANTS
  Worker = {w1, w2}
  Idle = 0
  NonceTTL = 0
  Burst = 1
  Window = 1
  PrekeyCap = 1
  Batch = 1
  ClaimRetries = 2
  MaxClock = 0
  MaxKeys = 1
  MaxTokens = 2
  MaxNonces = 1
  MaxPrekeys = 1
SPECIFICATION Spec
SYMMETRY Interchangeable
INVARIANT
  NonceSingleUse
CHECK_DEADLOCK FALSE

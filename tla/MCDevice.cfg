CONSTANTS
  Pass = {p1, p2}
  NoPass = NoPass
  Batch = 1
  Watermark = 1
  Rotation = 0
  Retention = 1
  TTL = 2
  MaxKeys = 2
  MaxPrekeys = 3
  MaxClock = 2
  MaxMail = 1
  MaxFaults = 1
SPECIFICATION Spec
SYMMETRY Interchangeable
CHECK_DEADLOCK FALSE
INVARIANTS
  PublishedOpens
  AccountKept
  DuressApart
  NoGhosts
  HandshakesResolve

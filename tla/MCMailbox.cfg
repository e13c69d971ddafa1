CONSTANTS
  Messages = {m1, m2}
  Sockets = {s1, s2}
  None = None
  MaxAck = 2
  QueueCap = 2
  MaxAged = 1
  MaxFaults = 1
SPECIFICATION MCSpec
INVARIANTS
  UnopenedStaysQueued
  NothingMissed
PROPERTIES
  CalmDelivers
  CalmClears
CHECK_DEADLOCK FALSE

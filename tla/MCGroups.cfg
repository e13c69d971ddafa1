CONSTANTS
  Device = {d1, d2, d3}
  NoDevice = NoDevice
  MaxMembers = 3
  MaxCommands = 3
  MaxMishaps = 1
SPECIFICATION GroupSpec
SYMMETRY Interchangeable
CHECK_DEADLOCK FALSE
INVARIANTS
  GroupsTyped
  SettledAgree
  NoFalseAlarm
  TextsLand
  RemovedStaysOut

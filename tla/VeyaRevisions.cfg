SPECIFICATION Spec
CONSTANTS
  Device = {1, 2}
  User = {1, 2}
  Owner <- OneEach
  FirstHost = 1
  RevEpochSize = 8
  MaxTopic = 3
  MaxRefreshes = 1
  MaxJoins = 2
  MaxFaults = 0
  Faulty = {}
INVARIANTS
  HostIsHeard
CHECK_DEADLOCK FALSE

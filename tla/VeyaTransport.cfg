SPECIFICATION FairSpec
CONSTANTS
  Device = {1}
  User = {1, 2}
  Owner <- OneEach
  FirstHost = 1
  RevEpochSize = 2
  MaxTopic = 4
  MaxRefreshes = 1
  MaxJoins = 2
  MaxFaults = 2
  Faulty = {"get", "refresh", "lease", "channel", "ping", "lapse"}
INVARIANTS
  TypeOK
  LeftMeansQuiet
  NoneForgotten
PROPERTIES
  LeaseSpec
  Settles
CHECK_DEADLOCK FALSE

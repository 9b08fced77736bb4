SPECIFICATION Spec
CONSTANTS
  film = film
  series = series
  Window = {w1, w2}
  Item = {1, 2, 3}
  Ref <- Media
  Legacy <- OneLegacy
  QueueLimit = 2
  MaxRev = 4
  MaxShared = 2
  Throttle = 2
  MaxAt = 1
  MaxEvents = 1
  MaxFaults = 3
INVARIANTS
  QueueConsistent
  OneSaneCopy
  ReadyMeansSaved
  ProgressReachesDisk
PROPERTIES
  FutureKept
SYMMETRY Alike
CHECK_DEADLOCK FALSE

SPECIFICATION Spec
CONSTANTS
  film = film
  series = series
  Window = {w1, w2}
  Item = {1, 2, 3}
  Ref <- Media
  Legacy <- NoLegacy
  QueueLimit = 2
  MaxRev = 5
  MaxShared = 5
  Throttle = 2
  MaxAt = 2
  MaxEvents = 1
  MaxFaults = 1
PROPERTIES ReservedStays
SYMMETRY Alike
CHECK_DEADLOCK FALSE

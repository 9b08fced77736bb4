SPECIFICATION Spec
CONSTANTS
  c1 = c1
  c2 = c2
  c3 = c3
  a = a
  b = b
  d = d
  r1 = r1
  r2 = r2
  Conn = {c1, c2, c3}
  Client = {a, b, d}
  RoomId = {r1, r2}
  None = None
  Joins <- Connecting
  MaxRev = 1
INVARIANTS
  RoomsConsistent
  ViewsAgree
  StateReachesAll
  NoClientLeaks
PROPERTIES
  RevisionsAdvance
  NoGhostOfTheDeparted
  HostsKept
CHECK_DEADLOCK FALSE

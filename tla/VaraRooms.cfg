SPECIFICATION FairSpec
CONSTANTS
  User = {1, 2, 3}
  Room = {r1}
  Group = {g1}
  NoGroup = NoGroup
  GroupRole <- MCGroupRole
  LeaseLen = 3
  RenewBelow = 2
  Ttls = {1, 4}
  Caps = {2, 3}
  MaxTime = 4
  MaxEpoch = 3
INVARIANTS
  RowsInRange
  OwnerAndHostAreMembers
  TopicIsFenced
  ArchivedGroupHasNoRoom
PROPERTIES
  EpochFencesHost
  LeasesImplemented
  ExpiredRoomCollected
CHECK_DEADLOCK FALSE

SPECIFICATION InvitesSpec
CONSTANTS
  User = {1, 2, 3}
  Room = {r1}
  Group = {}
  NoGroup = NoGroup
  GroupRole <- MCGroupRole
  LeaseLen = 2
  RenewBelow = 1
  Ttls = {2}
  Caps = {2, 3}
  MaxTime = 2
  MaxEpoch = 2
  Link = {l1}
  InviteTtl = 5
  LinkTtls = {1}
INVARIANTS
  CredentialsInRange
  BlocksSeparate
PROPERTIES
  AdmissionIsVouched
CHECK_DEADLOCK FALSE

SPECIFICATION FairSpec
CONSTANTS
  Peer = {1, 2}
  FirstHost = 1
  Title = {"a", "b"}
  Normal = 4
  Rates = {4, 8}
  Soft = 3
  Hard = 8
  Far = 9
  Jumps <- SomeJumps
  Beat = 3
  MaxLag = 1
  Allowed <- Disturbance
  MaxEvents = 3
INVARIANTS
  TypeOK
PROPERTIES
  Converges
  CommandsHeard
CHECK_DEADLOCK FALSE

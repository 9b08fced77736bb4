SPECIFICATION FairSpec
CONSTANTS
  Peer = {1, 2}
  FirstHost = 1
  Title = {"a"}
  Normal = 4
  Rates = {4}
  Soft = 3
  Hard = 8
  Far = 10
  Jumps <- SomeJumps
  Beat = 3
  MaxLag = 1
  Allowed <- Transferred
  MaxEvents = 2
PROPERTIES
  NudgesEnd
CHECK_DEADLOCK FALSE

SPECIFICATION Spec
CONSTANTS
  d1 = d1
  d2 = d2
  d3 = d3
  Download = {d1, d2, d3}
  Candidates = 3
  Taken = {}
  EngineCases <- Engines
  Sized = {d1}
  Size = 1
  Policies <- Caps
  MaxCalls = 1
  MaxPriority = 1
  MaxFaults = 0
INVARIANTS
  PathsExclusive
SYMMETRY Alike
CHECK_DEADLOCK FALSE

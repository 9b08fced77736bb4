SPECIFICATION Spec
CONSTANTS
  d1 = d1
  d2 = d2
  d3 = d3
  Download = {d1, d2, d3}
  Candidates = 4
  Taken = {2}
  EngineCases <- Engines
  Sized = {d1}
  Size = 1
  Policies <- Caps
  MaxCalls = 3
  MaxPriority = 1
  MaxFaults = 1
INVARIANTS
  WritersConsistent
  ActiveWithinLimit
  NoIdleSlot
  FilesConsistent
  HoldsMatchCopies
PROPERTIES
  BudgetNeverOverspent
SYMMETRY Alike
CHECK_DEADLOCK FALSE

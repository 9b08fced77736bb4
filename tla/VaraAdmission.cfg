SPECIFICATION Spec
CONSTANTS
  User = {1, 2, 3}
  Owner = 1
  Cap = 2
  MaxUses = 1
  Tx = {t1, t2, t3}
  Kinds = {"accept", "acceptLink", "invite", "leave", "close", "archive", "block"}
INVARIANTS
  BudgetsKept
  InviterBlockSeparates
  
SYMMETRY Symmetry
CHECK_DEADLOCK FALSE

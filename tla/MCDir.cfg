SPECIFICATION Spec
CONSTANTS
  Procs = {p1, p2}
  ninodes = 3
  Names = {"a"}
  Walks <- DeepWalks
  LinkWalks <- DeepLinks
SYMMETRY ProcSymmetry
INVARIANTS NamesLead NoWaitCycle
CHECK_DEADLOCK FALSE

\* The sums of the tickets stay below 2 ^ (IntBits - 1).
CONSTANTS
  CPUs = {c1, c2}
  c0 = c0
  NPROC = 2
  IntBits = 4
  Requests = {2}
  Tickets0 = 1
  Kinds = {"sleep", "fork", "settickets"}
SPECIFICATION MCSpec
INVARIANTS RunsOnOneCPU OneCPUDrawSucceeds
PROPERTIES TwoCPUsProgress NoStarvation

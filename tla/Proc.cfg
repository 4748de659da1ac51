SPECIFICATION Spec
CONSTANTS
  NPROC = 4
  NCPU = 2
  MaxPid = 5
  KillPids = {3}
INVARIANTS SchedSafe FamilySound NoLostWakeup

\* One process and two CPUs contend for tickslock and p->lock.
CONSTANTS
  CPUs = {c0, c1}
  Cpu0 = c0
  NPROC = 1
  N = 1
  TickMod = 3
  None = None
  Readers = {r1, r2}
  Writers = {w1, w2}
  Printers = {k1, k2}
SPECIFICATION MCSpec
INVARIANTS LocksBalanced NoSpinCycle NoLostWakeup
INVARIANTS ConsoleRing NoByteLost

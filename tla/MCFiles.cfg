CONSTANTS
  p1 = p1
  p2 = p2
  w1 = w1
  None = None
SPECIFICATION MCSpec
INVARIANTS FileRefsExact PipeFifo BlocksOwnedOnce
PROPERTY ImplementsByteFiles

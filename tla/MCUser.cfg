SPECIFICATION MCSpec
CONSTANTS
  Procs = {p1, p2}
  Items = {1, 2}
  BUFFER_SIZE = 3
  TotalMod = 5
  NoItem = NoItem
  None = None
SYMMETRY ProcSymmetry
INVARIANTS RingInv BytesExact LinesRun ImageSound
PROPERTY ImplementsQueue

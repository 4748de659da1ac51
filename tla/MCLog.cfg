SPECIFICATION MCSpec
CONSTANTS
  Procs = {p1, p2}
  Blocks = {b1, b2}
  Values = {v1, v2}
  LOGBLOCKS = 4
  MAXOPBLOCKS = 2
  OpBlocks = 2
  Torn = Torn
  Uncached = Uncached
  NoProc = NoProc
  NoBlock = NoBlock
SYMMETRY LogSymmetry
INVARIANTS NoPanic Durability SleeperHasWaker RoomReserved
PROPERTY ImplementsAtomicDisk

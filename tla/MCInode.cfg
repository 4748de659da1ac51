\* Two processes; at most two links to an inode.
CONSTANTS
  Procs = {p1, p2}
  ninodes = 3
  NINODE = 2
  MaxLinks = 2
  None = None
SPECIFICATION MCSpec
SYMMETRY Symmetry
INVARIANT InodesCached
PROPERTY DiskInodesConsistent

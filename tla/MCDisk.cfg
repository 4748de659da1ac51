CONSTANTS
  p1 = p1
  p2 = p2
  p3 = p3
  k1 = k1
  k2 = k2
  k3 = k3
  None = None
SPECIFICATION MCSpec
SYMMETRY DiskSymmetry
INVARIANT DiskResourcesExact
PROPERTIES ImplementsBlockStore ImplementsDisk

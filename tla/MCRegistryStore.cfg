SPECIFICATION RegistrySpec
CONSTANTS
  w1 = w1
  w2 = w2
  c1 = c1
  c2 = c2
  c3 = c3
  i1 = i1
  i2 = i2
  i3 = i3
  NoFile = NoFile
  Empty = Empty
  Garbage = Garbage
  Writers <- TwoWriters
  Changes <- ThreeChanges
  Inodes <- ThreeInodes
  DiskFails = TRUE
CHECK_DEADLOCK FALSE
INVARIANTS RegistryAlwaysLoads AnsweredIsSaved
PROPERTY ImplementsAtomicRegistry
SYMMETRY Alike

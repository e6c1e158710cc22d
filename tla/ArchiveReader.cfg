\* A command of every kind, while a writer overwrites and renames files.
CONSTANTS
  i1 = i1  i2 = i2
  N = 1
  Bytes = {1, 2, 3, 4}
  Archives <- MCArchives
  Version <- MCVersion
  Inodes = {i1, i2}
  MaxWrites = 2
  MaxMoves = 1
  Absent = Absent
SPECIFICATION ReaderSpec
SYMMETRY Interchangeable
INVARIANTS V1Coherent Anchored MethodsAnchored
CHECK_DEADLOCK FALSE

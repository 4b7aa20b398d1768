SPECIFICATION Spec
CONSTANTS
  Capacity = 3
  IndexMod = 9
  Char = {c1, c2}
  NoChar = NoChar
  MaxBatch = 4
  Batch <- BatchUpTo
INVARIANT TypeOK
PROPERTY ImplementsFifo

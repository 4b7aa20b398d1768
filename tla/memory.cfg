SPECIFICATION Spec
CONSTANTS
  WordSize = 2
  BufSize = 12
  Mapped = {1, 2, 3, 4, 5, 6}
  NumWords = 2
  Address = {1, 2, 3, 4, 5, 6, 7}
  ReadSize = {0, 1, 2, 3, 4, 5, 6}
  WriteData <- MCWriteData
  ContextData <- MCContextData
  Garbage = {0, 255}
INVARIANTS TypeOK ReadExact RegistersExact
PROPERTY ByteWriteExact

SPECIFICATION Spec
CONSTANTS
  Value = {a, b}
  Garbage = garbage
  ChunkSize = 2
  UIntModulus = 4
  MaxSize = 6
INVARIANTS
  QueriesAgree
PROPERTY
  ImplementsFifo

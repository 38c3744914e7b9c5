SPECIFICATION MCSpec
CONSTANTS
  Name = {a, b, c, d}
  Key = {3, 4, 5, 6}
  Value = {p, q}
  NULL = NULL
  Garbage = Garbage
  INITIAL_CAPACITY = 1
  GROWTH_FACTOR = 2
  ReallocFails = TRUE
INVARIANT ArraysOK
PROPERTY ArraysImplement

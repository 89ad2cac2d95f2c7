SPECIFICATION MCSpec
CONSTANTS
  Objects = {o1, o2}
  Addresses = {a1, a2, a3}
  Null = null
  BITS = 2
  WORD = 2
  MaxSize = 3
  UNSIGNED = 2
  MaxWidth = 5
  Data = {0, 1}
SYMMETRY Symmetry
INVARIANTS
  OwnedOnce
  ReadsLastWritten
  ReadsBack
PROPERTIES
  RefinesValues
CHECK_DEADLOCK FALSE

SPECIFICATION MCSpec
CONSTANTS
  DATA = {d1, d2}
  MEMORY_DEPTH = 4
  UNKNOWN = x
  SLAVES = 2
  MAP <- OverlappingMap
  ADDRESSES = {0, 1, 2}
  CAPACITY = 2
  DECERR = decerr
  Outstanding = 3
  MaxLead = 1
  BRIDGE_ADDRESSES = {0, 1}
INVARIANTS
  PointersAgree
  NoOverflow
  EmptyExact
  AnsweredInOrder
PROPERTIES
  RefinesFifo
  NeitherStarves
  EveryRequestAnswered
  WritesWhole

SPECIFICATION MCSpec
CONSTANTS
  DATA = {0, 1, 2, 3, 4, 5, 6, 7, 8, 9, 10, 11, 12}
  WIDTH = 3
  STAGES = 2
  UNKNOWN = x
  MaxWords = 12
INVARIANTS
  NoOvertake
  SafeSide
PROPERTIES
  RefinesFifo

SPECIFICATION Spec
CONSTANTS
  PERIODIC_DEFAULT = 2
  COUNTER_MAX = 5
  COUNTER_SIZE = 8
INVARIANTS
  LastIsPeriod

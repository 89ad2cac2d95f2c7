SPECIFICATION ClockingSpec
CONSTANTS
  RESET_DURATION = 3
  WAIT_FOR_LOCK = 7
  PLL_LOCKED_STAGES = 3
  COUNTER_SIZE = 8
  SYNC_STAGES = 4
  RESETS = {r1, r2, r3}
  DATA = {d1, d2}
  WIDTH = 3
  STAGES = 2
  UNKNOWN = x
  MaxWords = 2
INVARIANTS
  ReleasedInTime
PROPERTIES
  ResetLasts
  TimeoutExact
  Filtered
  Retries
  Locks
  RefinesFifo
  Delivered

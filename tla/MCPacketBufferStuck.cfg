SPECIFICATION FairSpec
CONSTANTS
  DATA = {d, l}
  LAST = {l}
  UNKNOWN = x
  CAPACITY = 4
  CAPACITY_WIDTH = 2
  COUNTER_SIZE = 8
  STAGES = 2
PROPERTIES
  WholePacketSent

SPECIFICATION FairSpec
CONSTANTS
  DUT = "buffer"
  Packets <- MCPackets
  ROUNDS = 2
  BUS_SIZE = 2
  RX_IDLE <- MCRxIdle
  TX_IDLE <- MCTxIdle
  TIMEOUT = 4
  DURATION = 1
  IDLE = 1
  MaxResets = 1
  UNKNOWN = x
INVARIANTS
  Wired
  NoFalseAlarm
  MonitorSeesItems
PROPERTIES
  HoldsOffer
  TestEnds
CHECK_DEADLOCK FALSE

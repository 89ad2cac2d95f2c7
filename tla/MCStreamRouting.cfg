SPECIFICATION RoutingSpec
CONSTANTS
  INPUTS = 3
  DEPTH = 2
  UNKNOWN = x
  MaxLength = 3
  NoInput = none
  Eager = {0, 1}
  OUTPUTS = 2
  GROUP = 1
  EXTRACT = FALSE
  MAP <- MCMap
  IDS = {0, 1, 2}
  WORDS <- MCWords
INVARIANTS
  PacketsWhole
PROPERTIES
  RoutesFifo
  NoStarvation
  RxAccepted

SPECIFICATION FairResizer
CONSTANTS
  NULL = null
  END = end
  UNDRIVEN = x
  WIDE = 2
  MaxBytes = 3
PROPERTIES
  RefinesByteStream
  PacketSent

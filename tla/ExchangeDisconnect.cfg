SPECIFICATION FairSpec
CONSTANTS
  MaxBytes = 2
  ChunkSizes = {1, 2}
  MaxTotal = 4
  MaxQueue = 2

PROPERTY DisconnectStopsProducer
CHECK_DEADLOCK FALSE

SPECIFICATION FairSpec
CONSTANTS
  MaxBytes = 2
  ChunkSizes = {1, 2}
  MaxTotal = 4
  MaxQueue = 2
INVARIANTS TypeOK BodyJudgedWhole
PROPERTIES ReadingLeavesNothing AlwaysAnswered ProducerReleased
CHECK_DEADLOCK FALSE

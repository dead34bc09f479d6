SPECIFICATION FairSpec
CONSTANTS
  Operations <- MCOperations
  MaxLayers = 3
  Statuses = {201, 502}
  Errors <- MCErrors
CHECK_DEADLOCK FALSE
INVARIANTS
  TypeOK
  LayersOnceInOrder
  SecurityAsDocumented
  RecordsAgree
PROPERTIES
  AlwaysAnswered

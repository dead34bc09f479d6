SPECIFICATION ZwenSpec
CONSTANTS
  Manifests <- MCManifests
  Reserved = {"new"}
  NoExpose = NoExpose
  Tables <- MCTables
  Values <- MCValues
  Encoded <- MCEncoded
  Decoded <- MCDecoded
  Undecodable = Undecodable
  SingleDots <- MCSingleDots
  DoubleDots <- MCDoubleDots
  NoRoute = NoRoute
  Apps <- MCApps
  Sanitized <- MCSanitized
  NoDocument = NoDocument
INVARIANTS
  ZwenTypeOK
  ContainerBoots
  CycleReal
  ClientReachesRoute
  RefsResolve
  ClientTypesFaithful
CHECK_DEADLOCK FALSE

SPECIFICATION FairSpec
CONSTANTS
  Requests = {r1, r2, r3}
  Keys = {k1, k2}
  Fingerprints = {fa, fb}
  None = None
  MaxKeys = 1
  Ttl = 2
  Sweeper = TRUE
  MaxLeases = 2
INVARIANTS
  TypeOK
  ReplayMatches
  ExclusiveWhileLocked
  NoLostWaiter
PROPERTIES
  TimelyResponseCached
  WaitersFreed

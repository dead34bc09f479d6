SPECIFICATION Spec
CONSTANTS
  Keys = {ka, kb, kc}
  Limit = 2
  Windows = {3}
  MaxKeys = 2
  Second = 2
  MaxTime = 4
  MaxHits = 3
CHECK_DEADLOCK FALSE
INVARIANTS
  TypeOK
  LimitExact
  HeadersTruthful

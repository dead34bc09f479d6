SPECIFICATION Spec
CONSTANTS
  Requests = {r1, r2, r3}
  Users = {u1, u2}
  Tokens = {t1, t2, t3}
  EntryIds = {e1, e2}
  ProjectIds = {p1, p2}
  Texts = {"old", "new"}
  Times <- MCTimes
  MaxSafe = 2
  MaxTime = 1
  Stores <- MCStores
  Null = Null
  u1 = u1
  u2 = u2
  t1 = t1
  t2 = t2
  p1 = p1
  p2 = p2
  e1 = e1
SYMMETRY Symmetry
INVARIANTS
  TimersTypeOK
PROPERTIES
  TenantsApart
  OneTimerUnlessOverlap
  ChangesLast
  ErrorsChangeNothing
CHECK_DEADLOCK FALSE

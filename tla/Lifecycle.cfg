SPECIFICATION FairSpec
CONSTANTS
  Callers = {c1, c2}
  StartIds = {s1, s2}
  StopIds = {p1, p2}
  NoAttempt = NoAttempt
  InitStart = 1
  InitStop = 1
  MaxHooks = 2
INVARIANTS
  TypeOK
  OneHookAtATime
  StartHooksOnceInOrder
PROPERTIES
  CallersReturn
  PhasesSpec

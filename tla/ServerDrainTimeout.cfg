SPECIFICATION OpenStreamSpec
CONSTANTS
  Callers = {entry, signals}
  Entry = entry
  Signals = signals
  StartIds = {s1}
  StopIds = {p1}
  NoAttempt = NoAttempt
  InitStart = 1
  InitStop = 1
  MaxHooks = 3
  Requests = {q1}
  RequestTimeout = TRUE
  RejectWhileDraining = TRUE
  SignalsEarly = FALSE
CHECK_DEADLOCK FALSE
PROPERTIES
  DrainTimeoutCloses

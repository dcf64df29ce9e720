CONSTANTS
  s1 = s1 s2 = s2 k1 = k1 None = None Stop = Stop
  Sessions = {s1, s2}
  Calls = {s1, s2}
  Callers = {k1}
  QueueCap = 1
  Timeout = 1
  MaxCall = 1
  Concurrency = 1
  InvokeTimeout = 3
  ExhaustedInterval = 1
  UnavailableInterval = 4
  MaxFailures = 1
SPECIFICATION CallsFairSpec
INVARIANTS
  Accounted
  NilMeansDrained
  CallsBeforeClose
  BusyIsInFlight
  RetryBounded
PROPERTIES
  CallersReturn
  CallsReturn
CHECK_DEADLOCK FALSE

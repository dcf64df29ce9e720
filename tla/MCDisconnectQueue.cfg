CONSTANTS
  s1 = s1 s2 = s2 s3 = s3 k1 = k1 None = None
  Sessions = {s1, s2, s3}
  Callers = {k1}
  QueueCap = 2
  Timeout = 1
  MaxCall = 1
SPECIFICATION Spec
INVARIANT ShutdownWithinTimeout
CHECK_DEADLOCK FALSE

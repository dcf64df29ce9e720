CONSTANTS
  maxReconnectAttempts = 3
  Sentinels = TRUE
  MaxConns = 3
  MaxMessages = 2
SPECIFICATION FairSpec
INVARIANTS
  OldConnectionIsSilent
  GivesUpInTime
  ConnectionsReleased
PROPERTIES
  LossIsNoticed
CHECK_DEADLOCK FALSE

SPECIFICATION FairSpec
CONSTANTS
  c1 = c1  c2 = c2
  Channels = {c1, c2}
  Conn = Conn
  Values = {"a"}
  Changes <- SomeChanges
  MaxCommands = 2
  MaxRetries <- ReaderRetries
  MaxMerges = 1
INVARIANTS StateCarried NoForgottenSubscription
PROPERTY CommandsReturn
CHECK_DEADLOCK FALSE

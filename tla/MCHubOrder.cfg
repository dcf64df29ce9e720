SPECIFICATION Spec
CONSTANTS
  s1 = s1  s2 = s2  s3 = s3  c1 = c1  c2 = c2  x = x  y = y  ann = ann  bob = bob
  m1 = m1  m2 = m2  d1 = d1  d2 = d2  sig = sig
  Sessions = {s1}
  Channels = {c1}
  Streams = {x}
  Idents = {ann, bob}
  IdentOf <- MCIdentOf
  Replies <- StartReplies
  Broadcasts = {}
  Commands = {}
  Signals = {}
  RegisterCap = 1
  SubscribeCap = 2
  PubSubCap = 2
  PoolWorkers = 1
  PoolQueue = 1
  MaxInputs = 3
  NoSession = NoSession
  Orphan = Orphan
INVARIANT CallsInOrder
CHECK_DEADLOCK FALSE

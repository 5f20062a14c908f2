SPECIFICATION FairSpec
CONSTANTS
  r1 = r1
  r2 = r2
  c1 = c1
  NoConv = NoConv
  Prober = prober
  Requests = {r1, r2}
  NumAccounts = 1
  MaxEvents = 1
  MaxConcurrent = 1
  MaxRotate = 2
  QueueMaxAttempts = 2
  ErrThreshold = 1
  Answers = {"ok", "unauth", "queue429", "queue400", "unusable", "server", "client", "cancelled"}
  Refreshable = {1}
  Serves = {1}
  Streaming = {r2}
  Conversations = {c1}
  ConvOf <- SharedConvOf
INVARIANTS TypeOK SlotsAccounted
PROPERTIES ImplementsSlotPool RequestEnds
CHECK_DEADLOCK FALSE

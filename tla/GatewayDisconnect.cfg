SPECIFICATION Spec
CONSTANTS
  r1 = r1
  r2 = r2
  c1 = c1
  NoConv = NoConv
  Prober = prober
  Requests = {r1, r2}
  NumAccounts = 2
  MaxConcurrent = 1
  MaxRotate = 2
  QueueMaxAttempts = 1
  ErrThreshold = 2
  Answers = {"ok", "cancelled"}
  Refreshable = {}
  Serves = {1, 2}
  Streaming = {r2}
  Conversations = {c1}
  ConvOf <- MCConvOf
  MaxEvents = 0
PROPERTY DisconnectsFreezeNoAccount
CHECK_DEADLOCK FALSE

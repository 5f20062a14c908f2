SPECIFICATION MCSpec
CONSTANTS
  Handlers = {h1, h2}
  MaxCalls = 3
  MaxRestarts = 2
  h1 = h1
  h2 = h2
  f1 = f1
  f2 = f2
  f3 = f3
  f4 = f4
  claim = claim
  conc = conc
  v1 = v1
  v2 = v2
  Fields = {claim, conc}
  Hot = {claim}
  Announced = {conc}
  Values = {v1, v2}
  None = None
  Bad = Bad
  Configured <- MCConfigured
  Default <- MCDefault
  Conversations = {c1, c2}
  Accounts = {a1}
  NoAcct = NoAcct
  Files = {f1, f2, f3, f4}
  NoFile = NoFile
  RouteAccounts = {p1}
  ErrThreshold = 2
  ErrCooldown = 2
  SoftCooldown = 1
  MaxErr = 3
  MaxTime = 3
SYMMETRY Symmetry
CHECK_DEADLOCK FALSE
INVARIANTS TypeOK OnlyValidInEffect LonePutAgrees  UntouchedFollowConfig ReadableUnlessMixed QuietFileAgrees PoolTypeOK 
 

SPECIFICATION Spec
CONSTANTS
  w1 = w1
  w2 = w2
  NoWorker = none
  Workers = {w1, w2}
  ClientIds = {k1, k2}
  PoolClient = k1
  MaxTokens = 5
  Regimes <- MCRegimes
SYMMETRY Symmetry
INVARIANTS GentleKeepsAccountAlive 
CHECK_DEADLOCK FALSE

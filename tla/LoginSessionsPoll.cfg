SPECIFICATION Spec
CONSTANTS
  LastSession = 2
  Workers = {w1, w2}
  NoCred = none
PROPERTY PollKeepsRefreshToken

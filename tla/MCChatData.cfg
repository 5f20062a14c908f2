SPECIFICATION MCSpec
CONSTANTS
  Pieces = {a, b}
  MaxPieces = 3
  MaxFrames = 4
  Finishes = {"stop", "tool_calls"}
  NoFinish = none
  Ids = {i1, i2}
  NoId = NoId
  Texts = {t1, t2}
  NoChat = NoChat
  Explicit = NoChat
  Tools = TRUE
  MaxLen = 5
  call1 = call1
  call2 = call2
  Calls = {call1, call2}
  WrapperCalls <- MCWrapperCalls
  MaxTokens = 6
CHECK_DEADLOCK FALSE
INVARIANTS ClientFollows  NothingAfterDone RewardedWhenDelivered NoOrphans OnlyBrokenTurnsDropped FencedCallsFound NothingInvented 
PROPERTY ChatIdStable

SPECIFICATION Spec
CONSTANTS
  W = 32
  MaxDepth = 2
  ChunkSize = 2
  Options <- JustOne
  MaxCalls <- CallBounds
  MaxOthers = 1
  MaxSize = 2
  KeyHeads <- TwoKeys
  Reals <- SomeReals
  Texts <- LongTexts
INVARIANT ChunkedAccepted
CHECK_DEADLOCK FALSE

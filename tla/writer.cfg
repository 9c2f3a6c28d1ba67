SPECIFICATION Spec
CONSTANTS
  W = 32
  MaxDepth = 2
  ChunkSize = 2
  Options <- Both
  MaxCalls <- CallBounds
  MaxOthers = 1
  MaxSize = 2
  KeyHeads <- TwoKeys
  Reals <- SomeReals
  Texts <- SomeTexts
INVARIANTS EntriesDelimited OutputWellFormed OutputDeterministic OutputMeansCalls
CHECK_DEADLOCK FALSE

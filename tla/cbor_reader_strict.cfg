SPECIFICATION ReaderSpec
CONSTANTS
  W = 96
  MaxTokens = 4
  MaxDepth = 2
  ValidateUtf8 = TRUE
  PosLimit = 8
  DepthLimit = 4
  IntMax = 47
  SelfDescribe = 90
  BytesTags = {2, 3, 64}
  Inputs <- ReadInputs
  StrictInputs <- ReadStrictInputs
INVARIANT DecodesDeterministic
CHECK_DEADLOCK FALSE

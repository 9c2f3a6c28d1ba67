SPECIFICATION Spec
CONSTANTS
  W = 8
  MaxTokens = 4
  MaxDepth = 2
  ValidateUtf8 = TRUE
  Inputs <- AllInputs
  StrictInputs <- DeterministicInputs
INVARIANTS TypeOK DepthAccounting MapPairing KeyExtents SkipsWellFormed AcceptsDeterministic
PROPERTIES NeverRewinds Returns
CHECK_DEADLOCK FALSE

SPECIFICATION Spec
CONSTANTS
  Types <- AllTypes
  Roots <- AllRoots
  Inputs <- AllInputs
  IntKeys <- SomeIntKeys
  HugeKeys = {"3"}
  Values = {"ok", "big", "strict"}
  MaxPathSteps = 2
  MaxTokens = 10
INVARIANTS InStep PathsLocate FirstErrorAgrees NoRepeats MissingExact MemberErrorsRecover DuplicatesResolved
PROPERTY Returns
CHECK_DEADLOCK FALSE

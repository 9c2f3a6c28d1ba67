SPECIFICATION Spec
CONSTANTS
  MaxDepth = 2
  Inputs <- AllInputs
  Kinds = {"null", "text"}
  MaxCalls = 8
  MaxShort = 2
  MaxDoc = 9
INVARIANTS PathsAgree RoundTrip SkipsValues
PROPERTY ReadingEnds
CHECK_DEADLOCK FALSE

SPECIFICATION Spec
CONSTANTS
  Handles = {e, c}
  Plain = {m}
  Keys = {k1, k2}
  MaxPathSteps = 2
  Blocks = {1, 2, 3}
  MaxCalls = 7
  Uses <- CopyUses
INVARIANT CopiesAreDeep
CHECK_DEADLOCK FALSE

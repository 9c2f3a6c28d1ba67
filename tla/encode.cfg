SPECIFICATION Spec
CONSTANTS
  W = 32
  MaxDepth = 3
  ChunkSize = 2
  Options <- AllOptions
  MaxPathSteps = 2
  Values <- AllValues
  Heap <- SomeHeap
INVARIANTS EncodesValue EncodedDeterministic ErrorsLocated StackBounded

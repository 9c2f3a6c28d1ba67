SPECIFICATION Spec
CONSTANTS
  W = 32
  MaxDepth = 3
  ChunkSize = 2
  Options <- Plain
  MaxPathSteps = 2
  Values <- TaggedWraps
  Heap <- SomeHeap
INVARIANT TransparentAsMember

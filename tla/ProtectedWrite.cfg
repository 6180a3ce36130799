SPECIFICATION Spec
CONSTANTS
  Writers = {w1, w2, w3}
  Readers = {r1}
  Initial = Initial
  None = None
  Size = 2
INVARIANT TargetIsWhole
INVARIANT FailedWriteKeepsFile
PROPERTY ImplementsAtomicFile
CHECK_DEADLOCK FALSE

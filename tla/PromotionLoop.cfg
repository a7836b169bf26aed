SPECIFICATION LoopSpec
CONSTANTS
  N = 4
  Kind <- LoopKind
  Threshold <- LoopThreshold
  Prices = {1, 2}
INVARIANT LoopPromotes
CHECK_DEADLOCK FALSE

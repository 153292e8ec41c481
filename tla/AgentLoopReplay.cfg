SPECIFICATION Spec
CONSTANTS
  MaxIterations = 2
  Batches = {}
  MaxPushed = 3
INVARIANT
  ReplayRebuildsState
CHECK_DEADLOCK FALSE

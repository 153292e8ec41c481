SPECIFICATION Spec
CONSTANTS
  MaxIterations = 2
  Batches <- SmallBatches
  MaxPushed = 3
INVARIANTS
  TypeOK
  LogIsCommittedPart
  ResultsFollowCalls
  SequentialIsAlone
  AbortStopsRequests
PROPERTY
  RunEnds
\* No run starts beyond MaxPushed.
CHECK_DEADLOCK FALSE

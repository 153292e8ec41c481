SPECIFICATION Spec
CONSTANTS
  Threshold = 4
  RecentTurnsToKeep = 2
  MinTurnsToKeep = 2
  Replies <- SmallReplies
  MaxIterations = 2
  ChunkSizes = {1, 3, 60}
  MaxMessages = 6
INVARIANTS
  TypeOK
  UserTurnsKept
  WireAnswersCalls
  OnlyKeptTurnsMissing
  CallsAreWhole
  EndOnce
\* No run starts beyond MaxMessages.
CHECK_DEADLOCK FALSE

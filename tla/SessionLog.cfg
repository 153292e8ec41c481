SPECIFICATION Spec
CONSTANTS
  Emitters = {e1, e2}
  Ids = {i1, i2, i3, i4, i5}
  None = None
  Faults = {"fail", "torn", "cut"}
SYMMETRY Symmetry
INVARIANTS
  TypeOK
  LogWellFormed
  AckedIsReplayed
  CursorRecoverable
PROPERTIES
  AckedSurvivesRestart
  ImplementsTranscript
\* The ids run out, and a file that does not parse is not reopened.
CHECK_DEADLOCK FALSE

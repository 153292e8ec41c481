SPECIFICATION ResumeSpec
CONSTANTS
  Procs = {p1, p2}
  None = None
  Users = {root, alice}
  Root = root
  ReadFaults = TRUE
  Messages = {m1, m2, m3}
SYMMETRY Symmetry
INVARIANTS
  ResumeTypeOK
  ExclusiveUndisturbed
  HolderIsNamed
  WriterAtTip
  ForkSeesItsPath
PROPERTIES
  OnlyForkDrops
  BusyNotAlone

SPECIFICATION ResumeSpec
CONSTANTS
  Procs = {p1, p2}
  None = None
  Users = {alice}
  Root = root
  ReadFaults = FALSE
  Messages = {m1, m2}
SYMMETRY Symmetry
INVARIANT
  ContextIsReplayed

SPECIFICATION Spec
CONSTANTS
  Procs = {p1, p2}
  None = None
  Users = {alice}
  Root = root
  ReadFaults = FALSE
SYMMETRY Symmetry
INVARIANT
  MutualExclusion

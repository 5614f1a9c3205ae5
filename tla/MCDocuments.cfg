CONSTANTS
  Users = {u1}
  Folders = {1, 2}
  Comments = {1}
  Requests = {r1, r2}
  MaxStarts = 4
  None = None
SPECIFICATION Spec
SYMMETRY Symmetry
INVARIANTS
  Consistent
  SharedTextGrows
  TextKept
  RemovedStaysRemoved
CHECK_DEADLOCK FALSE

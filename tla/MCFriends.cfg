CONSTANTS
  Users = {u1, u2}
  Rows = {1, 2, 3}
  Requests = {r1, r2}
  MaxStarts = 5
  None = None
SPECIFICATION Spec
SYMMETRY Symmetry
INVARIANTS
  Consistent
  BlockHolds
  NoticesHandled
CHECK_DEADLOCK FALSE

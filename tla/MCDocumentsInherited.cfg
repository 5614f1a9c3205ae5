CONSTANTS
  Users = {u1, u2}
  Folders = {1, 2}
  Comments = {1}
  Requests = {r1}
  MaxStarts = 4
  None = None
SPECIFICATION Spec
INVARIANTS
  GrantInherited
CHECK_DEADLOCK FALSE

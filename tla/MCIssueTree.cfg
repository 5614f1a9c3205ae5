CONSTANTS
  i1 = i1
  i2 = i2
  i3 = i3
  e1 = e1
  d1 = d1
  Issues = {i1, i2, i3}
  Events = {e1, e2, e3}
  Requests = {r1, r2}
  Dates = {d1, d2}
  Full = 3
  MaxStarts = 2
  Boards <- MCBoards
  None = None
SPECIFICATION Spec
INVARIANTS
  Consistent
  ProgressRolledUp
  EventFollowsIssue
PROPERTIES
  RequestsEnd
CHECK_DEADLOCK FALSE

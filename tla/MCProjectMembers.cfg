CONSTANTS
  own = own
  mem = mem
  out = out
  c1 = c1
  c2 = c2
  k1 = k1
  k2 = k2
  e1 = e1
  Users = {own, mem, out}
  Team = {own, mem, out}
  TeamManagers = {own}
  CalendarIds = {c1, c2, c3, c4, c5, c6, c7}
  CategoryIds = {k1, k2, k3, k4, k5, k6}
  EventIds = {e1, e2, e3}
  Requests = {r1, r2}
  TeamLimit = 2
  MaxStarts = 2
  Boards <- MCBoards
  None = None
SPECIFICATION Spec
SYMMETRY Symmetry
INVARIANTS
  Consistent
  CategoriesStay
  MembershipFollows
CHECK_DEADLOCK FALSE

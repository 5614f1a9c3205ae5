CONSTANTS
  u1 = u1
  u2 = u2
  Members = {u1, u2}
  Outsiders = {u3}
  DmRooms = {d1, d2}
  Channels = {c1}
  Requests = {r1, r2}
  Groups <- MCGroups
  Asked <- MCAsked
  MaxPosts = 3
  MaxStarts = 3
  MaxSteps = 4
  None = None
SPECIFICATION Spec
SYMMETRY Symmetry
INVARIANTS
  Consistent
  ReadMeansSeen
  MarksTold
CHECK_DEADLOCK FALSE

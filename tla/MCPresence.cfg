CONSTANTS
  u1 = u1
  u2 = u2
  s1 = s1
  s2 = s2
  s3 = s3
  People = {u1, u2}
  Sockets = {s1, s2, s3}
  Threads = {t}
  Huddles = {h}
  CallRooms = {c}
  UserOf <- MCUserOf
  Statuses = {"online", "offline"}
  NoSocket = NoSocket
  MaxAsked = 1
SYMMETRY MCTabs
SPECIFICATION PresenceSpec
INVARIANTS
  RoutesAgree
  GhostsOnlyByRace
CHECK_DEADLOCK FALSE

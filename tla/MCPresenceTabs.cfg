CONSTANTS
  u1 = u1
  u2 = u2
  s1 = s1
  s2 = s2
  s3 = s3
  People = {u1, u2}
  Sockets = {s1, s2, s3}
  Threads = {t}
  Huddles = {}
  CallRooms = {c}
  UserOf <- MCUserOf
  Statuses = {"online", "offline"}
  NoSocket = NoSocket
  MaxAsked = 1
CHECK_DEADLOCK FALSE
SPECIFICATION PresenceSpec
INVARIANT ConnectedAreListed

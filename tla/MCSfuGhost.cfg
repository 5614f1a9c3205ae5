SPECIFICATION SafetySpec
CONSTANTS
  Rooms = {r1}
  Users = {u1, u2}
  Transports = {t1, t2}
  Producers = {p1}
  Consumers = {c1}
  Routers = {q1, q2}
  Calls = {k1, k2}
  NoCall = NoCall
  NoRouter = NoRouter
  NoOp = NoOp
  NoId = NoId
SYMMETRY Symmetry
INVARIANTS
  ProducerOwnerJoined
CHECK_DEADLOCK FALSE

SPECIFICATION SfuSpec
CONSTANTS
  Rooms = {r1}
  Users = {u1, u2}
  Transports = {t1, t2}
  Producers = {p1}
  Consumers = {c1}
  Routers = {q1}
  Calls = {k1}
  NoCall = NoCall
  NoRouter = NoRouter
  NoOp = NoOp
  NoId = NoId
PROPERTIES
  ConsumersFollow
CHECK_DEADLOCK FALSE

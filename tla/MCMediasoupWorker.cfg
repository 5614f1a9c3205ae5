SPECIFICATION SupervisorSpec
CONSTANTS
  Workers = {w1, w2, w3}
  Loops = {l1, l2}
  NoWorker = NoWorker
  NoTask = NoTask
  MaxAttempts = 5
  BaseDelay = 3
  MaxDelay = 30
INVARIANTS
  Supervised
  BoundedOutage
PROPERTIES
  OutageEnds
  BootCompletes
  ImplementsLifecycle
CHECK_DEADLOCK FALSE

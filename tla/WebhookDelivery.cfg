SPECIFICATION Spec
CONSTANTS
  t1 = t1
  t2 = t2
  Targets = {t1, t2}
  Subscribed <- Patterns
  Workers = {w1, w2}
  Capacity = 1
  MaxRequests = 2
  Idle = Idle
  Gone = Gone
  None = None
INVARIANTS TypeOK
PROPERTIES DeliveredOnce StoppedIsQuiet ImplementsQueue
CHECK_DEADLOCK FALSE

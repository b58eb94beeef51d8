SPECIFICATION Spec
CONSTANTS
  k1 = k1
  d1 = d1
  Keys = {k1}
  Dests = {d1}
  RuleLists <- Lists
  Workers = {w1, w2}
  Capacity = 1
  MaxRequests = 3
  Idle = Idle
  Gone = Gone
  None = None
INVARIANTS TypeOK ReplicaFresh
PROPERTIES ImplementsQueue
CHECK_DEADLOCK FALSE

SPECIFICATION Spec
CONSTANTS
  c1 = c1
  c2 = c2
  Clients <- Callers
  Last = 2
  MaxOps = 3
  MaxFaults = 1
  None = None
SYMMETRY Swap
INVARIANTS TypeOK LatestVisible ExistsSound
CHECK_DEADLOCK FALSE

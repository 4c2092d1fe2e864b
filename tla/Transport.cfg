SPECIFICATION FairSpec
CONSTANTS
  Callers = {c1, c2}
  None = None
  Faults = {"offline", "cancel"}
  Capacity = 1
  MaxRequests = 3
  MaxPings = 1
  MaxConnections = 2
INVARIANTS Inv PendingCanBeAnswered CallerNotForgotten
PROPERTY CallsEnd
CHECK_DEADLOCK FALSE

SPECIFICATION Spec
CONSTANTS
  ActionIds = {a1}
  None = None
  Faults = {"abandon"}
  MaxStatus = 4
  MaxRequests = 2
  MaxOpens = 2
  MaxLosses = 1
INVARIANTS Inv NoFalseAccusation RecordIsNewest CaughtUpAgrees
PROPERTY SequenceSpec
CHECK_DEADLOCK FALSE

SPECIFICATION FairSpec
CONSTANTS
  None = None
  Channels = {a, b}
  Faults = {"overlap"}
  MaxTick = 3
  MaxOthers = 1
  MaxResets = 1
  MaxLosses = 2
INVARIANTS Inv AdvanceComplete AdvanceNotStuck
PROPERTY Progress
CHECK_DEADLOCK FALSE

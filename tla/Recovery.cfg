SPECIFICATION FairSpec
CONSTANTS
  None = None
  Targets = 2
  Samples = 1
  FaultAt = {"opening", "sampling", "waiting", "moving", "watching", "initializing", "resuming", "live", "settling", "cancelling", "stopping", "closing"}
  Faults = {"expire", "slow", "range", "persistent"}
  MaxLosses = 2
  MaxSessions = 3
INVARIANTS Inv NeverCrashes ReconnectComplete
PROPERTY DemoEnds
CHECK_DEADLOCK FALSE

SPECIFICATION FairSpec
CONSTANTS
  None = None
  Faults = {"overlap"}
  MaxTasks = 3
  MaxSessions = 2
  MaxBreaks = 3
INVARIANTS Inv OneStreamPerSession
PROPERTY StreamComesBack
CHECK_DEADLOCK FALSE

SPECIFICATION Spec
CONSTANTS
  ActionIds = {a1}
  None = None
  Faults = {"garbled"}
  MaxStatus = 4
  MaxRequests = 1
  MaxOpens = 1
  MaxLosses = 2
PROPERTY TerminalIsFinal
CHECK_DEADLOCK FALSE

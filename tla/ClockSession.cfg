SPECIFICATION SessionSpec
CONSTANTS
  None = None
  Elsewhere = 90
  Faults = {}
  MaxSessions = 2
  MaxPings = 4
  MaxLosses = 2
  Window = 2
  Delays = {0, 4}
  Origins = {5}
  Offsets = {10, 11, 20, 21}
INVARIANTS SessionInv BestWithin
PROPERTY ClockSpec
CHECK_DEADLOCK FALSE

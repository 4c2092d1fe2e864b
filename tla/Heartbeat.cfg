SPECIFICATION HBSpec
CONSTANTS
  Never = Never
  Intervals = {4, 8}
  Watchdogs = {Never, 9}
  ReportIntervals = {Never, 12}
  Lag = 1
  Delay = 1
  Period = 3
INVARIANTS HBInv WatchdogHeldOff StalledPolicyTrips
CHECK_DEADLOCK FALSE

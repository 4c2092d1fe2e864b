SPECIFICATION FairSpec
CONSTANTS
  ActionIds = {a1}
  None = None
  Faults = {"garbled", "abandon", "stream_abandon"}
  MaxStatus = 2
  MaxRequests = 1
  MaxOpens = 2
  MaxLosses = 2
PROPERTY DeliverySpec CaughtUp
CHECK_DEADLOCK FALSE

SPECIFICATION Spec
CONSTANTS
  ChannelIds = {c1}
  None = None
  Faults = {}
  MaxSeq = 4
  MaxSessions = 2
  MaxSubscriptions = 1
  MaxLosses = 1
INVARIANTS Inv Accounting NewestDelivered
CHECK_DEADLOCK FALSE

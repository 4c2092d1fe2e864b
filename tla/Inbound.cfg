SPECIFICATION ConnectionsSpec
CONSTANTS
  None = None
  MaxBytes = 6
  MaxPayload = 1
  MaxSent = 2
  MaxRequests = 2
INVARIANTS Inv AcceptsFrames RoundTrip NoCallerForgotten
CHECK_DEADLOCK FALSE

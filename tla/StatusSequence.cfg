SPECIFICATION Spec
CONSTANTS
  MaxSeq = 5
  NoReplay = NoReplay
INVARIANTS TypeOK AckPoint ExactlyOnce
PROPERTY ReplayEndsComplete

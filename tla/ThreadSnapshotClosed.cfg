SPECIFICATION ThreadSnapshotSpec
CONSTANTS
  FrameSize = 4
  MinStack = 3
  ExtraStack = 5
  MaxStack = 16
  ErrorSpace = 6
  MaxFrames = 5
  MaxVars = 3
INVARIANT
  ClosedOnce
CHECK_DEADLOCK FALSE

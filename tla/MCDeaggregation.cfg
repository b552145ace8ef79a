CONSTANTS
  Frames <- MCFrames
  Stamp <- MCStamp
  Alone = {5}
  MAX_SCATTERS = 3
  Addr = {1, 2, 3, 4, 5, 6, 7}
  MaxFaults = 1
SPECIFICATION FairSpec
INVARIANTS PushOrder NoStalePointer
PROPERTIES RefinesQueue EventuallyDelivered
CHECK_DEADLOCK FALSE

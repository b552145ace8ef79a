CONSTANTS
  Own = {"a", "b"}
  Forwarded = {"f1", "f2"}
  Dst <- MCDst
  Stamp <- MCStamp
  Levels = {"app", "ip"}
  BufferLen <- MCBufferLen
  HDR = 1
  MaxFaults = 1
SPECIFICATION FairSpec
INVARIANTS Conserved StampsRecoverable CrashNeedsCause
PROPERTY EventuallySent
CHECK_DEADLOCK FALSE

CONSTANTS
  node = node
  Nodes <- OneNode
  MaxSamples = 2
  MaxFaults = 2
  MaxLoads = 2
  RECLEN = 2
SPECIFICATION FairSpec
INVARIANTS LossNeedsFault RecordsFaithful TornRecordNeedsFault
PROPERTIES UnloadCompletes EventuallyRecorded
CHECK_DEADLOCK FALSE

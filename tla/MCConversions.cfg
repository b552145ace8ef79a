CONSTANTS
  BASE = 2
  MSG_BUF_SIZE = 12
  MaxPayload = 4
SPECIFICATION Spec
INVARIANTS ReadingRestored FoundWhenWhole PayloadRestored
CHECK_DEADLOCK FALSE

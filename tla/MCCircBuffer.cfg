SPECIFICATION RingFairSpec
CONSTANTS
  CIRC_BUF_SIZE = 4
  UINT32 = 64
  KMALLOC_MAX = 8
  MaxWrites = 9
INVARIANT InOrder
PROPERTIES RefinesFifo ReaderStaysBehind EventuallyDelivered

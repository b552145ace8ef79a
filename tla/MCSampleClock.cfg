SPECIFICATION Spec
CONSTANTS
  USECS = 3
  BootSecs = 5
  MaxTicks = 13
INVARIANTS StampExact MuxSelected StampErrorBounded
CHECK_DEADLOCK FALSE

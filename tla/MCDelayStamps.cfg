CONSTANTS
  Nodes = {1, 2, 3}
  Offset <- MCOffset
  Packets = {"data"}
  Header <- MCHeader
  Filters = {"f", "g", "h"}
  Args <- MCArgs
  Initial <- MCInitial
  MAX_FILTERS = 3
  PTR = 4
  MaxTime = 2
  MaxCommands = 3
SPECIFICATION Spec
INVARIANTS StampTracksCreation ChainIntact ReadsFilters
CHECK_DEADLOCK FALSE

SPECIFICATION BusFairSpec
CONSTANTS
  sdctl = sdctl
  xuartctl = xuartctl
  Tools <- BothTools
  MayDie = TRUE
INVARIANT HandlerExcludedUnlessRaced
PROPERTIES MarkCleared BusGranted

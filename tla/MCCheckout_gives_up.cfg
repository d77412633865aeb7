SPECIFICATION FairSpec
CONSTANTS
  Checkouts = {"s"}
  Boxes = {}
  Couponed = {"s"}
  Capacity = 1
  UsageLimit = 1
  MaxCrashes = 2
PROPERTIES
  UnpaidEnds
CHECK_DEADLOCK FALSE

SPECIFICATION Spec
CONSTANTS
  Checkouts = {"b1", "b2"}
  Boxes = {"b1", "b2"}
  Couponed = {"b2"}
  Capacity = 2
  UsageLimit = 1
  MaxCrashes = 1
INVARIANTS
  TypeOK
  SlotsExact
  CouponExact
  PaidBoxIsActive
CHECK_DEADLOCK FALSE

SPECIFICATION Spec
CONSTANTS
  Orders = {"box", "veg"}
  Boxes = {"box"}
  Couponed = {"veg"}
  Desk = {"a"}
  Refunders = {"a"}
  Targets <- FewTargets
  Selections <- BoxOnly
  Amount = 2
  Trusting = TRUE
  LostReplies = FALSE
  MaxRefunds = 2
INVARIANTS
  ClosedOnce
  RefundsAddUp
PROPERTIES
  BoxStepsLegal
CHECK_DEADLOCK FALSE

SPECIFICATION Spec
CONSTANTS
  Cycles = {2}
  Admins = {"a"}
  AdminTargets = {"SCHEDULED", "SKIPPED", "CHARGED", "PREPARING", "CANCELLED"}
  AdminCharging = TRUE
  Strategy = "MERCHANT_INITIATED"
  RetrySlots = 2
  PastDueAfter = 1
  OneTime = TRUE
  LostReplies = FALSE
  MaxAttempt = 2
  MaxDrift = 1
  MaxCrashes = 0
CONSTRAINT CardMoney
INVARIANTS
  AttemptChargedOnce
PROPERTIES
  ClosedOrderStays

SPECIFICATION FairSpec
CONSTANTS
  Cycles = {2}
  Admins = {}
  AdminTargets = {}
  AdminCharging = FALSE
  Strategy = "PAYMENT_LINK"
  RetrySlots = 1
  PastDueAfter = 1
  OneTime = FALSE
  LostReplies = TRUE
  MaxAttempt = 3
  MaxDrift = 1
  MaxCrashes = 1
INVARIANTS
  OneOpenLink
  SkippedUnpaidClosed
PROPERTIES
  
  UnpaidLeaves
  PaidLinkSettles

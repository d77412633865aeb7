SPECIFICATION Spec
CONSTANTS
  Cycles = {1, 2}
  Admins = {}
  AdminTargets = {}
  AdminCharging = FALSE
  Strategy = "MERCHANT_INITIATED"
  RetrySlots = 1
  PastDueAfter = 1
  OneTime = FALSE
  LostReplies = FALSE
  MaxAttempt = 2
  MaxDrift = 1
  MaxCrashes = 1
INVARIANTS
  TypeOK
  SlotHeldWhileLive
  
  PrepaidBoxKept
  MoneyAccounted

  

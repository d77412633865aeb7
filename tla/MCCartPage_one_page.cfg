SPECIFICATION FairSpec
CONSTANTS
  a = a
  code = code
  null = null
  t1 = t1
  Items = {a}
  Tabs = {t1}
  Codes = {code}
  Nothing = null
  Member = TRUE
  Hasty = FALSE
  Lossy = {"quote", "order", "poll"}
  SlowBank = TRUE
  MaxUnits = 2
  MaxOrders = 2
  MaxQuotes = 2
  MaxPolls = 1
INVARIANTS
  TotalIsCurrent
  
PROPERTIES
  WaitEnds
CHECK_DEADLOCK FALSE

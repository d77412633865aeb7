SPECIFICATION FairSpec
CONSTANTS
  Tabs <- PanelAndShop
  Calls = {1}
  MaxTokens = 4
  Again = TRUE
  Slow = TRUE
  LostReplies = TRUE
INVARIANTS
  OneSession
PROPERTIES
  LogoutEnds
  
CHECK_DEADLOCK FALSE

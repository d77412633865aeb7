SPECIFICATION Spec
CONSTANTS
  Weeks = 3
  DaysPerWeek = 1
  Freqs = {1, 2}
  Zones = {"z"}
  Capacity = 1
  Horizon = 2
  Unplanned = {}
  Contended = {3}
  SkipsPerYear = 1
  YearLength = 2
  Requests = {"r"}
  Uses = {"skip", "unskip", "patch", "request", "accept", "abandon", "confirm"}
  AdminTargets = {"CANCELLED", "PAUSED", "ACTIVE"}
CONSTRAINT BeforeLastCutoff
INVARIANTS
  CalendarBalanced
  OneBoxAWeek
  SkipsWithinYear
  
  RequestedIsOpen
CHECK_DEADLOCK FALSE

SPECIFICATION Spec
CONSTANTS
  a = a
  b = b
  c = c
  Products = {a, b, c}
  Template = {a, b}
  Extras = {c}
  Prefs = {"v"}
  Requests = {"r"}
  Uses = {"prefs", "items", "extras", "merge"}
  Admins = {"m"}
  MaxRows = 4
SYMMETRY TemplateSymmetry
INVARIANTS
  BoxKept
  ChargedForContents
CHECK_DEADLOCK FALSE

CONSTANTS
  c1 = c1
  o1 = o1
  r1 = r1
  r2 = r2
  Runs = {r1, r2}
  Owners = {o1}
  CspOwners = {o1, c1}
  Editors = {o1}
  Typed <- SomeNumbers
  Firings = 2
  Copies = 1
  MaxMonth = 2
  MaxFaults = 1
  Terms = {}
SPECIFICATION Spec
SYMMETRY Symmetry
INVARIANTS
  ClaimsExplained
  DocumentsWithinTotals
  NumbersRepeatExplained

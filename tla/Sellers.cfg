CONSTANTS
  q1 = q1
  q2 = q2
  a1 = a1
  a2 = a2
  a3 = a3
  c1 = c1
  c2 = c2
  c3 = c3
  Requests = {q1, q2}
  Addresses = {a1, a2, a3}
  Codes = {c1, c2, c3}
  Banned = {a3}
SPECIFICATION Spec
SYMMETRY Symmetry
INVARIANTS
  CodesBounded
  UsedCodesExplained
PROPERTY CodesKeepOwner

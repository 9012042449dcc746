CONSTANTS
  s1 = s1
  s2 = s2
  c1 = c1
  c2 = c2
  Servers = {s1, s2}
  Csps = {c1, c2}
  MaxBlock = 2
  MaxDay = 2
  MaxFaults = 1
SPECIFICATION Spec
SYMMETRY Symmetry
INVARIANTS
  CoveredEventsStored
  TotalsMatchChain
  BurnCopiesExplained
  MailsBoundedByRows
PROPERTY LedgerSpec

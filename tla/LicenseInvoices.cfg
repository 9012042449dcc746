CONSTANTS
  r1 = r1
  r2 = r2
  p1 = p1
  p2 = p2
  Runs = {r1, r2}
  Purchases = {p1, p2}
  Clients <- SomeClients
  MaxBlock = 2
  MaxFaults = 1
SPECIFICATION FairSpec
INVARIANTS
  PaidRowsInvoiced
  EventsBehindExplained
  CopiesExplained
  RatesDifferExplained
PROPERTY PurchasesInvoiced

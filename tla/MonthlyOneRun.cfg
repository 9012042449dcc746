CONSTANTS
  o1 = o1
  o2 = o2
  r1 = r1
  Runs = {r1}
  Owners = {o1, o2}
  CspOwners = {o1}
  Editors = {}
  Typed <- OneBelow
  Firings = 3
  Copies = 1
  MaxMonth = 3
  MaxFaults = 2
  Terms <- SomeTerms
SPECIFICATION FairSpec
INVARIANTS
  DownloadsMatchTotals
  LinesMakeTotal
  DraftsAnnounced
PROPERTIES
  BillingSpec
  AllocationsInvoiced
\* When the month's runs are over the job rests.
CHECK_DEADLOCK FALSE

CONSTANTS
  q1 = q1
  q2 = q2
  a1 = a1
  a2 = a2
  e1 = e1
  e2 = e2
  Requests = {q1, q2}
  Addresses = {a1, a2}
  Emails = {e1, e2}
  Buyers = {a2}
  Noted = {a1}
  MaxMails = 2
  MaxLinks = 2
  MaxFaults = 1
SPECIFICATION Spec
SYMMETRY Symmetry
INVARIANTS
  UsedAddressesOpened
  MissingKycExplained
  PendingMailed
PROPERTIES
  ConfirmedLossExplained
  DeletionUndoneExplained

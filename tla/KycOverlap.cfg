CONSTANTS
  w1 = w1
  w2 = w2
  u1 = u1
  Webhooks = {w1, w2}
  Sessions = {u1}
  Kinds = {"created", "green", "final", "reset", "deleted"}
  Known = {{"active"}, {"active", "typed", "applicant"}}
  Vies = {{"vies"}}
  MaxTime = 2
  MaxConfirms = 1
SPECIFICATION LinkSpec
SYMMETRY Symmetry
INVARIANTS
  ApprovedHasUserInfo
  AppliedEventsTold
  StatusHasCause
PROPERTIES
  AppliedInOrder
  FinalRejectionStays
  LinksAreDue

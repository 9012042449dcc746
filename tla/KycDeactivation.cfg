CONSTANTS
  w1 = w1
  Webhooks = {w1}
  Sessions = {}
  Kinds = {"activated", "deactivated"}
  Known = {{"active"}}
  Vies = {{"vies"}}
  MaxTime = 2
  MaxConfirms = 0
SPECIFICATION Spec
INVARIANT DeactivationStored

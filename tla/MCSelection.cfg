SPECIFICATION Spec
CONSTANTS
  declined = declined
  unset = unset
  none = none
  Declined = declined
  Unset = unset
  None = none
  Ids <- MCIds
  Inputs <- MCInputs
  Orders <- MCOrders
  Overrides <- MCOverrides
  OverClaims = {400}
INVARIANTS DoNoHarm BestIsChosen
CHECK_DEADLOCK FALSE

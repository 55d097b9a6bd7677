SPECIFICATION Spec
CONSTANTS
  None = None
  g2 = g2
  Guidances = {g2}
  Amount <- MCAmounts
  Actions = {a1, a2}
  Permits = {p1, p2}
  Children = {c1, c2}
  Limits = {1, 2}
  Until = 3
  ClearFor = 2
  PermitFor = 1
  MaxTime = 2
  MaxAttempts = 2
  MaxConfirmations = 1
  MaxObservations = 2
  MaxChanges = 1
SYMMETRY MCSymmetry
INVARIANT EffectAsPermitted
CHECK_DEADLOCK FALSE

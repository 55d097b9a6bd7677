SPECIFICATION Spec
CONSTANTS
  d1 = d1
  d2 = d2
  d3 = d3
  None = None
  Calls <- MCCalls
  Deliveries <- MCDeliveries
  MaxTime = 2
  MaxRestarts = 1
INVARIANTS TypeOK ClaimOutlastsMessage ChainNarrows
PROPERTIES ReplayOnlyWhenLate
SYMMETRY Symmetry
CHECK_DEADLOCK FALSE

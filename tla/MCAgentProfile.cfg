SPECIFICATION Spec
CONSTANTS
  None = None
  Profiles <- MCProfiles
  Amounts = {1, 2, 3}
  Ttls = {0, 1, 3}
  MaxDepth = 3
INVARIANTS ChainStaysNarrow SessionWithinChain
CHECK_DEADLOCK FALSE

SPECIFICATION Spec
CONSTANTS
  i1 = i1
  i2 = i2
  t1 = t1
  t2 = t2
  alice = alice
  bob = bob
  None = None
  Capabilities <- MCCapabilities
  Handles = {"agent"}
  Principals <- MCPrincipals
  Ids <- MCIds
  Threads <- MCThreads
  MaxCommits = 3
PROPERTIES OnlyStagedCommitted
SYMMETRY Symmetry
CHECK_DEADLOCK FALSE

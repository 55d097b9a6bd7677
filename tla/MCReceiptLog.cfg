SPECIFICATION Spec
CONSTANTS
  r1 = r1
  r2 = r2
  r3 = r3
  None = None
  Requests <- MCRequests
  MaxCrashes = 1
INVARIANTS TypeOK AnsweredIsKept ReplayFollowsSource ReceiptFollowsEffect ForksOnlyOnOverlap
PROPERTIES VerdictIsStable
SYMMETRY Symmetry
CHECK_DEADLOCK FALSE

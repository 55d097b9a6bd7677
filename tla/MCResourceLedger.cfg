SPECIFICATION Spec
CONSTANTS
  x1 = x1
  x2 = x2
  w1 = w1
  w2 = w2
  NoBudget = NoBudget
  Catalogue <- MCCatalogue
  Windows <- MCWindows
  Amounts = {1, 2}
  Bindings <- MCBindings
  Times = {0, 1}
  MaxReservations = 2
INVARIANTS TypeOK HardLimitHolds CommittedIsConsumed ConsumedAsReserved
PROPERTIES RemainingNeverGrows
SYMMETRY Symmetry
CHECK_DEADLOCK FALSE

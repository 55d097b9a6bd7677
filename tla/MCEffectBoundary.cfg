SPECIFICATION Spec
CONSTANTS
  c1 = c1
  c2 = c2
  g1 = g1
  g2 = g2
  None = None
  NoCall = NoCall
  NoRequest = NoRequest
  Calls <- MCCalls
  Gateways <- MCGateways
  Permits <- MCPermits
  Requests <- GoodRequests
  Reservations <- MCReservations
  Revocable <- MCRevocable
  Haltable = {}
  GlobalHalt <- MCGlobalHalt
  MaxTime = 1
INVARIANTS TypeOK AtMostOneEffect EffectUnderClaim RevokedBeforeCallBlocks EffectIsFunded
PROPERTIES ImplementsOneShot
SYMMETRY Symmetry
CHECK_DEADLOCK FALSE

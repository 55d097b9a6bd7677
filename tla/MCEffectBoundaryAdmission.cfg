SPECIFICATION FairSpec
CONSTANTS
  c1 = c1
  c2 = c2
  g1 = g1
  g2 = g2
  None = None
  NoCall = NoCall
  NoRequest = NoRequest
  Calls <- MCCalls
  Gateways = {g1}
  Permits <- MCPermits
  Requests <- MCAllRequests
  Reservations <- MCOneReservation
  Revocable = {}
  Haltable <- MCHaltable
  GlobalHalt <- MCGlobalHalt
  MaxTime = 1
INVARIANTS EffectInsideWindows EffectIsAdmitted
PROPERTIES ClaimLeadsToEvidence StartedCallsEnd
CHECK_DEADLOCK FALSE

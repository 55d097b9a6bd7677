\* Three consume_once calls on one permit, one on another; every statement
\* may fail and every process may die.
SPECIFICATION FairSpec
CONSTANTS
  c1 = c1
  c2 = c2
  c3 = c3
  c4 = c4
  p1 = p1
  p2 = p2
  NoCall = NoCall
  Calls <- MCCalls
  Permits <- MCPermits
  PermitOf <- MCPermitOf
INVARIANTS TypeOK TrueAtMostOnce
PROPERTIES ImplementsPromise EveryCallAnswered
CHECK_DEADLOCK FALSE

------------------------ MODULE PermitStore_proofs --------------------------
(***************************************************************************)
(* The SQLite store keeps the promise of the Protocol class for any number *)
(* of calls, processes and permits: proofs for module PermitStore.         *)
(***************************************************************************)
EXTENDS PermitStore, TLAPS

USE DEF Goto, Finish, Unlock, InTransaction, Running

\* Whatever statement fails and whichever process crashes, a call has returned
\* nothing, True, False, an error or not at all, and at most one call is in the
\* write transaction (SqlitePermitConsumptionStore.consume_once).
THEOREM StoreTyping == Spec => []TypeOK
<1> USE NoCallAssumption, PermitOfAssumption DEF TypeOK
<1>1. Init => TypeOK
  BY DEF Init
<1>2. TypeOK /\ [Next]_vars => TypeOK'
  <2> SUFFICES ASSUME TypeOK, [Next]_vars
               PROVE  TypeOK'
    OBVIOUS
  <2>1. ASSUME NEW c \in Calls, Begin(c) \/ Insert(c) \/ Duplicate(c)
        PROVE  TypeOK'
    BY <2>1 DEF Begin, Insert, Duplicate
  <2>2. ASSUME NEW c \in Calls, Commit(c) \/ Return(c) \/ Rollback(c)
        PROVE  TypeOK'
    BY <2>2 DEF Commit, Return, Rollback
  <2>3. ASSUME NEW c \in Calls, StatementFails(c) \/ Crash(c)
        PROVE  TypeOK'
    BY <2>3 DEF StatementFails, Crash
  <2>4. CASE UNCHANGED vars
    BY <2>4 DEF vars
  <2>5. QED
    BY <2>1, <2>2, <2>3, <2>4 DEF Next, Step
<1>3. QED
  BY <1>1, <1>2, PTL DEF Spec

\* Only the holder of the write lock is inside a transaction, so what it read
\* about its permit's row is still true when it commits.
THEOREM StoreInvariant == Spec => []StoreInv
<1> USE NoCallAssumption, PermitOfAssumption DEF TypeOK, StoreInv
<1>1. Init => StoreInv
  BY DEF Init
<1>2. TypeOK /\ StoreInv /\ [Next]_vars => StoreInv'
  <2> SUFFICES ASSUME TypeOK, StoreInv, [Next]_vars
               PROVE  StoreInv'
    OBVIOUS
  <2>1. ASSUME NEW c \in Calls, Begin(c)
        PROVE  StoreInv'
    BY <2>1 DEF Begin
  <2>2. ASSUME NEW c \in Calls, Insert(c)
        PROVE  StoreInv'
    BY <2>2 DEF Insert
  <2>3. ASSUME NEW c \in Calls, Duplicate(c)
        PROVE  StoreInv'
    BY <2>3 DEF Duplicate
  <2>4. ASSUME NEW c \in Calls, Rollback(c)
        PROVE  StoreInv'
    BY <2>4 DEF Rollback
  <2>5. ASSUME NEW c \in Calls, Commit(c)
        PROVE  StoreInv'
    BY <2>5 DEF Commit
  <2>6. ASSUME NEW c \in Calls, Return(c)
        PROVE  StoreInv'
    BY <2>6 DEF Return
  <2>7. ASSUME NEW c \in Calls, StatementFails(c)
        PROVE  StoreInv'
    BY <2>7 DEF StatementFails
  <2>8. ASSUME NEW c \in Calls, Crash(c)
        PROVE  StoreInv'
    BY <2>8 DEF Crash
  <2>9. CASE UNCHANGED vars
    BY <2>9 DEF vars
  <2>10. QED
    BY <2>1, <2>2, <2>3, <2>4, <2>5, <2>6, <2>7, <2>8, <2>9
       DEF Next, Step
<1>3. QED
  BY <1>1, <1>2, StoreTyping, PTL DEF Spec

\* consume_once answers True at most once per permit id, for any number of
\* gateways that share the database.
THEOREM StoreGrantsOnce == Spec => []TrueAtMostOnce
<1>1. StoreInv => TrueAtMostOnce
  BY DEF StoreInv, TrueAtMostOnce
<1>2. QED
  BY <1>1, StoreInvariant, PTL

\* Every step of the transaction is a step of the promised atomic claim, or
\* invisible to its callers.
THEOREM StoreImplementsPromise == Spec => ImplementsPromise
<1> USE NoCallAssumption, PermitOfAssumption
<1>1. Init => Promise!Init
  BY DEF Init, Promise!Init
<1>2. TypeOK /\ StoreInv /\ [Next]_vars => [Promise!Next]_(Promise!claimVars)
  <2> SUFFICES ASSUME TypeOK, StoreInv, [Next]_vars
               PROVE  [Promise!Next]_(Promise!claimVars)
    OBVIOUS
  <2> USE DEF Promise!Next, Promise!claimVars
  <2>1. ASSUME NEW c \in Calls, Begin(c) \/ Insert(c) \/ Duplicate(c)
        PROVE  UNCHANGED Promise!claimVars
    BY <2>1 DEF Begin, Insert, Duplicate
  <2>2. ASSUME NEW c \in Calls, Commit(c)
        PROVE  Promise!Claim(c)
    BY <2>2 DEF Commit, Promise!Claim, StoreInv, TypeOK
  <2>3. ASSUME NEW c \in Calls, Return(c)
        PROVE  Promise!Answer(c, "true")
    BY <2>3 DEF Return, Promise!Answer, Promise!MayAnswer, StoreInv, TypeOK
  <2>4. ASSUME NEW c \in Calls, Rollback(c)
        PROVE  Promise!Answer(c, "false")
    BY <2>4 DEF Rollback, Promise!Answer, Promise!MayAnswer, StoreInv, TypeOK
  <2>5. ASSUME NEW c \in Calls, StatementFails(c)
        PROVE  Promise!Answer(c, "error")
    BY <2>5 DEF StatementFails, Promise!Answer, Promise!MayAnswer, StoreInv, TypeOK
  <2>6. ASSUME NEW c \in Calls, Crash(c)
        PROVE  Promise!Answer(c, "crashed")
    BY <2>6 DEF Crash, Promise!Answer, Promise!MayAnswer, StoreInv, TypeOK
  <2>7. CASE UNCHANGED vars
    BY <2>7 DEF vars
  <2>8. QED
    BY <2>1, <2>2, <2>3, <2>4, <2>5, <2>6, <2>7
       DEF Next, Step, Promise!Answers
<1>3. QED
  BY <1>1, <1>2, StoreTyping, StoreInvariant, PTL
     DEF Spec, ImplementsPromise, Promise!Spec
=============================================================================

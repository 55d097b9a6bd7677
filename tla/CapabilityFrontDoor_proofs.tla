--------------------- MODULE CapabilityFrontDoor_proofs ----------------------
(***************************************************************************)
(* The front door for any number of threads, records, handles, principals  *)
(* and capabilities: verdicts are truthful and final, authority is fresh,  *)
(* and a second effect takes an exception or an overlap.                   *)
(***************************************************************************)
EXTENDS CapabilityFrontDoor, TLAPS

\* What a commit works on has been stored.
Stored == \A t \in Threads : target[t] # None => records[target[t]] # None

\* Only what was admitted is drafted, and only an effect is ever staged.
StagedInv ==
  /\ \A t \in Threads : draft[t] # None =>
       draft[t].status = "staged" /\ draft[t].handle \in Handles
  /\ \A i \in Ids : records[i] # None /\ records[i].status = "staged" =>
       records[i].handle \in Handles

\* A record has its effect only after it was stored, and before its verdict.
ActedInv ==
  /\ \A i \in Ids : records[i] = None => effects[i] = 0
  /\ \A t \in Threads : pc[t] = "acted" => effects[target[t]] > 0

\* While a commit asks, vouched and seen are up to date: whoever the handle
\* resolves to now was vouched for in it, and of those who were, whoever holds
\* authority now was seen to.  Its principal was vouched for when it was
\* resolved, and seen when it was approved.
UpToDate(t) ==
  /\ \A p \in Principals :
       identity[records[target[t]].handle] = p => p \in vouched[t]
  /\ \A p \in vouched[t] :
       <<records[target[t]].capability, p>> \in authority => p \in seen[t]
  /\ pc[t] \in {"resolved", "authorized"} => resolved[t] \in vouched[t]
  /\ pc[t] = "authorized" => resolved[t] \in seen[t]

SeenInv == \A t \in Threads : pc[t] \in Asking => UpToDate(t)

\* Until a commit of a record raises or two overlap, one thread at most works
\* on it, and it has not acted before that thread does.
OnceInv ==
  \A i \in Ids : i \notin raised \cup contested =>
    /\ effects[i] <= 1
    /\ \A t, u \in Threads : target[t] = i /\ target[u] = i => t = u
    /\ \A t \in Threads : target[t] = i /\ pc[t] # "acted" => effects[i] = 0

-----------------------------------------------------------------------------
LEMMA Unequal ==
  /\ None \notin Ids /\ None \notin Handles /\ None \notin Record
  /\ None \notin Principals /\ None \notin Capabilities
BY NoneAssumption, RecordAssumption

LEMMA RecordFields ==
  ASSUME NEW r \in Record
  PROVE  /\ r.status \in {"staged", "succeeded", "verification_failed", "received"}
         /\ r.capability \in Capabilities \cup {None}
         /\ r.handle \in Handles \cup {None}
         /\ r.principal \in Principals \cup {None}
BY DEF Record

LEMMA NewRecords ==
  /\ \A k \in Capabilities \cup {None}, s \in {"succeeded", "received"} :
       /\ Unattended(s, k) \in Record
       /\ Unattended(s, k).status = s /\ Unattended(s, k).handle = None
  /\ \A k \in Capabilities, h \in Handles, p \in Principals :
       [status |-> "staged", capability |-> k, handle |-> h, principal |-> p]
         \in Record
BY DEF Record, Unattended

\* A verdict changes the status of a record and nothing else.
LEMMA VerdictOnRecord ==
  ASSUME NEW r \in Record, NEW v
  PROVE  LET s == [r EXCEPT !.status = StatusAfter(v)] IN
         /\ s \in Record /\ s.status # "staged"
         /\ s.capability = r.capability /\ s.handle = r.handle
         /\ s.principal = r.principal
BY DEF Record, StatusAfter

LEMMA ResolvesType ==
  ASSUME NEW h
  PROVE  Resolves(h) \subseteq Principals
BY DEF Resolves

USE DEF Goto, setupVars, worldVars, callVars, momentVars, historyVars

LEMMA Typing == Spec => [](TypeOK /\ Stored)
<1>1. Init => TypeOK /\ Stored
  BY MaxCommitsAssumption, Unequal DEF Init, TypeOK, Invoking, Asking, Committing, Stored
<1>2. TypeOK /\ Stored /\ [Next]_vars => (TypeOK /\ Stored)'
  <2> SUFFICES ASSUME TypeOK, Stored, [Next]_vars PROVE (TypeOK /\ Stored)'
    OBVIOUS
  <2> USE DEF TypeOK, Invoking, Asking, Committing, Stored
  <2>1. ASSUME NEW k \in Capabilities, Register(k) \/ Bind(k)
        PROVE  (TypeOK /\ Stored)'
    BY <2>1 DEF Register, Bind
  <2>2. ASSUME NEW k \in Capabilities, NEW i \in Ids, Read(k, i)
        PROVE  (TypeOK /\ Stored)'
    BY <2>2, NewRecords, Unequal DEF Read, Store
  <2>3. ASSUME NEW i \in Ids, Event(i)
        PROVE  (TypeOK /\ Stored)'
    BY <2>3, NewRecords, Unequal DEF Event, Store
  <2>4. ASSUME NEW t \in Threads, NEW k \in Capabilities, NEW h \in Handles,
               Identify(t, k, h)
        PROVE  (TypeOK /\ Stored)'
    <3>1. PICK p \in Principals :
            draft' = [draft EXCEPT ![t] = [status |-> "staged", capability |-> k,
                                           handle |-> h, principal |-> p]]
      BY <2>4, ResolvesType DEF Identify
    <3>2. [status |-> "staged", capability |-> k, handle |-> h, principal |-> p]
            \in Record
      BY NewRecords
    <3>3. QED
      BY <2>4, <3>1, <3>2, Unequal DEF Identify
  <2>5. ASSUME NEW t \in Threads, Stage(t)
        PROVE  (TypeOK /\ Stored)'
    BY <2>5 DEF Stage, Store
  <2>6. ASSUME NEW t \in Threads, NEW i \in Ids, Commit(t, i)
        PROVE  (TypeOK /\ Stored)'
    <3>1. /\ Resolves(records[i].handle) \in SUBSET Principals
          /\ {p \in Resolves(records[i].handle) : Granted(records[i].capability, p)}
               \in SUBSET Principals
      BY ResolvesType
    <3>2. commits' \in 0..MaxCommits
      BY <2>6, MaxCommitsAssumption DEF Commit
    <3>3. /\ vouched' \in [Threads -> SUBSET Principals]
          /\ seen' \in [Threads -> SUBSET Principals]
      BY <2>6, <3>1 DEF Commit
    <3>4. QED
      BY <2>6, <3>2, <3>3, Unequal DEF Commit
  <2>7. ASSUME NEW t \in Threads, Admit(t) \/ Refuse(t) \/ Authorize(t) \/ Act(t)
        PROVE  (TypeOK /\ Stored)'
    <3>1. CASE Admit(t)
      BY <3>1 DEF Admit
    <3>2. CASE Refuse(t)
      BY <3>2 DEF Refuse
    <3>3. CASE Authorize(t)
      BY <3>3 DEF Authorize
    <3>4. CASE Act(t)
      BY <3>4 DEF Act
    <3>5. QED
      BY <2>7, <3>1, <3>2, <3>3, <3>4
  <2>8. ASSUME NEW t \in Threads, Resolve(t) \/ Deny(t) \/ Raise(t)
        PROVE  (TypeOK /\ Stored)'
    <3>1. CASE Resolve(t)
      <4>1. PICK p \in Principals : resolved' = [resolved EXCEPT ![t] = p]
        BY <3>1, ResolvesType DEF Resolve
      <4>2. QED
        BY <3>1, <4>1, Unequal DEF Resolve
    <3>2. CASE Deny(t)
      BY <3>2 DEF Deny, End
    <3>3. CASE Raise(t)
      BY <3>3 DEF Raise, End
    <3>4. QED
      BY <2>8, <3>1, <3>2, <3>3
  <2>9. ASSUME NEW t \in Threads, Conclude(t)
        PROVE  (TypeOK /\ Stored)'
    <3>1. target[t] \in Ids /\ records[target[t]] \in Record
      BY <2>9 DEF Conclude
    <3>2. PICK v : records' = [records EXCEPT ![target[t]].status = StatusAfter(v)]
      BY <2>9 DEF Conclude
    <3>3. [records[target[t]] EXCEPT !.status = StatusAfter(v)] \in Record
      BY <3>1, VerdictOnRecord
    <3>4. /\ records' \in [Ids -> Record \cup {None}]
          /\ \A i \in Ids : records[i] # None => records'[i] # None
      BY <3>1, <3>2, <3>3, Unequal
    <3>5. QED
      BY <2>9, <3>4 DEF Conclude, End
  <2>10. ASSUME Change
         PROVE  (TypeOK /\ Stored)'
    <3>1. /\ vouched' \in [Threads -> SUBSET Principals]
          /\ \A t \in Threads : vouched'[t] \in SUBSET Principals
      BY <2>10 DEF Change
    <3>2. seen' \in [Threads -> SUBSET Principals]
      BY <2>10, <3>1 DEF Change
    <3>3. /\ identity' \in [Handles -> Principals \cup {None}]
          /\ authority' \subseteq Capabilities \X Principals
      BY <2>10 DEF Change
    <3>4. QED
      BY <2>10, <3>1, <3>2, <3>3 DEF Change
  <2>11. ASSUME UNCHANGED vars
         PROVE  (TypeOK /\ Stored)'
    BY <2>11 DEF vars
  <2>12. QED
    BY <2>1, <2>2, <2>3, <2>4, <2>5, <2>6, <2>7, <2>8, <2>9, <2>10, <2>11
       DEF Next, Advance
<1>3. QED
  BY <1>1, <1>2, PTL DEF Spec

\* Record ids, threads and statuses stay what they are; a thread holds a draft
\* exactly while it stages, and a target exactly while it commits.
THEOREM FrontDoorTypeOK == Spec => []TypeOK
  BY Typing, PTL

-----------------------------------------------------------------------------
\* What a step does to records: new ones appear, those that are there keep all
\* but their status, and a verdict is not taken back.
LEMMA StepKeepsRecords ==
  ASSUME TypeOK, Stored, [Next]_vars, NEW i \in Ids, records[i] # None
  PROVE  /\ records'[i] # None
         /\ records'[i].capability = records[i].capability
         /\ records'[i].handle = records[i].handle
         /\ records'[i].principal = records[i].principal
         /\ records[i].status # "staged" => records'[i].status # "staged"
<1>1. CASE \/ \E j \in Ids : \E r : Store(j, r)
           \/ UNCHANGED records
  BY <1>1 DEF TypeOK, Store
<1>2. ASSUME NEW t \in Threads, Conclude(t)
      PROVE  /\ records'[i] # None
             /\ records'[i].capability = records[i].capability
             /\ records'[i].handle = records[i].handle
             /\ records'[i].principal = records[i].principal
             /\ records[i].status # "staged" => records'[i].status # "staged"
  <2>1. target[t] \in Ids /\ records[target[t]] \in Record
    BY <1>2 DEF Conclude, TypeOK, Committing, Stored
  <2>2. PICK v : records' = [records EXCEPT ![target[t]].status = StatusAfter(v)]
    BY <1>2 DEF Conclude
  <2>3. CASE i = target[t]
    <3>1. records'[i] = [records[i] EXCEPT !.status = StatusAfter(v)]
      BY <2>1, <2>2, <2>3 DEF TypeOK
    <3>2. QED
      BY <2>1, <2>3, <3>1, VerdictOnRecord, Unequal
  <2>4. CASE i # target[t]
    <3>1. records'[i] = records[i]
      BY <2>1, <2>2, <2>4 DEF TypeOK
    <3>2. QED
      BY <3>1
  <2>5. QED
    BY <2>3, <2>4
<1>3. QED
  BY <1>1, <1>2 DEF Next, Advance, Register, Bind, Read, Event, Store,
     Identify, Admit, Refuse, Stage, Commit, Resolve, Authorize, Deny, Act,
     Raise, Change, vars

\* A record with a verdict is never open again and stays its principal's,
\* whatever commits overlap and whatever exceptions leave them
\* (CapabilityFrontDoor.commit).
THEOREM VerdictsAreFinal == Spec => VerdictIsFinal
<1>1. TypeOK /\ Stored /\ [Next]_vars =>
        [\A i \in Ids :
           records[i] # None =>
             /\ records'[i] # None
             /\ records[i].status # "staged" => records'[i].status # "staged"
             /\ records'[i].principal = records[i].principal]_vars
  BY StepKeepsRecords
<1>2. QED
  BY <1>1, Typing, PTL DEF Spec, VerdictIsFinal

-----------------------------------------------------------------------------
\* What a commit has found out is kept while it goes on and the environment
\* stands still.
LEMMA KeepsSeen ==
  ASSUME TypeOK, Stored, SeenInv, [Next]_vars, UNCHANGED worldVars,
         NEW t \in Threads,
         pc[t] \in Asking, target'[t] = target[t],
         vouched'[t] = vouched[t], seen'[t] = seen[t],
         pc'[t] \in {"resolved", "authorized"} => resolved'[t] \in vouched[t],
         pc'[t] = "authorized" => resolved'[t] \in seen[t]
  PROVE  UpToDate(t)'
<1>1. target[t] \in Ids /\ records[target[t]] # None
  BY DEF TypeOK, Stored, Committing, Asking
<1>2. /\ records'[target[t]].capability = records[target[t]].capability
      /\ records'[target[t]].handle = records[target[t]].handle
  BY <1>1, StepKeepsRecords
<1>3. UpToDate(t)
  BY DEF SeenInv
<1>4. QED
  BY <1>2, <1>3 DEF UpToDate

LEMMA StepSeen ==
  ASSUME TypeOK, Stored, SeenInv, [Next]_vars
  PROVE  SeenInv'
<1> SUFFICES ASSUME NEW t \in Threads, pc'[t] \in Asking
             PROVE  UpToDate(t)'
  BY DEF SeenInv
<1>1. ASSUME pc'[t] = pc[t], UNCHANGED worldVars, target'[t] = target[t],
             resolved'[t] = resolved[t],
             vouched'[t] = vouched[t], seen'[t] = seen[t]
      PROVE  UpToDate(t)'
  <2>1. UpToDate(t)
    BY <1>1 DEF SeenInv
  <2>2. /\ pc'[t] \in {"resolved", "authorized"} => resolved'[t] \in vouched[t]
        /\ pc'[t] = "authorized" => resolved'[t] \in seen[t]
    BY <1>1, <2>1 DEF UpToDate
  <2>3. QED
    BY <1>1, <2>2, KeepsSeen
<1>2. ASSUME NEW i \in Ids, Commit(t, i)
      PROVE  UpToDate(t)'
  <2>1. /\ pc'[t] = "begun" /\ target'[t] = i /\ records' = records
        /\ identity' = identity /\ authority' = authority
        /\ vouched'[t] = Resolves(records[i].handle)
        /\ seen'[t] = {p \in Resolves(records[i].handle) :
                         Granted(records[i].capability, p)}
    BY <1>2 DEF Commit, TypeOK
  <2>2. QED
    BY <2>1 DEF UpToDate, Resolves, Granted
<1>3. CASE Resolve(t)
  <2>1. PICK p \in Principals : /\ identity[records[target[t]].handle] = p
                                /\ resolved' = [resolved EXCEPT ![t] = p]
    BY <1>3 DEF Resolve, Resolves
  <2>2. UpToDate(t) /\ pc'[t] = "resolved" /\ resolved'[t] = p
    BY <1>3, <2>1 DEF Resolve, SeenInv, Asking, TypeOK
  <2>3. resolved'[t] \in vouched[t] /\ pc'[t] # "authorized"
    BY <2>1, <2>2 DEF UpToDate
  <2>4. QED
    BY <1>3, <2>3, KeepsSeen DEF Resolve, Asking
<1>4. CASE Authorize(t)
  <2>1. /\ UpToDate(t)
        /\ <<records[target[t]].capability, resolved[t]>> \in authority
    BY <1>4 DEF Authorize, Approved, Granted, SeenInv, Asking
  <2>2. resolved'[t] \in vouched[t] /\ resolved'[t] \in seen[t]
    BY <1>4, <2>1 DEF UpToDate, Authorize
  <2>3. QED
    BY <1>4, <2>2, KeepsSeen DEF Authorize, Asking
<1>5. CASE Change
  <2>1. /\ vouched'[t] = {p \in Principals :
             p \in vouched[t] \/ identity'[records'[target'[t]].handle] = p}
        /\ pc'[t] = pc[t] /\ resolved'[t] = resolved[t] /\ pc[t] \in Asking
        /\ target'[t] = target[t] /\ records' = records
    BY <1>5 DEF Change, TypeOK
  <2>2. seen'[t] = {p \in vouched'[t] :
             p \in seen[t] \/ <<records'[target'[t]].capability, p>> \in authority'}
    BY <1>5 DEF Change, TypeOK
  <2>3. UpToDate(t) /\ vouched[t] \subseteq Principals
    BY <2>1 DEF SeenInv, TypeOK
  <2>4. QED
    BY <2>1, <2>2, <2>3 DEF UpToDate
<1>6. ASSUME NEW u \in Threads,
             \/ Act(u) \/ Deny(u) \/ Raise(u) \/ Conclude(u)
      PROVE  UpToDate(t)'
  <2>1. pc'[u] \notin Asking
    BY <1>6 DEF Act, Deny, Raise, Conclude, End, Asking, TypeOK
  <2>2. /\ pc'[t] = pc[t] /\ target'[t] = target[t] /\ resolved'[t] = resolved[t]
        /\ vouched'[t] = vouched[t] /\ seen'[t] = seen[t] /\ UNCHANGED worldVars
    BY <1>6, <2>1 DEF Act, Deny, Raise, Conclude, End, TypeOK
  <2>3. QED
    BY <1>1, <2>2
<1>7. ASSUME NEW u \in Threads,
             \/ \E k \in Capabilities, h \in Handles : Identify(u, k, h)
             \/ Admit(u) \/ Refuse(u) \/ Stage(u)
      PROVE  UpToDate(t)'
  <2>1. pc'[u] \notin Asking
    BY <1>7 DEF Identify, Admit, Refuse, Stage, Asking, TypeOK
  <2>2. /\ pc'[t] = pc[t] /\ target'[t] = target[t] /\ resolved'[t] = resolved[t]
        /\ vouched'[t] = vouched[t] /\ seen'[t] = seen[t] /\ UNCHANGED worldVars
    BY <1>7, <2>1 DEF Identify, Admit, Refuse, Stage, TypeOK
  <2>3. QED
    BY <1>1, <2>2
<1>8. ASSUME NEW u \in Threads \ {t},
             \/ \E i \in Ids : Commit(u, i)
             \/ Resolve(u) \/ Authorize(u)
      PROVE  UpToDate(t)'
  <2>1. /\ pc'[t] = pc[t] /\ target'[t] = target[t] /\ resolved'[t] = resolved[t]
        /\ vouched'[t] = vouched[t] /\ seen'[t] = seen[t] /\ UNCHANGED worldVars
    BY <1>8 DEF Commit, Resolve, Authorize, TypeOK
  <2>2. QED
    BY <1>1, <2>1
<1>9. CASE UNCHANGED <<worldVars, callVars, momentVars>>
  BY <1>1, <1>9
<1>10. QED
  BY <1>2, <1>3, <1>4, <1>5, <1>6, <1>7, <1>8, <1>9
     DEF Next, Advance, Register, Bind, Read, Event, vars

\* Whatever changes between staging and commit and within the commit, the
\* principal an effect is committed for is one its handle resolved to during
\* that call, and held authority for it then or later in the call
\* (CapabilityFrontDoor.commit, _principal, _assert_authority).
THEOREM AuthorityIsFresh == Spec => FreshAuthority
<1>1. Init => SeenInv
  BY DEF Init, SeenInv, Asking
<1>2. TypeOK /\ Stored /\ SeenInv /\ [Next]_vars => SeenInv'
  BY StepSeen
<1>3. TypeOK /\ Stored /\ SeenInv /\ [Next]_vars =>
        [\A i \in Ids :
           effects'[i] > effects[i] =>
             \E t \in Threads : /\ target[t] = i /\ pc[t] = "authorized"
                                /\ resolved[t] \in seen[t]
        ]_vars
  <2> SUFFICES ASSUME TypeOK, Stored, SeenInv, [Next]_vars, NEW i \in Ids,
                      effects'[i] > effects[i]
               PROVE  \E t \in Threads : /\ target[t] = i /\ pc[t] = "authorized"
                                         /\ resolved[t] \in seen[t]
    OBVIOUS
  <2>1. ~(effects[i] > effects[i])
    BY DEF TypeOK
  <2>2. PICK t \in Threads : Act(t)
    BY <2>1 DEF Next, Advance, Register, Bind, Read, Event, Identify, Admit,
       Refuse, Stage, Commit, Resolve, Authorize, Deny, Raise, Conclude,
       Change, vars
  <2>3. target[t] = i
    BY <2>1, <2>2 DEF Act, TypeOK
  <2>4. QED
    BY <2>2, <2>3 DEF Act, SeenInv, UpToDate, Asking
<1>4. QED
  BY <1>1, <1>2, <1>3, Typing, PTL DEF Spec, FreshAuthority

-----------------------------------------------------------------------------
LEMMA StepStaged ==
  ASSUME TypeOK, Stored, StagedInv, [Next]_vars
  PROVE  StagedInv'
<1> USE DEF TypeOK, Invoking, Asking, Committing, Stored, StagedInv
<1>1. \A i \in Ids : records[i] # None =>
        /\ records'[i].handle = records[i].handle
        /\ records[i].status # "staged" => records'[i].status # "staged"
  BY StepKeepsRecords
<1>2. ASSUME NEW t \in Threads,
             \/ \E k \in Capabilities, h \in Handles : Identify(t, k, h)
             \/ Refuse(t)
      PROVE  StagedInv'
  BY <1>2 DEF Identify, Refuse
<1>3. ASSUME NEW t \in Threads, Stage(t)
      PROVE  StagedInv'
  BY <1>3 DEF Stage, Store
<1>4. ASSUME NEW k \in Capabilities, NEW i \in Ids, Read(k, i)
      PROVE  StagedInv'
  BY <1>4, NewRecords DEF Read, Store
<1>5. ASSUME NEW i \in Ids, Event(i)
      PROVE  StagedInv'
  BY <1>5, NewRecords DEF Event, Store
<1>6. ASSUME NEW t \in Threads, Conclude(t)
      PROVE  StagedInv'
  <2>1. \A i \in Ids : records'[i] # None => records[i] # None
    BY <1>6 DEF Conclude
  <2>2. QED
    BY <1>1, <1>6, <2>1 DEF Conclude, End
<1>7. CASE UNCHANGED <<draft, records>>
  BY <1>7
<1>8. QED
  BY <1>2, <1>3, <1>4, <1>5, <1>6, <1>7 DEF Next, Advance, Register, Bind,
     Admit, Commit, Resolve, Authorize, Deny, End, Act, Raise, Change, vars

LEMMA StepActed ==
  ASSUME TypeOK, Stored, ActedInv, [Next]_vars
  PROVE  ActedInv'
<1> USE DEF TypeOK, Invoking, Asking, Committing, Stored, ActedInv
<1>1. \A i \in Ids : records[i] # None => records'[i] # None
  BY StepKeepsRecords
<1>2. ASSUME NEW t \in Threads, Act(t)
      PROVE  ActedInv'
  <2>1. target[t] \in Ids /\ records[target[t]] # None
    BY <1>2 DEF Act
  <2>2. QED
    BY <1>2, <2>1 DEF Act
<1>3. ASSUME NEW t \in Threads, NEW i \in Ids, Commit(t, i)
      PROVE  ActedInv'
  BY <1>3 DEF Commit
<1>4. ASSUME NEW t \in Threads, Resolve(t) \/ Authorize(t) \/ Stage(t)
      PROVE  ActedInv'
  BY <1>1, <1>4 DEF Resolve, Authorize, Stage
<1>5. ASSUME NEW t \in Threads, Deny(t) \/ Raise(t) \/ Conclude(t)
      PROVE  ActedInv'
  BY <1>1, <1>5 DEF Deny, Raise, Conclude, End
<1>6. ASSUME NEW t \in Threads,
             \/ \E k \in Capabilities, h \in Handles : Identify(t, k, h)
             \/ Admit(t) \/ Refuse(t)
      PROVE  ActedInv'
  BY <1>6 DEF Identify, Admit, Refuse
<1>7. CASE UNCHANGED <<pc, target, effects>>
  BY <1>1, <1>7
<1>8. QED
  BY <1>2, <1>3, <1>4, <1>5, <1>6, <1>7 DEF Next, Advance, Register, Bind,
     Read, Event, Change, vars

LEMMA StepReported ==
  ASSUME TypeOK, Stored, ActedInv, StagedInv, EffectIsReported, [Next]_vars
  PROVE  EffectIsReported'
<1> USE DEF TypeOK, Invoking, Asking, Committing, EffectIsReported
<1>1. ASSUME NEW t \in Threads, Stage(t)
      PROVE  EffectIsReported'
  <2>1. \A u \in Threads : target'[u] = target[u] /\ (pc[u] = "acted" => pc'[u] = "acted")
    BY <1>1 DEF Stage
  <2>2. ASSUME NEW i \in Ids, Store(i, draft[t])
        PROVE  EffectIsReported'
    <3>1. effects[i] = 0 /\ draft[t].status = "staged"
      BY <1>1, <2>2 DEF Stage, Store, ActedInv, StagedInv
    <3>2. QED
      BY <1>1, <2>1, <2>2, <3>1 DEF Stage, Store
  <2>3. CASE UNCHANGED records
    BY <1>1, <2>1, <2>3 DEF Stage
  <2>4. QED
    BY <1>1, <2>2, <2>3 DEF Stage
<1>2. ASSUME NEW k \in Capabilities, NEW i \in Ids, Read(k, i)
      PROVE  EffectIsReported'
  BY <1>2, NewRecords DEF Read, Store
<1>3. ASSUME NEW i \in Ids, Event(i)
      PROVE  EffectIsReported'
  BY <1>3, NewRecords DEF Event, Store
<1>4. ASSUME NEW t \in Threads, Act(t)
      PROVE  EffectIsReported'
  <2>1. target[t] \in Ids /\ records' = records
    BY <1>4 DEF Act
  <2>2. /\ pc'[t] = "acted" /\ target' = target /\ raised' = raised
        /\ effects'[target[t]] > 0
        /\ \A i \in Ids : i # target[t] => effects'[i] = effects[i]
        /\ \A u \in Threads : pc[u] = "acted" => pc'[u] = "acted"
    BY <1>4, <2>1 DEF Act
  <2>3. QED
    BY <2>1, <2>2
<1>5. ASSUME NEW t \in Threads, Raise(t)
      PROVE  EffectIsReported'
  BY <1>5 DEF Raise, End
<1>6. ASSUME NEW t \in Threads, Conclude(t)
      PROVE  EffectIsReported'
  <2>1. /\ target[t] \in Ids /\ records[target[t]] \in Record
        /\ effects[target[t]] > 0
    BY <1>6 DEF Conclude, Stored, ActedInv
  <2>2. PICK v : records' = [records EXCEPT ![target[t]].status = StatusAfter(v)]
    BY <1>6 DEF Conclude
  <2>3. records'[target[t]].status # "staged"
    BY <2>1, <2>2, VerdictOnRecord
  <2>4. \A i \in Ids : i # target[t] => records'[i] = records[i]
    BY <2>1, <2>2
  <2>5. /\ effects' = effects /\ raised' = raised
        /\ \A u \in Threads : u # t => pc'[u] = pc[u] /\ target'[u] = target[u]
    BY <1>6 DEF Conclude, End
  <2>6. QED
    BY <2>1, <2>3, <2>4, <2>5
<1>7. ASSUME NEW t \in Threads, pc[t] # "acted", UNCHANGED <<records, effects, raised>>,
             \A u \in Threads : u # t => pc'[u] = pc[u] /\ target'[u] = target[u]
      PROVE  EffectIsReported'
  BY <1>7
<1>8. ASSUME NEW t \in Threads, NEW i \in Ids, Commit(t, i)
      PROVE  EffectIsReported'
  BY <1>7, <1>8 DEF Commit
<1>9. ASSUME NEW t \in Threads, Resolve(t) \/ Authorize(t) \/ Deny(t)
      PROVE  EffectIsReported'
  BY <1>7, <1>9 DEF Resolve, Authorize, Deny, End
<1>10. ASSUME NEW t \in Threads,
              \/ \E k \in Capabilities, h \in Handles : Identify(t, k, h)
              \/ Admit(t) \/ Refuse(t)
       PROVE  EffectIsReported'
  BY <1>7, <1>10 DEF Identify, Admit, Refuse
<1>11. CASE UNCHANGED <<records, effects, raised, pc, target>>
  BY <1>11
<1>12. QED
  BY <1>1, <1>2, <1>3, <1>4, <1>5, <1>6, <1>8, <1>9, <1>10, <1>11
     DEF Next, Advance, Register, Bind, Change, vars

\* How far a record, its effect and the commits of it have got, together.
ReportInv == TypeOK /\ Stored /\ StagedInv /\ ActedInv /\ EffectIsReported

LEMMA ReportInvariant == Spec => []ReportInv
<1>1. Init => StagedInv /\ ActedInv /\ EffectIsReported
  BY Unequal DEF Init, StagedInv, ActedInv, EffectIsReported
<1>2. TypeOK /\ Stored /\ StagedInv /\ ActedInv /\ EffectIsReported /\ [Next]_vars
        => (StagedInv /\ ActedInv /\ EffectIsReported)'
  BY StepStaged, StepActed, StepReported
<1>3. QED
  BY <1>1, <1>2, Typing, PTL DEF Spec, ReportInv

\* A record tells the truth: a verdict implies its effect, and an effect whose
\* record is still open is being verified or was lost to an exception
\* (CapabilityFrontDoor.commit).
THEOREM EffectsAreReported == Spec => []EffectIsReported
  BY ReportInvariant, PTL DEF ReportInv

-----------------------------------------------------------------------------
LEMMA StepOnce ==
  ASSUME ReportInv, OnceInv, [Next]_vars
  PROVE  OnceInv'
<1> USE DEF ReportInv, TypeOK, Invoking, Asking, Committing, OnceInv
<1>1. ASSUME NEW t \in Threads, NEW i \in Ids, Commit(t, i)
      PROVE  OnceInv'
  <2>1. target[t] = None /\ records[i] # None /\ records[i].status = "staged"
    BY <1>1 DEF Commit, Committable
  <2>2. records[i].handle # None
    BY <2>1, Unequal DEF StagedInv
  <2>3. ASSUME i \notin raised' \cup contested'
        PROVE  effects[i] = 0 /\ \A u \in Threads : target[u] # i
    <3>1. i \notin raised \cup contested /\ \A u \in Threads : target[u] # i
      BY <1>1, <2>3 DEF Commit
    <3>2. QED
      BY <2>1, <2>2, <3>1 DEF EffectIsReported
  <2>4. /\ effects' = effects /\ raised' = raised /\ contested \subseteq contested'
        /\ target'[t] = i /\ pc'[t] = "begun"
        /\ \A u \in Threads : u # t => target'[u] = target[u] /\ pc'[u] = pc[u]
    BY <1>1 DEF Commit
  <2>5. QED
    BY <2>3, <2>4
<1>2. ASSUME NEW t \in Threads, Act(t)
      PROVE  OnceInv'
  <2>1. target[t] \in Ids /\ pc[t] # "acted"
    BY <1>2 DEF Act
  <2>2. /\ pc'[t] = "acted" /\ target' = target
        /\ raised' = raised /\ contested' = contested
        /\ effects'[target[t]] = effects[target[t]] + 1
        /\ \A i \in Ids : i # target[t] => effects'[i] = effects[i]
        /\ \A u \in Threads : u # t => pc'[u] = pc[u]
    BY <1>2, <2>1 DEF Act
  <2>3. QED
    BY <2>1, <2>2
<1>3. ASSUME NEW t \in Threads, Resolve(t) \/ Authorize(t)
      PROVE  OnceInv'
  BY <1>3 DEF Resolve, Authorize
<1>4. ASSUME NEW t \in Threads, Deny(t) \/ Raise(t) \/ Conclude(t)
      PROVE  OnceInv'
  <2>1. /\ effects' = effects /\ contested' = contested /\ raised \subseteq raised'
        /\ target'[t] = None
        /\ \A u \in Threads : u # t => target'[u] = target[u] /\ pc'[u] = pc[u]
    BY <1>4 DEF Deny, Raise, Conclude, End
  <2>2. QED
    BY <2>1, Unequal
<1>5. ASSUME NEW t \in Threads,
             \/ \E k \in Capabilities, h \in Handles : Identify(t, k, h)
             \/ Admit(t) \/ Refuse(t)
      PROVE  OnceInv'
  BY <1>5, Unequal DEF Identify, Admit, Refuse
<1>6. CASE UNCHANGED <<pc, target, effects, raised, contested>>
  BY <1>6
<1>7. ASSUME NEW t \in Threads, Stage(t)
      PROVE  OnceInv'
  BY <1>7, Unequal DEF Stage
<1>8. QED
  BY <1>1, <1>2, <1>3, <1>4, <1>5, <1>6, <1>7 DEF Next, Advance, Register,
     Bind, Read, Event, Change, vars

\* A staged effect happens at most once unless a commit of it raised or two
\* commits of it overlapped, for any number of threads and retries
\* (CapabilityFrontDoor.commit).
THEOREM EffectsHappenOnce == Spec => []OnceUnlessRaisedOrContested
<1>1. Init => OnceInv
  BY Unequal DEF Init, OnceInv
<1>2. ReportInv /\ OnceInv /\ [Next]_vars => OnceInv'
  BY StepOnce
<1>3. ReportInv /\ OnceInv => OnceUnlessRaisedOrContested
  BY DEF ReportInv, TypeOK, OnceInv, OnceUnlessRaisedOrContested
<1>4. QED
  BY <1>1, <1>2, <1>3, ReportInvariant, PTL DEF Spec
=============================================================================

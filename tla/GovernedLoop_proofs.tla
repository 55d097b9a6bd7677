------------------------- MODULE GovernedLoop_proofs -------------------------
(***************************************************************************)
(* Effects stay within authority, observations say what was permitted,     *)
(* confirmed effects are permitted as confirmed and guidance learns each   *)
(* success once, for any actions, permits, children, limits and bounds.    *)
(*                                                                         *)
(* The argument: what a permit and a clearance say never changes once they *)
(* exist, the clock and its history only grow, and a spent permit stays    *)
(* spent (Persists).  So a fact about them, once it holds of a call, an    *)
(* effect, a result or an observation, goes on holding, and it need only   *)
(* be shown for the action that adds one.                                  *)
(***************************************************************************)
EXTENDS GovernedLoop, FiniteSetTheorems, TLAPS

AuthorityType ==
  [id : {"authority"}, principal : {"owner"}, actor : {"ops"},
   grants : {{"resolve"}}, scope : {{"case"}}, issued : {0}, until : {Until},
   revoked : BOOLEAN, limit : Limits]

\* The limit was at least what it is now when this instant began.
ClockInv ==
  /\ now \in Nat /\ authority \in AuthorityType
  /\ DOMAIN limitAt = 0..now
  /\ \A t \in 0..now : limitAt[t] \in Nat
  /\ ~authority.revoked => authority.limit <= limitAt[now]

ActionInv ==
  /\ DOMAIN action = Actions
  /\ \A a \in Actions : action[a] # None \/ clearance[a] # None =>
       "amount" \in DOMAIN action[a] /\ action[a].amount \in Nat

\* n is within a limit in force less than ClearFor before the instant at.
WithinLimit(n, at, limits) ==
  \E t \in 0..at : at < t + ClearFor /\ n <= limits[t]

\* A clearance that allows ends no later than ClearFor after an instant whose
\* limit the action was within.
ClearanceInv ==
  /\ DOMAIN clearance = Actions
  /\ \A a \in Actions : clearance[a] # None =>
       LET c == clearance[a] IN
       /\ c.id = a /\ c.authority = "authority"
       /\ c.action.amount \in Nat /\ c.until \in Int
       /\ c.decision = "ALLOW" =>
            \E t \in 0..now : /\ c.until <= t + ClearFor
                              /\ c.action.amount <= limitAt[t]

PermitInv ==
  /\ DOMAIN permit = Permits
  /\ \A p \in Permits : permit[p] # None =>
       /\ permit[p].id = p
       /\ permit[p].clearance \in Actions
       /\ clearance[permit[p].clearance] # None
       /\ clearance[permit[p].clearance].decision = "ALLOW"
       /\ permit[p].action = clearance[permit[p].clearance].action

\* What a permit that is about to be claimed has gone through.
Admitted(p, at, confirmation, time, limits) ==
  /\ at \in 0..time /\ limits[at] > 0
  /\ WithinLimit(p.action.amount, at, limits)
  /\ confirmation # None => confirmation.action = p.action

\* A call holds an issued permit: one it was admitted with, until it is spent.
CallInv ==
  /\ DOMAIN call = Children
  /\ \A child \in Children : call[child] # None =>
       LET x == call[child] IN
       /\ "pc" \in DOMAIN x /\ x.permit \in Permits /\ permit[x.permit] # None
       /\ x.pc \in {"begun", "acted", "failed"}
       /\ x.pc = "begun" => Admitted(permit[x.permit], x.replay.seal.at,
                                     x.confirmation, now, limitAt)
       /\ x.pc # "begun" => x.permit \in consumed

EventInv ==
  \A e \in events : /\ e.permit \in Permits /\ permit[e.permit] # None
                    /\ Admitted(permit[e.permit], e.at, e.confirmation, now, limitAt)

ResultInv ==
  \A r \in results :
    LET p == r.receipt.permit IN
    /\ p \in Permits /\ permit[p] # None /\ p \in consumed
    /\ r.consumed = Consume(permit[p])

ObservedInv ==
  \A o \in observations :
    /\ o.permit \in Permits /\ permit[o.permit] # None
    /\ o.permit \in consumed
    /\ o.action = permit[o.permit].action
    /\ o.action = o.clearance.action
    /\ o.authority.id = o.clearance.authority

IInv == /\ ClockInv /\ ActionInv /\ ClearanceInv /\ PermitInv
        /\ CallInv /\ EventInv /\ ResultInv /\ ObservedInv

\* What no step takes back.
Persists ==
  /\ now' \in Nat /\ now <= now'
  /\ \A t \in 0..now : limitAt'[t] = limitAt[t]
  /\ \A a \in Actions : clearance[a] # None => clearance'[a] = clearance[a]
  /\ \A p \in Permits : permit[p] # None => permit'[p] = permit[p]
  /\ consumed \subseteq consumed'

LEMMA ConstantTypes ==
  /\ Until \in Nat /\ ClearFor \in Nat /\ PermitFor \in Nat
  /\ Limits \subseteq Nat
<1>1. {Until, ClearFor, PermitFor} \subseteq Nat /\ Limits \subseteq Nat \ {0}
  BY LoopAssumption, Zenon
<1>2. QED
  BY <1>1

LEMMA InitIInv == Init => IInv
<1> SUFFICES ASSUME Init PROVE IInv
  OBVIOUS
<1>1. /\ now \in Nat /\ now = 0
      /\ authority \in AuthorityType /\ ~authority.revoked
  BY LoopAssumption DEF Init, AuthorityType
<1>2. authority.limit \in Nat
  <2>1. authority.limit \in Limits
    BY <1>1 DEF AuthorityType
  <2>2. QED
    BY <2>1, LoopAssumption
<1>3. ClockInv
  BY <1>1, <1>2 DEF Init, ClockInv
<1>4. ActionInv /\ ClearanceInv /\ PermitInv
  BY DEF Init, ActionInv, ClearanceInv, PermitInv
<1>6. CallInv
  BY DEF Init, CallInv
<1>7. EventInv /\ ResultInv /\ ObservedInv
  BY DEF Init, EventInv, ResultInv, ObservedInv
<1>8. QED
  BY <1>3, <1>4, <1>6, <1>7 DEF IInv

-----------------------------------------------------------------------------
LEMMA StepPersists ==
  ASSUME IInv, [Next]_vars
  PROVE  Persists
<1> USE DEF askVars, runVars, worldVars, timeVars, vars, OneMoreChange
<1>1. /\ now \in Nat /\ DOMAIN limitAt = 0..now
      /\ DOMAIN clearance = Actions /\ DOMAIN permit = Permits
  BY DEF IInv, ClockInv, ClearanceInv, PermitInv
<1>2. /\ now' \in Nat /\ now <= now'
      /\ \A t \in 0..now : limitAt'[t] = limitAt[t]
  <2>1. CASE Tick
    BY <1>1, <2>1 DEF Tick
  <2>2. CASE UNCHANGED <<now, limitAt>>
    BY <1>1, <2>2
  <2>3. QED
    BY <2>1, <2>2 DEF Next, Propose, Clear, Issue, Confirm, Begin,
       LoseClaim, Claim, Complete, HandOver, Renew, Revoke, Lower, Mutate
<1>3. \A a \in Actions : clearance[a] # None => clearance'[a] = clearance[a]
  <2>1. ASSUME NEW b \in Actions, Clear(b)
        PROVE  \A a \in Actions : clearance[a] # None => clearance'[a] = clearance[a]
    BY <1>1, <2>1 DEF Clear
  <2>2. CASE UNCHANGED clearance
    BY <2>2
  <2>3. QED
    BY <2>1, <2>2 DEF Next, Propose, Issue, Confirm, Begin,
       LoseClaim, Claim, Complete, HandOver, Renew, Revoke, Lower, Mutate, Tick
<1>4. \A p \in Permits : permit[p] # None => permit'[p] = permit[p]
  <2>1. ASSUME NEW q \in Permits, NEW a \in Actions, Issue(q, a)
        PROVE  \A p \in Permits : permit[p] # None => permit'[p] = permit[p]
    BY <1>1, <2>1 DEF Issue
  <2>2. CASE UNCHANGED permit
    BY <2>2
  <2>3. QED
    BY <2>1, <2>2 DEF Next, Propose, Clear, Confirm, Begin,
       LoseClaim, Claim, Complete, HandOver, Renew, Revoke, Lower, Mutate, Tick
<1>5. consumed \subseteq consumed'
  <2>1. ASSUME NEW child \in Children, NEW effective \in BOOLEAN,
               Claim(child, effective)
        PROVE  consumed \subseteq consumed'
    BY <2>1 DEF Claim
  <2>2. CASE UNCHANGED consumed
    BY <2>2
  <2>3. QED
    BY <2>1, <2>2 DEF Next, Propose, Clear, Issue, Confirm, Begin,
       LoseClaim, Complete, HandOver, Renew, Revoke, Lower, Mutate, Tick
<1>6. QED
  BY <1>2, <1>3, <1>4, <1>5 DEF Persists

LEMMA StepClock ==
  ASSUME IInv, [Next]_vars
  PROVE  ClockInv'
<1> USE DEF askVars, runVars, worldVars, timeVars, vars, OneMoreChange
<1>1. /\ now \in Nat /\ authority \in AuthorityType /\ DOMAIN limitAt = 0..now
      /\ \A t \in 0..now : limitAt[t] \in Nat
      /\ ~authority.revoked => authority.limit <= limitAt[now]
  BY DEF IInv, ClockInv
<1>2. authority.limit \in Nat /\ Limits \subseteq Nat
  BY <1>1, LoopAssumption DEF AuthorityType
<1>3. CASE Tick
  <2>1. authority' = authority /\ now' = now + 1
    BY <1>3 DEF Tick
  <2>2. DOMAIN limitAt' = 0..now'
    BY <1>1, <1>3 DEF Tick
  <2>3. \A t \in 0..now' :
          limitAt'[t] = IF t <= now THEN limitAt[t]
                        ELSE IF authority.revoked THEN 0 ELSE authority.limit
    BY <1>1, <1>3 DEF Tick
  <2>4. QED
    BY <1>1, <1>2, <2>1, <2>2, <2>3 DEF ClockInv
<1>4. CASE Revoke
  BY <1>1, <1>4 DEF Revoke, ClockInv, AuthorityType
<1>5. ASSUME NEW l \in Limits, Lower(l)
      PROVE  ClockInv'
  <2>1. /\ authority' \in AuthorityType /\ authority'.limit = l
        /\ authority'.revoked = authority.revoked
    BY <1>1, <1>5 DEF Lower, AuthorityType
  <2>2. UNCHANGED <<now, limitAt>> /\ l < authority.limit
    BY <1>5 DEF Lower
  <2>3. l \in Nat /\ limitAt[now] \in Nat
    BY <1>1, <1>2
  <2>4. QED
    BY <1>1, <1>2, <2>1, <2>2, <2>3 DEF ClockInv
<1>6. CASE UNCHANGED <<now, authority, limitAt>>
  BY <1>6 DEF IInv, ClockInv
<1>7. QED
  BY <1>3, <1>4, <1>5, <1>6 DEF Next, Propose, Clear, Issue, Confirm,
     Begin, LoseClaim, Claim, Complete, HandOver, Renew, Mutate

LEMMA StepActions ==
  ASSUME IInv, [Next]_vars
  PROVE  ActionInv'
<1> USE DEF askVars, runVars, worldVars, timeVars, vars, OneMoreChange
<1>1. ActionInv
  BY DEF IInv
<1>2. ASSUME NEW a \in Actions, NEW g \in Guidances, Propose(a, g)
      PROVE  ActionInv'
  <2>1. Amount[g] \in Nat
    BY LoopAssumption
  <2>2. DOMAIN action' = Actions /\ \A b \in Actions \ {a} : action'[b] = action[b]
    BY <1>1, <1>2 DEF Propose, ActionInv
  <2>3. "amount" \in DOMAIN action'[a] /\ action'[a].amount = Amount[g]
    BY <1>1, <1>2 DEF Propose, ActionInv
  <2>4. clearance' = clearance
    BY <1>2 DEF Propose
  <2>5. QED
    BY <1>1, <2>1, <2>2, <2>3, <2>4 DEF ActionInv
<1>3. ASSUME NEW a \in Actions, Mutate(a)
      PROVE  ActionInv'
  <2>1. action[a] # None
    BY <1>3 DEF Mutate
  <2>2. DOMAIN action' = Actions /\ \A b \in Actions \ {a} : action'[b] = action[b]
    BY <1>1, <1>3 DEF Mutate, ActionInv
  <2>3. "amount" \in DOMAIN action'[a] /\ action'[a].amount = action[a].amount + 1
    BY <1>1, <1>3, <2>1 DEF Mutate, ActionInv
  <2>4. clearance' = clearance
    BY <1>3 DEF Mutate
  <2>5. QED
    BY <1>1, <2>1, <2>2, <2>3, <2>4 DEF ActionInv
<1>4. ASSUME NEW a \in Actions, Clear(a)
      PROVE  ActionInv'
  <2>1. action[a] # None /\ action' = action
    BY <1>4 DEF Clear
  <2>2. \A b \in Actions \ {a} : clearance'[b] = clearance[b]
    BY <1>4 DEF Clear, IInv, ClearanceInv
  <2>3. QED
    BY <1>1, <2>1, <2>2 DEF ActionInv
<1>5. CASE UNCHANGED <<action, clearance>>
  BY <1>1, <1>5 DEF ActionInv
<1>6. QED
  BY <1>2, <1>3, <1>4, <1>5 DEF Next, Issue, Confirm, Begin,
     LoseClaim, Claim, Complete, HandOver, Renew, Revoke, Lower, Tick

LEMMA EarliestOfTwo ==
  ASSUME NEW x \in Int, NEW y \in Int
  PROVE  /\ Earliest({x, y}) \in Int
         /\ Earliest({x, y}) <= x /\ Earliest({x, y}) <= y
<1>1. \E t \in {x, y} : \A u \in {x, y} : t <= u
  <2>1. x <= y \/ y <= x
    OBVIOUS
  <2>2. QED
    BY <2>1
<1>2. Earliest({x, y}) \in {x, y} /\ \A u \in {x, y} : Earliest({x, y}) <= u
  BY <1>1 DEF Earliest
<1>3. QED
  BY <1>2

LEMMA StepClearances ==
  ASSUME IInv, [Next]_vars
  PROVE  ClearanceInv'
<1> USE DEF askVars, runVars, worldVars, timeVars, vars, OneMoreChange
<1>1. ClearanceInv /\ ClockInv /\ ActionInv
  BY DEF IInv
<1>2. Persists
  BY StepPersists
<1>3. ASSUME NEW b \in Actions, clearance'[b] = clearance[b], clearance[b] # None
      PROVE  LET c == clearance'[b] IN
             /\ c.id = b /\ c.authority = "authority"
             /\ c.action.amount \in Nat /\ c.until \in Int
             /\ c.decision = "ALLOW" =>
                  \E t \in 0..now' : /\ c.until <= t + ClearFor
                                     /\ c.action.amount <= limitAt'[t]
  <2>1. now \in Nat
    BY <1>1 DEF ClockInv
  <2>2. \A t \in 0..now : t \in 0..now' /\ limitAt'[t] = limitAt[t]
    BY <1>2, <2>1 DEF Persists
  <2>3. QED
    BY <1>1, <1>3, <2>2 DEF ClearanceInv
<1>4. ASSUME NEW a \in Actions, Clear(a)
      PROVE  ClearanceInv'
  <2> DEFINE c == clearance'[a]
             until == ClearanceEnd
  <2>1. /\ DOMAIN clearance' = Actions
        /\ \A b \in Actions \ {a} : clearance'[b] = clearance[b]
    BY <1>1, <1>4 DEF Clear, ClearanceInv
  <2>2. /\ c.id = a /\ c.authority = authority.id /\ c.action = action[a]
        /\ c.until = until
        /\ c.decision = "ALLOW" => Allowed(action[a])
    BY <1>1, <1>4 DEF Clear, ClearanceInv
  <2>3. UNCHANGED <<now, limitAt>>
    BY <1>4 DEF Clear
  <2>4. /\ now \in Nat /\ ClearFor \in Nat /\ authority.until \in Int
        /\ authority.limit \in Nat /\ authority.id = "authority"
        /\ now + ClearFor \in Int
    <3>1. /\ authority.until = Until /\ authority.limit \in Limits
          /\ authority.id = "authority"
      BY <1>1 DEF ClockInv, AuthorityType
    <3>2. now \in Nat
      BY <1>1 DEF ClockInv
    <3>3. ClearFor \in Nat /\ now + ClearFor \in Int
      BY <3>2, ConstantTypes
    <3>4. Until \in Int
      BY ConstantTypes
    <3>5. authority.limit \in Nat
      BY <3>1, ConstantTypes
    <3>6. QED
      BY <3>1, <3>2, <3>3, <3>4, <3>5
  <2>5. until \in Int /\ until <= now + ClearFor
    BY <2>4, EarliestOfTwo DEF ClearanceEnd
  <2>6. action[a].amount \in Nat
    BY <1>1, <1>4 DEF Clear, ActionInv
  <2>7. ASSUME c.decision = "ALLOW"
        PROVE  \E t \in 0..now' : /\ c.until <= t + ClearFor
                                  /\ c.action.amount <= limitAt'[t]
    <3>1. action[a].amount <= authority.limit /\ ~authority.revoked
      BY <2>2, <2>7 DEF Allowed, IsActive
    <3>2. limitAt[now] \in Nat /\ authority.limit <= limitAt[now]
      BY <1>1, <2>4, <3>1 DEF ClockInv
    <3>3. action[a].amount <= limitAt[now]
      BY <2>4, <2>6, <3>1, <3>2
    <3>4. QED
      BY <2>2, <2>3, <2>4, <2>5, <3>3
  <2>8. \A b \in Actions \ {a} : clearance'[b] # None => clearance[b] # None
    BY <2>1
  <2>9. /\ c.id = a /\ c.authority = "authority"
        /\ c.action.amount \in Nat /\ c.until \in Int
    BY <2>2, <2>4, <2>5, <2>6
  <2> HIDE DEF c, until
  <2>10. QED
    BY <1>3, <2>1, <2>7, <2>8, <2>9 DEF ClearanceInv, c
<1>5. CASE UNCHANGED clearance
  BY <1>1, <1>3, <1>5 DEF ClearanceInv
<1>6. QED
  BY <1>4, <1>5 DEF Next, Propose, Issue, Confirm, Begin,
     LoseClaim, Claim, Complete, HandOver, Renew, Revoke, Lower, Mutate, Tick

LEMMA StepPermits ==
  ASSUME IInv, [Next]_vars
  PROVE  PermitInv'
<1> USE DEF askVars, runVars, worldVars, timeVars, vars, OneMoreChange
<1>1. PermitInv /\ ClearanceInv
  BY DEF IInv
<1>2. \A a \in Actions : clearance[a] # None => clearance'[a] = clearance[a]
  BY StepPersists DEF Persists
<1>3. ASSUME NEW p \in Permits, NEW a \in Actions, Issue(p, a)
      PROVE  PermitInv'
  <2> DEFINE issued == permit'[p]
  <2>1. /\ DOMAIN permit' = Permits
        /\ \A q \in Permits \ {p} : permit'[q] = permit[q]
    BY <1>1, <1>3 DEF Issue, PermitInv
  <2>2. /\ issued.id = p /\ issued.clearance = clearance[a].id
        /\ issued.action = action[a]
    BY <1>1, <1>3 DEF Issue, PermitInv, IssuedPermit
  <2>3. /\ clearance[a] # None /\ clearance[a].decision = "ALLOW"
        /\ clearance[a].action = action[a]
        /\ clearance' = clearance
    BY <1>3 DEF Issue, MayIssue, ClearedAction
  <2>4. clearance[a].id = a
    BY <1>1, <2>3 DEF ClearanceInv
  <2> HIDE DEF issued
  <2>5. QED
    BY <1>1, <2>1, <2>2, <2>3, <2>4 DEF PermitInv, issued
<1>4. CASE UNCHANGED permit
  BY <1>1, <1>2, <1>4 DEF PermitInv
<1>5. QED
  BY <1>3, <1>4 DEF Next, Propose, Clear, Confirm, Begin,
     LoseClaim, Claim, Complete, HandOver, Renew, Revoke, Lower, Mutate, Tick

LEMMA AdmittedPersists ==
  ASSUME NEW time \in Nat, NEW later \in Nat, time <= later,
         NEW limits, NEW more, \A t \in 0..time : more[t] = limits[t],
         NEW p, NEW at, NEW confirmation,
         Admitted(p, at, confirmation, time, limits)
  PROVE  Admitted(p, at, confirmation, later, more)
<1>1. at \in 0..time /\ at \in 0..later
  BY DEF Admitted
<1>2. \A t \in 0..at : t \in 0..time
  BY <1>1
<1>3. QED
  BY <1>1, <1>2 DEF Admitted, WithinLimit

\* What execute_authorized admits is within a limit its clearance was given
\* under, and not after a revocation.
LEMMA BeginAdmits ==
  ASSUME IInv, NEW child \in Children, Begin(child)
  PROVE  LET x == call'[child] IN
         /\ "pc" \in DOMAIN x /\ x.pc = "begun"
         /\ x.permit \in Permits /\ permit[x.permit] # None
         /\ Admitted(permit[x.permit], x.replay.seal.at, x.confirmation, now,
                     limitAt)
<1>1. PICK a \in Actions, k \in Actions, q \in Permits, ref \in Actions \cup {None},
           confirmation \in confirmations \cup {None} :
        /\ action[a] # None /\ clearance[k] # None /\ permit[q] # None
        /\ ConfirmationMatches(action[a], ref, confirmation)
        /\ ValidateBinding(authority, clearance[k], permit[q], action[a], now)
        /\ call' = [call EXCEPT ![child] =
             [pc |-> "begun", action |-> a, clearance |-> k, permit |-> q,
              confirmation |-> confirmation,
              replay |-> Sealed(Capture(authority, clearance[k], permit[q],
                                        action[a], "VALID", now))]]
  BY DEF Begin
<1> DEFINE act == action[a]
           c == clearance[k]
           p == permit[q]
           x == call'[child]
<1>2. /\ "pc" \in DOMAIN x /\ x.pc = "begun" /\ x.permit = q
      /\ x.confirmation = confirmation
      /\ x.replay = Sealed(Capture(authority, c, p, act, "VALID", now))
  <2>1. child \in DOMAIN call
    BY DEF IInv, CallInv
  <2>2. QED
    BY <1>1, <2>1
<1>3. x.replay.seal.at = now
  BY <1>2 DEF Sealed, Capture
<1>4. /\ c # None /\ p # None
      /\ confirmation # None => confirmation.action = act
      /\ ValidateBinding(authority, c, p, act, now)
  BY <1>1 DEF ConfirmationMatches
<1>5. /\ p.action = act /\ c.action = act /\ p.clearance = c.id
      /\ now < c.until /\ ~authority.revoked
  BY <1>4 DEF ValidateBinding, ClearedAction, AuthorizesPermit, IsActive
<1>6. c.decision = "ALLOW"
  <2>1. c.id = k
    BY <1>4 DEF IInv, ClearanceInv
  <2>2. clearance[p.clearance].decision = "ALLOW"
    BY <1>4 DEF IInv, PermitInv
  <2>3. QED
    BY <1>5, <2>1, <2>2
<1>7. now \in Nat /\ ClearFor \in Nat
  BY ConstantTypes DEF IInv, ClockInv
<1>8. limitAt[now] > 0
  <2>1. authority.limit \in Limits
    BY DEF IInv, ClockInv, AuthorityType
  <2>2. Limits \subseteq Nat \ {0}
    BY LoopAssumption, Zenon
  <2>3. authority.limit \in Nat \ {0}
    BY <2>1, <2>2
  <2>4. limitAt[now] \in Nat /\ authority.limit <= limitAt[now]
    BY <1>5, <1>7 DEF IInv, ClockInv
  <2>5. QED
    BY <2>3, <2>4
<1>9. WithinLimit(act.amount, now, limitAt)
  <2>1. PICK t \in 0..now : c.until <= t + ClearFor /\ c.action.amount <= limitAt[t]
    BY <1>4, <1>6 DEF IInv, ClearanceInv
  <2>2. c.until \in Int
    BY <1>4 DEF IInv, ClearanceInv
  <2>3. now < t + ClearFor
    BY <1>5, <1>7, <2>1, <2>2
  <2>4. QED
    BY <1>5, <2>1, <2>3 DEF WithinLimit
<1> HIDE DEF act, c, p, x
<1>10. Admitted(p, now, confirmation, now, limitAt)
  BY <1>4, <1>5, <1>7, <1>8, <1>9 DEF Admitted
<1>11. QED
  BY <1>2, <1>3, <1>4, <1>10 DEF p, x

LEMMA StepCalls ==
  ASSUME IInv, [Next]_vars
  PROVE  CallInv'
<1> USE DEF askVars, runVars, worldVars, timeVars, vars, OneMoreChange
<1>1. CallInv /\ now \in Nat /\ DOMAIN call = Children
  BY DEF IInv, ClockInv, CallInv
<1>2. Persists
  BY StepPersists
\* A call that is where it was still satisfies the invariant.
<1>3. ASSUME NEW child \in Children, call'[child] = call[child],
             call[child] # None
      PROVE  LET x == call'[child] IN
             /\ "pc" \in DOMAIN x /\ x.permit \in Permits /\ permit'[x.permit] # None
             /\ x.pc \in {"begun", "acted", "failed"}
             /\ x.pc = "begun" => Admitted(permit'[x.permit], x.replay.seal.at,
                                           x.confirmation, now', limitAt')
             /\ x.pc # "begun" => x.permit \in consumed'
  <2> DEFINE x == call[child]
  <2>1. /\ "pc" \in DOMAIN x /\ x.permit \in Permits /\ permit[x.permit] # None
        /\ x.pc \in {"begun", "acted", "failed"}
        /\ x.pc = "begun" => Admitted(permit[x.permit], x.replay.seal.at,
                                      x.confirmation, now, limitAt)
        /\ x.pc # "begun" => x.permit \in consumed
    BY <1>1, <1>3 DEF CallInv
  <2>2. /\ permit'[x.permit] = permit[x.permit] /\ consumed \subseteq consumed'
        /\ now' \in Nat /\ now <= now' /\ \A t \in 0..now : limitAt'[t] = limitAt[t]
    BY <1>2, <2>1 DEF Persists
  <2>3. x.pc = "begun" => Admitted(permit[x.permit], x.replay.seal.at,
                                   x.confirmation, now', limitAt')
    BY <1>1, <2>1, <2>2, AdmittedPersists
  <2>4. call'[child] = x
    BY <1>3
  <2> HIDE DEF x
  <2>5. QED
    BY <2>1, <2>2, <2>3, <2>4
<1>4. ASSUME NEW child \in Children, Begin(child)
      PROVE  CallInv'
  <2>1. /\ UNCHANGED <<permit, now, limitAt, consumed>>
        /\ DOMAIN call' = Children
        /\ \A other \in Children \ {child} : call'[other] = call[other]
    BY <1>1, <1>4 DEF Begin
  <2>2. LET x == call'[child] IN
        /\ "pc" \in DOMAIN x /\ x.pc = "begun"
        /\ x.permit \in Permits /\ permit[x.permit] # None
        /\ Admitted(permit[x.permit], x.replay.seal.at, x.confirmation, now,
                    limitAt)
    BY <1>4, BeginAdmits
  <2>3. QED
    BY <1>3, <2>1, <2>2 DEF CallInv
<1>5. ASSUME NEW child \in Children,
             LoseClaim(child) \/ \E status : Complete(child, status)
      PROVE  CallInv'
  <2>1. call' = [call EXCEPT ![child] = None]
    BY <1>5 DEF LoseClaim, Complete
  <2>2. /\ DOMAIN call' = Children /\ call'[child] = None
        /\ \A other \in Children \ {child} : call'[other] = call[other]
    BY <1>1, <2>1
  <2>3. QED
    BY <1>3, <2>2 DEF CallInv
<1>6. ASSUME NEW child \in Children, NEW effective, Claim(child, effective)
      PROVE  CallInv'
  <2> DEFINE x == call[child]
             pc == IF effective THEN "acted" ELSE "failed"
  <2>1. /\ "pc" \in DOMAIN x /\ x.permit \in Permits /\ permit[x.permit] # None
    BY <1>1, <1>6 DEF CallInv, Claim, At
  <2>2. /\ DOMAIN call' = Children /\ call'[child] = [x EXCEPT !.pc = pc]
        /\ \A other \in Children \ {child} : call'[other] = call[other]
        /\ consumed' = consumed \cup {x.permit} /\ permit' = permit
    BY <1>1, <1>6 DEF Claim
  <2>3. /\ "pc" \in DOMAIN call'[child] /\ call'[child].pc = pc
        /\ call'[child].permit = x.permit
    BY <2>1, <2>2
  <2>4. pc \in {"acted", "failed"}
    OBVIOUS
  <2> HIDE DEF x, pc
  <2>5. QED
    BY <1>3, <2>1, <2>2, <2>3, <2>4 DEF CallInv
<1>7. CASE UNCHANGED call
  BY <1>1, <1>3, <1>7 DEF CallInv
<1>8. QED
  BY <1>4, <1>5, <1>6, <1>7 DEF Next, Propose, Clear, Issue,
     Confirm, HandOver, Renew, Revoke, Lower, Mutate, Tick

LEMMA StepEvents ==
  ASSUME IInv, [Next]_vars
  PROVE  EventInv'
<1> USE DEF askVars, runVars, worldVars, timeVars, vars, OneMoreChange
<1>1. EventInv /\ CallInv /\ now \in Nat
  BY DEF IInv, ClockInv
<1>2. Persists
  BY StepPersists
<1>3. \A e \in events :
        /\ e.permit \in Permits /\ permit'[e.permit] # None
        /\ Admitted(permit'[e.permit], e.at, e.confirmation, now', limitAt')
  <2>1. SUFFICES ASSUME NEW e \in events
                 PROVE  /\ e.permit \in Permits /\ permit'[e.permit] # None
                        /\ Admitted(permit'[e.permit], e.at, e.confirmation,
                                    now', limitAt')
    OBVIOUS
  <2>2. /\ e.permit \in Permits /\ permit[e.permit] # None
        /\ Admitted(permit[e.permit], e.at, e.confirmation, now, limitAt)
    BY <1>1 DEF EventInv
  <2>3. /\ permit'[e.permit] = permit[e.permit]
        /\ now' \in Nat /\ now <= now' /\ \A t \in 0..now : limitAt'[t] = limitAt[t]
    BY <1>2, <2>2 DEF Persists
  <2>4. QED
    BY <1>1, <2>2, <2>3, AdmittedPersists
<1>4. ASSUME NEW child \in Children, NEW effective \in BOOLEAN,
             Claim(child, effective)
      PROVE  EventInv'
  <2> DEFINE x == call[child]
             e == [child |-> child, permit |-> x.permit, at |-> x.replay.seal.at,
                   action |-> action[x.action], confirmation |-> x.confirmation]
  <2>1. events' \subseteq events \cup {e} /\ UNCHANGED <<permit, now, limitAt>>
    BY <1>4 DEF Claim
  <2>2. /\ x.permit \in Permits /\ permit[x.permit] # None
        /\ Admitted(permit[x.permit], x.replay.seal.at, x.confirmation, now, limitAt)
    BY <1>1, <1>4 DEF Claim, At, CallInv
  <2>3. /\ e.permit = x.permit /\ e.at = x.replay.seal.at
        /\ e.confirmation = x.confirmation
    OBVIOUS
  <2> HIDE DEF e, x
  <2>4. QED
    BY <1>1, <2>1, <2>2, <2>3 DEF EventInv
<1>5. CASE UNCHANGED events
  BY <1>3, <1>5 DEF EventInv
<1>6. QED
  BY <1>4, <1>5 DEF Next, Propose, Clear, Issue, Confirm, Begin,
     LoseClaim, Complete, HandOver, Renew, Revoke, Lower, Mutate, Tick

LEMMA StepResults ==
  ASSUME IInv, [Next]_vars
  PROVE  ResultInv'
<1> USE DEF askVars, runVars, worldVars, timeVars, vars, OneMoreChange
<1>1. ResultInv /\ CallInv /\ PermitInv
  BY DEF IInv
<1>2. Persists
  BY StepPersists
<1>3. ASSUME NEW child \in Children, NEW status, Complete(child, status)
      PROVE  ResultInv'
  <2> DEFINE x == call[child]
             r == Result(clearance[x.clearance], permit[x.permit],
                         action[x.action], x.replay, status)
  <2>1. results' = results \cup {r} /\ UNCHANGED <<permit, consumed>>
    BY <1>3 DEF Complete
  <2>2. x.permit \in Permits /\ permit[x.permit] # None /\ x.permit \in consumed
    BY <1>1, <1>3 DEF Complete, At, CallInv
  <2>3. /\ r.receipt.permit = permit[x.permit].id
        /\ r.consumed = Consume(permit[x.permit])
    BY DEF Result, Receipt
  <2>4. permit[x.permit].id = x.permit
    BY <1>1, <2>2 DEF PermitInv
  <2> HIDE DEF r, x
  <2>5. QED
    BY <1>1, <2>1, <2>2, <2>3, <2>4 DEF ResultInv
<1>4. CASE UNCHANGED results
  BY <1>1, <1>2, <1>4 DEF ResultInv, Persists
<1>5. QED
  BY <1>3, <1>4 DEF Next, Propose, Clear, Issue, Confirm, Begin,
     LoseClaim, Claim, HandOver, Renew, Revoke, Lower, Mutate, Tick

\* An observation is made of a result whose receipt, permit and clearance name
\* each other; what they name is the action the permit was issued for.
LEMMA HandOverObserves ==
  ASSUME IInv, NEW r \in results, NEW a \in Actions, HandOver(r, a)
  PROVE  LET o == Observation(authority, clearance[a], r) IN
         /\ o.permit \in Permits /\ permit[o.permit] # None
         /\ o.permit \in consumed
         /\ o.action = permit[o.permit].action
         /\ o.action = o.clearance.action
         /\ o.authority.id = o.clearance.authority
<1> DEFINE o == Observation(authority, clearance[a], r)
           p == permit[o.permit]
<1>1. /\ o.permit = r.receipt.permit /\ o.action = r.receipt.action
      /\ o.clearance = clearance[a] /\ o.authority = authority
  BY DEF Observation
<1>2. /\ o.permit \in Permits /\ p # None /\ o.permit \in consumed
      /\ r.consumed = Consume(p)
  BY <1>1 DEF IInv, ResultInv
<1>3. /\ clearance[a] # None
      /\ BelongTogether(authority, clearance[a], action[a], r)
  BY DEF HandOver, HandsOver
<1>4. /\ o.action = action[a] /\ r.consumed.action = action[a]
      /\ r.consumed.clearance = clearance[a].id
  BY <1>1, <1>3 DEF BelongTogether
<1>5. /\ Consume(p).action = p.action /\ Consume(p).clearance = p.clearance
  BY DEF Consume
<1>6. clearance[a].id = a /\ clearance[a].authority = "authority"
  BY <1>3 DEF IInv, ClearanceInv
<1>7. p.clearance = a /\ p.action = o.action
  BY <1>2, <1>4, <1>5, <1>6
<1>8. p.action = clearance[p.clearance].action
  BY <1>2 DEF IInv, PermitInv
<1>9. authority.id = "authority"
  BY DEF IInv, ClockInv, AuthorityType
<1>10. QED
  BY <1>1, <1>2, <1>6, <1>7, <1>8, <1>9

LEMMA StepObservations ==
  ASSUME IInv, [Next]_vars
  PROVE  ObservedInv'
<1> USE DEF askVars, runVars, worldVars, timeVars, vars, OneMoreChange
<1>1. ObservedInv
  BY DEF IInv
<1>2. Persists
  BY StepPersists
<1>3. ASSUME NEW r \in results, NEW a \in Actions, HandOver(r, a)
      PROVE  ObservedInv'
  <2> DEFINE o == Observation(authority, clearance[a], r)
  <2>1. /\ observations' = observations \cup {o}
        /\ UNCHANGED <<permit, consumed>>
    BY <1>3 DEF HandOver
  <2>2. /\ o.permit \in Permits /\ permit[o.permit] # None
        /\ o.permit \in consumed
        /\ o.action = permit[o.permit].action
        /\ o.action = o.clearance.action
        /\ o.authority.id = o.clearance.authority
    BY <1>3, HandOverObserves
  <2> HIDE DEF o
  <2>3. QED
    BY <1>1, <2>1, <2>2 DEF ObservedInv
<1>4. CASE UNCHANGED observations
  BY <1>1, <1>2, <1>4 DEF ObservedInv, Persists
<1>5. QED
  BY <1>3, <1>4 DEF Next, Propose, Clear, Issue, Confirm, Begin,
     LoseClaim, Claim, Complete, Renew, Revoke, Lower, Mutate, Tick

THEOREM LoopInductive == Spec => []IInv
<1>1. IInv /\ [Next]_vars => IInv'
  <2> SUFFICES ASSUME IInv, [Next]_vars PROVE IInv'
    OBVIOUS
  <2>1. /\ ClockInv' /\ ActionInv' /\ ClearanceInv' /\ PermitInv'
        /\ CallInv'
    BY StepClock, StepActions, StepClearances, StepPermits, StepCalls
  <2>2. EventInv' /\ ResultInv' /\ ObservedInv'
    BY StepEvents, StepResults, StepObservations
  <2>3. QED
    BY <2>1, <2>2 DEF IInv
<1>2. QED
  BY <1>1, InitIInv, PTL DEF Spec

\* Learned guidance never reaches beyond authority, for any limits and clocks:
\* the amount permitted for an effect was within the limit in force less than
\* ClearFor before its call (DemoAuthorizer.clear, ValoGateway.execute).
THEOREM EffectsStayWithinLimit == Spec => []EffectWithinLimit
<1>1. IInv => EffectWithinLimit
  <2> SUFFICES ASSUME IInv, NEW e \in events
               PROVE  /\ limitAt[e.at] > 0
                      /\ \E t \in 0..e.at :
                           /\ e.at < t + ClearFor
                           /\ permit[e.permit].action.amount <= limitAt[t]
    BY DEF EffectWithinLimit, PermitOf
  <2>1. Admitted(permit[e.permit], e.at, e.confirmation, now, limitAt)
    BY DEF IInv, EventInv
  <2>2. QED
    BY <2>1 DEF Admitted, WithinLimit
<1>2. QED
  BY <1>1, LoopInductive, PTL

\* An observation handed to Veritas names the action its permit was issued for
\* and its clearance decided on, whatever becomes of the parameters in between
\* (build_veritas_execution_observation).
THEOREM ObservationsSayWhatWasPermitted == Spec => []ObservedAsPermitted
<1>1. IInv => ObservedAsPermitted
  BY DEF IInv, ObservedInv, ObservedAsPermitted
<1>2. QED
  BY <1>1, LoopInductive, PTL

-----------------------------------------------------------------------------
Settling(child) == call[child] # None /\ call[child].pc \in {"acted", "failed"}

\* A permit has at most one effect and one receipt, and behind a receipt of
\* success there is an effect: whichever children present it, one call spends
\* it, and that call completes once.
OnceInv ==
  /\ IsFiniteSet(events)
  /\ \A e \in events : e.permit \in consumed
  /\ \A e, f \in events : e.permit = f.permit => e = f
  /\ \A child \in Children : At(child, "acted") =>
       \E e \in events : e.permit = call[child].permit
  /\ \A r \in results : r.receipt.status = "succeeded" =>
       \E e \in events : e.permit = r.receipt.permit
  /\ \A r \in results, child \in Children :
       Settling(child) => r.receipt.permit # call[child].permit
  /\ \A child, other \in Children :
       Settling(child) /\ Settling(other) /\ call[child].permit = call[other].permit
         => child = other
  /\ \A r, q \in results : r.receipt.permit = q.receipt.permit =>
       r.receipt = q.receipt

\* What guidance was renewed from are receipts of success, counted once each.
LearnInv ==
  /\ \A o \in observations : /\ o.status = o.receipt.status
                             /\ \E r \in results : r.receipt = o.receipt
  /\ DOMAIN guidance = Guidances
  /\ \A g \in Guidances :
       LET renewed == guidance[g].renewed IN
       /\ IsFiniteSet(renewed)
       /\ guidance[g].revision = 1 + Cardinality(renewed)
       /\ \A receipt \in renewed :
            /\ receipt.status = "succeeded"
            /\ \E r \in results : r.receipt = receipt

LEMMA InitLearns == Init => OnceInv /\ LearnInv
<1> SUFFICES ASSUME Init PROVE OnceInv /\ LearnInv
  OBVIOUS
<1>1. IsFiniteSet({}) /\ Cardinality({}) = 0
  BY FS_EmptySet
<1>3. OnceInv
  BY <1>1 DEF Init, OnceInv, At, Settling
<1>4. LearnInv
  <2>1. /\ DOMAIN guidance = Guidances /\ observations = {}
        /\ \A g \in Guidances : /\ guidance[g].renewed = {}
                                /\ guidance[g].revision = 1
    BY DEF Init
  <2>2. 1 = 1 + Cardinality({})
    BY <1>1
  <2>3. QED
    BY <1>1, <2>1, <2>2 DEF LearnInv
<1>5. QED
  BY <1>3, <1>4

LEMMA StepOnce ==
  ASSUME IInv, OnceInv, [Next]_vars
  PROVE  OnceInv'
<1> USE DEF askVars, runVars, worldVars, timeVars, vars, OneMoreChange
<1>1. CallInv /\ ResultInv /\ PermitInv /\ DOMAIN call = Children
  BY DEF IInv, CallInv
<1>2. ASSUME NEW child \in Children, NEW effective \in BOOLEAN,
             Claim(child, effective)
      PROVE  OnceInv'
  <2> DEFINE x == call[child]
             e == [child |-> child, permit |-> x.permit, at |-> x.replay.seal.at,
                   action |-> action[x.action], confirmation |-> x.confirmation]
             pc == IF effective THEN "acted" ELSE "failed"
  <2>1. /\ events' = IF ~effective THEN events ELSE events \cup {e}
        /\ results' = results /\ x.permit \notin consumed
        /\ consumed' = consumed \cup {x.permit}
    BY <1>2 DEF Claim
  <2>2. /\ call'[child].pc = pc /\ call'[child].permit = x.permit
        /\ \A other \in Children \ {child} : call'[other] = call[other]
    <3>1. "pc" \in DOMAIN x
      BY <1>1, <1>2 DEF CallInv, Claim, At
    <3>2. /\ call'[child] = [x EXCEPT !.pc = pc]
          /\ \A other \in Children \ {child} : call'[other] = call[other]
      BY <1>1, <1>2 DEF Claim
    <3>3. QED
      BY <3>1, <3>2
  <2>3. e.permit = x.permit /\ (pc = "acted" <=> effective)
    OBVIOUS
  <2> HIDE DEF e, x, pc
  <2>4. IsFiniteSet(events') /\ events \subseteq events'
    <3>1. IsFiniteSet(events \cup {e})
      BY FS_AddElement DEF OnceInv
    <3>2. QED
      BY <2>1, <3>1 DEF OnceInv
  <2>5. /\ \A f \in events' : f.permit \in consumed'
        /\ \A f, g \in events' : f.permit = g.permit => f = g
    BY <2>1, <2>3 DEF OnceInv
  <2>6. \A other \in Children : At(other, "acted")' =>
          \E f \in events' : f.permit = call'[other].permit
    BY <2>1, <2>2, <2>3, <2>4 DEF OnceInv, At
  \* The permit was not spent before, so no other call and no result holds it.
  <2>7. /\ \A other \in Children \ {child} :
             Settling(other) => call[other].permit # x.permit
        /\ \A r \in results : r.receipt.permit # x.permit
    BY <1>1, <2>1 DEF Settling, CallInv, ResultInv
  <2>8. /\ \A other \in Children \ {child} : Settling(other)' <=> Settling(other)
        /\ \A r \in results, other \in Children :
             Settling(other)' => r.receipt.permit # call'[other].permit
    BY <2>2, <2>7 DEF OnceInv, Settling
  <2>9. \A one, other \in Children :
          Settling(one)' /\ Settling(other)'
              /\ call'[one].permit = call'[other].permit => one = other
    BY <2>2, <2>7, <2>8 DEF OnceInv
  <2>10. \A r \in results : r.receipt.status = "succeeded" =>
           \E f \in events' : f.permit = r.receipt.permit
    BY <2>4 DEF OnceInv
  <2>11. \A r, q \in results : r.receipt.permit = q.receipt.permit =>
           r.receipt = q.receipt
    BY DEF OnceInv
  <2>12. QED
    BY <2>1, <2>4, <2>5, <2>6, <2>8, <2>9, <2>10, <2>11 DEF OnceInv
<1>3. ASSUME NEW child \in Children, NEW status \in {"succeeded", "failed"},
             Complete(child, status)
      PROVE  OnceInv'
  <2> DEFINE x == call[child]
             r == Result(clearance[x.clearance], permit[x.permit],
                         action[x.action], x.replay, status)
  <2>1. /\ results' = results \cup {r} /\ events' = events
        /\ consumed' = consumed /\ Settling(child)
        /\ status = "succeeded" => At(child, "acted")
    BY <1>3 DEF Complete, Settling, At
  <2>2. /\ call'[child] = None
        /\ \A other \in Children \ {child} : call'[other] = call[other]
    BY <1>1, <1>3 DEF Complete
  <2>3. x.permit \in Permits /\ permit[x.permit] # None
    BY <1>1, <2>1 DEF CallInv, Settling
  <2>4. r.receipt.status = status /\ r.receipt.permit = permit[x.permit].id
    BY DEF Result, Receipt
  <2>5. r.receipt.permit = x.permit
    BY <1>1, <2>3, <2>4 DEF PermitInv
  <2> HIDE DEF r
  <2>6. /\ \A q \in results : q.receipt.permit # x.permit
        /\ \A other \in Children \ {child} :
             Settling(other) => call[other].permit # x.permit
    BY <2>1 DEF OnceInv
  <2>7. status = "succeeded" => \E e \in events : e.permit = x.permit
    BY <2>1 DEF OnceInv
  <2> HIDE DEF x
  <2>8. /\ ~Settling(child)' /\ ~At(child, "acted")'
        /\ \A other \in Children \ {child} :
             /\ Settling(other)' <=> Settling(other)
             /\ At(other, "acted")' <=> At(other, "acted")
    BY <2>2 DEF Settling, At
  <2>9. \A other \in Children : At(other, "acted")' =>
          \E e \in events : e.permit = call'[other].permit
    BY <2>2, <2>8 DEF OnceInv
  <2>10. \A q \in results' : q.receipt.status = "succeeded" =>
           \E e \in events : e.permit = q.receipt.permit
    BY <2>1, <2>4, <2>5, <2>7 DEF OnceInv
  <2>11. \A q \in results', other \in Children :
           Settling(other)' => q.receipt.permit # call'[other].permit
    BY <2>1, <2>2, <2>5, <2>6, <2>8 DEF OnceInv
  <2>12. \A one, other \in Children :
           Settling(one)' /\ Settling(other)'
               /\ call'[one].permit = call'[other].permit => one = other
    BY <2>2, <2>8 DEF OnceInv
  <2>13. \A q, z \in results' : q.receipt.permit = z.receipt.permit =>
           q.receipt = z.receipt
    BY <2>1, <2>5, <2>6 DEF OnceInv
  <2>14. /\ IsFiniteSet(events) /\ \A e \in events : e.permit \in consumed
         /\ \A e, f \in events : e.permit = f.permit => e = f
    BY DEF OnceInv
  <2>15. QED
    BY <2>1, <2>9, <2>10, <2>11, <2>12, <2>13, <2>14 DEF OnceInv
<1>4. ASSUME UNCHANGED <<events, results, consumed>>,
             \A child \in Children :
               \/ call'[child] = call[child]
               \/ call'[child] = None
               \/ call'[child].pc = "begun"
      PROVE  OnceInv'
  <2>1. \A child \in Children :
          /\ Settling(child)' => Settling(child) /\ call'[child] = call[child]
          /\ At(child, "acted")' => At(child, "acted") /\ call'[child] = call[child]
    BY <1>4 DEF Settling, At
  <2>2. /\ \A child \in Children : At(child, "acted")' =>
             \E e \in events : e.permit = call'[child].permit
        /\ \A r \in results, child \in Children :
             Settling(child)' => r.receipt.permit # call'[child].permit
        /\ \A child, other \in Children :
             Settling(child)' /\ Settling(other)'
                 /\ call'[child].permit = call'[other].permit => child = other
    BY <2>1 DEF OnceInv
  <2>3. QED
    BY <1>4, <2>2 DEF OnceInv
<1>5. ASSUME NEW child \in Children, Begin(child)
      PROVE  OnceInv'
  <2>1. \A other \in Children \ {child} : call'[other] = call[other]
    BY <1>1, <1>5 DEF Begin
  <2>2. call'[child].pc = "begun" /\ UNCHANGED <<events, results, consumed>>
    BY <1>5, BeginAdmits DEF Begin
  <2>3. QED
    BY <1>4, <2>1, <2>2
<1>6. ASSUME NEW child \in Children, LoseClaim(child)
      PROVE  OnceInv'
  BY <1>1, <1>4, <1>6 DEF LoseClaim
<1>7. CASE UNCHANGED <<events, results, consumed, call>>
  BY <1>4, <1>7
<1>8. QED
  BY <1>2, <1>3, <1>5, <1>6, <1>7 DEF Next, Propose, Clear, Issue,
     Confirm, HandOver, Renew, Revoke, Lower, Mutate, Tick

LEMMA OnceInvariant == Spec => []OnceInv
<1>1. Init => OnceInv
  BY InitLearns
<1>2. IInv /\ OnceInv /\ [Next]_vars => OnceInv'
  BY StepOnce
<1>3. QED
  BY <1>1, <1>2, LoopInductive, PTL DEF Spec

\* Whatever order confirmation, change of parameters, clearance, permit and
\* execution come in and whatever children present, an effect executed with a
\* confirmation was permitted as it was confirmed, and no two effects share a
\* permit (assert_confirmation_matches, ADKTaskRunnerGate.execute_authorized).
THEOREM EffectsAreAsConfirmed == Spec => []EffectAsConfirmed
<1>1. IInv /\ OnceInv => EffectAsConfirmed
  <2> SUFFICES ASSUME IInv, OnceInv PROVE EffectAsConfirmed
    OBVIOUS
  <2>1. \A e \in events : e.confirmation # None =>
                            e.confirmation.action = PermitOf(e).action
    BY DEF IInv, EventInv, Admitted, PermitOf
  <2>2. \A e, f \in events : e.permit = f.permit => e = f
    BY DEF OnceInv
  <2>3. QED
    BY <2>1, <2>2 DEF EffectAsConfirmed
<1>2. QED
  BY <1>1, LoopInductive, OnceInvariant, PTL

LEMMA StepLearns ==
  ASSUME LearnInv, [Next]_vars
  PROVE  LearnInv'
<1> USE DEF askVars, runVars, worldVars, timeVars, vars, OneMoreChange
<1>1. results \subseteq results'
  <2>1. ASSUME NEW child \in Children, NEW status, Complete(child, status)
        PROVE  results \subseteq results'
    BY <2>1 DEF Complete
  <2>2. CASE UNCHANGED results
    BY <2>2
  <2>3. QED
    BY <2>1, <2>2 DEF Next, Propose, Clear, Issue, Confirm, Begin,
       LoseClaim, Claim, HandOver, Renew, Revoke, Lower, Mutate, Tick
<1>2. ASSUME NEW r \in results, NEW a \in Actions, HandOver(r, a)
      PROVE  LearnInv'
  <2> DEFINE o == Observation(authority, clearance[a], r)
  <2>1. /\ observations' = observations \cup {o}
        /\ UNCHANGED <<results, guidance>>
    BY <1>2 DEF HandOver
  <2>2. o.receipt = r.receipt /\ o.status = r.receipt.status
    BY DEF Observation
  <2> HIDE DEF o
  <2>3. QED
    BY <2>1, <2>2 DEF LearnInv
<1>3. ASSUME NEW g \in Guidances, NEW o \in observations, Renew(g, o)
      PROVE  LearnInv'
  <2> DEFINE before == guidance[g]
             after == guidance'[g]
  <2>1. /\ DOMAIN guidance' = Guidances /\ after = RenewedFrom(before, o)
        /\ \A h \in Guidances \ {g} : guidance'[h] = guidance[h]
        /\ UNCHANGED <<results, observations>>
    BY <1>3 DEF Renew, LearnInv
  <2>2. /\ IsFiniteSet(before.renewed)
        /\ before.revision = 1 + Cardinality(before.renewed)
        /\ \A receipt \in before.renewed :
             /\ receipt.status = "succeeded"
             /\ \E r \in results : r.receipt = receipt
    BY DEF LearnInv
  <2>3. o.status = o.receipt.status /\ \E r \in results : r.receipt = o.receipt
    BY DEF LearnInv
  <2> HIDE DEF before, after
  <2>4. CASE o.status # "succeeded" \/ o.receipt \in before.renewed
    <3>1. after = before
      BY <2>1, <2>4 DEF RenewedFrom
    <3>2. QED
      BY <2>1, <2>2, <3>1 DEF LearnInv, after
  <2>5. CASE o.status = "succeeded" /\ o.receipt \notin before.renewed
    <3>1. /\ after.renewed = before.renewed \cup {o.receipt}
          /\ after.revision = before.revision + 1
      BY <2>1, <2>5 DEF RenewedFrom
    <3>2. /\ IsFiniteSet(before.renewed \cup {o.receipt})
          /\ Cardinality(before.renewed \cup {o.receipt})
               = Cardinality(before.renewed) + 1
      BY <2>2, <2>5, FS_AddElement
    <3>3. Cardinality(before.renewed) \in Nat
      BY <2>2, FS_CardinalityType
    <3>4. after.revision = 1 + Cardinality(after.renewed)
      BY <2>2, <3>1, <3>2, <3>3
    <3>5. IsFiniteSet(after.renewed)
      BY <3>1, <3>2
    <3>6. \A receipt \in after.renewed :
            /\ receipt.status = "succeeded"
            /\ \E r \in results : r.receipt = receipt
      BY <2>2, <2>3, <2>5, <3>1
    <3>7. QED
      BY <2>1, <3>4, <3>5, <3>6 DEF LearnInv, after
  <2>6. QED
    BY <2>4, <2>5
<1>4. CASE UNCHANGED <<guidance, observations>>
  <2>1. \A receipt : (\E r \in results : r.receipt = receipt)
                       => \E r \in results' : r.receipt = receipt
    BY <1>1
  <2>2. QED
    BY <1>4, <2>1 DEF LearnInv
<1>5. QED
  BY <1>2, <1>3, <1>4 DEF Next, Propose, Clear, Issue, Confirm, Begin,
     LoseClaim, Claim, Complete, Revoke, Lower, Mutate, Tick

\* Guidance learns from each success once, for any number of observations in
\* any order: its revision counts distinct receipts of success, each with an
\* effect of its own behind it (OutcomeRenewal.renew).
THEOREM GuidanceLearnsOnce == Spec => []LearnsOncePerEffect
<1>1. OnceInv /\ LearnInv => LearnsOncePerEffect
  <2> SUFFICES ASSUME OnceInv, LearnInv, NEW g \in Guidances
               PROVE  LET renewed == guidance[g].renewed IN
                      /\ guidance[g].revision = 1 + Cardinality(renewed)
                      /\ Cardinality(renewed) <= Cardinality(events)
                      /\ \A receipt \in renewed :
                           /\ receipt.status = "succeeded"
                           /\ \E e \in events : e.permit = receipt.permit
    BY Zenon DEF LearnsOncePerEffect
  <2> DEFINE renewed == guidance[g].renewed
             effectOf == [receipt \in renewed |->
                            CHOOSE e \in events : e.permit = receipt.permit]
  <2>1. /\ guidance[g].revision = 1 + Cardinality(renewed)
        /\ \A receipt \in renewed :
             /\ receipt.status = "succeeded"
             /\ \E r \in results : r.receipt = receipt
    BY DEF LearnInv
  <2>2. \A receipt \in renewed : \E e \in events : e.permit = receipt.permit
    BY <2>1 DEF OnceInv
  <2>3. \A receipt, other \in renewed :
          receipt.permit = other.permit => receipt = other
    BY <2>1 DEF OnceInv
  <2>4. \A receipt \in renewed : /\ effectOf[receipt] \in events
                                 /\ effectOf[receipt].permit = receipt.permit
    BY <2>2
  <2>5. effectOf \in [renewed -> events]
    BY <2>4
  <2>6. \A receipt, other \in renewed :
          effectOf[receipt] = effectOf[other] => receipt = other
    <3> HIDE DEF effectOf, renewed
    <3> QED
      BY <2>3, <2>4
  <2> HIDE DEF effectOf
  <2>7. effectOf \in Injection(renewed, events)
    BY <2>5, <2>6 DEF Injection, IsInjective
  <2>8. IsFiniteSet(events)
    BY DEF OnceInv
  <2>9. Cardinality(renewed) <= Cardinality(events)
    BY <2>7, <2>8, FS_Injection
  <2>10. QED
    BY <2>1, <2>2, <2>9
<1>2. Init => LearnInv
  BY InitLearns
<1>3. LearnInv /\ [Next]_vars => LearnInv'
  BY StepLearns
<1>4. QED
  BY <1>1, <1>2, <1>3, OnceInvariant, PTL DEF Spec

-----------------------------------------------------------------------------
\* What execute returns can always be handed to Veritas: for the objects it
\* was given, changed by nobody, and whatever the tool did, none of the checks
\* of build_veritas_execution_observation refuses its result.
THEOREM OwnResultHandsOver ==
  ASSUME NEW au, NEW cl, NEW issuer, NEW id, NEW act, NEW expires, NEW issued,
         NEW at, NEW input, NEW status,
         ValidateBinding(au, cl, IssuedPermit(id, cl, issuer, act, expires, issued),
                         act, at)
  PROVE  HandsOver(au, cl, act,
                   Result(cl, IssuedPermit(id, cl, issuer, act, expires, issued),
                          act, Sealed(input), status))
<1> DEFINE p == IssuedPermit(id, cl, issuer, act, expires, issued)
           r == Result(cl, p, act, Sealed(input), status)
<1>1. /\ p.id = id /\ p.clearance = cl.id /\ p.action = act
      /\ p.pair = PairOf(act) /\ p.substrate = SubstrateOf(act)
      /\ p.clearanceDigest = ExpectedClearanceDigest(cl, act)
  BY DEF IssuedPermit
<1>2. /\ r.consumed.consumed /\ r.consumed.id = id
      /\ r.consumed.authority = p.authority /\ r.consumed.action = act
      /\ r.consumed.clearance = cl.id
      /\ r.consumed.pair = PairOf(act) /\ r.consumed.substrate = SubstrateOf(act)
      /\ r.consumed.clearanceDigest = ExpectedClearanceDigest(cl, act)
  BY DEF IssuedPermit, Result, Consume
<1>3. /\ r.receipt.permit = p.id /\ r.receipt.clearance = cl.id
      /\ r.receipt.action = act /\ r.receipt.pair = p.pair
      /\ r.receipt.substrate = p.substrate
      /\ r.receipt.clearanceDigest = p.clearanceDigest
      /\ r.receipt.replay = input
      /\ r.replay.seal = input /\ r.replay.of = input
  BY DEF Result, Receipt, Sealed
<1>4. /\ p.authority = au.id /\ cl.pair = PairOf(act)
      /\ cl.substrate = SubstrateOf(act)
  BY DEF ValidateBinding, ClearedAction
<1> HIDE DEF p, r
<1>5. BelongTogether(au, cl, act, r)
  BY <1>1, <1>2, <1>3, <1>4 DEF BelongTogether
<1>6. SameBindings(cl, act, r)
  BY <1>1, <1>2, <1>3, <1>4 DEF SameBindings
<1>7. ReplayBound(r)
  BY <1>3 DEF ReplayBound
<1>8. HandsOver(au, cl, act, r)
  BY <1>2, <1>5, <1>6, <1>7 DEF HandsOver
<1>9. QED
  BY <1>8 DEF p, r
=============================================================================

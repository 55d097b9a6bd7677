----------------------- MODULE EffectBoundary_proofs ------------------------
(***************************************************************************)
(* The one-shot permit for any number of calls, gateway processes, permits *)
(* and requests: proofs for module EffectBoundary.                         *)
(***************************************************************************)
EXTENDS EffectBoundary, TLAPS

USE DEF Goto, Underway, Ended, Status, PermitOf
USE DEF procVars, boundaryVars, ledgerVars

\* The calls end, refuse and crash within the model's types, and no call is
\* under way without its arguments.
LEMMA BoundaryTyping == Spec => [](TypeOK /\ HasArguments)
<1> USE NoCallAssumption, NoRequestAssumption, RequestAssumption,
        MaxTimeAssumption DEF TypeOK, HasArguments
<1>1. Init => TypeOK /\ HasArguments
  BY DEF Init
<1>2. TypeOK /\ HasArguments /\ [Next]_vars => (TypeOK /\ HasArguments)'
  <2> SUFFICES ASSUME TypeOK, HasArguments, [Next]_vars
               PROVE  (TypeOK /\ HasArguments)'
    OBVIOUS
  <2>1. ASSUME NEW c \in Calls, NEW r \in Requests, Start(c, r)
        PROVE  (TypeOK /\ HasArguments)'
    BY <2>1 DEF Start
  <2>2. ASSUME NEW c \in Calls, Check(c)
        PROVE  (TypeOK /\ HasArguments)'
    BY <2>2 DEF Check
  <2>3. ASSUME NEW c \in Calls, Fund(c)
        PROVE  (TypeOK /\ HasArguments)'
    BY <2>3 DEF Fund
  <2>4. ASSUME NEW c \in Calls, RefuseFunding(c) \/ LoseClaim(c) \/ StoreFails(c)
        PROVE  (TypeOK /\ HasArguments)'
    BY <2>4 DEF RefuseFunding, LoseClaim, StoreFails
  <2>5. ASSUME NEW c \in Calls, Claim(c)
        PROVE  (TypeOK /\ HasArguments)'
    BY <2>5 DEF Claim
  <2>6. ASSUME NEW c \in Calls, Act(c)
        PROVE  (TypeOK /\ HasArguments)'
    BY <2>6 DEF Act
  <2>7. ASSUME NEW c \in Calls, NEW s \in Status, Complete(c, s)
        PROVE  (TypeOK /\ HasArguments)'
    BY <2>7 DEF Complete
  <2>8. ASSUME NEW g \in Gateways, NEW s \in Revocable \cup Haltable,
               Block(g, s) \/ Resume(g, s)
        PROVE  (TypeOK /\ HasArguments)'
    BY <2>8 DEF Block, Resume
  <2>9. ASSUME NEW g \in Gateways, NEW v \in Reservations, Reserve(g, v)
        PROVE  (TypeOK /\ HasArguments)'
    BY <2>9 DEF Reserve
  <2>10. ASSUME NEW g \in Gateways, Crash(g)
         PROVE  (TypeOK /\ HasArguments)'
    <3>1. claimed' \in SUBSET Permits
      BY <2>10 DEF Crash
    <3>2. QED
      BY <2>10, <3>1 DEF Crash
  <2>11. CASE Tick
    BY <2>11 DEF Tick
  <2>12. CASE UNCHANGED vars
    BY <2>12 DEF vars
  <2>13. QED
    BY <2>1, <2>2, <2>3, <2>4, <2>5, <2>6, <2>7, <2>8, <2>9, <2>10, <2>11,
       <2>12 DEF Next, Advance
<1>3. QED
  BY <1>1, <1>2, PTL DEF Spec

\* Every reachable state of the model is well formed.
THEOREM BoundaryTypeOK == Spec => []TypeOK
BY BoundaryTyping, PTL

\* A call is the one winner of its permit exactly from its claim to its end,
\* and the permit's row outlives it.
THEOREM ClaimInvariant == Spec => []ClaimInv
<1> USE NoCallAssumption, RequestAssumption
<1>1. Init => ClaimInv
  BY DEF Init, ClaimInv, HasArguments, EffectUnderClaim
<1>2. TypeOK /\ HasArguments' /\ ClaimInv /\ [Next]_vars => ClaimInv'
  <2> SUFFICES ASSUME TypeOK, HasArguments', ClaimInv, [Next]_vars
               PROVE  ClaimInv'
    OBVIOUS
  <2> USE DEF TypeOK, ClaimInv, EffectUnderClaim
  <2>1. ASSUME NEW c \in Calls, NEW r \in Requests, Start(c, r)
        PROVE  ClaimInv'
    BY <2>1 DEF Start
  <2>2. ASSUME NEW c \in Calls, Check(c)
        PROVE  ClaimInv'
    BY <2>2 DEF Check
  <2>3. ASSUME NEW c \in Calls, Fund(c)
        PROVE  ClaimInv'
    BY <2>3 DEF Fund
  <2>4. ASSUME NEW c \in Calls, RefuseFunding(c) \/ LoseClaim(c) \/ StoreFails(c)
        PROVE  ClaimInv'
    BY <2>4 DEF RefuseFunding, LoseClaim, StoreFails
  <2>5. ASSUME NEW c \in Calls, Claim(c)
        PROVE  ClaimInv'
    BY <2>5 DEF Claim
  <2>6. ASSUME NEW c \in Calls, Act(c)
        PROVE  ClaimInv'
    BY <2>6 DEF Act
  <2>7. ASSUME NEW c \in Calls, NEW s \in Status, Complete(c, s)
        PROVE  ClaimInv'
    BY <2>7 DEF Complete
  <2>8. ASSUME NEW g \in Gateways, NEW s \in Revocable \cup Haltable,
               Block(g, s) \/ Resume(g, s)
        PROVE  ClaimInv'
    BY <2>8 DEF Block, Resume
  <2>9. ASSUME NEW g \in Gateways, NEW v \in Reservations, Reserve(g, v)
        PROVE  ClaimInv'
    BY <2>9 DEF Reserve
  <2>10. ASSUME NEW g \in Gateways, Crash(g)
         PROVE  ClaimInv'
    BY <2>10 DEF Crash
  <2>11. CASE Tick
    BY <2>11 DEF Tick
  <2>12. CASE UNCHANGED vars
    BY <2>12 DEF vars
  <2>13. QED
    BY <2>1, <2>2, <2>3, <2>4, <2>5, <2>6, <2>7, <2>8, <2>9, <2>10, <2>11,
       <2>12 DEF Next, Advance
<1>3. QED
  BY <1>1, <1>2, BoundaryTyping, PTL DEF Spec

\* One permit drives at most one external consequence, whatever the number of
\* calls, gateways, retries and crashes.
THEOREM OneEffectPerPermit == Spec => []AtMostOneEffect
<1>1. ClaimInv => AtMostOneEffect
  BY DEF ClaimInv, EffectUnderClaim, AtMostOneEffect
<1>2. QED
  BY <1>1, ClaimInvariant, PTL

\* Nothing acts and nothing testifies without a durable claim.
THEOREM EffectsAreClaimed == Spec => []EffectUnderClaim
<1>1. ClaimInv => EffectUnderClaim
  BY DEF ClaimInv
<1>2. QED
  BY <1>1, ClaimInvariant, PTL
\* One more call under its permit joins the calls of that permit, and no other.
LEMMA UnderGrows ==
  ASSUME NEW S, NEW c, PermitOf(c) \in Permits
  PROVE  Under(S \cup {c}) = [Under(S) EXCEPT ![PermitOf(c)] = @ \cup {c}]
<1>1. ASSUME NEW p \in Permits
      PROVE  {x \in S \cup {c} : PermitOf(x) = p}
               = IF p = PermitOf(c) THEN {x \in S : PermitOf(x) = p} \cup {c}
                                    ELSE {x \in S : PermitOf(x) = p}
  OBVIOUS
<1>2. QED
  BY <1>1 DEF Under

\* The whole machinery, contention, refusals and crashes included, is
\* indistinguishable from the one-shot permit.
THEOREM BoundaryImplementsOneShot == Spec => ImplementsOneShot
<1> USE NoCallAssumption, RequestAssumption
<1>1. Init => OneShot!Init
  BY DEF Init, OneShot!Init, Under
<1>2. TypeOK /\ ClaimInv /\ [Next]_vars => [OneShot!Next]_(OneShot!permitVars)
  <2> SUFFICES ASSUME TypeOK, ClaimInv, [Next]_vars
               PROVE  [OneShot!Next]_(OneShot!permitVars)
    OBVIOUS
  <2> USE DEF TypeOK, ClaimInv, EffectUnderClaim, HasArguments
  <2>1. ASSUME NEW c \in Calls, NEW r \in Requests, Start(c, r)
        PROVE  UNCHANGED OneShot!permitVars
    BY <2>1 DEF Start, OneShot!permitVars, Under
  <2>2. ASSUME NEW c \in Calls, Check(c) \/ Fund(c)
        PROVE  UNCHANGED OneShot!permitVars
    BY <2>2 DEF Check, Fund, OneShot!permitVars, Under
  <2>3. ASSUME NEW c \in Calls, RefuseFunding(c) \/ LoseClaim(c) \/ StoreFails(c)
        PROVE  UNCHANGED OneShot!permitVars
    BY <2>3 DEF RefuseFunding, LoseClaim, StoreFails, OneShot!permitVars, Under
  <2>4. ASSUME NEW c \in Calls, Claim(c)
        PROVE  OneShot!Spend({PermitOf(c)})
    BY <2>4 DEF Claim, OneShot!Spend, Under
  <2>5. ASSUME NEW c \in Calls, Act(c)
        PROVE  OneShot!Act(PermitOf(c), c)
    <3>1. c \in won /\ PermitOf(c) \in Permits /\ PermitOf(c) \in claimed
      BY <2>5 DEF Act
    <3>2. \A d \in won : PermitOf(d) = PermitOf(c) => d = c
      BY <3>1
    <3>3. Under(effects)[PermitOf(c)] = {}
      BY <2>5, <3>1, <3>2 DEF Act, Under
    <3>4. Under({d \in Calls : receipt[d] # "none"})[PermitOf(c)] = {}
      BY <2>5, <3>1, <3>2 DEF Act, Under
    <3>5. Under(effects)' = [Under(effects) EXCEPT ![PermitOf(c)] = {c}]
      <4>1. Under(effects)' = Under(effects \cup {c})
        BY <2>5 DEF Act, Under
      <4>2. Under(effects \cup {c}) = [Under(effects) EXCEPT
                                         ![PermitOf(c)] = @ \cup {c}]
        BY <3>1, UnderGrows
      <4>3. QED
        BY <3>3, <4>1, <4>2
    <3>6. UNCHANGED Under({d \in Calls : receipt[d] # "none"})
      BY <2>5 DEF Act, Under
    <3>7. QED
      BY <2>5, <3>1, <3>3, <3>4, <3>5, <3>6 DEF Act, OneShot!Act
  <2>6. ASSUME NEW c \in Calls, NEW s \in Status, Complete(c, s)
        PROVE  OneShot!Testify(PermitOf(c), c)
    <3> DEFINE told == {d \in Calls : receipt[d] # "none"}
    <3>1. c \in won /\ PermitOf(c) \in Permits /\ PermitOf(c) \in claimed
      BY <2>6 DEF Complete
    <3>2. \A d \in won : PermitOf(d) = PermitOf(c) => d = c
      BY <3>1
    <3>3. Under(effects)[PermitOf(c)] \subseteq {c}
      BY <3>1, <3>2 DEF Under
    <3>4. Under(told)[PermitOf(c)] = {}
      BY <2>6, <3>1, <3>2 DEF Complete, Under
    <3>5. Under(told)' = Under(told \cup {c})
      <4>1. told' = told \cup {c} /\ UNCHANGED req
        BY <2>6 DEF Complete
      <4>2. QED
        BY <4>1 DEF Under
    <3>6. Under(told)' = [Under(told) EXCEPT ![PermitOf(c)] = {c}]
      <4>1. Under(told \cup {c}) = [Under(told) EXCEPT
                                      ![PermitOf(c)] = @ \cup {c}]
        BY <3>1, UnderGrows
      <4>2. QED
        BY <3>4, <3>5, <4>1
    <3>7. UNCHANGED Under(effects)
      BY <2>6 DEF Complete, Under
    <3>8. QED
      BY <2>6, <3>1, <3>3, <3>4, <3>6, <3>7 DEF Complete, OneShot!Testify
  <2>7. ASSUME NEW g \in Gateways, NEW s \in Revocable \cup Haltable,
               Block(g, s) \/ Resume(g, s)
        PROVE  UNCHANGED OneShot!permitVars
    BY <2>7 DEF Block, Resume, OneShot!permitVars, Under
  <2>8. ASSUME NEW g \in Gateways, NEW v \in Reservations, Reserve(g, v)
        PROVE  UNCHANGED OneShot!permitVars
    BY <2>8 DEF Reserve, OneShot!permitVars, Under
  <2>9. ASSUME NEW g \in Gateways, Crash(g)
        PROVE  \E S \in SUBSET Permits : OneShot!Spend(S)
    <3> DEFINE dying == {c \in Calls : gateway[c] = g /\ pc[c] \in Underway}
               claiming == {c \in dying : pc[c] = "funded"}
    <3>1. PICK S \in SUBSET {PermitOf(c) : c \in claiming} :
            claimed' = claimed \cup S
      BY <2>9 DEF Crash
    <3>2. S \subseteq Permits
      BY <3>1
    <3>3. OneShot!Spend(S \ claimed)
      BY <2>9, <3>1 DEF Crash, OneShot!Spend, Under
    <3>4. QED
      BY <3>2, <3>3
  <2>10. CASE Tick
    BY <2>10 DEF Tick, OneShot!permitVars, Under
  <2>11. CASE UNCHANGED vars
    BY <2>11 DEF vars, OneShot!permitVars, Under
  <2>12. QED
    <3>1. \A c \in Calls : pc[c] # "idle" => PermitOf(c) \in Permits
      OBVIOUS
    <3>2. ASSUME NEW c \in Calls, Claim(c)
          PROVE  \E S \in SUBSET Permits : OneShot!Spend(S)
      <4>1. {PermitOf(c)} \in SUBSET Permits
        BY <3>1, <3>2 DEF Claim
      <4>2. OneShot!Spend({PermitOf(c)})
        BY <2>4, <3>2
      <4>3. QED
        BY <4>1, <4>2
    <3>3. ASSUME NEW c \in Calls, Act(c)
          PROVE  \E p \in Permits : OneShot!Act(p, c)
      <4>1. PermitOf(c) \in Permits
        BY <3>1, <3>3 DEF Act
      <4>2. PICK p \in Permits : p = PermitOf(c)
        BY <4>1
      <4>3. OneShot!Act(p, c)
        BY <2>5, <3>3, <4>2 DEF OneShot!Act
      <4>4. QED
        BY <4>3
    <3>4. ASSUME NEW c \in Calls, NEW s \in Status, Complete(c, s)
          PROVE  \E p \in Permits : OneShot!Testify(p, c)
      <4>1. PermitOf(c) \in Permits
        BY <3>1, <3>4 DEF Complete
      <4>2. PICK p \in Permits : p = PermitOf(c)
        BY <4>1
      <4>3. OneShot!Testify(p, c)
        <5>1. OneShot!Testify(PermitOf(c), c)
          BY <2>6, <3>4
        <5>2. QED
          BY <4>2, <5>1 DEF OneShot!Testify
      <4>4. QED
        BY <4>3
    <3>5. QED
      BY <2>1, <2>2, <2>3, <2>7, <2>8, <2>9, <2>10, <2>11, <3>2, <3>3, <3>4
         DEF Next, Advance, OneShot!Next
<1>3. QED
  BY <1>1, <1>2, BoundaryTypeOK, ClaimInvariant, PTL
     DEF Spec, ImplementsOneShot, OneShot!Spec
-----------------------------------------------------------------------------
(***************************************************************************)
(* Whatever acts was admitted, not revoked beforehand, and paid for: the   *)
(* other safety properties of module EffectBoundary, for every deployment. *)
(***************************************************************************)
\* The checks Start made hold of the call for as long as it can act.
LEMMA AdmissionInvariant == Spec => []AdmissionInv
<1> USE DEF TypeOK, ClaimInv, EffectUnderClaim, AdmissionInv
<1>1. Init => AdmissionInv
  BY DEF Init
<1>2. TypeOK /\ ClaimInv /\ AdmissionInv /\ [Next]_vars => AdmissionInv'
  <2> SUFFICES ASSUME TypeOK, ClaimInv, AdmissionInv, [Next]_vars
               PROVE  AdmissionInv'
    OBVIOUS
  <2>1. ASSUME NEW c \in Calls, NEW r \in Requests, Start(c, r)
        PROVE  AdmissionInv'
    BY <2>1 DEF Start
  <2>2. ASSUME NEW c \in Calls, Check(c)
        PROVE  AdmissionInv'
    BY <2>2 DEF Check
  <2>3. ASSUME NEW c \in Calls, Fund(c)
        PROVE  AdmissionInv'
    BY <2>3 DEF Fund
  <2>4. ASSUME NEW c \in Calls, RefuseFunding(c) \/ LoseClaim(c) \/ StoreFails(c)
        PROVE  AdmissionInv'
    BY <2>4 DEF RefuseFunding, LoseClaim, StoreFails
  <2>5. ASSUME NEW c \in Calls, Claim(c)
        PROVE  AdmissionInv'
    BY <2>5 DEF Claim
  <2>6. ASSUME NEW c \in Calls, Act(c)
        PROVE  AdmissionInv'
    BY <2>6 DEF Act
  <2>7. ASSUME NEW c \in Calls, NEW s \in Status, Complete(c, s)
        PROVE  AdmissionInv'
    BY <2>7 DEF Complete
  <2>8. ASSUME NEW g \in Gateways, NEW s \in Revocable \cup Haltable,
               Block(g, s) \/ Resume(g, s)
        PROVE  AdmissionInv'
    BY <2>8 DEF Block, Resume
  <2>9. ASSUME NEW g \in Gateways, NEW v \in Reservations, Reserve(g, v)
        PROVE  AdmissionInv'
    BY <2>9 DEF Reserve
  <2>10. ASSUME NEW g \in Gateways, Crash(g)
        PROVE  AdmissionInv'
    BY <2>10 DEF Crash
  <2>11. CASE Tick
    BY <2>11 DEF Tick
  <2>12. CASE UNCHANGED vars
    <3>1. /\ UNCHANGED <<pc, req, won, issued, pending, spentBy>>
          /\ UNCHANGED <<started, barred, blocked, gateway>>
      BY <2>12 DEF vars
    <3>2. QED
      BY <3>1
  <2> HIDE DEF TypeOK, ClaimInv, EffectUnderClaim, AdmissionInv
  <2>13. QED
    BY <2>1, <2>2, <2>3, <2>4, <2>5, <2>6, <2>7, <2>8, <2>9, <2>10, <2>11,
       <2>12 DEF Next, Advance
<1>3. QED
  BY <1>1, <1>2, BoundaryTypeOK, ClaimInvariant, PTL DEF Spec

\* An effect belongs to an affirmative decision on exactly the permitted
\* action, on a basis nobody reported as other than valid.
THEOREM EffectsAreAdmitted == Spec => []EffectIsAdmitted
<1>1. TypeOK /\ ClaimInv /\ AdmissionInv => EffectIsAdmitted
  BY DEF TypeOK, ClaimInv, EffectUnderClaim, AdmissionInv, EffectIsAdmitted,
         Admissible, ValidateBinding, ClearedAction, AuthorizesPermit,
         ReplayInput, ReplayReady
<1>2. QED
  BY <1>1, BoundaryTypeOK, ClaimInvariant, AdmissionInvariant, PTL


\* The moment captured as now lies inside every window that bounds the effect.
THEOREM EffectsAreTimely == Spec => []EffectInsideWindows
<1>1. ASSUME TypeOK, ClaimInv, AdmissionInv, NEW c \in effects
      PROVE  LET r == req[c]
                 t == started[c]
             IN  /\ r \in Requests /\ t \in Int
                 /\ ValidateBinding(r.authority, r.clearance, r.permit, r.action, t)
  BY <1>1, MaxTimeAssumption
     DEF TypeOK, ClaimInv, EffectUnderClaim, HasArguments, AdmissionInv, Admissible
<1>2. ASSUME NEW r \in Requests, NEW t \in Int, SubstrateOf(r.action) # None,
             IsFresh(SubstrateOf(r.action), t)
      PROVE  LET s == SubstrateOf(r.action) IN
             s.attested <= t /\ t < s.until /\ t < s.attested + s.maxAge
  BY <1>2, AttestationAssumption DEF IsFresh, FreshUntil
<1>3. TypeOK /\ ClaimInv /\ AdmissionInv => EffectInsideWindows
  BY <1>1, <1>2 DEF EffectInsideWindows, ValidateBinding, IsActive,
     AuthorizesPermit, WorkspaceCurrent, IsUsable
<1>4. QED
  BY <1>3, BoundaryTypeOK, ClaimInvariant, AdmissionInvariant, PTL

\* Revocations have no inverse, so one seen at the start is still there at
\* Check.
LEMMA RevocationInvariant == Spec => []RevocationInv
<1> USE ControlAssumption DEF TypeOK, ClaimInv, EffectUnderClaim, HasArguments,
           RevocationInv
<1>1. Init => RevocationInv
  BY DEF Init
<1>2. TypeOK /\ ClaimInv /\ RevocationInv /\ [Next]_vars => RevocationInv'
  <2> SUFFICES ASSUME TypeOK, ClaimInv, RevocationInv, [Next]_vars
               PROVE  RevocationInv'
    OBVIOUS
  <2>1. ASSUME NEW c \in Calls, NEW r \in Requests, Start(c, r)
        PROVE  RevocationInv'
    BY <2>1 DEF Start
  <2>2. ASSUME NEW c \in Calls, Check(c)
        PROVE  RevocationInv'
    BY <2>2 DEF Check, ExecutionAllowed
  <2>3. ASSUME NEW c \in Calls, Fund(c)
        PROVE  RevocationInv'
    BY <2>3 DEF Fund
  <2>4. ASSUME NEW c \in Calls, RefuseFunding(c) \/ LoseClaim(c) \/ StoreFails(c)
        PROVE  RevocationInv'
    BY <2>4 DEF RefuseFunding, LoseClaim, StoreFails
  <2>5. ASSUME NEW c \in Calls, Claim(c)
        PROVE  RevocationInv'
    BY <2>5 DEF Claim
  <2>6. ASSUME NEW c \in Calls, Act(c)
        PROVE  RevocationInv'
    BY <2>6 DEF Act
  <2>7. ASSUME NEW c \in Calls, NEW s \in Status, Complete(c, s)
        PROVE  RevocationInv'
    BY <2>7 DEF Complete
  <2>8. ASSUME NEW g \in Gateways, NEW s \in Revocable \cup Haltable,
               Block(g, s) \/ Resume(g, s)
        PROVE  RevocationInv'
    BY <2>8 DEF Block, Resume
  <2>9. ASSUME NEW g \in Gateways, NEW v \in Reservations, Reserve(g, v)
        PROVE  RevocationInv'
    BY <2>9 DEF Reserve
  <2>10. ASSUME NEW g \in Gateways, Crash(g)
        PROVE  RevocationInv'
    BY <2>10 DEF Crash
  <2>11. CASE Tick
    BY <2>11 DEF Tick
  <2>12. CASE UNCHANGED vars
    <3>1. /\ UNCHANGED <<pc, req, won, issued, pending, spentBy>>
          /\ UNCHANGED <<started, barred, blocked, gateway>>
      BY <2>12 DEF vars
    <3>2. QED
      BY <3>1
  <2> HIDE DEF TypeOK, ClaimInv, EffectUnderClaim, RevocationInv
  <2>13. QED
    BY <2>1, <2>2, <2>3, <2>4, <2>5, <2>6, <2>7, <2>8, <2>9, <2>10, <2>11,
       <2>12 DEF Next, Advance
<1>3. QED
  BY <1>1, <1>2, BoundaryTypeOK, ClaimInvariant, PTL DEF Spec

\* A call that begins after its authority, principal or actor was revoked in
\* its process never has an effect.
THEOREM RevocationHolds == Spec => []RevokedBeforeCallBlocks
<1>1. TypeOK /\ ClaimInv /\ RevocationInv => RevokedBeforeCallBlocks
  BY DEF TypeOK, ClaimInv, EffectUnderClaim, RevocationInv,
         RevokedBeforeCallBlocks
<1>2. QED
  BY <1>1, BoundaryTypeOK, ClaimInvariant, RevocationInvariant, PTL

\* Reservations are spent once, by the call that presented them.
LEMMA FundingInvariant == Spec => []FundingInv
<1> USE NoCallAssumption, RequestAssumption DEF TypeOK, ClaimInv, EffectUnderClaim, HasArguments,
           FundingInv, SpentOnce, SpentFor
<1>1. Init => FundingInv
  BY DEF Init
<1>2. TypeOK /\ ClaimInv /\ FundingInv /\ [Next]_vars => FundingInv'
  <2> SUFFICES ASSUME TypeOK, ClaimInv, FundingInv, [Next]_vars
               PROVE  FundingInv'
    OBVIOUS
  <2>1. ASSUME NEW c \in Calls, NEW r \in Requests, Start(c, r)
        PROVE  FundingInv'
    BY <2>1 DEF Start
  <2>2. ASSUME NEW c \in Calls, Check(c)
        PROVE  FundingInv'
    BY <2>2 DEF Check
  <2>3. ASSUME NEW c \in Calls, Fund(c)
        PROVE  FundingInv'
    <3> DEFINE S == req[c].reservations
    <3>1. /\ S \subseteq pending[gateway[c]]
          /\ S \subseteq Reservations
          /\ {v.budget : v \in S} = req[c].action.budgets
          /\ \A v \in S : v.permit = PermitOf(c)
          /\ gateway[c] \in Gateways
      BY <2>3 DEF Fund, Fundable
    <3>2. SpentOnce'
      BY <2>3, <3>1 DEF Fund
    <3>3. SpentFor(c)' = S
      BY <2>3, <3>1 DEF Fund
    <3>4. ASSUME NEW d \in Calls, d # c
          PROVE  SpentFor(d)' = SpentFor(d)
      BY <2>3, <3>1, <3>4 DEF Fund
    <3>5. UNCHANGED <<req, won>> /\ pc' = [pc EXCEPT ![c] = "funded"]
      BY <2>3 DEF Fund
    <3>6. ASSUME NEW d \in Calls
          PROVE  /\ pc'[d] \in {"idle", "validated", "cleared"} => SpentFor(d)' = {}
                 /\ pc'[d] \in {"funded", "permitted", "acted"} \/ d \in won' =>
                      /\ SpentFor(d)' = req'[d].reservations
                      /\ {v.budget : v \in SpentFor(d)'} = req'[d].action.budgets
                      /\ \A v \in SpentFor(d)' : v.permit = PermitOf(d)'
      <4> HIDE DEF SpentFor
      <4>1. CASE d = c
        BY <3>1, <3>3, <3>5, <4>1
      <4>2. CASE d # c
        BY <3>4, <3>5, <4>2
      <4>3. QED
        BY <4>1, <4>2
    <3>7. QED
      BY <3>2, <3>6
  <2>4. ASSUME NEW c \in Calls, RefuseFunding(c) \/ LoseClaim(c) \/ StoreFails(c)
        PROVE  FundingInv'
    BY <2>4 DEF RefuseFunding, LoseClaim, StoreFails
  <2>5. ASSUME NEW c \in Calls, Claim(c)
        PROVE  FundingInv'
    BY <2>5 DEF Claim
  <2>6. ASSUME NEW c \in Calls, Act(c)
        PROVE  FundingInv'
    BY <2>6 DEF Act
  <2>7. ASSUME NEW c \in Calls, NEW s \in Status, Complete(c, s)
        PROVE  FundingInv'
    BY <2>7 DEF Complete
  <2>8. ASSUME NEW g \in Gateways, NEW s \in Revocable \cup Haltable,
               Block(g, s) \/ Resume(g, s)
        PROVE  FundingInv'
    BY <2>8 DEF Block, Resume
  <2>9. ASSUME NEW g \in Gateways, NEW v \in Reservations, Reserve(g, v)
        PROVE  FundingInv'
    BY <2>9 DEF Reserve
  <2>10. ASSUME NEW g \in Gateways, Crash(g)
        PROVE  FundingInv'
    BY <2>10 DEF Crash
  <2>11. CASE Tick
    BY <2>11 DEF Tick
  <2>12. CASE UNCHANGED vars
    <3>1. /\ UNCHANGED <<pc, req, won, issued, pending, spentBy>>
          /\ UNCHANGED <<started, barred, blocked, gateway>>
      BY <2>12 DEF vars
    <3>2. QED
      BY <3>1
  <2> HIDE DEF TypeOK, ClaimInv, EffectUnderClaim, FundingInv
  <2>13. QED
    BY <2>1, <2>2, <2>3, <2>4, <2>5, <2>6, <2>7, <2>8, <2>9, <2>10, <2>11,
       <2>12 DEF Next, Advance
<1>3. QED
  BY <1>1, <1>2, BoundaryTypeOK, ClaimInvariant, PTL DEF Spec

\* Every effect is paid for, through reservations for its own permit that no
\* other call has used.
THEOREM EffectsAreFunded == Spec => []EffectIsFunded
<1>1. TypeOK /\ ClaimInv /\ FundingInv => EffectIsFunded
  BY DEF TypeOK, ClaimInv, EffectUnderClaim, FundingInv, SpentFor,
         EffectIsFunded
<1>2. QED
  BY <1>1, BoundaryTypeOK, ClaimInvariant, FundingInvariant, PTL

-----------------------------------------------------------------------------
\* issue_execution_permit and execute agree on time and on bindings.  What the
\* one issued for an action the other admits, for that action and under the
\* same clearance and authority, from the moment of issuance to the expiry of
\* the permit, and at no other moment: whatever ends earlier (clearance,
\* authority, workspace, attestation) was looked at when the permit was issued.
THEOREM IssuedPermitIsAdmitted ==
  ASSUME NEW r, NEW id, NEW issue \in Int, NEW expires \in Int, NEW t \in Int,
         MayIssue(r.clearance, r.authority, r.action, expires, issue),
         r.permit = IssuedPermit(id, r.clearance, r.authority, r.action, expires, issue),
         EffectorAccepted(r), r.replay = None,
         r.authority.issued \in Int, r.authority.until \in Int,
         r.clearance.until \in Int,
         r.action.workspace # None => r.action.workspace.expires \in Int,
         SubstrateOf(r.action) # None =>
           /\ SubstrateOf(r.action).attested \in Int
           /\ SubstrateOf(r.action).until \in Int
           /\ SubstrateOf(r.action).maxAge \in Int
  PROVE  Admissible(r, t) <=> issue <= t /\ t < expires
<1>1. IsUsable(r.permit, t) <=> issue <= t /\ t < expires
  BY DEF IsUsable, IssuedPermit
<1>2. ASSUME issue <= t, t < expires
      PROVE  ValidateBinding(r.authority, r.clearance, r.permit, r.action, t)
  <2>1. IsActive(r.authority, t) /\ AuthorizesPermit(r.clearance, t)
    BY <1>2 DEF MayIssue, IsActive, AuthorizesPermit
  <2>2. WorkspaceCurrent(r.action, t)
    <3>1. SubstrateOf(r.action) # None => FreshUntil(SubstrateOf(r.action)) \in Int
      BY DEF FreshUntil
    <3>2. QED
      BY <1>2, <3>1 DEF MayIssue, WorkspaceCurrent, IsFresh
  <2>3. /\ ClearedAction(r.authority, r.clearance, r.action)
        /\ r.permit.authority = r.authority.id /\ r.permit.action = r.action
        /\ r.permit.clearance = r.clearance.id /\ r.permit.skill = r.action.skill
        /\ r.permit.pair = PairOf(r.action)
        /\ r.permit.substrate = SubstrateOf(r.action)
        /\ r.permit.clearanceDigest = ExpectedClearanceDigest(r.clearance, r.action)
    BY DEF MayIssue, IssuedPermit
  <2>4. QED
    BY <1>1, <1>2, <2>1, <2>2, <2>3 DEF ValidateBinding
<1>3. ASSUME ValidateBinding(r.authority, r.clearance, r.permit, r.action, t)
      PROVE  ReplayReady(ReplayInput(r, t), r.authority, r.clearance, r.permit,
                         r.action)
  BY <1>3 DEF ValidateBinding, AuthorizesPermit, ReplayReady, ReplayInput, Capture
<1>4. ValidateBinding(r.authority, r.clearance, r.permit, r.action, t)
        => IsUsable(r.permit, t)
  BY DEF ValidateBinding
<1>5. QED
  BY <1>1, <1>2, <1>3, <1>4 DEF Admissible

-----------------------------------------------------------------------------
\* A step of the deployment, as process g's pool sees it.
LEMMA PoolStep ==
  ASSUME TypeOK, HasArguments, FundingInv, [Next]_vars, NEW g \in Gateways
  PROVE  [Pool(g)!Next]_(Pool(g)!poolVars)
<1> USE DEF Pool!poolVars
<1>1. ASSUME UNCHANGED <<pending, spentBy, gateway>>
      PROVE  UNCHANGED Pool(g)!poolVars
  BY <1>1 DEF SpentIn
<1>2. ASSUME NEW h \in Gateways, NEW v \in Reservations, Reserve(h, v)
      PROVE  [Pool(g)!Next]_(Pool(g)!poolVars)
  <2>1. SpentIn(g)' = SpentIn(g)
    BY <1>2 DEF Reserve, SpentIn
  <2>2. CASE h = g
    <3>1. v \notin pending[g] /\ v \notin SpentIn(g)
      BY <1>2, NoCallAssumption DEF Reserve, FundingInv, SpentOnce, SpentIn
    <3>2. pending'[g] = pending[g] \cup {v}
      BY <1>2, <2>2 DEF Reserve, TypeOK
    <3>3. Pool(g)!Grant(v)
      BY <2>1, <3>1, <3>2 DEF Pool!Grant
    <3>4. QED
      BY <3>3 DEF Pool!Next
  <2>3. CASE h # g
    BY <1>2, <2>1, <2>3 DEF Reserve, TypeOK
  <2>4. QED
    BY <2>2, <2>3
<1>3. ASSUME NEW c \in Calls, Fund(c)
      PROVE  [Pool(g)!Next]_(Pool(g)!poolVars)
  <2> DEFINE S == req[c].reservations
  <2>1. /\ S \subseteq pending[gateway[c]] /\ S \subseteq Reservations
        /\ gateway[c] \in Gateways /\ gateway' = gateway
        /\ pending' = [pending EXCEPT ![gateway[c]] = @ \ S]
        /\ spentBy' = [v \in Reservations |-> IF v \in S THEN c ELSE spentBy[v]]
    BY <1>3 DEF Fund, Fundable, TypeOK
  <2>2. \A v \in S : spentBy[v] = NoCall
    BY <2>1 DEF FundingInv, SpentOnce
  <2> HIDE DEF S
  <2>3. CASE gateway[c] = g
    <3>1. SpentIn(g)' = SpentIn(g) \cup S
      BY <2>1, <2>2, <2>3, NoCallAssumption DEF SpentIn
    <3>2. pending'[g] = pending[g] \ S
      BY <2>1, <2>3 DEF TypeOK
    <3>3. Pool(g)!Spend(S)
      BY <2>1, <2>3, <3>1, <3>2 DEF Pool!Spend
    <3>4. QED
      BY <2>1, <3>3 DEF Pool!Next
  <2>4. CASE gateway[c] # g
    <3>1. SpentIn(g)' = SpentIn(g)
      BY <2>1, <2>2, <2>4, NoCallAssumption DEF SpentIn
    <3>2. pending'[g] = pending[g]
      BY <2>1, <2>4 DEF TypeOK
    <3>3. QED
      BY <3>1, <3>2
  <2>5. QED
    BY <2>3, <2>4
<1>4. ASSUME NEW h \in Gateways, Crash(h)
      PROVE  [Pool(g)!Next]_(Pool(g)!poolVars)
  <2>1. SpentIn(g)' = SpentIn(g)
    BY <1>4 DEF Crash, SpentIn
  <2>2. pending'[g] = IF h = g THEN {} ELSE pending[g]
    BY <1>4 DEF Crash, TypeOK
  <2>3. QED
    BY <2>1, <2>2 DEF Pool!Next, Pool!Forget
<1>5. ASSUME NEW c \in Calls,
             \/ Check(c) \/ RefuseFunding(c) \/ Claim(c) \/ LoseClaim(c)
             \/ StoreFails(c) \/ Act(c) \/ \E s \in Status : Complete(c, s)
             \/ \E r \in Requests : Start(c, r)
      PROVE  UNCHANGED <<pending, spentBy, gateway>>
  BY <1>5 DEF Check, RefuseFunding, Claim, LoseClaim, StoreFails, Act, Complete, Start
<1>6. ASSUME \/ \E h \in Gateways : \/ \E s \in Revocable \cup Haltable : Block(h, s)
                                   \/ \E s \in Haltable : Resume(h, s)
             \/ Tick \/ UNCHANGED vars
      PROVE  UNCHANGED <<pending, spentBy, gateway>>
  BY <1>6 DEF Block, Resume, Tick, vars
<1>7. QED
  BY <1>1, <1>2, <1>3, <1>4, <1>5, <1>6 DEF Next, Advance

\* Whatever calls, retries and crashes do, a gateway process treats its ledger
\* as a pool: a call spends only what is outstanding in its own process, what it
\* spent stays spent, and only a crash loses what was outstanding.
THEOREM ProcessImplementsPool ==
  ASSUME NEW g \in Gateways
  PROVE  Spec => ImplementsPool(g)
<1>1. Init => Pool(g)!Init
  BY NoCallAssumption DEF Init, Pool!Init, SpentIn
<1>2. QED
  BY <1>1, PoolStep, BoundaryTyping, FundingInvariant, PTL
     DEF Spec, ImplementsPool, Pool!Spec
=============================================================================

--------------------------- MODULE EffectBoundary ---------------------------
(***************************************************************************)
(* ValoGateway.execute run by many callers at once: threads of several     *)
(* gateway processes that share one durable permit store.  Each call is    *)
(* one execution of the method, split where it touches state that other    *)
(* threads, other processes or a crash can change in between:              *)
(*                                                                         *)
(*   Start    now := utcnow(); pure validation and boundary replay         *)
(*   Check    RuntimeControlPlane.assert_execution_allowed                 *)
(*   Fund     ResourceBudgetLedger.consume_many                            *)
(*   Claim    PermitConsumptionStore.consume_once                          *)
(*   Act      the effector's external consequence                          *)
(*   Complete the receipt and the return                                   *)
(*                                                                         *)
(* consume_once is one step here; PermitStore shows that the SQLite store  *)
(* implements it.  The ledger's arithmetic is in ResourceLedger; here a    *)
(* reservation is outstanding, or consumed by one call.                    *)
(***************************************************************************)
EXTENDS Contracts

CONSTANTS
  Calls,         \* invocations of execute
  NoCall,
  Gateways,      \* gateway processes, each with its own memory
  Permits,       \* permit ids
  Requests,      \* the argument objects a call may be given
  NoRequest,
  Reservations,  \* resource reservations that may be made
  Revocable,     \* control subjects that can be revoked, for good
  Haltable,      \* control subjects that can be halted and resumed
  GlobalHalt,    \* the member of Haltable that stands for everything
  MaxTime        \* bound on the clock

(***************************************************************************)
(* A request is [authority, clearance, permit, action, effector, replay,   *)
(* scopes, reservations]: the contract objects of module Contracts, the    *)
(* effector path, the caller's boundary replay input or None, the control  *)
(* scopes or None, and the reservations handed in.                         *)
(***************************************************************************)
ControlSubjects(r) ==
  {<<"authority", r.authority.id>>, <<"principal", r.authority.principal>>,
   <<"actor", r.authority.actor>>, GlobalHalt}
  \cup {<<"scope", s>> :
          s \in IF r.scopes = None THEN r.authority.scope ELSE r.scopes}

ASSUME NoCallAssumption == NoCall \notin Calls
ASSUME NoRequestAssumption == NoRequest \notin Requests
ASSUME RequestAssumption ==
  \A r \in Requests : /\ r.permit.id \in Permits
                      /\ r.reservations \subseteq Reservations
ASSUME AttestationAssumption ==
  \A r \in Requests :
    SubstrateOf(r.action) # None =>
      /\ SubstrateOf(r.action).attested \in Int
      /\ SubstrateOf(r.action).until \in Int
      /\ SubstrateOf(r.action).maxAge \in Int
ASSUME ControlAssumption == Revocable \cap Haltable = {}
ASSUME MaxTimeAssumption == MaxTime \in Nat

VARIABLES
  clock,       \* utcnow()
  pc,          \* where each call is
  gateway,     \* the process that runs the call
  req,         \* its arguments
  started,     \* the moment it captured as now
  blocked,     \* per process: revoked or halted subjects (in memory)
  pending,     \* per process: the ledger's outstanding reservations (in memory)
  issued,      \* history: the reservations made so far
  claimed,     \* rows of the permit store (durable, shared)
  receipt,     \* the status of the receipt each call returned
  won,         \* history: calls whose consume_once returned True
  effects,     \* history: calls whose effector had its consequence
  spentBy,     \* history: the call that consumed each reservation
  barred       \* history: subjects already revoked where and when the call began

procVars == <<pc, gateway, req, started, barred>>
boundaryVars == <<claimed, won, effects, receipt>>
ledgerVars == <<pending, issued, spentBy>>
vars == <<clock, blocked, procVars, boundaryVars, ledgerVars>>

Underway == {"validated", "cleared", "funded", "permitted", "acted"}
Ended == {"done", "refused", "crashed"}
Status == {"succeeded", "failed"}

TypeOK ==
  /\ clock \in 0..MaxTime
  /\ pc \in [Calls -> {"idle"} \cup Underway \cup Ended]
  /\ gateway \in [Calls -> Gateways]
  /\ req \in [Calls -> Requests \cup {NoRequest}]
  /\ started \in [Calls -> 0..MaxTime]
  /\ blocked \in [Gateways -> SUBSET (Revocable \cup Haltable)]
  /\ pending \in [Gateways -> SUBSET Reservations]
  /\ issued \in SUBSET Reservations
  /\ claimed \in SUBSET Permits
  /\ receipt \in [Calls -> Status \cup {"none"}]
  /\ won \in SUBSET Calls
  /\ effects \in SUBSET Calls
  /\ spentBy \in [Reservations -> Calls \cup {NoCall}]
  /\ barred \in [Calls -> SUBSET Revocable]

Init ==
  /\ clock = 0
  /\ pc = [c \in Calls |-> "idle"]
  /\ gateway \in [Calls -> Gateways]
  /\ req = [c \in Calls |-> NoRequest]
  /\ started = [c \in Calls |-> 0]
  /\ blocked = [g \in Gateways |-> {}]
  /\ pending = [g \in Gateways |-> {}]
  /\ issued = {}
  /\ claimed = {}
  /\ receipt = [c \in Calls |-> "none"]
  /\ won = {}
  /\ effects = {}
  /\ spentBy = [v \in Reservations |-> NoCall]
  /\ barred = [c \in Calls |-> {}]

-----------------------------------------------------------------------------
PermitOf(c) == req[c].permit.id

Goto(c, s) == pc' = [pc EXCEPT ![c] = s]

\* An effector path is a tool that can be dispatched from the boundary, or a
\* registered handle bound to exactly this action; not both, not neither.
EffectorAccepted(r) ==
  \/ r.effector.kind = "tool"
  \/ /\ r.effector.kind = "handle"
     /\ r.effector.capability = r.action.type
     /\ r.effector.target = r.action.target

\* Without a replay input of the caller's, execute captures a valid one now.
ReplayInput(r, now) ==
  IF r.replay = None
  THEN Capture(r.authority, r.clearance, r.permit, r.action, "VALID", now)
  ELSE r.replay

\* Everything execute checks before it reads shared state.
Admissible(r, now) ==
  /\ EffectorAccepted(r)
  /\ ValidateBinding(r.authority, r.clearance, r.permit, r.action, now)
  /\ ReplayReady(ReplayInput(r, now), r.authority, r.clearance, r.permit,
                 r.action)

\* A caller can only hand in reservations that some ledger has made.
Start(c, r) ==
  /\ pc[c] = "idle"
  /\ r.reservations \subseteq issued
  /\ Goto(c, IF Admissible(r, clock) THEN "validated" ELSE "refused")
  /\ req' = [req EXCEPT ![c] = r]
  /\ started' = [started EXCEPT ![c] = clock]
  /\ barred' = [barred EXCEPT ![c] = blocked[gateway[c]] \cap Revocable]
  /\ UNCHANGED <<clock, gateway, blocked, boundaryVars, ledgerVars>>

\* Variant: only halts are looked up, not revocations.
ExecutionNotHalted(c) ==
  {s \in ControlSubjects(req[c]) : s = GlobalHalt \/ s[1] = "scope"}
    \cap blocked[gateway[c]] = {}

ExecutionAllowed(c) ==
  ControlSubjects(req[c]) \cap blocked[gateway[c]] = {}

Check(c) ==
  /\ pc[c] = "validated"
  /\ Goto(c, IF ExecutionAllowed(c) THEN "cleared" ELSE "refused")
  /\ UNCHANGED <<clock, gateway, req, started, barred, blocked, boundaryVars,
                 ledgerVars>>

\* Variant: whether a reservation is still outstanding is not looked up.
FundableTwice(c) ==
  LET r == req[c] IN
  /\ {v.budget : v \in r.reservations} = r.action.budgets
  /\ \A v \in r.reservations : /\ v.action = r.action
                               /\ v.clearance = r.clearance.id
                               /\ v.permit = r.permit.id

\* consume_many accepts: exactly one outstanding reservation per required
\* budget, each bound to this action, clearance and permit.
Fundable(c) ==
  LET r == req[c] IN
  /\ r.reservations \subseteq pending[gateway[c]]
  /\ {v.budget : v \in r.reservations} = r.action.budgets
  /\ \A v, w \in r.reservations : v.budget = w.budget => v = w
  /\ \A v \in r.reservations : /\ v.action = r.action
                               /\ v.clearance = r.clearance.id
                               /\ v.permit = r.permit.id

Fund(c) ==
  /\ pc[c] = "cleared"
  /\ Fundable(c)
  /\ Goto(c, "funded")
  /\ pending' = [pending EXCEPT ![gateway[c]] = @ \ req[c].reservations]
  /\ spentBy' = [v \in Reservations |->
                   IF v \in req[c].reservations THEN c ELSE spentBy[v]]
  /\ UNCHANGED <<clock, gateway, req, started, barred, blocked, boundaryVars,
                 issued>>

\* Variant: waits for reservations that may never be made.
AwaitFunding(c) ==
  /\ pc[c] = "cleared"
  /\ ~Fundable(c)
  /\ UNCHANGED vars

RefuseFunding(c) ==
  /\ pc[c] = "cleared"
  /\ ~Fundable(c)
  /\ Goto(c, "refused")
  /\ UNCHANGED <<clock, gateway, req, started, barred, blocked, boundaryVars,
                 ledgerVars>>

\* Variant: the store does not look for an earlier row.
ClaimAgain(c) ==
  /\ pc[c] = "funded"
  /\ claimed' = claimed \cup {PermitOf(c)}
  /\ won' = won \cup {c}
  /\ Goto(c, "permitted")
  /\ UNCHANGED <<clock, gateway, req, started, barred, blocked, effects,
                 receipt, ledgerVars>>

\* consume_once returns True ...
Claim(c) ==
  /\ pc[c] = "funded"
  /\ PermitOf(c) \notin claimed
  /\ claimed' = claimed \cup {PermitOf(c)}
  /\ won' = won \cup {c}
  /\ Goto(c, "permitted")
  /\ UNCHANGED <<clock, gateway, req, started, barred, blocked, effects,
                 receipt, ledgerVars>>

\* Variant: the False of consume_once is ignored.
LoseClaimIgnored(c) ==
  /\ pc[c] = "funded"
  /\ PermitOf(c) \in claimed
  /\ Goto(c, "permitted")
  /\ UNCHANGED <<clock, gateway, req, started, barred, blocked, boundaryVars,
                 ledgerVars>>

\* ... or False because the permit is already consumed ...
LoseClaim(c) ==
  /\ pc[c] = "funded"
  /\ PermitOf(c) \in claimed
  /\ Goto(c, "refused")
  /\ UNCHANGED <<clock, gateway, req, started, barred, blocked, boundaryVars,
                 ledgerVars>>

\* ... or raises, having spent nothing: the store stayed locked or failed.
StoreFails(c) ==
  /\ pc[c] = "funded"
  /\ Goto(c, "refused")
  /\ UNCHANGED <<clock, gateway, req, started, barred, blocked, boundaryVars,
                 ledgerVars>>

\* The effector's consequence reaches the outside world.
Act(c) ==
  /\ pc[c] = "permitted"
  /\ effects' = effects \cup {c}
  /\ Goto(c, "acted")
  /\ UNCHANGED <<clock, gateway, req, started, barred, blocked, claimed, won,
                 receipt, ledgerVars>>

\* Variant: a failed execution is raised, and no receipt returned.
CompleteReraises(c, s) ==
  /\ \/ pc[c] = "acted"
     \/ pc[c] = "permitted" /\ s = "failed"
  /\ receipt' = IF s = "failed" THEN receipt ELSE [receipt EXCEPT ![c] = s]
  /\ Goto(c, "done")
  /\ UNCHANGED <<clock, gateway, req, started, barred, blocked, claimed, won,
                 effects, ledgerVars>>

\* Variant: a failed execution hands its permit back.
CompleteReleases(c, s) ==
  /\ \/ pc[c] = "acted"
     \/ pc[c] = "permitted" /\ s = "failed"
  /\ receipt' = [receipt EXCEPT ![c] = s]
  /\ claimed' = IF s = "failed" THEN claimed \ {PermitOf(c)} ELSE claimed
  /\ Goto(c, "done")
  /\ UNCHANGED <<clock, gateway, req, started, barred, blocked, won, effects,
                 ledgerVars>>

\* The effector returned after its consequence, or anything in the try block
\* raised: the tool, before or after it acted, or the digest of its response.
Complete(c, s) ==
  /\ \/ pc[c] = "acted"
     \/ pc[c] = "permitted" /\ s = "failed"
  /\ receipt' = [receipt EXCEPT ![c] = s]
  /\ Goto(c, "done")
  /\ UNCHANGED <<clock, gateway, req, started, barred, blocked, claimed, won,
                 effects, ledgerVars>>

-----------------------------------------------------------------------------
\* Variant: the control event records the process instead of its subject.
BlockElsewhere(g, s) ==
  /\ blocked' = [blocked EXCEPT ![g] = @ \cup {g}]
  /\ UNCHANGED <<clock, procVars, boundaryVars, ledgerVars>>

\* RuntimeControlPlane.apply: a revocation has no inverse, a halt has one.
Block(g, s) ==
  /\ blocked' = [blocked EXCEPT ![g] = @ \cup {s}]
  /\ UNCHANGED <<clock, procVars, boundaryVars, ledgerVars>>

Resume(g, s) ==
  /\ s \in Haltable
  /\ blocked' = [blocked EXCEPT ![g] = @ \ {s}]
  /\ UNCHANGED <<clock, procVars, boundaryVars, ledgerVars>>

\* ResourceBudgetLedger.reserve, where the budgets leave room for it; the id
\* is a fresh UUID, so nothing is reserved twice.
Reserve(g, v) ==
  /\ v \notin issued
  /\ issued' = issued \cup {v}
  /\ pending' = [pending EXCEPT ![g] = @ \cup {v}]
  /\ UNCHANGED <<clock, blocked, procVars, boundaryVars, spentBy>>

Tick == /\ clock < MaxTime
        /\ clock' = clock + 1
        /\ UNCHANGED <<blocked, procVars, boundaryVars, ledgerVars>>

\* A gateway process dies and a new one takes its place.  Its calls end where
\* they are; one that was inside consume_once may or may not have committed
\* its row.  The control state and the ledger are gone, the store is not.
Crash(g) ==
  LET dying == {c \in Calls : gateway[c] = g /\ pc[c] \in Underway}
      claiming == {c \in dying : pc[c] = "funded"}
  IN  /\ dying # {}
      /\ \E S \in SUBSET {PermitOf(c) : c \in claiming} :
           claimed' = claimed \cup S
      /\ pc' = [c \in Calls |-> IF c \in dying THEN "crashed" ELSE pc[c]]
      /\ blocked' = [blocked EXCEPT ![g] = {}]
      /\ pending' = [pending EXCEPT ![g] = {}]
      /\ UNCHANGED <<clock, gateway, req, started, barred, won, effects,
                     receipt, issued, spentBy>>

-----------------------------------------------------------------------------
\* The steps a running execute takes by itself, the effector's included.
Advance(c) == \/ Check(c)
              \/ Fund(c) \/ RefuseFunding(c)
              \/ Claim(c) \/ LoseClaim(c) \/ StoreFails(c)
              \/ Act(c)
              \/ \E s \in Status : Complete(c, s)

Next ==
  \/ \E c \in Calls : Advance(c) \/ \E r \in Requests : Start(c, r)
  \/ \E g \in Gateways : \/ \E s \in Revocable \cup Haltable : Block(g, s)
                         \/ \E s \in Haltable : Resume(g, s)
                         \/ \E v \in Reservations : Reserve(g, v)
                         \/ Crash(g)
  \/ Tick

Spec == Init /\ [][Next]_vars

\* execute is straight-line code: unless its process dies, a call that began
\* goes on, given an effector and a permit store that return or raise.
FairSpec == Spec /\ \A c \in Calls : WF_vars(Advance(c))

-----------------------------------------------------------------------------
\* One permit drives at most one external consequence, over all gateway
\* processes, retries, failed calls and restarts (execution invariant 3).
AtMostOneEffect ==
  \A c, d \in effects : PermitOf(c) = PermitOf(d) => c = d

\* Whoever acted, or returned evidence, had been told True by the store, and
\* the permit stays consumed whatever became of the call (invariant 4).
EffectUnderClaim ==
  /\ effects \subseteq won
  /\ \A c \in Calls : receipt[c] # "none" => c \in won
  /\ \A c \in won : PermitOf(c) \in claimed

\* A call that begins after its authority, principal or actor was revoked in
\* its process never has an effect, whatever halts are resumed meanwhile
\* (invariant 5).  A revocation during the call may come too late.
RevokedBeforeCallBlocks ==
  \A c \in effects : ControlSubjects(req[c]) \cap barred[c] = {}

\* Every effect is paid for: each budget its action names was charged through
\* a reservation for this very permit that no other call can have used
\* (core.py 133-147).
EffectIsFunded ==
  \A c \in effects :
    LET mine == {v \in Reservations : spentBy[v] = c} IN
    /\ {v.budget : v \in mine} = req[c].action.budgets
    /\ \A v \in mine : v.permit = PermitOf(c)

\* The moment an effectful call captured as now lies inside every window that
\* bounds it: permit, clearance, authority, workspace and attestation.
EffectInsideWindows ==
  \A c \in effects :
    LET r == req[c]
        t == started[c]
    IN  /\ r.permit.issued <= t /\ t < r.permit.expires
        /\ t < r.clearance.until
        /\ r.authority.issued <= t /\ t < r.authority.until
        /\ r.action.workspace # None => t < r.action.workspace.expires
        /\ SubstrateOf(r.action) # None =>
             LET s == SubstrateOf(r.action) IN
             s.attested <= t /\ t < s.until /\ t < s.attested + s.maxAge

\* An effect belongs to an affirmative decision on exactly the action that
\* the permit names, on a basis nobody reported as other than valid
\* (invariants 2 and 10).
EffectIsAdmitted ==
  \A c \in effects :
    LET r == req[c] IN
    /\ r.clearance.decision \in Affirmative
    /\ r.permit.action = r.action /\ r.clearance.action = r.action
    /\ r.action.target \in r.authority.scope
    /\ r.replay # None => r.replay.basis = "VALID"

\* The calls and their permits, as the abstract one-shot permit sees them.
Under(S) == [p \in Permits |-> {c \in S : PermitOf(c) = p}]

OneShot == INSTANCE OneShotPermit WITH
             spent <- claimed,
             doers <- Under(effects),
             evidence <- Under({c \in Calls : receipt[c] # "none"})

\* The gateway implements the one-shot permit.
ImplementsOneShot == OneShot!Spec

\* The reservations of a process, as the abstract pool sees them.
SpentIn(g) == {v \in Reservations : \E c \in Calls : spentBy[v] = c /\ gateway[c] = g}

Pool(g) == INSTANCE ReservationPool WITH outstanding <- pending[g],
                                         spent <- SpentIn(g)

\* Process g uses its ledger as a pool of reservations.
ImplementsPool(g) == Pool(g)!Spec

\* A permit the store granted never disappears without trace: the call ends in
\* a receipt, succeeded or failed, unless its process died (invariant 4).
ClaimLeadsToEvidence ==
  \A c \in Calls : c \in won ~> receipt[c] # "none" \/ pc[c] = "crashed"

\* Contention for a permit, a reservation or a halted scope never leaves a
\* started call waiting: each ends done, refused or with its process.
StartedCallsEnd ==
  \A c \in Calls : pc[c] \in Underway ~> pc[c] \in Ended

\* IETF adoption, line 21: the permit is claimed "immediately before
\* resource/effect execution", so a call that ends without the permit has
\* executed no resource.
RefusedCallSpendsNothing ==
  \A v \in Reservations :
    spentBy[v] # NoCall => pc[spentBy[v]] # "refused"

\* A call has its arguments from the moment it starts.
HasArguments == \A c \in Calls : pc[c] # "idle" => req[c] \in Requests

\* The inductive invariant behind the one-shot guarantee: how far a call has
\* got and whether it won its permit determine each other, so only the single
\* winner of a permit can still act or still testify.
ClaimInv ==
  /\ HasArguments
  /\ \A c \in Calls : pc[c] \in {"permitted", "acted"} => c \in won
  /\ \A c \in Calls : pc[c] \in {"permitted", "acted"} => receipt[c] = "none"
  /\ \A c \in Calls : pc[c] = "permitted" => c \notin effects
  /\ \A c \in Calls : pc[c] \in {"idle", "validated", "cleared", "funded"}
                        => c \notin won
  /\ \A c, d \in won : PermitOf(c) = PermitOf(d) => c = d
  /\ \A c \in won : pc[c] # "idle"
  /\ EffectUnderClaim

\* What Start checked of a call's arguments stays true of a call that acts.
AdmissionInv ==
  \A c \in Calls :
    pc[c] \in Underway \/ c \in won => Admissible(req[c], started[c])

\* A revocation seen at the start outlasts the call, so a call that got past
\* Check is not concerned by any.
RevocationInv ==
  \A c \in Calls :
    /\ pc[c] \in Underway => barred[c] \subseteq blocked[gateway[c]]
    /\ pc[c] \in Underway \ {"validated"} \/ c \in won =>
         ControlSubjects(req[c]) \cap barred[c] = {}

\* A reservation is outstanding in one process or spent by one call.
SpentOnce ==
  \A v \in Reservations :
    /\ spentBy[v] # NoCall =>
         v \in issued /\ \A g \in Gateways : v \notin pending[g]
    /\ \A g \in Gateways : v \in pending[g] => v \in issued
    /\ \A g, h \in Gateways : v \in pending[g] /\ v \in pending[h] => g = h

SpentFor(c) == {v \in Reservations : spentBy[v] = c}

\* The reservations spent for a call past Fund are the ones it presented.
FundingInv ==
  /\ SpentOnce
  /\ \A c \in Calls :
       /\ pc[c] \in {"idle", "validated", "cleared"} => SpentFor(c) = {}
       /\ pc[c] \in {"funded", "permitted", "acted"} \/ c \in won =>
            /\ SpentFor(c) = req[c].reservations
            /\ {v.budget : v \in SpentFor(c)} = req[c].action.budgets
            /\ \A v \in SpentFor(c) : v.permit = PermitOf(c)
=============================================================================

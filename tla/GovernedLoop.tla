---------------------------- MODULE GovernedLoop ----------------------------
(***************************************************************************)
(* The governed adaptive loop: learned guidance proposes an action, the    *)
(* authorizer clears it under the authority of the moment and issues a     *)
(* permit, the children of a task runner execute, the result is observed,  *)
(* and observations renew the guidance.                                    *)
(*                                                                         *)
(*   guidance.propose -> DemoAuthorizer.clear -> DemoAuthorizer.permit     *)
(*     -> ADKTaskRunnerGate.execute_authorized                             *)
(*     -> build_veritas_execution_observation -> OutcomeRenewal.renew      *)
(*                                                                         *)
(* execute_authorized is given no task binding: a child presents whatever  *)
(* action, clearance, permit and confirmation it has, also those of other  *)
(* children.  validate_task_fanout, which nothing on this path calls, is   *)
(* not modelled.                                                           *)
(*                                                                         *)
(* Every object but one is immutable.  An action's parameters are a        *)
(* dictionary that every holder of the action shares, and the digest of an *)
(* action is computed again each time it is asked for: Mutate changes what *)
(* the action says.  The amount stands for all parameters.                 *)
(*                                                                         *)
(* execute is taken by contract: EffectBoundary and PermitStore show that  *)
(* a permit is spent atomically and before the effect.                     *)
(***************************************************************************)
EXTENDS VeritasHandoff, FiniteSets

CONSTANTS
  Guidances,    \* guidance ids
  Amount,       \* the amount each guidance proposes
  Actions,      \* names of the actions that may be proposed
  Permits,      \* names of the permits that may be issued
  Children,     \* the children of a task runner, which execute concurrently
  Limits,       \* the limits authority may be lowered to
  Until,        \* the end of authority
  ClearFor,     \* how long a clearance is good (30 s)
  PermitFor,    \* how long a permit is good (10 s)
  MaxTime,      \* bound on the clock
  MaxAttempts,  \* bound on the executions, retries included
  MaxConfirmations,  \* bound on the confirmations given
  MaxObservations,   \* bound on the observations made
  MaxChanges    \* bound on the changes of authority and of parameters

ASSUME LoopAssumption ==
  /\ Amount \in [Guidances -> Nat \ {0}]
  /\ Limits \subseteq Nat \ {0}
  /\ {Until, ClearFor, PermitFor, MaxTime, MaxAttempts, MaxConfirmations,
      MaxObservations, MaxChanges} \subseteq Nat

VARIABLES
  now,           \* the host clock
  authority,     \* the current version of the authority envelope
  limitAt,       \* history: the limit in force when each instant began
  guidance,      \* per id its revision and the receipts it was renewed from
  action,        \* per name the action object, or None
  clearance,     \* per action its clearance, or None
  permit,        \* per name the permit, or None
  confirmations, \* tool confirmations given so far; an action's name is the
                 \* reference of the one given for it
  call,          \* per child the execution it is in, or None
  consumed,      \* ids of the spent permits
  events,        \* the effects of the tool, with what they came from
  results,       \* what execute returned
  observations,  \* what was handed to Veritas
  changes,       \* how often authority or parameters have been changed
  attempts       \* how often a child has been executed

askVars == <<guidance, action, clearance, permit, confirmations>>
runVars == <<call, consumed, events, results>>
worldVars == <<now, authority, limitAt, changes>>
timeVars == <<worldVars, attempts>>
vars == <<askVars, runVars, timeVars, observations>>

Earliest(S) == CHOOSE t \in S : \A u \in S : t <= u

-----------------------------------------------------------------------------
\* build_authority and build_guidance.
Init ==
  /\ now = 0
  /\ \E l \in Limits :
       authority = [id |-> "authority", principal |-> "owner", actor |-> "ops",
                    grants |-> {"resolve"}, scope |-> {"case"}, issued |-> 0,
                    until |-> Until, revoked |-> FALSE, limit |-> l]
  /\ limitAt = [t \in {0} |-> authority.limit]
  /\ guidance = [g \in Guidances |-> [revision |-> 1, renewed |-> {}]]
  /\ action = [a \in Actions |-> None]
  /\ clearance = [a \in Actions |-> None]
  /\ permit = [p \in Permits |-> None]
  /\ confirmations = {}
  /\ call = [child \in Children |-> None]
  /\ consumed = {} /\ events = {} /\ results = {} /\ observations = {}
  /\ changes = 0 /\ attempts = 0

\* AdaptiveGuidance.propose; the nonce makes every proposal another action.
Propose(a, g) ==
  /\ action[a] = None
  /\ action' = [action EXCEPT ![a] =
       [type |-> "resolve", target |-> "case", authority |-> authority.id,
        skill |-> None, workspace |-> None, nonce |-> a, guidance |-> g,
        revision |-> guidance[g].revision, amount |-> Amount[g]]]
  /\ UNCHANGED <<guidance, clearance, permit, confirmations, runVars, timeVars,
                 observations>>

\* DemoAuthorizer.clear allows under the authority and the limit of now.
Allowed(act) ==
  /\ IsActive(authority, now)
  /\ act.type \in authority.grants
  /\ act.target \in authority.scope
  /\ act.amount <= authority.limit

\* Variant: a clearance is good for as long as the authority.
ClearanceEndOfAuthority == authority.until

ClearanceEnd == Earliest({authority.until, now + ClearFor})

Clear(a) ==
  /\ action[a] # None /\ clearance[a] = None
  /\ clearance' = [clearance EXCEPT ![a] =
       [id |-> a, action |-> action[a], authority |-> authority.id,
        decision |-> IF Allowed(action[a]) THEN "ALLOW" ELSE "DENY",
        who |-> <<authority.principal, authority.actor>>,
        what |-> <<action[a].type, action[a].target>>,
        until |-> ClearanceEnd,
        skill |-> None, pair |-> None, substrate |-> None]]
  /\ UNCHANGED <<guidance, action, permit, confirmations, runVars, timeVars,
                 observations>>

\* DemoAuthorizer.permit.  An action is cleared once, but more than one permit
\* may be asked for under its clearance.
Issue(p, a) ==
  LET c == clearance[a]
      expires == Earliest({c.until, authority.until, now + PermitFor})
  IN  /\ permit[p] = None /\ c # None
      /\ c.decision = "ALLOW"
      /\ MayIssue(c, authority, action[a], expires, now)
      /\ permit' = [permit EXCEPT ![p] =
                      IssuedPermit(p, c, authority, action[a], expires, now)]
      /\ UNCHANGED <<guidance, action, clearance, confirmations, runVars,
                     timeVars, observations>>

\* The runtime asks its user about a proposed action, cleared or not yet, and
\* the user confirms it as it is shown.
Confirm(a) ==
  /\ action[a] # None
  /\ Cardinality(confirmations) < MaxConfirmations
  /\ confirmations' = confirmations \cup {[ref |-> a, action |-> action[a]]}
  /\ confirmations' # confirmations
  /\ UNCHANGED <<guidance, action, clearance, permit, runVars, timeVars,
                 observations>>

-----------------------------------------------------------------------------
\* Variant: only the references are compared.
ConfirmationNamed(act, ref, confirmation) ==
  confirmation # None /\ ref # None => ref = confirmation.ref

\* assert_confirmation_matches, and the reference the context names.  With no
\* confirmation presented, a reference in the context is not looked at.
ConfirmationMatches(act, ref, confirmation) ==
  confirmation # None => /\ confirmation.action = act
                         /\ ref # None => ref = confirmation.ref

\* execute_authorized up to the permit store.  A child presents whatever is
\* there, what belongs to other children too, an unspent permit however often,
\* and the authority as it is now.
Begin(child) ==
  /\ call[child] = None
  /\ attempts < MaxAttempts
  /\ attempts' = attempts + 1
  /\ \E a, c \in Actions, p \in Permits, ref \in Actions \cup {None},
        confirmation \in confirmations \cup {None} :
       /\ action[a] # None /\ clearance[c] # None /\ permit[p] # None
       /\ ConfirmationMatches(action[a], ref, confirmation)
       /\ ValidateBinding(authority, clearance[c], permit[p], action[a], now)
       /\ call' = [call EXCEPT ![child] =
            [pc |-> "begun", action |-> a, clearance |-> c, permit |-> p,
             confirmation |-> confirmation,
             replay |-> Sealed(Capture(authority, clearance[c], permit[p],
                                       action[a], "VALID", now))]]
  /\ UNCHANGED <<askVars, worldVars, consumed, events, results, observations>>

At(child, pc) == call[child] # None /\ call[child].pc = pc

\* InMemoryPermitStore.consume_once answers False.
LoseClaim(child) ==
  /\ At(child, "begun")
  /\ call[child].permit \in consumed
  /\ call' = [call EXCEPT ![child] = None]
  /\ UNCHANGED <<askVars, timeVars, consumed, events, results, observations>>

\* It answers True, and the tool is called with action.parameters as they are
\* by then, unless it raises before it has done anything.
Claim(child, effective) ==
  LET x == call[child] IN
  /\ At(child, "begun")
  /\ x.permit \notin consumed
  /\ consumed' = consumed \cup {x.permit}
  /\ call' = [call EXCEPT ![child].pc = IF effective THEN "acted" ELSE "failed"]
  /\ events' = IF ~effective THEN events ELSE
       events \cup {[child |-> child, permit |-> x.permit,
                     at |-> x.replay.seal.at, action |-> action[x.action],
                     confirmation |-> x.confirmation]}
  /\ UNCHANGED <<askVars, timeVars, results, observations>>

\* The receipt digests the action again.  The tool may raise after its effect.
Complete(child, status) ==
  LET x == call[child] IN
  /\ \/ At(child, "acted")
     \/ At(child, "failed") /\ status = "failed"
  /\ call' = [call EXCEPT ![child] = None]
  /\ results' = results \cup
       {Result(clearance[x.clearance], permit[x.permit], action[x.action],
               x.replay, status)}
  /\ UNCHANGED <<askVars, timeVars, consumed, events, observations>>

-----------------------------------------------------------------------------
\* A result is handed over with the objects of any of the actions.
HandOver(r, a) ==
  /\ action[a] # None /\ clearance[a] # None
  /\ HandsOver(authority, clearance[a], action[a], r)
  /\ observations' = observations \cup
                       {Observation(authority, clearance[a], r)}
  /\ Cardinality(observations') <= MaxObservations
  /\ observations' # observations
  /\ UNCHANGED <<askVars, runVars, timeVars>>

\* Variant: a receipt that was counted before is counted again.
RenewedFromAny(g, o) ==
  IF o.status # "succeeded" THEN g
  ELSE [revision |-> g.revision + 1, renewed |-> g.renewed \cup {o.receipt}]

\* OutcomeRenewal.renew
RenewedFrom(g, o) ==
  IF o.status # "succeeded" \/ o.receipt \in g.renewed THEN g
  ELSE [revision |-> g.revision + 1, renewed |-> g.renewed \cup {o.receipt}]

\* Observations arrive in any order, more than once, at any guidance.
Renew(g, o) ==
  /\ guidance' = [guidance EXCEPT ![g] = RenewedFrom(@, o)]
  /\ UNCHANGED <<action, clearance, permit, confirmations, runVars, timeVars,
                 observations>>

-----------------------------------------------------------------------------
\* The world: authority is revoked or its limit lowered, time passes, and the
\* parameters of a proposed action change.
OneMoreChange == changes < MaxChanges /\ changes' = changes + 1

Revoke ==
  /\ ~authority.revoked
  /\ OneMoreChange
  /\ authority' = [authority EXCEPT !.revoked = TRUE]
  /\ UNCHANGED <<askVars, runVars, observations, now, limitAt, attempts>>

Lower(l) ==
  /\ l < authority.limit
  /\ OneMoreChange
  /\ authority' = [authority EXCEPT !.limit = l]
  /\ UNCHANGED <<askVars, runVars, observations, now, limitAt, attempts>>

Mutate(a) ==
  /\ action[a] # None
  /\ OneMoreChange
  /\ action' = [action EXCEPT ![a].amount = @ + 1]
  /\ UNCHANGED <<guidance, clearance, permit, confirmations, runVars,
                 observations, now, authority, limitAt, attempts>>

Tick ==
  /\ now < MaxTime
  /\ now' = now + 1
  /\ limitAt' = [t \in 0..now + 1 |-> IF t <= now THEN limitAt[t]
                 ELSE IF authority.revoked THEN 0 ELSE authority.limit]
  /\ UNCHANGED <<askVars, runVars, observations, authority, changes,
                 attempts>>

Next ==
  \/ \E a \in Actions : \/ \E g \in Guidances : Propose(a, g)
                        \/ Clear(a) \/ Confirm(a) \/ Mutate(a)
                        \/ \E p \in Permits : Issue(p, a)
                        \/ \E r \in results : HandOver(r, a)
  \/ \E child \in Children :
       \/ Begin(child)
       \/ LoseClaim(child)
       \/ \E effective \in BOOLEAN : Claim(child, effective)
       \/ \E status \in {"succeeded", "failed"} : Complete(child, status)
  \/ \E g \in Guidances, o \in observations : Renew(g, o)
  \/ Revoke \/ \E l \in Limits : Lower(l)
  \/ Tick

Spec == Init /\ [][Next]_vars
-----------------------------------------------------------------------------
PermitOf(e) == permit[e.permit]

\* Learned guidance never reaches beyond authority: the amount permitted for
\* an effect was within the limit in force at a moment less than ClearFor
\* before the call, and authority was not revoked before the call's instant,
\* although limit, revocation, clearance, permit and effect are apart in time
\* and the gateway never sees the limit (DemoAuthorizer, ValoGateway.execute).
EffectWithinLimit ==
  \A e \in events :
    /\ limitAt[e.at] > 0
    /\ \E t \in 0..e.at : /\ e.at < t + ClearFor
                          /\ PermitOf(e).action.amount <= limitAt[t]

\* Guidance learns from each success once: its revision counts distinct
\* receipts, each of a succeeded execution that had its effect, although
\* observations come late, again, and at any guidance (OutcomeRenewal.renew).
LearnsOncePerEffect ==
  \A g \in Guidances :
    /\ guidance[g].revision = 1 + Cardinality(guidance[g].renewed)
    /\ Cardinality(guidance[g].renewed) <= Cardinality(events)
    /\ \A receipt \in guidance[g].renewed :
         /\ receipt.status = "succeeded"
         /\ \E e \in events : e.permit = receipt.permit

\* Whatever happens to its parameters between permit and receipt, the action
\* an observation names is the one its permit was issued for and its
\* clearance decided on (build_veritas_execution_observation).
ObservedAsPermitted ==
  \A o \in observations :
    /\ o.permit \in consumed
    /\ o.action = permit[o.permit].action
    /\ o.action = o.clearance.action
    /\ o.authority.id = o.clearance.authority

\* Confirmation, change of parameters, clearance, permit and execution come in
\* any order, and children present what belongs to others: an effect executed
\* with a confirmation was permitted exactly as it was confirmed, and no two
\* effects share a permit, whichever children present it
\* (assert_confirmation_matches, execute_authorized).
EffectAsConfirmed ==
  /\ \A e \in events : e.confirmation # None =>
                         e.confirmation.action = PermitOf(e).action
  /\ \A e, f \in events : e.permit = f.permit => e = f

\* "Runtime state mutation must never mutate signed/bound action inputs after
\* REHT clearance" (docs/ADK_GO_V2_1_ADOPTION.md): the tool is called with the
\* parameters that were permitted.  Violated: they are digested when the call
\* begins and read again when the tool is called.
EffectAsPermitted == \A e \in events : e.action = PermitOf(e).action
=============================================================================

----------------------------- MODULE Contracts ------------------------------
(***************************************************************************)
(* The frozen contract objects a governed execution is made of, and the    *)
(* pure checks over them: contracts/models.py, contracts/boundary.py and   *)
(* ValoGateway._validate_binding.                                          *)
(*                                                                         *)
(* An object is a record of the fields these checks read.  A digest is     *)
(* SHA-256 over the canonical JSON of a whole object, so it is modelled by *)
(* the object itself: two digests are equal exactly when the records are.  *)
(* None stands for an absent optional field.                               *)
(*                                                                         *)
(*   authority  [id, principal, actor, grants, scope, issued, until,       *)
(*               revoked]                                                  *)
(*   action     [type, target, authority, skill, budgets, workspace]       *)
(*   workspace  None or [pair, expires, substrate]                         *)
(*   substrate  None or [attested, until, maxAge]                          *)
(*   clearance  [id, action, authority, decision, who, what, until, skill, *)
(*               pair, substrate]                                          *)
(*   permit     [id, clearance, action, authority, skill, pair, substrate, *)
(*               clearanceDigest, issued, expires, consumed]               *)
(***************************************************************************)
EXTENDS Integers

CONSTANT None

Decision == {"ALLOW", "MODIFY", "DEFER", "DENY", "STEP_UP", "HALT"}
Affirmative == {"ALLOW", "MODIFY"}

-----------------------------------------------------------------------------
\* Validity windows are closed on the left and open on the right.
IsActive(authority, now) ==
  /\ ~authority.revoked
  /\ authority.issued <= now
  /\ now < authority.until

AuthorizesPermit(clearance, now) ==
  /\ clearance.decision \in Affirmative
  /\ now < clearance.until

\* An attestation is worth the shorter of its validity and its maximal age.
FreshUntil(substrate) ==
  LET aged == substrate.attested + substrate.maxAge
  IN  IF aged < substrate.until THEN aged ELSE substrate.until

IsFresh(substrate, now) ==
  substrate.attested <= now /\ now < FreshUntil(substrate)

SubstrateOf(action) ==
  IF action.workspace = None THEN None ELSE action.workspace.substrate

PairOf(action) ==
  IF action.workspace = None THEN None ELSE action.workspace.pair

WorkspaceCurrent(action, now) ==
  /\ action.workspace # None => now < action.workspace.expires
  /\ SubstrateOf(action) # None => IsFresh(SubstrateOf(action), now)

\* Variant: the permit is still good at the very moment it expires.
IsUsableInclusive(permit, now) ==
  /\ ~permit.consumed
  /\ permit.issued <= now
  /\ now <= permit.expires

IsUsable(permit, now) ==
  /\ ~permit.consumed
  /\ permit.issued <= now
  /\ now < permit.expires

-----------------------------------------------------------------------------
\* The authority grants this very action and the clearance decided on it.
ClearedAction(authority, clearance, action) ==
  /\ action.authority = authority.id
  /\ action.type \in authority.grants
  /\ action.target \in authority.scope
  /\ clearance.authority = authority.id
  /\ clearance.action = action
  /\ clearance.skill = action.skill
  /\ clearance.pair = PairOf(action)
  /\ clearance.substrate = SubstrateOf(action)

ExpectedClearanceDigest(clearance, action) ==
  IF action.workspace = None THEN None ELSE clearance

\* ValoGateway._validate_binding
ValidateBinding(authority, clearance, permit, action, now) ==
  /\ IsActive(authority, now)
  /\ AuthorizesPermit(clearance, now)
  /\ WorkspaceCurrent(action, now)
  /\ IsUsable(permit, now)
  /\ ClearedAction(authority, clearance, action)
  /\ permit.authority = authority.id
  /\ permit.action = action
  /\ permit.clearance = clearance.id
  /\ permit.skill = action.skill
  /\ permit.pair = PairOf(action)
  /\ permit.substrate = SubstrateOf(action)
  /\ permit.clearanceDigest = ExpectedClearanceDigest(clearance, action)

\* issue_execution_permit: when it issues, and what it issues.
MayIssue(clearance, authority, action, expires, now) ==
  /\ IsActive(authority, now)
  /\ ClearedAction(authority, clearance, action)
  /\ WorkspaceCurrent(action, now)
  /\ clearance.who = <<authority.principal, authority.actor>>
  /\ clearance.what = <<action.type, action.target>>
  /\ AuthorizesPermit(clearance, now)
  /\ expires <= clearance.until
  /\ expires <= authority.until
  /\ action.workspace # None => expires <= action.workspace.expires
  /\ SubstrateOf(action) # None => expires <= FreshUntil(SubstrateOf(action))
  /\ now < expires

IssuedPermit(id, clearance, authority, action, expires, now) ==
  [id |-> id, clearance |-> clearance.id, action |-> action,
   authority |-> authority.id, skill |-> action.skill,
   pair |-> PairOf(action), substrate |-> SubstrateOf(action),
   clearanceDigest |-> ExpectedClearanceDigest(clearance, action),
   issued |-> now, expires |-> expires, consumed |-> FALSE]

-----------------------------------------------------------------------------
BasisState == {"VALID", "INVALID", "STALE", "REVOKED", "SUSPENDED",
               "UNRESOLVED"}

\* BoundaryReplayInput.capture: the objects pinned at one moment.
Capture(authority, clearance, permit, action, basis, at) ==
  [authority |-> authority, clearance |-> clearance, permit |-> permit,
   action |-> action, basis |-> basis, at |-> at]

\* Variant: the basis the caller reports is not looked at.
ReplayReadyAnyBasis(input, authority, clearance, permit, action) ==
  /\ input = Capture(authority, clearance, permit, action, input.basis, input.at)
  /\ clearance.decision \in Affirmative
  /\ IsActive(authority, input.at)
  /\ AuthorizesPermit(clearance, input.at)
  /\ IsUsable(permit, input.at)

\* replay_effect_boundary ends READY: the pinned objects are the presented
\* ones, and at the pinned moment nothing forbids the effect.
ReplayReady(input, authority, clearance, permit, action) ==
  /\ input = Capture(authority, clearance, permit, action, input.basis, input.at)
  /\ input.basis = "VALID"
  /\ clearance.decision \in Affirmative
  /\ IsActive(authority, input.at)
  /\ AuthorizesPermit(clearance, input.at)
  /\ IsUsable(permit, input.at)
=============================================================================

--------------------------- MODULE VeritasHandoff ---------------------------
(***************************************************************************)
(* What execute returns, and the observation that                          *)
(* build_veritas_execution_observation makes of it.  Both are built from   *)
(* the objects of module Contracts:                                        *)
(*                                                                         *)
(*   replay       [seal, of]: the digest a boundary replay result carries  *)
(*                and the input that digest is recomputed from             *)
(*   receipt      [permit, clearance, action, status, skill, pair,         *)
(*                substrate, clearanceDigest, replay]                      *)
(*   result       [consumed, receipt, replay]                              *)
(*   observation  [authority, clearance, action, permit, status, receipt]  *)
(*                                                                         *)
(* A receipt's hash is the receipt; its execution_id is fresh each time,   *)
(* but a permit is spent once, so its permit tells receipts apart too.     *)
(***************************************************************************)
EXTENDS Contracts

\* replay_effect_boundary seals its result with the digest of its input.
Sealed(input) == [seal |-> input, of |-> input]

Consume(permit) == [permit EXCEPT !.consumed = TRUE]

Receipt(clearance, permit, action, replay, status) ==
  [permit |-> permit.id, clearance |-> clearance.id, action |-> action,
   status |-> status, skill |-> permit.skill, pair |-> permit.pair,
   substrate |-> permit.substrate,
   clearanceDigest |-> permit.clearanceDigest, replay |-> replay.seal]

\* What execute returns for a permit it has just spent.  The action is the
\* one the caller's object is when the receipt is written.
Result(clearance, permit, action, replay, status) ==
  [consumed |-> Consume(permit),
   receipt  |-> Receipt(clearance, permit, action, replay, status),
   replay   |-> replay]

-----------------------------------------------------------------------------
\* Variant: that the permit was for the observed action is not looked at.
BelongTogetherAnyAction(authority, clearance, action, result) ==
  LET receipt == result.receipt  consumed == result.consumed IN
  /\ receipt.permit = consumed.id
  /\ receipt.clearance = clearance.id
  /\ receipt.action = action
  /\ consumed.authority = authority.id
  /\ consumed.clearance = clearance.id

\* The receipt, the consumed permit and the three objects name each other.
BelongTogether(authority, clearance, action, result) ==
  LET receipt == result.receipt  consumed == result.consumed IN
  /\ receipt.permit = consumed.id
  /\ receipt.clearance = clearance.id
  /\ receipt.action = action
  /\ consumed.authority = authority.id
  /\ consumed.action = action
  /\ consumed.clearance = clearance.id

SameBindings(clearance, action, result) ==
  LET receipt == result.receipt  consumed == result.consumed IN
  /\ clearance.pair = PairOf(action)
  /\ consumed.pair = PairOf(action)
  /\ receipt.pair = consumed.pair
  /\ clearance.substrate = SubstrateOf(action)
  /\ consumed.substrate = SubstrateOf(action)
  /\ receipt.substrate = SubstrateOf(action)
  /\ consumed.clearanceDigest = ExpectedClearanceDigest(clearance, action)
  /\ receipt.clearanceDigest = ExpectedClearanceDigest(clearance, action)

ReplayBound(result) ==
  /\ result.replay.seal = result.replay.of
  /\ result.receipt.replay = result.replay.seal

\* build_veritas_execution_observation raises unless all of this holds.
HandsOver(authority, clearance, action, result) ==
  /\ result.consumed.consumed
  /\ BelongTogether(authority, clearance, action, result)
  /\ SameBindings(clearance, action, result)
  /\ ReplayBound(result)

Observation(authority, clearance, result) ==
  [authority |-> authority, clearance |-> clearance,
   action |-> result.receipt.action, permit |-> result.receipt.permit,
   status |-> result.receipt.status, receipt |-> result.receipt]
=============================================================================

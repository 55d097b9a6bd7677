# Formal model of valo-gateway

TLA+ modules, TLC configurations and TLAPS proofs about the execution boundary
of `valo-gateway`: the code that decides whether one exact action may have its
one external effect, spends the permit for it, and leaves evidence.
`PROJECT.json` lists the components, the runs, the definition-to-source map, the
hazards, the findings and the theorems.

Contents: [the system](#the-system) · [the modules](#the-modules) ·
[the runs](#the-runs) · [findings](#findings) · [the proofs](#the-proofs) ·
[assumptions and limits](#assumptions-and-limits) · [plan](#plan) ·
[running it](#running-it)

## The system

Paths below are relative to `src/valo_gateway/` in the repository, except
`examples/`, `docs/` and `tests/`, which are at its root.

### Components

| component | source | state it keeps | operations |
| --- | --- | --- | --- |
| governed enforcement | `gateway/core.py` | none of its own between calls | `ValoGateway.execute` |
| permit consumption store | `gateway/permit_consumption.py` | SQLite table of spent permit ids, durable and shared by processes | `consume_once` |
| runtime control plane | `gateway/control.py` | revoked authorities, principals, actors; halted scopes; global halt (memory, per process) | `apply`, `assert_execution_allowed` |
| resource budget ledger | `resource_budget.py` | budgets, pending reservations, committed totals per window (memory, `RLock`) | `register`, `reserve`, `consume_many`, `remaining` |
| contract objects | `contracts/models.py`, `contracts/boundary.py` | none, immutable | validity windows, `issue_execution_permit`, boundary replay |
| effector registry | `tool_adapters/base.py` | tools and opaque handles | `assert_effect_binding`, dispatch |
| capability front door | `capability_frontdoor.py`, `capability_mcp.py` | catalogue, bindings, records (memory, no lock) | `register`, `bind`, `invoke`, `commit`, `event`, `discover` |
| message security | `message_security.py` | replay claims (memory, `RLock`) | `accept`, `claim_once` |
| runtime HTTP service | `runtime_http_service.py` | receipt log (a file of hash-chained lines) | `receipt`, `invoke_operator`, `replay_receipt` |
| governed adaptive loop | `examples/governed_adaptive_loop/app.py`, `runtime_adapters/adk_go.py`, `veritas_handoff.py` | guidance, clearances, permits, confirmations, observations | `propose`, `clear`, `permit`, `execute_authorized`, `build_veritas_execution_observation`, `renew` |
| agent profiles | `agent_profile.py` | none | validation, narrowing of a child profile |
| harness and router | `harness/` | adapter registrations | dispatch by name |
| runtime adapters | the rest of `runtime_adapters/` | none | hash and forward what an agent runtime asks for |
| protocol, identity and risk adapters | `protocols/`, `identity_adapters/`, `risk_adapters/` | none | validate and rename incoming records |
| SDK, CLI, style profiles | `sdk/`, `cli.py`, `style_*.py` | none | construction, command line |

### How they interact

`execute` is the hub. In this order it captures `now`; asks the effector
registry whether the effector path is bound to the action; validates the
bindings between authority, clearance, permit and action (contract objects);
replays the boundary; asks the control plane; has the ledger consume the
reservations; has the store consume the permit; calls the effector; and returns
a receipt. Nothing runs under one lock: the control plane and the ledger are in
the memory of a process and used by its threads, the store is shared by all
processes, and a process can die anywhere in between.

The front door is a second, independent way to an effect: `invoke` stages,
`commit` acts. Message security guards what one agent accepts from another. The
HTTP service records receipts and runs operator functions.

The governed adaptive loop is the way round: learned guidance proposes an action,
the authorizer clears it under the authority of the moment and issues a permit, a
child of a task runner presents a permit, perhaps with a user's confirmation, and has
`execute` act once, the result is handed to Veritas as an observation, and
observations of success renew the guidance. Runtime adapters stand before it: they turn what a provider's runtime
asks for into a proposed action under a hash.

### What is hard, and what makes each part correct

- **execute.** Two calls with one permit, on two processes; a crash between
  spending a permit and acting; an effector that fails before or after its
  consequence; a reservation spent for a call that is then refused; a revocation
  that races a call. Correct means: one permit, at most one effect; no effect
  without a spent permit, an affirmative decision, open windows, a paid budget;
  a spent permit always ends in evidence unless the process dies.
- **store.** Concurrent transactions, lock timeouts, failing statements, crashes.
  Correct means: `True` at most once per id, and `False` only for an id that is
  spent by another call.
- **ledger.** Sibling budgets below one ancestor; altered or repeated
  reservations; an exception in a loop that already changed state. Correct
  means: no budget of the hierarchy above its limit, exact totals.
- **front door.** Status tested long before it is updated, callbacks in between,
  exceptions after the effect; a world that changes between the resolver and the
  authority check. Correct means: authority is fresh, verdicts are truthful and
  final, one record has one effect.
- **messages.** Copies arriving at once or late; purging claims at the right
  instant; chains of hops. Correct means: a message is accepted once while it is
  valid, and delegation only narrows.

- **loop.** Authority looked at when an action is cleared and acted upon later,
  while its limit is lowered or it is revoked; children that present each other's
  permits, and confirmations given for something else; observations that come late,
  twice or in another order; parameters that all holders of an action share and may
  change between digest, call and receipt. Correct means: guidance never reaches
  beyond authority, what is confirmed or observed is what was permitted, and one
  success is learned once.
- **adapters and decisions.** Lists of fields written out by hand, one to hash and
  one to forward; a ranking cut off; a first match among grants. Correct means:
  nothing is forwarded unbound, nothing better is left out, ALLOW means a grant.

The full list, with lines, is under `hazards` in `PROJECT.json`.

## The modules

```
PermitClaims          what consume_once promises          (abstract)
  ^ refines
PermitStore           the SQLite transaction, statement by statement

OneShotPermit         spend, act, testify                 (abstract)
  ^ refines
EffectBoundary        execute: many calls, processes, a shared store
  extends
Contracts             contract objects, windows, bindings, boundary replay

ReservationPool       granted once, spent once, lost by a crash  (abstract)
  ^ refined by EffectBoundary, process by process, and by
ResourceLedger        the ledger's arithmetic and hierarchy

CapabilityFrontDoor   stage and commit
MessageReplay         accept and the replay store
ReceiptLog            the file of hash-chained receipts, operator functions
AgentProfile          child profiles, compiled profiles, session descriptors

GovernedLoop          guidance, clearance, permit, execution, observation, renewal
  extends
VeritasHandoff        what execute returns, and the observation made of it
  extends
Contracts

RuntimeAdapters       what five adapters hash and forward
GrantDecision         the decision of evaluate, the ranking of discover
  extend
Values                what is absent
```

`RuntimeAdapters` and `GrantDecision` have no state: they are operators, and what
matters about them is proved of all inputs, for the adapters in
`AgentProfile_proofs` and for the answers of the HTTP service in `ReceiptLog_proofs`.

`MC*` modules give the constants values for TLC, `*_proofs` modules hold the
theorems. The composition is by contract: `EffectBoundary` takes
`consume_once` as one atomic step that may also fail or be cut off by a crash.
`PermitStore` shows, by refinement of `PermitClaims`, that the SQLite
transaction gives exactly that. `EffectBoundary` keeps of the ledger
only which reservations are outstanding in which process; amounts and limits are
in `ResourceLedger`. What the one assumes of the other is `ReservationPool`, and
both are proved to implement it.

A definition that starts with a comment `Variant:` is not used by the model. It
is a plausible mistake in the code (a dropped guard, a lost reset, an off-by-one)
that TLC must catch when it takes the place of the definition that follows it:
`mutants` in `PROJECT.json` pairs each property with one.

### PermitStore

State: `pc` of each call, `locker` (SQLite's RESERVED lock), `row` (the durable
table), `answer`. Actions are the statements of `consume_once`: `Begin`
(`BEGIN IMMEDIATE`), `Insert` or `Duplicate`, `Commit`, `Return`, `Rollback`,
`StatementFails` for any exception and `Crash`. The table stores no owner; the
call kept in `row` is history. `PermitClaims` is the contract of the Protocol
class: an atomic claim, then an answer that the claims justify.

### Contracts

Pure operators. Objects are records; a digest is the object itself, so "the
digest matches" is equality. `ValidateBinding`, `IsUsable`, `AuthorizesPermit`,
`IsActive`, `IsFresh`, `MayIssue`/`IssuedPermit` and `Capture`/`ReplayReady`
follow the methods they are mapped to, check by check.

### EffectBoundary

State: the clock; per call its `pc`, process, arguments and captured moment; per
process the blocked subjects and the pending reservations; the durable `claimed`
set; and history (`won`, `effects`, `receipt`, `spentBy`, `issued`, `barred`).
One action per shared access of `execute`:

| action | code |
| --- | --- |
| `Start` | `core.py` 58-119: everything that reads only arguments and `now` |
| `Check` | 120-131: `assert_execution_allowed` |
| `Fund`, `RefuseFunding` | 133-147: `consume_many` |
| `Claim`, `LoseClaim`, `StoreFails` | 149-152: `consume_once` true, false, raises |
| `Act`, `Complete` | 153-218: the effector, then a succeeded or failed receipt |
| `Block`, `Resume` | `control.py` `apply` |
| `Reserve` | `resource_budget.py` `reserve` |
| `Tick`, `Crash` | the clock; death and restart of a process |

`Complete(c, "failed")` covers an effector that raised before its consequence
(from `permitted`) and one that raised after it (from `acted`). `Crash` ends the
calls of a process, empties its control plane and ledger, keeps the store, and
lets a call that was inside `consume_once` have committed or not.
`OneShotPermit` is the abstract promise: a permit is spent, then at most one call
acts under it, then it may testify; nothing is undone.

### ResourceLedger

Every method runs under the ledger's lock and is one action. `Chain` is the
ancestor path; `HasRoom` the check of `reserve` at every level; `Presented` the
checks of `consume_many`; `Settle` its loop. `ConsumeManyRaises` is the loop cut
off by the validator of `ConsumedResourceReservation`.

### CapabilityFrontDoor

The object has no lock and calls out to a resolver, an authority check, handlers
and verifiers. `invoke` is `Identify` (the resolver), `Admit` or `Refuse` (the
authority check) and `Stage`; `commit` is `Commit` (status test), `Resolve`,
`Authorize` or `Deny`, `Act` or `Raise`, `Conclude`. `Change` is the environment:
handles resolve to other principals, authority comes and goes, between the two
callouts of one call too. `resolved` is the local variable `principal` of `commit`.
Two variables are history of a commit in progress: `vouched`, whom the record's
handle has resolved to since the call began, and `seen`, who of them held authority
then or later. `FreshAuthority` says that a commit acts for a principal in `seen`.
It does not say that handle, principal and authority agree at one moment: the code
asks for one after the other, so they may disagree.

### MessageReplay

`Receive` makes the checks of `accept` that read only arguments and the captured
time, `Enter` is the second clock read (before the lock), `Claim` and
`ReplayDetected` are the critical section with its purge. `Restart` empties the
store, which lives in memory.

### ReceiptLog

A request of the threading HTTP server goes through `Verify` (a replay),
`Call` (a remote operator function), `Chain` (`_last_hash`), `Write` and `Sync`;
there is no lock between them. State: the file as a sequence of writes, each
whole, without its line feed, or torn; how many of them fsync has covered; per
request its kind, target and the digest it chained to. A digest is modelled as
what it commits to, the sequence of requests chained so far. `WriteFails`,
`SyncFails` and `ReadFails` are the exceptions `dispatch` turns into 400 and 503;
`Crash` keeps what fsync covered and any prefix of the rest.

### AgentProfile

The checks of `assert_child_profile_narrower`, one operator per group of fields;
`Narrower` is their conjunction. `Load` and `Delegate` build a chain of profiles,
`Describe` compiles one of them and describes a session. `Doable`, `Reachable`
and `NeedsApproval` are not in the code: they say what a profile allows, and
`Confined` compares two profiles by what they allow rather than field by field.

### VeritasHandoff and GovernedLoop

`VeritasHandoff` builds the result and receipt `execute` returns and has the
checks of `build_veritas_execution_observation`. `GovernedLoop` composes:

| action | code |
| --- | --- |
| `Propose`, `Clear`, `Issue` | `app.py` `AdaptiveGuidance.propose`, `DemoAuthorizer.clear` and `permit` (with `issue_execution_permit` from `Contracts`) |
| `Confirm` | `adk_go.py` `ADKToolConfirmation` |
| `Begin` | `execute_authorized` by one child, and `execute` up to the permit store |
| `LoseClaim`, `Claim` | the store answers; the tool is called, or raises before it did anything |
| `Complete` | the receipt, succeeded or failed |
| `HandOver`, `Renew` | the Veritas handoff, `OutcomeRenewal.renew` |
| `Revoke`, `Lower`, `Mutate`, `Tick` | the world: authority, the shared parameters, the clock |

`execute_authorized` receives no task binding. So a child presents any action, any
clearance, any permit, spent or not, and any confirmation or none, and a context that
names any confirmation or none; whatever the checks let pass is executed.
`validate_task_fanout` and `ADKTaskBinding` are not modelled: only tests use them,
and nothing on the way to `execute` reads them. A user confirms an action at any time
after it was proposed, and its parameters may change before and after.

Every object is immutable except `action`: its parameters, for which one amount
stands, are a dictionary that all holders share. `limitAt` is history: the limit in
force at the beginning of each instant, 0 once authority was revoked, against which
effects are judged. `HandOver` takes a result with the objects of any action,
`Renew` an observation at any guidance, again and in any order: nothing in the code
orders them. `execute` is taken by contract; `EffectBoundary` and `PermitStore` show
its parts.

### RuntimeAdapters and GrantDecision

An adapter's `bind` hashes one list of fields and `to_runtime_action` forwards
another; both lists are in `RuntimeAdapters` as the code has them. `Text` is the
JSON text `canonical_digest` hashes, which need not tell all values apart.
`GrantDecision` has `evaluate` and `discover`: `First` is the loop's first match,
`Discover` says which capabilities survive sorting, cutoff and limit.

## The runs

| run | shows | distinct states |
| --- | --- | --- |
| `permit_store` | refinement of the promise, single grant, every call answered | 2,556 |
| `boundary` | one effect per permit, effects under claims, revocations, funding, refinement of the one-shot permit | 136,971 |
| `boundary_admission` | only admitted calls act, inside their windows; claims end in evidence; calls end | 142,468 |
| `boundary_order` | violation, see Findings | |
| `ledger` | limits at every level, exact totals, nothing consumed twice or altered, nothing given back | 16,247 |
| `frontdoor` | fresh authority, truthful and final verdicts, when a second effect is possible | 1,085,151 |
| `frontdoor_staged` | violation, see Findings | |
| `messages` | claims outlast messages, replays only past expiry, chains narrow | about 34,000 |
| `receipts` | receipts handed out are kept, replays follow their sources and effects precede receipts, the chain forks only on overlap, verdicts are stable | 80,314 |
| `profiles` | chains of profiles stay narrow, sessions stay within the chain | 55,147 |
| `loop` | effects within authority and as confirmed, observations as permitted, one success learned once | 966,767 |
| `loop_mutation` | violation, see Findings | |

### Bounds, and why they are enough

- `permit_store`: three calls on one permit and one on another. A race needs two
  contenders; the third sees the outcome of a decided race; the fourth shows that
  the lock is for the table, not the permit.
- `boundary`: two calls, two processes, two permits, two reservations *for the same
  permit*, one lasting revocation, a clock of two instants. Both calls may
  take the same request, so they race for a permit with separately paid
  reservations or for one reservation. The second permit expires at 1, so the
  clock passes an end. Calls and processes are interchangeable, hence symmetry;
  no liveness is checked there.
- `boundary_admission`: one process, good requests and six that are each wrong in
  one way, a scope halt and a global halt that come and go. Five more requests
  have an authority, clearance, workspace or attestation (by validity and by age) that
  ends at 1 while their permit ends at 2, so that each of the five windows is the one
  that closes while the clock runs. No symmetry, because of the liveness properties.
- `ledger`: two team budgets of 2 below a fleet budget of 3, a budget per action,
  a widening registration that must be refused, two windows, two bindings, two
  reservations, two moments. Two reservations suffice to overdraw the fleet while each
  team is within its own limit, to alter one and to raise between two. (With
  three, the run takes minutes and finds nothing else.)
- `frontdoor`: two records, two threads, three commits: an overlap and a retry
  after it. One handle that two principals can be bound to.
- `messages`: three calls, ten deliveries (copies, a child, a grandchild, and what
  can be wrong with each), one restart, three instants: before, at and after the
  expiry of the root message.
- `receipts`: three requests of any kind and one crash: two that fork the chain and
  a third behind the fork, or a source, its replay and a writer in between. A
  second crash could only shorten the log once more.
- `profiles`: 52 kinds of profile at each of three depths: every field narrowed and
  widened alone, tool sets with approval rules in all combinations, because which
  approvals count depends on the actions retained. A chain of three is the first
  that no single check sees.
- `loop`: two actions of amount 2, limits 1 and 2, so that they are allowed under the
  higher one only; two permits and two children, which may race for one permit or
  present what belongs to the other; one confirmation, given for either action;
  two executions, two observations, one change of the world (a revocation, a lower
  limit or other parameters), at any moment. A clearance is good for 2, authority
  ends at 3 and the clock reaches 2: a call at 2 needs a clearance of 1 at the
  earliest, so a clearance given under a limit that was lowered since comes
  to its end. A permit is good for 1. Two permits may be of one action, for two
  observations of it, or of two, for what one presents of the other. The one guidance is
  given observations again and in any order; that several guidances do not mix is
  in the theorem.

`CHECK_DEADLOCK FALSE` everywhere: each model ends legitimately when all its
calls have ended or a bound is reached.

### Fairness

Only where a liveness property needs it. `EffectBoundary!FairSpec` has weak
fairness of `Advance(c)` for each call: `execute` is straight-line code, so a
call in a live process takes its next step. That rests on two things: an effector
that returns or raises, and a store that answers, which SQLite's busy timeout of
30 s guarantees. `PermitStore!FairSpec` likewise for the statements of one call:
`Begin` may stay blocked, but then `StatementFails` is enabled, which is the busy
timeout. Nothing is assumed about crashes, callers, control events or time.

## Findings

1. **Resources are spent before the permit** (`boundary_order`). `execute`
   consumes reservations at `core.py:138` and the permit at `core.py:149`. The
   adoption note of 2026-08-24 says the permit is claimed "immediately before
   resource/effect execution". A call that loses the permit, or whose store raises,
   has spent its reservations for nothing.
2. **A settled record can be committed again** (`frontdoor_staged`). Status test
   (180) and update (213) enclose the handler; a second thread that passed the
   test commits after the verdict, against "only staged effects can be committed".
   `OnceUnlessRaisedOrContested` states when a second effect is possible at all:
   only after an exception in `commit`, or an overlap.
3. **What is done may differ from what was permitted** (`loop_mutation`). `execute`
   compares the digest of the action at `core.py:94` and calls the tool with the
   same, shared parameters at `core.py:155`, after the store has answered.
   `docs/ADK_GO_V2_1_ADOPTION.md` line 106 says that mutation "must never mutate
   signed/bound action inputs after REHT clearance"; nothing copies them or compares
   the digest again. What does hold is `ObservedAsPermitted`: the receipt digests
   the parameters once more, so a change shows at the handoff, after the effect.

Further observations, which no run refutes. The receipt log forks
when two requests overlap, and a torn line makes all of it unreadable: `receipts`
shows exactly what still holds then. The replay key of a message contains the
digest of the envelope, so an id and nonce signed once more are accepted once more.
`consume_many` with a `now` before a reservation was issued raises inside its loop
and keeps what it had consumed (`ConsumeManyRaises`); the totals stay exact.
`assert_child_profile_narrower` compares everything about approval rules but who
approves. `execute_authorized` looks at neither the deadline nor the cancellation
state of its context. A clearance may be issued more than one permit: nothing
limits how many effects one clearance has, only its window does. Nothing binds a child
of a task runner to an action or a permit: `validate_task_fanout` compares the
bindings of one list with each other, and `execute_authorized` takes whatever unspent
permit it is given with the action it was issued for. A context may name a
confirmation that nobody presents: the reference is looked at only when there is one.
At a commit the handle of a record may resolve to somebody other than the principal
who staged the effect; the effect then happens on the authority of the former.

What the passing runs show about time is also worth knowing.
`ReplayOnlyWhenLate` is exact: a message *is* accepted twice in one life
of a process when a copy passes its checks in time and reaches the store after
its expiry. And `EffectInsideWindows` is about the moment `execute` captured, not
the moment of the effect: the store may make a call wait in between.

## The proofs

TLAPS checks every theorem for all values of the constants that satisfy the named
assumptions: any number of calls, processes, permits, requests, reservations and
messages. Assumptions say only what the parameters are (a request names a permit,
`NoCall` is not a call, window bounds are integers).

- **PermitStore_proofs.** `StoreInv` is inductive: the calls inside a transaction
  are exactly the holder of the lock, so what an insert found still holds at
  commit; `pc`, `row` and `answer` agree. `TrueAtMostOnce` alone is not
  inductive: it says nothing of calls before their answer. From `StoreInv`:
  `StoreGrantsOnce`, and `StoreImplementsPromise`, where `Commit` maps to the
  claim, the answers to answers, the rest to stuttering.
- **EffectBoundary_proofs.** `BoundaryTypeOK`; then `ClaimInv`: how far a call has
  got and whether it won its permit determine each other, a permit has one winner,
  a winner has not acted before `permitted`. It is needed because the effect comes
  steps after the claim, with crashes and other calls between.
  From it `OneEffectPerPermit`, `EffectsAreClaimed` and `BoundaryImplementsOneShot`
  (one step of the refinement per action; `Crash` spends permits of calls caught
  inside the store). Three more invariants carry what `Start`, `Check`
  and `Fund` established to the moment of the effect. `AdmissionInv` gives
  `EffectsAreAdmitted` and `EffectsAreTimely`. `RevocationInv` gives
  `RevocationHolds`: what was revoked at the start stays revoked in that
  process for as long as the call lives. `FundingInv` gives `EffectsAreFunded`: a
  reservation is outstanding in one process or spent by one call; from it too
  `ProcessImplementsPool`. `IssuedPermitIsAdmitted` is about the contract objects: what
  `issue_execution_permit` issued, `execute` admits during the window of the permit and
  never outside, because each earlier end was looked at when it was issued.
- **CapabilityFrontDoor_proofs.** `StepKeepsRecords` (a step leaves capability,
  handle and principal of a record alone and takes back no verdict) gives
  `VerdictsAreFinal`, and lets `SeenInv` survive every step: whoever a handle resolves
  to now has been vouched for in this commit, who of those holds authority now is in
  `seen`, and the principal a commit acts for was vouched for and, once authorized,
  seen. Neither half is inductive alone, because the world changes between them:
  `AuthorityIsFresh`. `ReportInv` adds that only
  effects are staged and that an effect lies between the storing of its record and its
  verdict: `EffectsAreReported`. `OnceInv` is what `EffectsHappenOnce` needs: until a
  commit of a record raises or two overlap, one thread at most works on it, and it
  has not acted before that thread does.
- **MessageReplay_proofs.** `ClaimInv` (nobody entered the store in the future,
  nobody was accepted in a later life, claims outlast messages) gives
  `ClaimsOutlastMessages` and the action property `ReplaysAreLate`.
  `ChainsNarrow` needs only that every call past its checks passed `VerifyParent`.
- **AgentProfile_proofs.** `NarrowerTransitive`, field by field: the only hard case
  is approvals, where an action the grandchild retains must first be one the child
  retains. `NarrowerIsConfined` goes from fields to what they allow. With them
  `NarrowInv` (every profile of a chain is narrower than every one above) is
  inductive and gives `ChainsStayNarrow` and, with `SessionInv`,
  `SessionsStayWithin`. The type invariant of this module is proved and not part
  of a run.
- **ReceiptLog_proofs.** `KeptInv` says that what an answered request left in the
  log is in the durable prefix, what a request in `syncing` left is in the log,
  and the source of a request that is still to write is there behind an unbroken
  chain. All three are about prefixes, and every step, a crash included, leaves the
  prefix concerned as it was: hence `ReceiptsAreKept` and `ReplaysFollowSources`,
  with no assumption on overlaps. `EffectInv` gives `ReceiptsFollowEffects`.
  `TurnInv` is about overlaps: without one, whoever is about to write is alone and
  holds the last hash, so even a torn line continues the one before it
  (`ForksNeedOverlap`). `VerdictsAreStable`: a walk for a receipt that was handed out
  ends within the durable prefix (`WalkEndsInPrefix`), which no step changes.
- **GovernedLoop_proofs.** No property of the loop is inductive: each relates an
  effect or observation to objects made long before it. The argument has two halves.
  `StepPersists`: what a permit and a clearance say never changes once they exist,
  the clock and its history of limits only grow, a spent permit stays spent. So a
  fact about them goes on holding, and each part of `IInv` need be shown only for the
  action that adds to it (`StepClearance`, `StepEvents` and so on).
  `ClearanceInv` carries the limit from the moment of clearance to the effect: a
  clearance that allows ends less than `ClearFor` after an instant whose limit its
  action was within. From `LoopInductive`: `EffectsStayWithinLimit`,
  `ObservationsSayWhatWasPermitted`, `EffectsAreAsConfirmed` (a call under way was
  begun for the action its permit names, and its confirmation was for the same,
  whatever the action has become since). `GuidanceLearnsOnce` adds that receipts are told apart by their permits, and counts: the receipts a
  guidance was renewed from inject into the effects. `OwnResultHandsOver` is about
  the operators: a result passes the handoff for the objects of its own call.
- **ResourceLedger_proofs.** `Total` folds over a finite set and `Chain` recurs along
  parents, so each general fact about them needs induction. The library's induction
  theorems cannot be used; what can is that a set of naturals has a least member and
  a set of finite sets a smallest one (`LeastNatural`, `SmallestSubset`, from the
  well-founded orders of the library). A fact that fails somewhere fails at a smallest
  set, and removing one element contradicts that: so `TotalUnfolds`, `TotalRemove`,
  `TotalUnion`. Chains use the parent relation: `Forest` says that every set
  of registered budgets has a member whose parent is outside of it, which registration
  keeps because it only adds leaves, and which gives `ChainUnfolds`, `ChainFacts` and
  `RegisterKeepsChains`. `LedgerInv` is inductive: besides `Forest`, ids of
  reservations are unique and their budgets registered (`IdsInv`; without it
  `consume_many` could remove by id what it did not charge), each reservation is
  outstanding, or consumed in one call (`SettledInv`), and nothing was consumed of a
  budget before it was registered (`UnusedInv`). `EveryStep` sums up what a step does to
  an account: add what fits, move an amount from pending to consumed, or nothing.
  From it `LimitsHold`, `TotalsAreConsumed`, `RemainingShrinks`; from the invariant
  `ReservationsConsumedOnce`. Four more theorems say what no run checks:
  `ChildrenCountForAncestors`, `ConsumptionStaysWithinLimit`,
  `ReservationsFitEveryLevel` and `LedgerImplementsPool`.
- **Operators without state.** In AgentProfile_proofs: `HashBindsWhatIsForwarded`, by
  comparing the two lists of each adapter, `BlandSurfaceIsBound` and
  `RecomputedHashShowsChange`. In ReceiptLog_proofs: `DecisionsAreStable`, and
  `DiscoverKeepsTheBest`, from the order being total and a set of those ahead that can
  only shrink.

Only model-checked: the liveness properties (`EveryCallAnswered`,
`ClaimLeadsToEvidence`, `StartedCallsEnd`), which need fairness and `ENABLED`. Every
other property of a passing run is the subject of a theorem.
The two refinements of `ReservationPool` go the other way: they are proved, and no
run of the project checks them.

## Assumptions and limits

- All processes of a deployment open the same store file, and SQLite with
  `BEGIN IMMEDIATE` serialises writers and survives process crashes. The default
  path, file permissions and schema creation are not modelled.
- `utcnow` does not go back, and `execute` and `accept` are called without an
  explicit `now`.
- A control plane and a ledger are configured and are per process, as the code has
  them: what one process revokes another does not know, and a restart forgets.
- Effectors, handlers and verifiers raise subclasses of `Exception`. Anything else
  (`KeyboardInterrupt`, task cancellation) ends a call as a crash does.
- Amounts are exact (`Decimal`) and small here; digests are injective; signatures
  verify or do not.
- Validators that only constrain the shape of an object (lengths, patterns, time
  zones) are not modelled: the objects in the models are ones that passed them.
- Wording, logging, serialisation and the content of receipts beyond their status
  are left out.

- File writes are appends of one line each, seen by readers whole or not at all
  (`ReadFails` covers a reader that sees part of one); a crash keeps a prefix.

- The caller of the loop passes the action's own parameters as arguments, as
  `app.py` does, and presents authority as it is; hashing tells texts apart.

Not modelled: HTTP framing and the configuration of the service; the harness and
router (dispatch by name); `execution.py` and `cloudflare_browser.py` of the runtime
adapters and the protocol, identity and risk adapters (they rename the fields of what they are
given, decide nothing and keep nothing); the refusal of forbidden metadata keys in
`adk_go.py` (a set of words); SDK, CLI and style profiles (construction and I/O).

## Plan

Done: the store, the boundary, the ledger, the front door, message replay, the
receipt log, agent profiles; the governed adaptive loop with the Veritas handoff;
the decisions of the HTTP service, the runtime adapters.

What would come next:

1. A composed model of `EffectBoundary` and `ResourceLedger` through the pool both
   implement, to state in one formula that the effects of one process lifetime stay
   within the hard limits (`ConsumptionStaysWithinLimit` is the ledger's half).
2. An abstract specification of a front door record (staged, acted, judged) that
   `CapabilityFrontDoor` implements where no commit raises or overlaps.

## Running it

```
tlc -workers 2 -config MCEffectBoundary.cfg MCEffectBoundary.tla
tlapm EffectBoundary_proofs.tla
```

Each run's module and configuration are in `PROJECT.json`. The longest takes
about two and a half minutes on two cores.

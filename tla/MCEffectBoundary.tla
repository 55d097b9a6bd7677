-------------------------- MODULE MCEffectBoundary --------------------------
(***************************************************************************)
(* A small deployment: an exclusive action "pay" that names a budget, a    *)
(* workspace-bound action "post" on an attested substrate, and the         *)
(* arguments callers present for them, right and wrong.                    *)
(***************************************************************************)
EXTENDS EffectBoundary, TLC
CONSTANTS c1, c2, g1, g2

Substrate == [attested |-> 0, until |-> 4, maxAge |-> 2]
Workspace == [pair |-> "w1", expires |-> 2, substrate |-> Substrate]

Grant == [id |-> "a1", principal |-> "alice", actor |-> "agent",
          grants |-> {"pay", "post"}, scope |-> {"t1"},
          issued |-> 0, until |-> 2, revoked |-> FALSE]

Pay == [type |-> "pay", target |-> "t1", authority |-> "a1",
        skill |-> None, budgets |-> {"b1"}, workspace |-> None]
Post == [type |-> "post", target |-> "t1", authority |-> "a1",
         skill |-> "s1", budgets |-> {}, workspace |-> Workspace]

ClearanceFor(id, act, decision) ==
  [id |-> id, action |-> act, authority |-> "a1", decision |-> decision,
   who |-> <<"alice", "agent">>, what |-> <<act.type, act.target>>,
   until |-> 2, skill |-> act.skill, pair |-> PairOf(act),
   substrate |-> SubstrateOf(act)]

PayClearance == ClearanceFor("k1", Pay, "ALLOW")
PostClearance == ClearanceFor("k2", Post, "MODIFY")
DeniedPost == ClearanceFor("k2", Post, "DENY")

PayPermit == IssuedPermit("p1", PayClearance, Grant, Pay, 2, 0)
PostPermit == IssuedPermit("p2", PostClearance, Grant, Post, 1, 0)

\* Both permits are ones issue_execution_permit issues at time 0.
ASSUME PayPermitIssued == MayIssue(PayClearance, Grant, Pay, 2, 0)
ASSUME PostPermitIssued == MayIssue(PostClearance, Grant, Post, 1, 0)

\* Two reservations were made for the same permit, for instance by a caller
\* that retries from the start.
Reservation(n) == [id |-> n, budget |-> "b1", action |-> Pay,
                   clearance |-> "k1", permit |-> "p1"]
MCReservations == {Reservation(1), Reservation(2)}
MCOneReservation == {Reservation(1)}

Tool == [kind |-> "tool", capability |-> None, target |-> None]
Handle(type) == [kind |-> "handle", capability |-> type, target |-> "t1"]

PayRequest(n) ==
  [authority |-> Grant, clearance |-> PayClearance, permit |-> PayPermit,
   action |-> Pay, effector |-> Tool, replay |-> None, scopes |-> None,
   reservations |-> {Reservation(n)}]
PostRequest ==
  [authority |-> Grant, clearance |-> PostClearance, permit |-> PostPermit,
   action |-> Post, effector |-> Handle("post"),
   replay |-> Capture(Grant, PostClearance, PostPermit, Post, "VALID", 0),
   scopes |-> {}, reservations |-> {}]

GoodRequests == {PayRequest(1), PayRequest(2), PostRequest}

\* Requests that differ from a good one in what the caller got wrong.
BadRequests ==
  { \* a decision that denies
    [PostRequest EXCEPT !.clearance = DeniedPost, !.replay = None],
    \* the permit of another action
    [PostRequest EXCEPT !.permit.action = Pay, !.replay = None],
    \* a permit object that records its own consumption
    [PostRequest EXCEPT !.permit.consumed = TRUE, !.replay = None],
    \* a basis reported as revoked
    [PostRequest EXCEPT !.replay.basis = "REVOKED"],
    \* a handle for another capability
    [PostRequest EXCEPT !.effector = Handle("pay")],
    \* an action that names a budget, without its reservation
    [PayRequest(1) EXCEPT !.reservations = {}] }

\* Objects that end before the permit does.  issue_execution_permit would not
\* have issued a permit for them; execute, which cannot know who made a permit,
\* must refuse it from the end of any of them, at 1, on.
PostUnder(workspace) ==
  LET act == [Post EXCEPT !.workspace = workspace]
      k == ClearanceFor("k2", act, "ALLOW")
  IN  [PostRequest EXCEPT !.clearance = k, !.action = act, !.replay = None,
                          !.permit = IssuedPermit("p2", k, Grant, act, 2, 0)]
ShortRequests ==
  { [PayRequest(1) EXCEPT !.authority.until = 1],
    [PayRequest(1) EXCEPT !.clearance.until = 1],
    PostUnder([Workspace EXCEPT !.expires = 1]),
    PostUnder([Workspace EXCEPT !.substrate.until = 1]),
    PostUnder([Workspace EXCEPT !.substrate.maxAge = 1]) }

\* The race: two processes, good requests only, one lasting revocation and
\* one halt that can be resumed, a clock that passes the end of p2.
MCRevocable == {<<"authority", "a1">>}
MCGlobalHalt == <<"global", "all">>
MCCalls == {c1, c2}
MCGateways == {g1, g2}
MCPermits == {"p1", "p2"}

\* Calls and processes are interchangeable.
Symmetry == Permutations(MCCalls) \cup Permutations(MCGateways)

\* Admission: every request, in one process whose scope and whose whole
\* operation can be halted and resumed.
MCHaltable == {<<"scope", "t1">>, MCGlobalHalt}
MCAllRequests == {PayRequest(1), PostRequest} \cup BadRequests
                   \cup ShortRequests
=============================================================================

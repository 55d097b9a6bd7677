------------------------ MODULE CapabilityFrontDoor ------------------------
(***************************************************************************)
(* CapabilityFrontDoor: effects are staged under an authenticated          *)
(* principal and committed later, under authority that is looked up again. *)
(* The object has no lock; several threads may call it.  invoke and commit *)
(* are split at each callout that reads the environment or has an effect:  *)
(* identity resolver, authority check, handler, verifiers.  Who a handle   *)
(* resolves to and who holds authority change at any time, between the     *)
(* resolver and the authority check of one call too.                       *)
(*                                                                         *)
(* A capability is [name, risk, policy, verifies]: its descriptor, and     *)
(* whether its handler has a verify method.  A read or an event leaves a   *)
(* record too.  Calls that are denied before anything changed are no steps.*)
(***************************************************************************)
EXTENDS Naturals

CONSTANTS
  Capabilities,
  Handles,      \* principal handles callers name
  Principals,   \* principal ids that handles resolve to
  None,
  Ids,          \* bound: the record ids that may be drawn (uuid4)
  Threads,
  MaxCommits    \* bound on the number of commit calls

ASSUME CapabilityAssumption ==
  \A k \in Capabilities : /\ k.risk \in {"read", "effect"}
                          /\ k.policy \in {"mechanical", "pre", "pre_post"}
                          /\ k.verifies \in BOOLEAN
ASSUME NoneAssumption ==
  /\ None \notin Ids /\ None \notin Handles
  /\ None \notin Principals /\ None \notin Capabilities
ASSUME MaxCommitsAssumption == MaxCommits \in Nat

VARIABLES
  catalog,     \* registered capabilities
  bound,       \* capabilities with a handler
  identity,    \* the authenticated principal each handle resolves to, or None
  authority,   \* <<capability, principal>> the authority check approves
  records,     \* self._records
  pc,          \* where each thread is
  draft,       \* the record an invoke is about to store
  target,      \* the record a commit is about
  resolved,    \* the principal a commit acts for, once it is resolved
  commits,     \* how many commit calls have begun
  effects,     \* history: how often the effect of each record happened
  raised,      \* history: records whose handler or verifier raised in a commit
  contested,   \* history: records that two commits worked on at once
  vouched,     \* history: who the record's handle resolved to in this commit
  seen         \* history: who of them has held authority in it since then

setupVars == <<catalog, bound>>
worldVars == <<identity, authority>>
callVars == <<pc, draft, target, resolved, commits>>
momentVars == <<vouched, seen>>
historyVars == <<effects, raised, contested>>
vars == <<setupVars, worldVars, callVars, momentVars, historyVars, records>>

Record ==
  [status : {"staged", "succeeded", "verification_failed", "received"},
   capability : Capabilities \cup {None},
   handle : Handles \cup {None},
   principal : Principals \cup {None}]

ASSUME RecordAssumption == None \notin Record

Invoking == {"identified", "admitted"}
Asking == {"begun", "resolved", "authorized"}
Committing == Asking \cup {"acted"}

TypeOK ==
  /\ bound \subseteq catalog /\ catalog \subseteq Capabilities
  /\ identity \in [Handles -> Principals \cup {None}]
  /\ authority \subseteq Capabilities \X Principals
  /\ records \in [Ids -> Record \cup {None}]
  /\ pc \in [Threads -> {"idle"} \cup Invoking \cup Committing]
  /\ draft \in [Threads -> Record \cup {None}]
  /\ target \in [Threads -> Ids \cup {None}]
  /\ resolved \in [Threads -> Principals \cup {None}]
  /\ \A t \in Threads : /\ pc[t] \in Invoking <=> draft[t] # None
                        /\ pc[t] \in Committing <=> target[t] # None
                        /\ pc[t] \in Committing \ {"begun"} <=> resolved[t] # None
  /\ commits \in 0..MaxCommits
  /\ effects \in [Ids -> Nat]
  /\ raised \subseteq Ids /\ contested \subseteq Ids
  /\ vouched \in [Threads -> SUBSET Principals]
  /\ seen \in [Threads -> SUBSET Principals]

Init ==
  /\ catalog = {} /\ bound = {}
  /\ identity \in [Handles -> Principals \cup {None}]
  /\ authority = {}
  /\ records = [i \in Ids |-> None]
  /\ pc = [t \in Threads |-> "idle"]
  /\ draft = [t \in Threads |-> None]
  /\ target = [t \in Threads |-> None]
  /\ resolved = [t \in Threads |-> None]
  /\ commits = 0
  /\ effects = [i \in Ids |-> 0]
  /\ raised = {} /\ contested = {}
  /\ vouched = [t \in Threads |-> {}]
  /\ seen = [t \in Threads |-> {}]

-----------------------------------------------------------------------------
Goto(t, s) == pc' = [pc EXCEPT ![t] = s]

Store(i, r) == /\ records[i] = None
               /\ records' = [records EXCEPT ![i] = r]

\* _assert_authority; without an authority check nothing is granted.
Granted(k, p) == <<k, p>> \in authority

\* Whom _principal makes of a handle: one principal, or none.
Resolves(h) == {p \in Principals : identity[h] = p}

\* A second registration, or a second handler, is refused.
Register(k) ==
  /\ k \notin catalog
  /\ catalog' = catalog \cup {k}
  /\ UNCHANGED <<bound, worldVars, callVars, momentVars, historyVars, records>>

Bind(k) ==
  /\ k \in catalog \ bound
  /\ bound' = bound \cup {k}
  /\ UNCHANGED <<catalog, worldVars, callVars, momentVars, historyVars, records>>

Unattended(status, k) == [status |-> status, capability |-> k,
                          handle |-> None, principal |-> None]

\* A read runs at once, without principal or authority.
Read(k, i) ==
  /\ k \in bound /\ k.risk = "read"
  /\ Store(i, Unattended("succeeded", k))
  /\ UNCHANGED <<setupVars, worldVars, callVars, momentVars, historyVars>>

Event(i) ==
  /\ Store(i, Unattended("received", None))
  /\ UNCHANGED <<setupVars, worldVars, callVars, momentVars, historyVars>>

\* invoke of an effect: the handle is resolved ...
Identify(t, k, h) ==
  /\ pc[t] = "idle"
  /\ k \in bound /\ k.risk = "effect"
  /\ \E p \in Resolves(h) :
       draft' = [draft EXCEPT ![t] = [status |-> "staged", capability |-> k,
                                      handle |-> h, principal |-> p]]
  /\ Goto(t, "identified")
  /\ UNCHANGED <<setupVars, worldVars, momentVars, historyVars, target,
                 resolved, records, commits>>

\* ... the authority of that principal is checked ...
Admit(t) ==
  /\ pc[t] = "identified"
  /\ Granted(draft[t].capability, draft[t].principal)
  /\ Goto(t, "admitted")
  /\ UNCHANGED <<setupVars, worldVars, momentVars, historyVars, draft, target,
                 resolved, records, commits>>

Refuse(t) ==
  /\ pc[t] = "identified"
  /\ ~Granted(draft[t].capability, draft[t].principal)
  /\ Goto(t, "idle")
  /\ draft' = [draft EXCEPT ![t] = None]
  /\ UNCHANGED <<setupVars, worldVars, momentVars, historyVars, target,
                 resolved, records, commits>>

\* ... and the handler stages the effect; or pre-verification denies it, or
\* the handler raises.
Stage(t) ==
  /\ pc[t] = "admitted"
  /\ \/ \E i \in Ids : Store(i, draft[t])
     \/ UNCHANGED records
  /\ Goto(t, "idle")
  /\ draft' = [draft EXCEPT ![t] = None]
  /\ UNCHANGED <<setupVars, worldVars, momentVars, historyVars, target,
                 resolved, commits>>

-----------------------------------------------------------------------------
\* Variant: the status of the record is not looked at.
CommittableAnyStatus(i) == records[i].handle # None

Committable(i) == records[i].status = "staged"

Commit(t, i) ==
  /\ pc[t] = "idle"
  /\ commits < MaxCommits
  /\ records[i] # None /\ Committable(i)
  /\ Goto(t, "begun")
  /\ target' = [target EXCEPT ![t] = i]
  /\ commits' = commits + 1
  /\ contested' = contested \cup {j \in {i} : \E u \in Threads : target[u] = j}
  /\ vouched' = [vouched EXCEPT ![t] = Resolves(records[i].handle)]
  /\ seen' = [seen EXCEPT ![t] = {p \in Resolves(records[i].handle) :
                                    Granted(records[i].capability, p)}]
  /\ UNCHANGED <<setupVars, worldVars, draft, resolved, effects, raised, records>>

\* Variant: the call returns without letting go of its record.
EndHolding(t) == /\ Goto(t, "idle")
                 /\ resolved' = [resolved EXCEPT ![t] = None]
                 /\ vouched' = [vouched EXCEPT ![t] = {}]
                 /\ seen' = [seen EXCEPT ![t] = {}]
                 /\ UNCHANGED <<target, draft, commits>>

End(t) == /\ Goto(t, "idle")
          /\ target' = [target EXCEPT ![t] = None]
          /\ resolved' = [resolved EXCEPT ![t] = None]
          /\ vouched' = [vouched EXCEPT ![t] = {}]
          /\ seen' = [seen EXCEPT ![t] = {}]
          /\ UNCHANGED <<draft, commits>>

\* The handle of the record is resolved afresh ...
Resolve(t) ==
  /\ pc[t] = "begun"
  /\ \E p \in Resolves(records[target[t]].handle) :
       resolved' = [resolved EXCEPT ![t] = p]
  /\ Goto(t, "resolved")
  /\ UNCHANGED <<setupVars, worldVars, momentVars, historyVars, draft, target,
                 records, commits>>

\* Variant: the authority of the principal that staged the effect is checked.
ApprovedAsStaged(t) == Granted(records[target[t]].capability,
                               records[target[t]].principal)

\* ... and the authority of that principal checked, at a later moment.
Approved(t) == Granted(records[target[t]].capability, resolved[t])

Authorize(t) ==
  /\ pc[t] = "resolved" /\ Approved(t)
  /\ Goto(t, "authorized")
  /\ UNCHANGED <<setupVars, worldVars, momentVars, historyVars, draft, target,
                 resolved, records, commits>>

Deny(t) ==
  /\ \/ pc[t] = "begun" /\ Resolves(records[target[t]].handle) = {}
     \/ pc[t] = "resolved" /\ ~Approved(t)
  /\ End(t)
  /\ UNCHANGED <<setupVars, worldVars, historyVars, records>>

\* handler.commit has its effect ...
Act(t) ==
  /\ pc[t] = "authorized"
  /\ Goto(t, "acted")
  /\ effects' = [effects EXCEPT ![target[t]] = @ + 1]
  /\ vouched' = [vouched EXCEPT ![t] = {}]
  /\ seen' = [seen EXCEPT ![t] = {}]
  /\ UNCHANGED <<setupVars, worldVars, draft, target, resolved, raised,
                 contested, records, commits>>

\* Variant: an exception path stages the effect again.
RaiseRestages(t) ==
  /\ pc[t] \in {"authorized", "acted"}
  /\ raised' = raised \cup {target[t]}
  /\ End(t)
  /\ records' = [records EXCEPT ![target[t]].status = "staged"]
  /\ UNCHANGED <<setupVars, worldVars, effects, contested>>

\* ... or raises before or after it; or a verifier raises.  The exception
\* leaves commit with the record as it is.
Raise(t) ==
  /\ pc[t] \in {"authorized", "acted"}
  /\ raised' = raised \cup {target[t]}
  /\ End(t)
  /\ UNCHANGED <<setupVars, worldVars, effects, contested, records>>

\* The verdicts a handler's own verify and the policy's post-verifier allow.
\* A missing post-verifier fails every effect that demands one.
Verdicts(k) ==
  {"verified"} \cup (IF k.verifies THEN {"mechanical_failed"} ELSE {})
               \cup (IF k.policy = "pre_post" THEN {"semantic_post_failed"}
                     ELSE {})

\* Variant: a rejected effect stays open for another try.
StatusLeftOpen(v) == IF v = "verified" THEN "succeeded" ELSE "staged"

StatusAfter(v) == IF v = "verified" THEN "succeeded" ELSE "verification_failed"

\* The verdict becomes the status of the record.
Conclude(t) ==
  /\ pc[t] = "acted"
  /\ \E v \in Verdicts(records[target[t]].capability) :
       records' = [records EXCEPT ![target[t]].status = StatusAfter(v)]
  /\ End(t)
  /\ UNCHANGED <<setupVars, worldVars, historyVars>>

\* The environment: handles are bound to somebody else, or to nobody, and
\* authority for effects comes and goes; nobody asks for it before a read.
Change ==
  /\ \/ /\ \E h \in Handles, p \in Principals \cup {None} :
             identity' = [identity EXCEPT ![h] = p]
        /\ UNCHANGED authority
     \/ /\ \E k \in {x \in Capabilities : x.risk = "effect"},
              p \in Principals :
             authority' \in {authority \cup {<<k, p>>},
                             authority \ {<<k, p>>}}
        /\ UNCHANGED identity
  /\ UNCHANGED <<setupVars, callVars, historyVars, records>>
  /\ vouched' = [t \in Threads |->
       {p \in Principals : /\ pc[t] \in Asking
                           /\ \/ p \in vouched[t]
                              \/ identity'[records[target[t]].handle] = p}]
  /\ seen' = [t \in Threads |->
       {p \in vouched'[t] :
          p \in seen[t] \/ <<records[target[t]].capability, p>> \in authority'}]

Advance(t) ==
  \/ Admit(t) \/ Refuse(t) \/ Stage(t)
  \/ Resolve(t) \/ Authorize(t) \/ Deny(t)
  \/ Act(t) \/ Raise(t) \/ Conclude(t)

Next ==
  \/ \E k \in Capabilities :
       Register(k) \/ Bind(k) \/ \E i \in Ids : Read(k, i)
  \/ \E i \in Ids : Event(i)
  \/ \E t \in Threads :
       \/ \E k \in Capabilities, h \in Handles : Identify(t, k, h)
       \/ \E i \in Ids : Commit(t, i)
       \/ Advance(t)
  \/ Change

Spec == Init /\ [][Next]_vars

-----------------------------------------------------------------------------
\* No effect is committed on the strength of what staged it.  The principal a
\* commit acts for is one that the record's handle resolved to during this very
\* call, and that principal held authority then or later in the call
\* (test_commit_rechecks_authority_fresh).  That the handle resolves to the
\* principal and the principal holds authority at one and the same moment is
\* not claimed: the two are asked for one after the other.
FreshAuthority ==
  [][\A i \in Ids :
       effects'[i] > effects[i] =>
         \E t \in Threads : /\ target[t] = i /\ pc[t] = "authorized"
                            /\ resolved[t] \in seen[t]
    ]_vars

\* A record tells the truth about its effect: a verdict is never given for an
\* effect that did not happen, and an effect without a verdict is either still
\* being verified or was lost to an exception.
EffectIsReported ==
  \A i \in Ids :
    records[i] # None /\ records[i].handle # None =>
      /\ records[i].status # "staged" => effects[i] > 0
      /\ records[i].status = "staged" /\ effects[i] > 0 =>
           \/ i \in raised
           \/ \E t \in Threads : target[t] = i /\ pc[t] = "acted"

\* A staged effect happens at most once, except when a commit of it raised
\* and was called again, or two commits of it overlapped.
OnceUnlessRaisedOrContested ==
  \A i \in Ids : effects[i] > 1 => i \in raised \cup contested

\* A verdict may be replaced by that of an overlapping commit, but a record
\* with a verdict is never open again, nor does it lose its principal.
VerdictIsFinal ==
  [][\A i \in Ids :
       records[i] # None =>
         /\ records'[i] # None
         /\ records[i].status # "staged" => records'[i].status # "staged"
         /\ records'[i].principal = records[i].principal]_vars

\* capability_frontdoor.py line 181: "only staged effects can be committed".
OnlyStagedCommitted ==
  [][\A i \in Ids : effects'[i] > effects[i] => records[i].status = "staged"
    ]_vars
=============================================================================

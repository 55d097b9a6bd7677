------------------------ MODULE AgentProfile_proofs ------------------------
(***************************************************************************)
(* Checking each profile of a chain against its parent is enough: to be    *)
(* narrower is transitive, and what is narrower is confined.  For any      *)
(* profiles and chains of any length.  At the end, what the runtime        *)
(* adapters make of an agent's proposals: what the hash of one binds.      *)
(***************************************************************************)
EXTENDS AgentProfile, RuntimeAdapters, TLAPS

\* Being narrower passes down one more generation, field by field.
LEMMA ResourcesTransitive ==
  ASSUME NEW p, NEW c, NEW g, ResourcesNarrowed(p, c), ResourcesNarrowed(c, g)
  PROVE  ResourcesNarrowed(p, g)
<1> SUFFICES ASSUME NEW i \in DOMAIN g.resources
             PROVE  \E j \in DOMAIN p.resources :
                      /\ IsEntry(p.resources, j)
                      /\ p.resources[j].key = g.resources[i].key
                      /\ g.resources[i].scope \subseteq p.resources[j].scope
  BY DEF ResourcesNarrowed
<1>1. PICK k \in DOMAIN c.resources :
        /\ c.resources[k].key = g.resources[i].key
        /\ g.resources[i].scope \subseteq c.resources[k].scope
  BY DEF ResourcesNarrowed
<1>2. PICK j \in DOMAIN p.resources :
        /\ IsEntry(p.resources, j)
        /\ p.resources[j].key = c.resources[k].key
        /\ c.resources[k].scope \subseteq p.resources[j].scope
  BY DEF ResourcesNarrowed
<1> QED BY <1>1, <1>2

LEMMA ToolsTransitive ==
  ASSUME NEW p, NEW c, NEW g, ToolsNarrowed(p, c), ToolsNarrowed(c, g)
  PROVE  ToolsNarrowed(p, g)
<1>1. DOMAIN g.tools \subseteq DOMAIN p.tools BY DEF ToolsNarrowed
<1>2. ASSUME NEW t \in DOMAIN g.tools
      PROVE  ToolNarrowed(p.tools[t], g.tools[t])
  <2>1. ToolNarrowed(p.tools[t], c.tools[t]) BY DEF ToolsNarrowed
  <2>2. ToolNarrowed(c.tools[t], g.tools[t]) BY DEF ToolsNarrowed
  <2> QED BY <2>1, <2>2 DEF ToolNarrowed
<1> QED BY <1>1, <1>2 DEF ToolsNarrowed

LEMMA BudgetsTransitive ==
  ASSUME NEW p, NEW c, NEW g, ValidProfile(p), ValidProfile(c),
         ValidProfile(g), BudgetsNarrowed(p, c), BudgetsNarrowed(c, g)
  PROVE  BudgetsNarrowed(p, g)
<1>1. DOMAIN g.budgets = DOMAIN p.budgets BY DEF BudgetsNarrowed
<1>2. ASSUME NEW b \in DOMAIN g.budgets
      PROVE  BudgetNarrowed(p.budgets[b], g.budgets[b])
  <2>1. /\ BudgetNarrowed(p.budgets[b], c.budgets[b])
        /\ BudgetNarrowed(c.budgets[b], g.budgets[b])
    BY DEF BudgetsNarrowed
  <2>2. /\ ValidBudget(p.budgets[b])
        /\ ValidBudget(c.budgets[b])
        /\ ValidBudget(g.budgets[b])
    BY DEF BudgetsNarrowed, ValidProfile
  <2> QED BY <2>1, <2>2 DEF BudgetNarrowed, ValidBudget
<1> QED BY <1>1, <1>2 DEF BudgetsNarrowed

LEMMA RetainedShrinks ==
  ASSUME NEW p, NEW c, ToolsNarrowed(p, c)
  PROVE  RetainedActions(c) \subseteq RetainedActions(p)
<1> SUFFICES ASSUME NEW a \in RetainedActions(c)
             PROVE  a \in RetainedActions(p)
  OBVIOUS
<1>1. PICK t \in DOMAIN c.tools : a \in c.tools[t].actions
  BY DEF RetainedActions
<1>2. t \in DOMAIN p.tools /\ a \in p.tools[t].actions
  BY <1>1 DEF ToolsNarrowed, ToolNarrowed
<1> QED BY <1>2 DEF RetainedActions

LEMMA StrictnessTransitive ==
  ASSUME NEW x, NEW y, NEW z, ValidApproval(x), ValidApproval(y),
         ValidApproval(z), AsStrict(z, y), AsStrict(y, x)
  PROVE  AsStrict(z, x)
BY DEF AsStrict, ValidApproval

\* An action the grandchild retains is one the child retains, so the rule that
\* covers it in the child is covered in turn.
LEMMA ApprovalsTransitive ==
  ASSUME NEW p, NEW c, NEW g, ValidProfile(p), ValidProfile(c),
         ValidProfile(g), ApprovalsKept(p, c), ApprovalsKept(c, g),
         ToolsNarrowed(c, g)
  PROVE  ApprovalsKept(p, g)
<1> SUFFICES ASSUME NEW parent \in p.approvals,
                    NEW a \in RetainedActions(g) \cap parent.actions
             PROVE  \E rule \in g.approvals :
                      a \in rule.actions /\ AsStrict(rule, parent)
  BY DEF ApprovalsKept
<1>1. a \in RetainedActions(c) BY RetainedShrinks
<1>2. PICK y \in c.approvals : a \in y.actions /\ AsStrict(y, parent)
  BY <1>1 DEF ApprovalsKept
<1>3. PICK z \in g.approvals : a \in z.actions /\ AsStrict(z, y)
  BY <1>2 DEF ApprovalsKept
<1>4. AsStrict(z, parent)
  BY <1>2, <1>3, StrictnessTransitive DEF ValidProfile
<1> QED BY <1>3, <1>4

LEMMA NarrowerTransitive ==
  ASSUME NEW p, NEW c, NEW g, ValidProfile(p), ValidProfile(c),
         ValidProfile(g), Narrower(p, c), Narrower(c, g)
  PROVE  Narrower(p, g)
<1>1. SamePrincipal(p, g) /\ PoliciesInherited(p, g) /\ NotPromoted(p, g)
  BY DEF Narrower, SamePrincipal, PoliciesInherited, NotPromoted
<1>2. ResourcesNarrowed(p, g) BY ResourcesTransitive DEF Narrower
<1>3. ToolsNarrowed(p, g) BY ToolsTransitive DEF Narrower
<1>4. BudgetsNarrowed(p, g) BY BudgetsTransitive DEF Narrower
<1>5. SessionsNarrowed(p, g)
  BY DEF Narrower, SessionsNarrowed, ValidProfile
<1>6. ApprovalsKept(p, g) BY ApprovalsTransitive DEF Narrower
<1> QED BY <1>1, <1>2, <1>3, <1>4, <1>5, <1>6 DEF Narrower

-----------------------------------------------------------------------------
LEMMA NarrowerDoesLess ==
  ASSUME NEW p, NEW c, ToolsNarrowed(p, c)
  PROVE  Doable(c) \subseteq Doable(p)
<1>1. ASSUME NEW t \in DOMAIN c.tools
      PROVE  /\ t \in DOMAIN p.tools
             /\ {t} \X c.tools[t].actions \X c.tools[t].scope
                    \X c.tools[t].environments
                  \subseteq {t} \X p.tools[t].actions \X p.tools[t].scope
                                \X p.tools[t].environments
  <2>1. t \in DOMAIN p.tools /\ ToolNarrowed(p.tools[t], c.tools[t])
    BY DEF ToolsNarrowed
  <2> QED BY <2>1 DEF ToolNarrowed
<1> QED BY <1>1 DEF Doable

LEMMA NarrowerReachesLess ==
  ASSUME NEW p, NEW c, ResourcesNarrowed(p, c)
  PROVE  Reachable(c) \subseteq Reachable(p)
<1>1. ASSUME NEW i \in DOMAIN c.resources
      PROVE  \E j \in DOMAIN p.resources :
               {c.resources[i].key} \X c.resources[i].scope
                 \subseteq {p.resources[j].key} \X p.resources[j].scope
  BY DEF ResourcesNarrowed
<1> QED BY <1>1 DEF Reachable

LEMMA NarrowerAsksForApproval ==
  ASSUME NEW p, NEW c, ValidProfile(p), ValidProfile(c), ApprovalsKept(p, c),
         NEW a \in RetainedActions(c), NEW n \in Nat, NEW currency,
         NeedsApproval(p, a, n, currency)
  PROVE  NeedsApproval(c, a, n, currency)
<1>1. PICK parent \in p.approvals :
        /\ a \in parent.actions
        /\ \/ parent.threshold = None
           \/ parent.currency = currency /\ n >= parent.threshold
  BY DEF NeedsApproval
<1>2. PICK rule \in c.approvals : a \in rule.actions /\ AsStrict(rule, parent)
  BY <1>1 DEF ApprovalsKept
<1>3. ValidApproval(parent) /\ ValidApproval(rule) BY DEF ValidProfile
<1>4. \/ rule.threshold = None
      \/ rule.currency = currency /\ n >= rule.threshold
  BY <1>1, <1>2, <1>3 DEF AsStrict, ValidApproval
<1> QED BY <1>2, <1>4 DEF NeedsApproval

LEMMA NarrowerIsConfined ==
  ASSUME NEW p, NEW c, ValidProfile(p), ValidProfile(c), Narrower(p, c)
  PROVE  Confined(p, c)
<1>1. Doable(c) \subseteq Doable(p) BY NarrowerDoesLess DEF Narrower
<1>2. Reachable(c) \subseteq Reachable(p) BY NarrowerReachesLess DEF Narrower
<1>3. \A a \in RetainedActions(c), n \in Amounts, currency \in Currencies(p) :
        NeedsApproval(p, a, n, currency) => NeedsApproval(c, a, n, currency)
  BY NarrowerAsksForApproval, NumbersAssumption DEF Narrower
<1>4. c.principal = p.principal /\ p.policies \subseteq c.policies
  BY DEF Narrower, SamePrincipal, PoliciesInherited
<1>5. \A b \in DOMAIN p.budgets :
        b \in DOMAIN c.budgets
          /\ c.budgets[b].hard_limit <= p.budgets[b].hard_limit
  BY DEF Narrower, BudgetsNarrowed, BudgetNarrowed
<1> QED BY <1>1, <1>2, <1>3, <1>4, <1>5 DEF Confined

-----------------------------------------------------------------------------
\* Chains consist of profiles, and sessions are of profiles of the chain.
THEOREM ProfileTypeOK == Spec => []TypeOK
<1>1. Init => TypeOK
  BY NumbersAssumption DEF Init, TypeOK
<1>2. TypeOK /\ [Next]_vars => TypeOK'
  <2> SUFFICES ASSUME TypeOK, [Next]_vars PROVE TypeOK'
    OBVIOUS
  <2>1. ASSUME NEW p \in Profiles, Load(p) PROVE TypeOK'
    <3>1. session = None BY <2>1 DEF TypeOK, Load
    <3>2. chain' \in Seq(Profiles) /\ Len(chain') = 1 BY <2>1 DEF Load
    <3> QED BY <2>1, <3>1, <3>2, NumbersAssumption DEF TypeOK, Load
  <2>2. ASSUME NEW p \in Profiles, Delegate(p) PROVE TypeOK'
    <3>1. /\ chain' \in Seq(Profiles) /\ Len(chain') = Len(chain) + 1
          /\ \A i \in 1..Len(chain) : chain'[i] = chain[i]
      BY <2>2 DEF TypeOK, Delegate
    <3>2. Len(chain') <= MaxDepth
      BY <2>2, <3>1, NumbersAssumption DEF TypeOK, Delegate
    <3>3. session' = session BY <2>2 DEF Delegate
    <3> QED BY <3>1, <3>2, <3>3 DEF TypeOK
  <2>3. ASSUME NEW i \in 1..Len(chain), NEW e \in Environments \cup {None},
               NEW ttl \in Ttls \cup {None}, Describe(i, e, ttl)
        PROVE  TypeOK'
    <3>1. chain[i] \in Profiles /\ chain' = chain
      BY <2>3 DEF TypeOK, Describe
    <3>2. ValidProfile(chain[i]) BY <3>1, ProfilesAssumption
    <3>3. chain[i].default_environment \in Environments
      BY <3>2 DEF ValidProfile
    <3>4. Lifetime(chain[i], ttl) \in Nat \ {0}
      BY <2>3, <3>2, NumbersAssumption DEF Describe, Lifetime, ValidProfile
    <3> QED BY <2>3, <3>1, <3>3, <3>4 DEF TypeOK, Describe, ToolsFor
  <2>4. CASE UNCHANGED vars
    BY <2>4 DEF TypeOK, vars
  <2> QED BY <2>1, <2>2, <2>3, <2>4 DEF Next
<1> QED BY <1>1, <1>2, PTL DEF Spec

\* Every profile of a chain is narrower than every one above it.
NarrowInv ==
  \A i, j \in 1..Len(chain) : i < j => Narrower(chain[i], chain[j])

\* assert_child_profile_narrower, applied link by link, holds between any two
\* profiles of the chain.
THEOREM ChainInvariant == Spec => []NarrowInv
<1>1. Init => NarrowInv BY DEF Init, NarrowInv
<1>2. TypeOK /\ NarrowInv /\ [Next]_vars => NarrowInv'
  <2> SUFFICES ASSUME TypeOK, NarrowInv, [Next]_vars PROVE NarrowInv'
    OBVIOUS
  <2>1. ASSUME NEW p \in Profiles, Load(p) PROVE NarrowInv'
    BY <2>1 DEF Load, NarrowInv
  <2>2. ASSUME NEW g \in Profiles, Delegate(g) PROVE NarrowInv'
    <3>1. /\ Len(chain) \in Nat /\ Len(chain') = Len(chain) + 1
          /\ \A i \in 1..Len(chain) : chain'[i] = chain[i]
          /\ chain'[Len(chain) + 1] = g
          /\ Len(chain) \in 1..Len(chain)
          /\ Narrower(chain[Len(chain)], g)
      BY <2>2, NumbersAssumption DEF TypeOK, Delegate
    <3>2. /\ ValidProfile(g)
          /\ \A i \in 1..Len(chain) : ValidProfile(chain[i])
      BY ProfilesAssumption DEF TypeOK
    <3>3. ASSUME NEW i \in 1..Len(chain) PROVE Narrower(chain[i], g)
      <4>1. CASE i = Len(chain) BY <3>1, <4>1
      <4>2. CASE i < Len(chain)
        <5>1. Narrower(chain[i], chain[Len(chain)])
          BY <3>1, <4>2 DEF NarrowInv
        <5> QED BY <3>1, <3>2, <5>1, NarrowerTransitive
      <4> QED BY <3>1, <4>1, <4>2
    <3>4. ASSUME NEW i \in 1..Len(chain'), NEW j \in 1..Len(chain'), i < j
          PROVE  Narrower(chain'[i], chain'[j])
      <4>1. i \in 1..Len(chain) BY <3>1, <3>4
      <4>2. CASE j = Len(chain) + 1 BY <3>1, <3>3, <4>1, <4>2
      <4>3. CASE j # Len(chain) + 1
        <5>1. j \in 1..Len(chain) BY <3>1, <4>3
        <5> QED BY <3>1, <3>4, <4>1, <5>1 DEF NarrowInv
      <4> QED BY <4>2, <4>3
    <3> QED BY <3>4 DEF NarrowInv
  <2>3. ASSUME UNCHANGED chain PROVE NarrowInv'
    BY <2>3 DEF NarrowInv
  <2> QED BY <2>1, <2>2, <2>3 DEF Next, Describe, vars
<1> QED BY <1>1, <1>2, ProfileTypeOK, PTL DEF Spec

\* Checking each profile against its parent alone confines every profile to
\* every one above it (assert_child_profile_narrower, agent_profile.py 293).
THEOREM ChainsStayNarrow == Spec => []ChainStaysNarrow
<1>1. TypeOK /\ NarrowInv => ChainStaysNarrow
  BY NarrowerIsConfined, ProfilesAssumption
     DEF TypeOK, NarrowInv, ChainStaysNarrow
<1> QED BY <1>1, ProfileTypeOK, ChainInvariant, PTL

-----------------------------------------------------------------------------
\* A session is what its own profile allows.
SessionInv ==
  session # None =>
    LET p == chain[session.holder]
    IN  /\ session.tools = ToolsFor(p, session.environment)
        /\ session.ttl <= p.max_ttl
        /\ session.environment = "live" /\ session.named = None
             => p.default_environment = "live"

\* build_session_descriptor keeps within the profile that was compiled, and
\* what is delegated afterwards does not change that.
THEOREM SessionInvariant == Spec => []SessionInv
<1>1. Init => SessionInv BY DEF Init, SessionInv
<1>2. TypeOK /\ SessionInv /\ [Next]_vars => SessionInv'
  <2> SUFFICES ASSUME TypeOK, SessionInv, [Next]_vars PROVE SessionInv'
    OBVIOUS
  <2>1. ASSUME NEW p \in Profiles, Load(p) PROVE SessionInv'
    BY <2>1 DEF TypeOK, SessionInv, Load
  <2>2. ASSUME NEW g \in Profiles, Delegate(g) PROVE SessionInv'
    <3>1. \A i \in 1..Len(chain) : chain'[i] = chain[i]
      BY <2>2 DEF TypeOK, Delegate
    <3> QED BY <2>2, <3>1 DEF TypeOK, SessionInv, Delegate, ToolsFor
  <2>3. ASSUME NEW i \in 1..Len(chain), NEW e \in Environments \cup {None},
               NEW ttl \in Ttls \cup {None}, Describe(i, e, ttl)
        PROVE  SessionInv'
    <3>1. ValidProfile(chain[i]) BY ProfilesAssumption DEF TypeOK
    <3>2. Lifetime(chain[i], ttl) <= chain[i].max_ttl
      BY <2>3, <3>1, NumbersAssumption DEF Describe, Lifetime, ValidProfile
    <3> QED BY <2>3, <3>2 DEF SessionInv, Describe, ToolsFor
  <2>4. CASE UNCHANGED vars
    BY <2>4 DEF SessionInv, vars, ToolsFor
  <2> QED BY <2>1, <2>2, <2>3, <2>4 DEF Next
<1> QED BY <1>1, <1>2, ProfileTypeOK, PTL DEF Spec

\* A session of a profile deep in a chain stays within what every profile above
\* allows (compile_for_runtime and build_session_descriptor).
THEOREM SessionsStayWithin == Spec => []SessionWithinChain
<1>1. TypeOK /\ NarrowInv /\ SessionInv => SessionWithinChain
  <2> SUFFICES ASSUME TypeOK, NarrowInv, SessionInv, session # None,
                      NEW i \in 1..session.holder
               PROVE  /\ session.tools
                           \subseteq ToolsFor(chain[i], session.environment)
                      /\ session.ttl <= chain[i].max_ttl
                      /\ session.environment = "live" /\ session.named = None
                           => chain[i].default_environment = "live"
    BY DEF SessionWithinChain
  <2> DEFINE h == session.holder
  <2>1. h \in 1..Len(chain) /\ i \in 1..Len(chain) BY DEF TypeOK
  <2>2. CASE i = h BY <2>2 DEF SessionInv
  <2>3. CASE i < h
    <3>1. Narrower(chain[i], chain[h]) BY <2>1, <2>3 DEF NarrowInv
    <3>2. ValidProfile(chain[i]) /\ ValidProfile(chain[h])
      BY <2>1, ProfilesAssumption DEF TypeOK
    <3>3. ToolsFor(chain[h], session.environment)
            \subseteq ToolsFor(chain[i], session.environment)
      BY <3>1 DEF Narrower, ToolsNarrowed, ToolNarrowed, ToolsFor
    <3>4. session.ttl <= chain[i].max_ttl
      BY <3>1, <3>2 DEF Narrower, SessionsNarrowed, SessionInv, TypeOK,
                        ValidProfile
    <3>5. chain[h].default_environment = "live"
            => chain[i].default_environment = "live"
      BY <3>1, <3>2 DEF Narrower, NotPromoted, ValidProfile, Environments
    <3> QED BY <3>3, <3>4, <3>5 DEF SessionInv
  <2> QED BY <2>1, <2>2, <2>3
<1> QED BY <1>1, ProfileTypeOK, ChainInvariant, SessionInvariant, PTL

-----------------------------------------------------------------------------
\* Whatever the substrate, to_runtime_action forwards exactly the fields that
\* bind hashed: none is forwarded unbound, and none is bound and kept back.
LEMMA ForwardsWhatItBinds ==
  ASSUME NEW p, p["substrate"] \in Substrates
  PROVE  /\ Forwarded(p) = Bound(p)
         /\ {"substrate", "type", "target", "parameters"} \subseteq Bound(p)
         /\ "hash" \notin Bound(p)
<1>1. CASE p["substrate"] = "bland"
  BY <1>1 DEF Bound, Forwarded, BlandBound, BlandForwarded
<1>2. CASE p["substrate"] = "cloudflare"
  BY <1>2 DEF Bound, Forwarded, CloudflareBound, CloudflareForwarded
<1>3. CASE p["substrate"] = "gemini"
  BY <1>3 DEF Bound, Forwarded, GeminiBound, GeminiForwarded
<1>4. CASE p["substrate"] = "claude"
  BY <1>4 DEF Bound, Forwarded, ClaudeBound, ClaudeForwarded
<1>5. CASE p["substrate"] = "nooa"
  BY <1>5 DEF Bound, Forwarded, NooaBound, NooaForwarded
<1>6. QED
  BY <1>1, <1>2, <1>3, <1>4, <1>5 DEF Substrates

\* "A change to environment, credentials, action, target, parameters or other
\* bound execution context changes execution_context_hash"
\* (docs/GEMINI_MANAGED_AGENTS.md): for every substrate, two proposals with one
\* hash are of one substrate, and each field that is forwarded for the one has
\* the text it has for the other.
THEOREM HashBindsWhatIsForwarded ==
  ASSUME NEW p, NEW q, Normalised(p), Normalised(q), p["hash"] = q["hash"],
         \A s, t \in Substrates : Text[s] = Text[t] => s = t
  PROVE  /\ p["substrate"] = q["substrate"]
         /\ Forwarded(p) = Forwarded(q)
         /\ \A f \in Forwarded(p) : Text[p[f]] = Text[q[f]]
<1>1. p["substrate"] \in Substrates /\ q["substrate"] \in Substrates
  BY DEF Normalised, BlandNormalised, CloudflareNormalised, GeminiNormalised,
     ClaudeNormalised, NooaNormalised, Substrates
<1>2. Digest(p) = Digest(q)
  BY DEF Normalised
<1>3. Bound(p) = Bound(q) /\ \A f \in Bound(p) : Text[p[f]] = Text[q[f]]
  <2>1. Bound(p) = DOMAIN Digest(p) /\ Bound(q) = DOMAIN Digest(q)
    BY DEF Digest
  <2>2. /\ \A f \in Bound(p) : Digest(p)[f] = Text[p[f]]
        /\ \A f \in Bound(q) : Digest(q)[f] = Text[q[f]]
    BY DEF Digest
  <2>3. QED
    BY <1>2, <2>1, <2>2
<1>4. p["substrate"] = q["substrate"]
  BY <1>1, <1>3, ForwardsWhatItBinds
<1>5. QED
  BY <1>1, <1>3, <1>4, ForwardsWhatItBinds

\* No hash can be read as another kind of action: proposals of Bland that share
\* a hash were made by the same normaliser, so that the hash of a custom tool,
\* which may name any type and target, never stands for a call or a message.
THEOREM BlandSurfaceIsBound ==
  ASSUME NEW p, NEW q, Normalised(p), Normalised(q), p["hash"] = q["hash"],
         p["substrate"] = "bland",
         \A s, t \in Substrates \cup BlandSurfaces : Text[s] = Text[t] => s = t
  PROVE  p["surface"] = q["surface"]
<1>1. p["substrate"] = q["substrate"] /\ Forwarded(p) = BlandForwarded
  BY HashBindsWhatIsForwarded DEF Forwarded
<1>2. Text[p["surface"]] = Text[q["surface"]]
  <2>1. "surface" \in BlandForwarded
    BY DEF BlandForwarded
  <2>2. QED
    BY <1>1, <2>1, HashBindsWhatIsForwarded
<1>3. p["surface"] \in BlandSurfaces /\ q["surface"] \in BlandSurfaces
  <2>1. q["substrate"] = "bland"
    BY <1>1
  <2>2. BlandSurface(p) /\ BlandSurface(q)
    BY <2>1 DEF Normalised, BlandNormalised, CloudflareNormalised,
       GeminiNormalised, ClaudeNormalised, NooaNormalised
  <2>3. QED
    BY <2>2 DEF BlandSurface, BlandSurfaces
<1>4. QED
  BY <1>2, <1>3

\* The nested parameters of a proposal stay shared with the runtime after the
\* hash was taken (dict(parameters) copies one level).  Whoever receives the
\* runtime action can find out: the digest recomputed from what was forwarded
\* is the forwarded hash exactly when the parameters still have the text they
\* had.  The gateway itself never recomputes it.
THEOREM RecomputedHashShowsChange ==
  ASSUME NEW p, NEW v, Normalised(p), DOMAIN p = Bound(p) \cup {"hash"}
  PROVE  LET sent == [p EXCEPT !["parameters"] = v]
             received == RuntimeAction(sent)
         IN  Digest(received) = received["hash"] <=> Text[v] = Text[p["parameters"]]
<1> DEFINE sent == [p EXCEPT !["parameters"] = v]
           received == RuntimeAction(sent)
<1>1. p["substrate"] \in Substrates
  BY DEF Normalised, BlandNormalised, CloudflareNormalised, GeminiNormalised,
     ClaudeNormalised, NooaNormalised, Substrates
<1>2. /\ Forwarded(p) = Bound(p) /\ "hash" \notin Bound(p)
      /\ {"substrate", "parameters"} \subseteq Bound(p)
  BY <1>1, ForwardsWhatItBinds
<1>3. /\ sent["substrate"] = p["substrate"] /\ sent["hash"] = p["hash"]
      /\ sent["parameters"] = v
      /\ \A f \in Bound(p) \ {"parameters"} : sent[f] = p[f]
  BY <1>2
<1>4. Forwarded(sent) = Bound(p)
  BY <1>2, <1>3 DEF Forwarded
<1>5. \A f \in Bound(p) \cup {"hash"} : received[f] = sent[f]
  BY <1>4 DEF RuntimeAction
<1>6. Bound(received) = Bound(p)
  BY <1>2, <1>3, <1>5 DEF Bound
<1>7. Digest(received) = [f \in Bound(p) |-> Text[sent[f]]]
  BY <1>5, <1>6 DEF Digest
<1>8. received["hash"] = [f \in Bound(p) |-> Text[p[f]]]
  BY <1>3, <1>5 DEF Normalised, Digest
<1>9. ASSUME Text[v] = Text[p["parameters"]]
      PROVE  \A f \in Bound(p) : Text[sent[f]] = Text[p[f]]
  BY <1>3, <1>9
<1>10. ASSUME Digest(received) = received["hash"]
       PROVE  Text[v] = Text[p["parameters"]]
  BY <1>2, <1>3, <1>7, <1>8, <1>10
<1>11. QED
  BY <1>7, <1>8, <1>9, <1>10
=============================================================================

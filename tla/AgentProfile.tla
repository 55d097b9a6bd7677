---------------------------- MODULE AgentProfile ----------------------------
(***************************************************************************)
(* Governed agent profiles: a profile is checked against its parent, the   *)
(* child against the grandchild, and so on; each link is checked on its    *)
(* own, nothing ever looks at a whole chain.  Profiles are compiled for a  *)
(* runtime, and sessions are described from what was compiled.             *)
(*                                                                         *)
(* A profile is a record with the fields of GovernedAgentProfile the checks *)
(* read.  tools and budgets map the names and ids, which are unique, to the *)
(* rest; resources is a sequence, because their keys may repeat; tuples of  *)
(* labels are sets.                                                         *)
(***************************************************************************)
EXTENDS Values, Naturals, Sequences

CONSTANTS
  Profiles,  \* profiles that passed their own validation
  Amounts,   \* amounts of money an action may come with
  Ttls,      \* seconds a session may be asked for
  MaxDepth   \* bound on the length of a chain

Environments == {"sandbox", "live"}

\* What the validators of the models guarantee, as far as it is relied on.
ValidApproval(rule) ==
  /\ rule.threshold # None => rule.threshold \in Nat
  /\ rule.threshold = None <=> rule.currency = None

ValidBudget(budget) ==
  /\ budget.hard_limit \in Nat
  /\ budget.soft_limit # None => /\ budget.soft_limit \in Nat
                                 /\ budget.soft_limit <= budget.hard_limit

ValidProfile(p) ==
  /\ p.resources \in Seq([key : STRING, scope : SUBSET STRING])
  /\ \A b \in DOMAIN p.budgets : ValidBudget(p.budgets[b])
  /\ \A rule \in p.approvals : ValidApproval(rule)
  /\ p.default_ttl \in Nat /\ p.max_ttl \in Nat
  /\ p.default_ttl \in 1..p.max_ttl
  /\ p.default_environment \in Environments
  /\ p.parent # p.id

ASSUME ProfilesAssumption == \A p \in Profiles : ValidProfile(p)
ASSUME NumbersAssumption ==
  /\ Amounts \subseteq Nat /\ Ttls \subseteq Nat /\ None \notin Nat
  /\ MaxDepth \in Nat \ {0}

VARIABLES
  chain,    \* profiles, each checked against the one before it
  session   \* the descriptor made last, or None
vars == <<chain, session>>

-----------------------------------------------------------------------------
\* What assert_child_profile_narrower compares, field by field; p is the
\* parent and c the child.

SamePrincipal(p, c) == /\ c.principal = p.principal
                       /\ c.issuer = p.issuer
                       /\ c.legal_entity = p.legal_entity

PoliciesInherited(p, c) == p.policies \subseteq c.policies

NotPromoted(p, c) ==
  p.default_environment = "sandbox" => c.default_environment = "sandbox"

\* The entry a dictionary built from the resources has for a key: the last.
IsEntry(resources, i) ==
  \A j \in DOMAIN resources : j > i => resources[j].key # resources[i].key

ResourcesNarrowed(p, c) ==
  \A i \in DOMAIN c.resources : \E j \in DOMAIN p.resources :
    /\ IsEntry(p.resources, j)
    /\ p.resources[j].key = c.resources[i].key
    /\ c.resources[i].scope \subseteq p.resources[j].scope

\* Variant: the environments are not compared.
ToolNarrowedAnywhere(parent, child) ==
  /\ child.adapter = parent.adapter
  /\ child.credential = parent.credential
  /\ child.actions \subseteq parent.actions
  /\ child.scope \subseteq parent.scope

ToolNarrowed(parent, child) ==
  /\ child.adapter = parent.adapter
  /\ child.credential = parent.credential
  /\ child.actions \subseteq parent.actions
  /\ child.scope \subseteq parent.scope
  /\ child.environments \subseteq parent.environments

ToolsNarrowed(p, c) ==
  /\ DOMAIN c.tools \subseteq DOMAIN p.tools
  /\ \A t \in DOMAIN c.tools : ToolNarrowed(p.tools[t], c.tools[t])

BudgetNarrowed(parent, child) ==
  /\ child.currency = parent.currency /\ child.window = parent.window
  /\ child.hard_limit <= parent.hard_limit
  /\ parent.soft_limit # None => /\ child.soft_limit # None
                                 /\ child.soft_limit <= parent.soft_limit

\* A child keeps every budget domain and adds none.
BudgetsNarrowed(p, c) ==
  /\ DOMAIN c.budgets = DOMAIN p.budgets
  /\ \A b \in DOMAIN c.budgets : BudgetNarrowed(p.budgets[b], c.budgets[b])

SessionsNarrowed(p, c) == /\ c.default_ttl <= p.default_ttl
                          /\ c.max_ttl <= p.max_ttl

RetainedActions(c) == UNION {c.tools[t].actions : t \in DOMAIN c.tools}

\* Variant: thresholds are compared whatever their currencies are.
AsStrictInFigures(rule, parent) ==
  \/ rule.threshold = None
  \/ /\ parent.threshold # None
     /\ rule.threshold <= parent.threshold

\* rule asks for approval whenever parent does.
AsStrict(rule, parent) ==
  \/ rule.threshold = None
  \/ /\ parent.threshold # None
     /\ rule.currency = parent.currency
     /\ rule.threshold <= parent.threshold

\* For each action the child can still take, each rule of the parent is
\* matched by a rule of the child.
ApprovalsKept(p, c) ==
  \A parent \in p.approvals : \A a \in RetainedActions(c) \cap parent.actions :
    \E rule \in c.approvals : a \in rule.actions /\ AsStrict(rule, parent)

\* Everything assert_child_profile_narrower asks for but the parent's name.
Narrower(p, c) ==
  /\ SamePrincipal(p, c)
  /\ PoliciesInherited(p, c)
  /\ NotPromoted(p, c)
  /\ ResourcesNarrowed(p, c)
  /\ ToolsNarrowed(p, c)
  /\ BudgetsNarrowed(p, c)
  /\ SessionsNarrowed(p, c)
  /\ ApprovalsKept(p, c)

ToolsFor(p, environment) ==
  {t \in DOMAIN p.tools : environment \in p.tools[t].environments}

-----------------------------------------------------------------------------
Init == chain = <<>> /\ session = None

\* load_profile validates a profile by itself.
Load(p) ==
  /\ chain = <<>>
  /\ chain' = <<p>>
  /\ UNCHANGED session

Delegate(c) ==
  /\ Len(chain) \in 1..(MaxDepth - 1)
  /\ c.parent = chain[Len(chain)].id
  /\ Narrower(chain[Len(chain)], c)
  /\ chain' = Append(chain, c)
  /\ UNCHANGED session

\* Variant: what a session is asked to last is not compared with the maximum.
LifetimeAsAsked(p, ttl) == IF ttl = None THEN p.default_ttl ELSE ttl

\* A lifetime build_session_descriptor accepts, or None.
Lifetime(p, ttl) ==
  IF ttl = None THEN p.default_ttl
  ELSE IF ttl \in 1..p.max_ttl THEN ttl ELSE None

\* The profile is compiled for an environment, its default if none is named,
\* and a session is described.
Describe(i, environment, ttl) ==
  LET p == chain[i]
      selected == IF environment = None THEN p.default_environment
                  ELSE environment
  IN  /\ Lifetime(p, ttl) # None
      /\ session' = [holder |-> i, named |-> environment,
                     environment |-> selected, tools |-> ToolsFor(p, selected),
                     ttl |-> Lifetime(p, ttl)]
      /\ UNCHANGED chain

Next ==
  \/ \E p \in Profiles : Load(p) \/ Delegate(p)
  \/ \E i \in 1..Len(chain), e \in Environments \cup {None},
        ttl \in Ttls \cup {None} : Describe(i, e, ttl)

Spec == Init /\ [][Next]_vars

TypeOK ==
  /\ chain \in Seq(Profiles) /\ Len(chain) <= MaxDepth
  /\ session # None =>
       /\ session.holder \in 1..Len(chain)
       /\ session.environment \in Environments
       /\ session.tools \subseteq DOMAIN chain[session.holder].tools
       /\ session.ttl \in Nat \ {0}

-----------------------------------------------------------------------------
\* What a profile lets its agent do, and when it may do so unattended.
Doable(p) ==
  UNION {{t} \X p.tools[t].actions \X p.tools[t].scope
             \X p.tools[t].environments : t \in DOMAIN p.tools}

NeedsApproval(p, action, amount, currency) ==
  \E rule \in p.approvals :
    /\ action \in rule.actions
    /\ \/ rule.threshold = None
       \/ rule.currency = currency /\ amount >= rule.threshold

Currencies(p) == {rule.currency : rule \in p.approvals} \ {None}

Reachable(p) == UNION {{p.resources[i].key} \X p.resources[i].scope :
                         i \in DOMAIN p.resources}

\* c can do nothing that p cannot, and asks for every approval p asks for.
Confined(p, c) ==
  /\ Doable(c) \subseteq Doable(p)
  /\ Reachable(c) \subseteq Reachable(p)
  /\ \A a \in RetainedActions(c), n \in Amounts, currency \in Currencies(p) :
       NeedsApproval(p, a, n, currency) => NeedsApproval(c, a, n, currency)
  /\ c.principal = p.principal /\ p.policies \subseteq c.policies
  /\ \A b \in DOMAIN p.budgets :
       b \in DOMAIN c.budgets
         /\ c.budgets[b].hard_limit <= p.budgets[b].hard_limit

\* Each link of a chain is checked by itself, and yet every profile is
\* confined to every profile above it ("child profiles may only narrow their
\* parent", docs/ARCHITECTURE.md).
ChainStaysNarrow ==
  \A i, j \in 1..Len(chain) : i < j => Confined(chain[i], chain[j])

\* A session of a profile deep in a chain stays within each profile above: it
\* has no tool that a session there, in the same environment, would not have,
\* lasts no longer than one there may, and is a live one below a sandboxed
\* profile only if somebody named the environment.
SessionWithinChain ==
  session # None => \A i \in 1..session.holder :
    /\ session.tools \subseteq ToolsFor(chain[i], session.environment)
    /\ session.ttl <= chain[i].max_ttl
    /\ session.environment = "live" /\ session.named = None
         => chain[i].default_environment = "live"
=============================================================================

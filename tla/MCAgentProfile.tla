--------------------------- MODULE MCAgentProfile ---------------------------
(***************************************************************************)
(* A profile like the one the package ships, what can be narrowed in it    *)
(* and what can be widened, alone and where fields depend on each other,   *)
(* at each of three depths of a chain.                                     *)
(***************************************************************************)
EXTENDS AgentProfile, FiniteSets, TLC

Tool(actions, environments) ==
  [adapter |-> "mcp", credential |-> None, actions |-> actions,
   scope |-> {"network"}, environments |-> environments]

Rule(actions, threshold, currency) ==
  [actions |-> actions, threshold |-> threshold, currency |-> currency]

Resource(key, scope) == [key |-> key, scope |-> scope]

Charge == Rule({"charge"}, 2, "USD")
Post == Rule({"post", "charge"}, 3, "USD")

Root ==
  [id |-> "p0", parent |-> "", principal |-> "operator", issuer |-> "idp",
   legal_entity |-> "urn:entity", policies |-> {"policy"},
   default_environment |-> "sandbox",
   resources |-> <<Resource("db", {"a", "b"})>>,
   tools |-> [search |-> Tool({"search"}, Environments),
              pay |-> Tool({"charge", "post"}, Environments)],
   budgets |-> [month |-> [currency |-> "USD", window |-> "month",
                           hard_limit |-> 3, soft_limit |-> 2]],
   approvals |-> {Charge, Post}, default_ttl |-> 1, max_ttl |-> 2]

Toolsets ==
  {Root.tools,
   [search |-> Tool({"search"}, Environments)],
   [search |-> Tool({"search"}, Environments), pay |-> Tool({"post"}, {"live"})],
   [Root.tools EXCEPT !.pay = Tool({"charge", "post"}, {"sandbox"})],
   [Root.tools EXCEPT !.search = Tool({"search", "charge"}, Environments)]}

Approvals ==
  {Root.approvals,
   {Charge},
   {[Charge EXCEPT !.threshold = None, !.currency = None], Post},
   {[Charge EXCEPT !.threshold = 1], Post},
   {[Charge EXCEPT !.threshold = 3], Post},
   {[Charge EXCEPT !.currency = "EUR"], [Post EXCEPT !.currency = "EUR"]},
   {Rule({"charge", "post", "search"}, 1, "USD")}}

Budgets ==
  {[Root.budgets EXCEPT !.month.hard_limit = 2],
   [Root.budgets EXCEPT !.month.hard_limit = 4],
   [Root.budgets EXCEPT !.month.soft_limit = None],
   [Root.budgets EXCEPT !.month.currency = "EUR"], <<>>}

Resources ==
  {<<>>, <<Resource("db", {"a"})>>,
   <<Resource("db", {"a", "b"}), Resource("db", {"a"})>>,
   <<Resource("db", {"a", "c"})>>, <<Resource("queue", {"a"})>>}

Bases ==
  {[Root EXCEPT !.tools = t, !.approvals = a] : t \in Toolsets, a \in Approvals}
    \cup {[Root EXCEPT !.budgets = b] : b \in Budgets}
    \cup {[Root EXCEPT !.resources = r] : r \in Resources}
    \cup {[Root EXCEPT !.default_environment = "live"],
          [Root EXCEPT !.default_environment = "live", !.max_ttl = 1],
          [Root EXCEPT !.policies = {"policy", "stricter"}],
          [Root EXCEPT !.policies = {"stricter"}],
          [Root EXCEPT !.principal = "other"],
          [Root EXCEPT !.max_ttl = 1],
          [Root EXCEPT !.max_ttl = 3]}

MCProfiles ==
  Bases \cup {[b EXCEPT !.id = "p1", !.parent = "p0"] : b \in Bases}
        \cup {[b EXCEPT !.id = "p2", !.parent = "p1"] : b \in Bases}
=============================================================================

-------------------------- MODULE MCResourceLedger --------------------------
(***************************************************************************)
(* A fleet budget shared by two team budgets that together could exceed    *)
(* it, a budget that caps each action, and a registration that must be     *)
(* refused.                                                                *)
(***************************************************************************)
EXTENDS ResourceLedger, TLC
CONSTANTS x1, x2, w1, w2

Node(id, dimension, limit, mode, parent) ==
  [id |-> id, dimension |-> dimension, limit |-> limit, mode |-> mode,
   parent |-> parent]

Fleet == Node("fleet", "usd", 3, "cumulative", NoBudget)
Team1 == Node("team1", "usd", 2, "cumulative", "fleet")
Team2 == Node("team2", "usd", 2, "cumulative", "fleet")
Depth == Node("depth", "hops", 1, "max_per_action", NoBudget)
WiderTeam == Node("team1", "usd", 4, "cumulative", "fleet")

MCCatalogue == {Fleet, Team1, Team2, Depth, WiderTeam}

\* Windows are interchangeable, and so are bindings.
MCWindows == {w1, w2}
MCBindings == {x1, x2}
Symmetry == Permutations(MCWindows) \cup Permutations(MCBindings)
=============================================================================

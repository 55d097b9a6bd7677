--------------------------- MODULE OneShotPermit ----------------------------
(***************************************************************************)
(* What the gateway promises of a permit, seen from outside: it is spent   *)
(* durably, then at most one call acts on it, then at most that call       *)
(* leaves evidence, and nothing acts on it afterwards                      *)
(* (docs/ARCHITECTURE.md, execution invariants 3 and 4).                   *)
(***************************************************************************)
CONSTANTS Permits, Calls

VARIABLES spent,     \* permits that can never again be claimed
          doers,     \* doers[p]: the calls whose effector acted under p
          evidence   \* evidence[p]: the calls that returned a receipt for p

permitVars == <<spent, doers, evidence>>

Init == /\ spent = {}
        /\ doers = [p \in Permits |-> {}]
        /\ evidence = [p \in Permits |-> {}]

\* A dying process may spend several permits at once without using them.
Spend(S) == /\ S \cap spent = {}
            /\ spent' = spent \cup S
            /\ UNCHANGED <<doers, evidence>>

Act(p, c) == /\ p \in spent
             /\ doers[p] = {}
             /\ evidence[p] = {}
             /\ doers' = [doers EXCEPT ![p] = {c}]
             /\ UNCHANGED <<spent, evidence>>

\* A failed execution leaves evidence too, without having acted.
Testify(p, c) == /\ p \in spent
                 /\ doers[p] \subseteq {c}
                 /\ evidence[p] = {}
                 /\ evidence' = [evidence EXCEPT ![p] = {c}]
                 /\ UNCHANGED <<spent, doers>>

Next == \/ \E S \in SUBSET Permits : Spend(S)
        \/ \E p \in Permits, c \in Calls : Act(p, c) \/ Testify(p, c)

Spec == Init /\ [][Next]_permitVars
=============================================================================

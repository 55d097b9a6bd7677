---------------------------- MODULE MCGovernedLoop ---------------------------
(***************************************************************************)
(* Guidance that proposes the higher of two limits; two actions, two       *)
(* permits and two children, which differ in nothing but their names.      *)
(***************************************************************************)
EXTENDS GovernedLoop, TLC
CONSTANT g2

MCAmounts == g2 :> 2

MCSymmetry == Permutations(Actions) \cup Permutations(Permits)
                \cup Permutations(Children)
=============================================================================

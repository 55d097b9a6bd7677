----------------------- MODULE MCCapabilityFrontDoor -----------------------
(***************************************************************************)
(* An effect that is verified both ways and a read, one handle that can be *)
(* bound to either of two principals, two threads.                         *)
(***************************************************************************)
EXTENDS CapabilityFrontDoor, TLC
CONSTANTS i1, i2, t1, t2, alice, bob

Submit == [name |-> "submit", risk |-> "effect", policy |-> "pre_post",
           verifies |-> TRUE]
Search == [name |-> "search", risk |-> "read", policy |-> "mechanical",
           verifies |-> FALSE]

MCCapabilities == {Submit, Search}
MCIds == {i1, i2}
MCThreads == {t1, t2}
MCPrincipals == {alice, bob}

Symmetry == Permutations(MCIds) \cup Permutations(MCThreads)
              \cup Permutations(MCPrincipals)
=============================================================================

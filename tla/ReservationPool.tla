-------------------------- MODULE ReservationPool ---------------------------
(***************************************************************************)
(* What execute relies on a resource ledger for, whatever the amounts: a   *)
(* reservation is granted once, is outstanding until a call spends it, and *)
(* is never outstanding again.  A process that dies loses what is          *)
(* outstanding; what was spent stays spent.                                *)
(***************************************************************************)
CONSTANT Reservations

VARIABLES outstanding, spent

poolVars == <<outstanding, spent>>

Init == outstanding = {} /\ spent = {}

Grant(r) == /\ r \notin outstanding \cup spent
            /\ outstanding' = outstanding \cup {r}
            /\ UNCHANGED spent

\* All the reservations of one call, or those before the one it failed at.
Spend(S) == /\ S \subseteq outstanding
            /\ outstanding' = outstanding \ S
            /\ spent' = spent \cup S

Forget == outstanding' = {} /\ UNCHANGED spent

Next == \/ \E r \in Reservations : Grant(r)
        \/ \E S \in SUBSET Reservations : Spend(S)
        \/ Forget

Spec == Init /\ [][Next]_poolVars
=============================================================================

--------------------------- MODULE ResourceLedger ---------------------------
(***************************************************************************)
(* ResourceBudgetLedger: hierarchical resource budgets, their outstanding  *)
(* reservations and what has been consumed, per accounting window.  Every  *)
(* method runs under the ledger's RLock, so each is one action; the state  *)
(* is that of one process.  A method that raises before it changes state   *)
(* is a step that does not happen.                                         *)
(*                                                                         *)
(*   budget       [id, dimension, limit, mode, parent]                     *)
(*   reservation  [id, budget, window, dimension, amount, bound, issued]   *)
(*                                                                         *)
(* A reservation is bound to an action digest, a clearance id and a permit *)
(* id; the three are always compared together and are one value here.      *)
(***************************************************************************)
EXTENDS Integers, FiniteSets, FiniteSetsExt

CONSTANTS
  Catalogue,   \* budgets the host may try to register
  Windows,     \* accounting windows
  Amounts,     \* amounts callers ask for
  Bindings,    \* (action, clearance, permit) triples
  Times,       \* moments callers pass, or utcnow gives, as now
  NoBudget,    \* the parent of a root budget
  MaxReservations  \* bound on the reservations ever made

ASSUME AmountAssumption == Amounts \subseteq Nat \ {0}
ASSUME TimeAssumption == Times \subseteq Nat
ASSUME CatalogueAssumption ==
  /\ NoBudget \notin {b.id : b \in Catalogue}
  /\ \A b \in Catalogue : b.limit \in Nat \ {0} /\ b.parent # b.id
ASSUME BoundAssumption == MaxReservations \in Nat

VARIABLES
  registered,  \* the ledger's budgets
  pending,     \* outstanding reservations
  committed,   \* consumed amount by budget and window
  issued,      \* history: every reservation reserve has returned
  settled,     \* history: the sets consumed by calls that returned
  burned       \* history: reservations consumed by calls that raised

vars == <<registered, pending, committed, issued, settled, burned>>

BudgetIds == {b.id : b \in Catalogue}
Accounts == BudgetIds \X Windows

Reservation == [id : 1..MaxReservations, budget : BudgetIds, window : Windows,
                dimension : {b.dimension : b \in Catalogue},
                amount : Amounts, bound : Bindings, issued : Times]

TypeOK ==
  /\ registered \subseteq Catalogue
  /\ pending \subseteq Reservation
  /\ committed \in [Accounts -> Nat]
  /\ issued \subseteq Reservation
  /\ settled \subseteq SUBSET Reservation
  /\ burned \subseteq Reservation

Init == /\ registered = {}
        /\ pending = {}
        /\ committed = [a \in Accounts |-> 0]
        /\ issued = {}
        /\ settled = {}
        /\ burned = {}

-----------------------------------------------------------------------------
RegisteredIds == {b.id : b \in registered}
Budget(id) == CHOOSE b \in registered : b.id = id

\* A budget and its ancestors; register keeps the parent relation acyclic.
Chain(id) ==
  LET up[i \in RegisteredIds] ==
        {i} \cup IF Budget(i).parent = NoBudget THEN {} ELSE up[Budget(i).parent]
  IN  up[id]

Total(S) == MapThenSumSet(LAMBDA r : r.amount, S)

\* The reservations of S that count against budget id in window w.
Against(S, id, w) == {r \in S : r.window = w /\ id \in Chain(r.budget)}

PendingAmount(id, w) == Total(Against(pending, id, w))

Cumulative(id) == Budget(id).mode = "cumulative"

\* remaining() and the remaining of snapshot()
Remaining(id, w) ==
  LET left == Budget(id).limit - committed[<<id, w>>] - PendingAmount(id, w)
  IN  IF ~Cumulative(id) THEN Budget(id).limit
      ELSE IF left > 0 THEN left ELSE 0

-----------------------------------------------------------------------------
\* A child budget copies its parent's dimension and mode and never widens it.
Register(b) ==
  /\ b.id \notin RegisteredIds
  /\ b.parent # NoBudget =>
       /\ b.parent \in RegisteredIds
       /\ b.dimension = Budget(b.parent).dimension
       /\ b.mode = Budget(b.parent).mode
       /\ b.limit <= Budget(b.parent).limit
  /\ registered' = registered \cup {b}
  /\ UNCHANGED <<pending, committed, issued, settled, burned>>

\* Variant: outstanding reservations do not count.
HasRoomOfCommitted(id, w, amount) ==
  IF Cumulative(id)
  THEN committed[<<id, w>>] + amount <= Budget(id).limit
  ELSE amount <= Budget(id).limit

\* Every budget of the chain has room for the amount.
HasRoom(id, w, amount) ==
  IF Cumulative(id)
  THEN committed[<<id, w>>] + PendingAmount(id, w) + amount <= Budget(id).limit
  ELSE amount <= Budget(id).limit

\* Variant: a new reservation replaces the earlier ones for the same permit.
ReserveReplaces(id, w, amount, bound, now) ==
  /\ Cardinality(issued) < MaxReservations
  /\ id \in RegisteredIds
  /\ \A k \in Chain(id) : HasRoom(k, w, amount)
  /\ LET r == [id |-> Cardinality(issued) + 1, budget |-> id, window |-> w,
               dimension |-> Budget(id).dimension, amount |-> amount,
               bound |-> bound, issued |-> now]
     IN  /\ pending' = {p \in pending : p.bound # bound} \cup {r}
         /\ issued' = issued \cup {r}
  /\ UNCHANGED <<registered, committed, settled, burned>>

Reserve(id, w, amount, bound, now) ==
  /\ Cardinality(issued) < MaxReservations
  /\ id \in RegisteredIds
  /\ \A k \in Chain(id) : HasRoom(k, w, amount)
  /\ LET r == [id |-> Cardinality(issued) + 1, budget |-> id, window |-> w,
               dimension |-> Budget(id).dimension, amount |-> amount,
               bound |-> bound, issued |-> now]
     IN  /\ pending' = pending \cup {r}
         /\ issued' = issued \cup {r}
  /\ UNCHANGED <<registered, committed, settled, burned>>

\* Variant: a reservation is recognised by its id alone.
PresentedById(P, expected, bound) ==
  /\ {r.budget : r \in P} = expected
  /\ \A r, s \in P : r.budget = s.budget => r = s
  /\ \A r \in P : /\ \E p \in pending : p.id = r.id
                  /\ r.budget \in RegisteredIds
                  /\ r.bound = bound

\* The checks of consume_many, all made before anything changes.
Presented(P, expected, bound) ==
  /\ {r.budget : r \in P} = expected
  /\ \A r, s \in P : r.budget = s.budget => r = s
  /\ \A r \in P : /\ r \in pending
                  /\ r.budget \in RegisteredIds
                  /\ expected \cap (Chain(r.budget) \ {r.budget}) = {}
                  /\ r.dimension = Budget(r.budget).dimension
                  /\ r.bound = bound

\* Variant: only the reserved budget is charged, not its ancestors.
SettleOwnBudget(S) ==
  /\ pending' = {p \in pending : \A r \in S : p.id # r.id}
  /\ committed' = [a \in Accounts |->
       committed[a] + Total({r \in S : <<r.budget, r.window>> = a})]

\* Variant: settling gives back instead of charging.
SettleRefunds(S) ==
  /\ pending' = {p \in pending : \A r \in S : p.id # r.id}
  /\ committed' = [a \in Accounts |->
       committed[a] - Total(Against(S, a[1], a[2]))]

\* The loop of consume_many over the reservations S: each leaves pending and
\* is added to every cumulative budget of its chain.
Settle(S) ==
  /\ pending' = {p \in pending : \A r \in S : p.id # r.id}
  /\ committed' = [a \in Accounts |->
       IF a[1] \in RegisteredIds /\ Cumulative(a[1])
       THEN committed[a] + Total(Against(S, a[1], a[2]))
       ELSE committed[a]]

\* ConsumedResourceReservation refuses a moment before the issuance.
Late(S, now) == {r \in S : now < r.issued}

ConsumeMany(P, expected, bound, now) ==
  /\ Presented(P, expected, bound)
  /\ Late(P, now) = {}
  /\ Settle(P)
  /\ settled' = settled \cup {P}
  /\ UNCHANGED <<registered, issued, burned>>

\* With a late reservation the loop raises there, after it has settled that
\* reservation and those before it in the caller's tuple.
ConsumeManyRaises(P, expected, bound, now) ==
  /\ Presented(P, expected, bound)
  /\ \E late \in Late(P, now), before \in SUBSET (P \ Late(P, now)) :
       LET S == before \cup {late} IN
       /\ Settle(S)
       /\ burned' = burned \cup S
  /\ UNCHANGED <<registered, issued, settled>>

-----------------------------------------------------------------------------
\* A caller presents at most MaxReservations reservations it was given, or
\* copies with another amount, for an action that names their budgets (for any
\* other it is refused).
Presentable ==
  issued \cup {[r EXCEPT !.amount = a] : r \in issued, a \in Amounts}

Next ==
  \/ \E b \in Catalogue : Register(b)
  \/ \E id \in BudgetIds, w \in Windows, a \in Amounts, x \in Bindings,
        now \in Times : Reserve(id, w, a, x, now)
  \/ \E P \in SUBSET Presentable :
       /\ P # {} /\ Cardinality(P) <= MaxReservations
       /\ \E x \in Bindings, now \in Times :
            LET named == {r.budget : r \in P} IN
            \/ ConsumeMany(P, named, x, now)
            \/ ConsumeManyRaises(P, named, x, now)

Spec == Init /\ [][Next]_vars

-----------------------------------------------------------------------------
Consumed == burned \cup UNION settled

\* No interleaving of registrations, reservations and consumptions takes a
\* cumulative budget, at any level of the hierarchy, over its hard limit in
\* any window (the check in reserve, resource_budget.py 153-164).
HardLimitHolds ==
  \A id \in RegisteredIds, w \in Windows :
    Cumulative(id) =>
      committed[<<id, w>>] + PendingAmount(id, w) <= Budget(id).limit

\* The running totals are exactly what was consumed below each budget: no
\* amount is lost, counted twice or counted in another window or branch.
CommittedIsConsumed ==
  \A id \in RegisteredIds, w \in Windows :
    Cumulative(id) =>
      committed[<<id, w>>] = Total(Against(Consumed, id, w))

\* What remains of a budget never grows within a window: consumption turns
\* pending into committed, and nothing gives an amount back.
RemainingNeverGrows ==
  [][\A id \in RegisteredIds, w \in Windows :
       Remaining(id, w)' <= Remaining(id, w)]_vars

\* A reservation is consumed as it was reserved and never twice: an altered
\* copy is refused, and nothing consumed is still or again outstanding.
ConsumedAsReserved ==
  /\ Consumed \subseteq issued
  /\ \A r \in Consumed, p \in pending : r.id # p.id
  /\ \A S, T \in settled : S # T => S \cap T = {}
  /\ burned \cap UNION settled = {}

\* The ledger is a pool of reservations.
Pool == INSTANCE ReservationPool WITH Reservations <- Reservation,
                                      outstanding <- pending,
                                      spent <- Consumed

ImplementsPool == Pool!Spec
=============================================================================

------------------------ MODULE ResourceLedger_proofs ------------------------
(***************************************************************************)
(* The hard limits of the ledger for any tree of budgets, any number of    *)
(* reservations and any amounts.  Totals and ancestor paths are defined by *)
(* recursion, over finite sets and over the parent relation.  What is said *)
(* of all of them is proved by looking at a smallest one that fails.       *)
(***************************************************************************)
EXTENDS ResourceLedger, FiniteSetTheorems, TLAPS

\* A smallest member of a set of naturals, and of a set of finite sets.
LEMMA LeastNatural ==
  ASSUME NEW T, T \subseteq Nat, T # {}
  PROVE  \E n \in T : \A m \in T : n <= m
<1> DEFINE R == OpToRel(<, Nat)
<1>1. \E n \in T : \A m \in T : ~ (<<m, n>> \in R)
  BY NatLessThanWellFounded, WFMin
<1>2. \A m, n \in T : m < n => <<m, n>> \in R
  BY DEF OpToRel
<1> HIDE DEF R
<1>3. PICK n \in T : \A m \in T : ~ (<<m, n>> \in R)
  BY <1>1
<1>4. \A m \in T : ~ (m < n)
  BY <1>2, <1>3
<1>5. QED
  BY <1>4

LEMMA SmallestSubset ==
  ASSUME NEW S, IsFiniteSet(S), NEW B, B \subseteq SUBSET S, B # {}
  PROVE  \E T \in B : \A U \in B : U \subseteq T => U = T
<1> DEFINE R == StrictSubsetOrdering(S)
<1>1. IsWellFoundedOn(R, SUBSET S)
  BY FS_StrictSubsetOrderingWellFounded, FS_FiniteSubsetsOfFinite
<1>2. PICK T \in B : \A U \in B : ~ (<<U, T>> \in R)
  <2> HIDE DEF R
  <2>1. QED
    BY <1>1, WFMin
<1>3. QED
  BY <1>2 DEF StrictSubsetOrdering

-----------------------------------------------------------------------------
\* Total, by the recursion its definition comes down to.
Added(f, s) == LET x == CHOOSE x \in s : TRUE
               IN  x.amount + f[s \ {x}]
SumOf(f, S) == f = [s \in SUBSET S |-> IF s = {} THEN 0 ELSE Added(f, s)]

LEMMA TotalIsSum ==
  ASSUME NEW S
  PROVE  Total(S) = (CHOOSE f : SumOf(f, S))[S]
BY DEF Total, MapThenSumSet, MapThenFoldSet, SumOf, Added

LEMMA SumExists ==
  ASSUME NEW S, IsFiniteSet(S)
  PROVE  \E f : SumOf(f, S)
<1> DEFINE Good(f, n) == \A s \in SUBSET S :
             Cardinality(s) <= n => f[s] = IF s = {} THEN 0 ELSE Added(f, s)
           Bad == {n \in Nat : ~ \E f : Good(f, n)}
<1>1. \A s \in SUBSET S :
        /\ IsFiniteSet(s) /\ Cardinality(s) \in Nat
        /\ Cardinality(s) <= Cardinality(S)
        /\ Cardinality(s) = 0 <=> s = {}
  BY FS_Subset, FS_CardinalityType, FS_EmptySet
<1>2. \A s \in SUBSET S : s # {} =>
        LET x == CHOOSE x \in s : TRUE
        IN  x \in s /\ s \ {x} \in SUBSET S
              /\ Cardinality(s \ {x}) = Cardinality(s) - 1
  BY <1>1, FS_RemoveElement
<1>3. Bad = {}
  <2>1. SUFFICES ASSUME NEW n \in Bad, \A m \in Bad : n <= m PROVE FALSE
    BY LeastNatural
  <2>2. CASE n = 0
    <3> DEFINE f == [s \in SUBSET S |-> 0]
    <3>1. Good(f, n)
      BY <1>1, <2>2
    <3>2. QED
      BY <3>1
  <2>3. CASE n # 0
    <3>1. n - 1 \in Nat /\ n - 1 \notin Bad
      BY <2>1, <2>3
    <3>2. PICK g : Good(g, n - 1)
      BY <3>1
    <3> DEFINE f == [s \in SUBSET S |-> IF s = {} THEN 0
                       ELSE IF Cardinality(s) < n THEN g[s] ELSE Added(g, s)]
    <3>3. ASSUME NEW s \in SUBSET S, Cardinality(s) <= n, s # {}
          PROVE  f[s] = Added(f, s)
      <4> DEFINE x == CHOOSE x \in s : TRUE
      <4>1. /\ s \ {x} \in SUBSET S /\ Cardinality(s) \in Nat
            /\ Cardinality(s \ {x}) = Cardinality(s) - 1
        BY <1>1, <1>2, <3>3
      <4>2. f[s \ {x}] = g[s \ {x}]
        <5>1. Cardinality(s \ {x}) <= n - 1 /\ Cardinality(s \ {x}) < n
          BY <3>3, <4>1
        <5>2. s \ {x} = {} => g[s \ {x}] = 0
          BY <3>2, <4>1, <5>1
        <5>3. QED
          BY <4>1, <5>1, <5>2
      <4>3. Added(f, s) = Added(g, s)
        BY <4>2 DEF Added
      <4>4. f[s] = Added(g, s)
        BY <3>2, <3>3, <4>1
      <4>5. QED
        BY <4>3, <4>4
    <3>4. Good(f, n)
      BY <3>3
    <3>5. QED
      BY <3>4
  <2>4. QED
    BY <2>2, <2>3
<1>4. PICK g : Good(g, Cardinality(S))
  BY <1>1, <1>3
<1> DEFINE f == [s \in SUBSET S |-> g[s]]
<1>5. \A s \in SUBSET S : s # {} => Added(f, s) = Added(g, s)
  BY <1>2 DEF Added
<1>6. SumOf(f, S)
  BY <1>1, <1>4, <1>5 DEF SumOf
<1>7. QED
  BY <1>6

\* The recursive equation of Total.
LEMMA TotalUnfolds ==
  ASSUME NEW S, IsFiniteSet(S)
  PROVE  Total(S) = IF S = {} THEN 0
                    ELSE LET x == CHOOSE x \in S : TRUE
                         IN  x.amount + Total(S \ {x})
<1> DEFINE f == CHOOSE f : SumOf(f, S)
           x == CHOOSE x \in S : TRUE
           T == S \ {x}
           g == CHOOSE g : SumOf(g, T)
<1>1. SumOf(f, S) /\ Total(S) = f[S]
  BY SumExists, TotalIsSum
<1>2. IsFiniteSet(T)
  BY FS_RemoveElement
<1>3. SumOf(g, T) /\ Total(T) = g[T]
  BY <1>2, SumExists, TotalIsSum
<1>4. f[T] = g[T]
  <2> DEFINE Bad == {s \in SUBSET T : f[s] # g[s]}
  <2> HIDE DEF f, g
  <2>0. SUFFICES ASSUME Bad # {} PROVE FALSE
    OBVIOUS
  <2>1. PICK s \in Bad : \A u \in Bad : u \subseteq s => u = s
    <3>1. Bad \subseteq SUBSET T
      OBVIOUS
    <3> HIDE DEF Bad
    <3>2. QED
      BY <1>2, <2>0, <3>1, SmallestSubset
  <2>2. s # {} /\ s \in SUBSET S
    BY <1>1, <1>3 DEF SumOf
  <2> DEFINE y == CHOOSE y \in s : TRUE
  <2>3. y \in s /\ s \ {y} \in SUBSET T /\ s \ {y} \in SUBSET S
    BY <2>2
  <2>4. f[s \ {y}] = g[s \ {y}]
    BY <2>1, <2>3
  <2>5. f[s] = Added(f, s) /\ g[s] = Added(g, s)
    BY <1>1, <1>3, <2>2 DEF SumOf
  <2>6. QED
    BY <2>4, <2>5 DEF Added
<1>5. S # {} => f[S] = Added(f, S)
  <2> HIDE DEF f
  <2>1. QED
    BY <1>1 DEF SumOf
<1>6. S = {} => f[S] = 0
  <2> HIDE DEF f
  <2>1. QED
    BY <1>1 DEF SumOf
<1>7. QED
  BY <1>1, <1>3, <1>4, <1>5, <1>6 DEF Added

\* Totals of sets of records with amounts in Nat are what one expects.
LEMMA TotalEmpty == Total({}) = 0
BY TotalUnfolds, FS_EmptySet

LEMMA TotalType ==
  ASSUME NEW S, IsFiniteSet(S), \A r \in S : r.amount \in Nat
  PROVE  Total(S) \in Nat
<1> DEFINE Bad == {s \in SUBSET S : Total(s) \notin Nat}
<1>1. SUFFICES ASSUME Bad # {} PROVE FALSE
  OBVIOUS
<1>2. PICK s \in Bad : \A u \in Bad : u \subseteq s => u = s
  <2>1. Bad \subseteq SUBSET S
    OBVIOUS
  <2> HIDE DEF Bad
  <2>2. QED
    BY <1>1, <2>1, SmallestSubset
<1>3. s \in SUBSET S /\ IsFiniteSet(s) /\ Total(s) \notin Nat
  BY FS_Subset
<1>4. PICK x \in s : Total(s) = x.amount + Total(s \ {x})
  <2>1. s # {}
    BY <1>3, TotalEmpty
  <2>2. QED
    BY <1>3, <2>1, TotalUnfolds
<1>5. Total(s \ {x}) \in Nat /\ x.amount \in Nat
  BY <1>2, <1>3
<1>6. QED
  BY <1>3, <1>4, <1>5

LEMMA TotalRemove ==
  ASSUME NEW S, IsFiniteSet(S), \A r \in S : r.amount \in Nat, NEW x \in S
  PROVE  Total(S) = x.amount + Total(S \ {x})
<1> DEFINE Holds(s) == \A z \in s : Total(s) = z.amount + Total(s \ {z})
           Bad == {s \in SUBSET S : ~ Holds(s)}
<1>1. SUFFICES ASSUME Bad # {} PROVE FALSE
  OBVIOUS
<1>2. PICK s \in Bad : \A u \in Bad : u \subseteq s => u = s
  <2>1. Bad \subseteq SUBSET S
    OBVIOUS
  <2> HIDE DEF Bad
  <2>2. QED
    BY <1>1, <2>1, SmallestSubset
<1>3. PICK z \in s : Total(s) # z.amount + Total(s \ {z})
  OBVIOUS
<1>4. \A u \in SUBSET S : IsFiniteSet(u) /\ Total(u) \in Nat
  BY FS_Subset, TotalType
<1>5. PICK y \in s : Total(s) = y.amount + Total(s \ {y})
  BY <1>3, <1>4, TotalUnfolds
<1>6. /\ Total(s \ {y}) = z.amount + Total((s \ {y}) \ {z})
      /\ Total(s \ {z}) = y.amount + Total((s \ {z}) \ {y})
  <2>1. z # y
    BY <1>3, <1>5
  <2>2. Holds(s \ {y}) /\ Holds(s \ {z})
    BY <1>2
  <2>3. QED
    BY <2>1, <2>2
<1>7. (s \ {y}) \ {z} = (s \ {z}) \ {y}
  OBVIOUS
<1>8. /\ y.amount \in Nat /\ z.amount \in Nat
      /\ Total((s \ {z}) \ {y}) \in Nat
  BY <1>4
<1>9. QED
  BY <1>3, <1>5, <1>6, <1>7, <1>8

LEMMA TotalUnion ==
  ASSUME NEW S, IsFiniteSet(S), NEW T, IsFiniteSet(T), S \cap T = {},
         \A r \in S \cup T : r.amount \in Nat
  PROVE  Total(S \cup T) = Total(S) + Total(T)
<1> DEFINE Bad == {t \in SUBSET T : Total(S \cup t) # Total(S) + Total(t)}
<1>1. SUFFICES ASSUME Bad # {} PROVE FALSE
  OBVIOUS
<1>2. PICK t \in Bad : \A u \in Bad : u \subseteq t => u = t
  <2>1. Bad \subseteq SUBSET T
    OBVIOUS
  <2> HIDE DEF Bad
  <2>2. QED
    BY <1>1, <2>1, SmallestSubset
<1>3. \A u \in SUBSET T : /\ IsFiniteSet(u) /\ IsFiniteSet(S \cup u)
                          /\ Total(u) \in Nat
  BY FS_Subset, FS_Union, TotalType
<1>4. Total(S) \in Nat
  BY TotalType
<1>5. PICK x : x \in t
  <2>1. S \cup {} = S
    OBVIOUS
  <2>2. t # {}
    BY <1>4, <2>1, TotalEmpty
  <2>3. QED
    BY <2>2
<1>6. Total(t) = x.amount + Total(t \ {x})
  BY <1>3, <1>5, TotalRemove
<1>7. Total(S \cup t) = x.amount + Total(S \cup (t \ {x}))
  <2>1. (S \cup t) \ {x} = S \cup (t \ {x})
    BY <1>5
  <2>2. QED
    BY <1>3, <1>5, <2>1, TotalRemove
<1>8. Total(S \cup (t \ {x})) = Total(S) + Total(t \ {x})
  BY <1>2, <1>5
<1>9. x.amount \in Nat /\ Total(t \ {x}) \in Nat
  BY <1>3, <1>5
<1>10. QED
  BY <1>4, <1>6, <1>7, <1>8, <1>9

-----------------------------------------------------------------------------
\* The registered budgets form a forest: ids are unique, parents registered,
\* and every set of budgets has one whose parent is outside of it.
Parent(i) == Budget(i).parent

Forest ==
  /\ registered \subseteq Catalogue
  /\ \A b, c \in registered : b.id = c.id => b = c
  /\ \A b \in registered : b.parent # NoBudget => b.parent \in RegisteredIds
  /\ \A T \in SUBSET RegisteredIds :
       T # {} => \E i \in T : Parent(i) \notin T

LEMMA BudgetOf ==
  ASSUME Forest
  PROVE  /\ \A b \in registered : b.id \in RegisteredIds /\ Budget(b.id) = b
         /\ \A i \in RegisteredIds : Budget(i) \in registered /\ Budget(i).id = i
         /\ \A i \in RegisteredIds :
              Parent(i) = NoBudget \/ Parent(i) \in RegisteredIds
         /\ RegisteredIds \subseteq BudgetIds /\ NoBudget \notin RegisteredIds
<1>1. \A i \in RegisteredIds : Budget(i) \in registered /\ Budget(i).id = i
  BY DEF RegisteredIds, Budget
<1>2. \A b \in registered : b.id \in RegisteredIds
  BY DEF RegisteredIds
<1>3. \A b \in registered : Budget(b.id) = b
  BY <1>1, <1>2 DEF Forest
<1>4. RegisteredIds \subseteq BudgetIds /\ NoBudget \notin BudgetIds
  BY CatalogueAssumption DEF Forest, RegisteredIds, BudgetIds
<1>5. QED
  BY <1>1, <1>2, <1>3, <1>4 DEF Forest, Parent

\* Chain, by its recursion.
PathOf(f) ==
  f = [i \in RegisteredIds |->
         {i} \cup IF Parent(i) = NoBudget THEN {} ELSE f[Parent(i)]]

LEMMA ChainIsPath ==
  ASSUME NEW i
  PROVE  Chain(i) = (CHOOSE f : PathOf(f))[i]
BY DEF Chain, PathOf, Parent

\* The least sets that are closed under parents satisfy it.
LEMMA PathExists ==
  ASSUME Forest
  PROVE  \E f : PathOf(f)
<1> DEFINE Closed(C) == \A j \in C : Parent(j) # NoBudget => Parent(j) \in C
           Up(i) == {k \in RegisteredIds : \A C \in SUBSET RegisteredIds :
                                             i \in C /\ Closed(C) => k \in C}
           f == [i \in RegisteredIds |-> Up(i)]
<1>1. \A i \in RegisteredIds : i \in Up(i) /\ Up(i) \in SUBSET RegisteredIds
  OBVIOUS
<1>2. \A i \in RegisteredIds : Closed(Up(i))
  BY BudgetOf
<1>3. ASSUME NEW i \in RegisteredIds, Parent(i) = NoBudget
      PROVE  Up(i) = {i}
  <2>1. {i} \in SUBSET RegisteredIds /\ Closed({i})
    BY <1>3
  <2>2. QED
    BY <1>1, <2>1
<1>4. ASSUME NEW i \in RegisteredIds, Parent(i) # NoBudget
      PROVE  Up(i) = {i} \cup Up(Parent(i))
  <2>1. Parent(i) \in RegisteredIds
    BY <1>4, BudgetOf
  <2>2. /\ {i} \cup Up(Parent(i)) \in SUBSET RegisteredIds
        /\ Closed({i} \cup Up(Parent(i)))
    BY <1>1, <1>2, <2>1
  <2>3. Up(i) \subseteq {i} \cup Up(Parent(i))
    BY <2>2
  <2>4. Up(Parent(i)) \subseteq Up(i)
    BY <1>1, <1>2, <1>4
  <2>5. QED
    BY <1>1, <2>3, <2>4
<1>5. PathOf(f)
  <2>1. \A i \in RegisteredIds :
          Up(i) = {i} \cup IF Parent(i) = NoBudget THEN {} ELSE f[Parent(i)]
    BY <1>3, <1>4, BudgetOf
  <2> HIDE DEF Up
  <2>2. QED
    BY <2>1 DEF PathOf
<1>6. QED
  BY <1>5

\* The recursive equation of Chain.
LEMMA ChainUnfolds ==
  ASSUME Forest, NEW i \in RegisteredIds
  PROVE  Chain(i) = {i} \cup IF Parent(i) = NoBudget THEN {} ELSE Chain(Parent(i))
<1> DEFINE f == CHOOSE f : PathOf(f)
<1>1. PathOf(f)
  BY PathExists
<1>2. \A j : Chain(j) = f[j]
  BY ChainIsPath
<1> HIDE DEF f
<1>3. f[i] = {i} \cup IF Parent(i) = NoBudget THEN {} ELSE f[Parent(i)]
  BY <1>1 DEF PathOf
<1>4. QED
  BY <1>2, <1>3

ChainEquation ==
  Forest => \A i \in RegisteredIds : \A p :
    p = Parent(i) => Chain(i) = {i} \cup IF p = NoBudget THEN {} ELSE Chain(p)

LEMMA ChainUnfoldsNext == ChainEquation'
<1>1. ChainEquation
  BY ChainUnfolds DEF ChainEquation
<1>2. QED
  BY <1>1, PTL

\* A chain begins with its budget, consists of registered budgets, and contains
\* the chain of each of its members.
LEMMA ChainFacts ==
  ASSUME Forest
  PROVE  \A i \in RegisteredIds :
           /\ i \in Chain(i) /\ Chain(i) \subseteq RegisteredIds
           /\ \A k \in Chain(i) : Chain(k) \subseteq Chain(i)
<1> DEFINE Fact(i) == /\ Chain(i) \subseteq RegisteredIds
                      /\ \A k \in Chain(i) : Chain(k) \subseteq Chain(i)
           Bad == {i \in RegisteredIds : ~ Fact(i)}
<1>1. \A i \in RegisteredIds : i \in Chain(i)
  BY ChainUnfolds
<1>2. Bad = {}
  <2>1. SUFFICES ASSUME Bad # {} PROVE FALSE
    OBVIOUS
  <2>2. PICK i \in Bad : Parent(i) \notin Bad
    BY <2>1 DEF Forest
  <2>3. CASE Parent(i) = NoBudget
    BY <2>2, <2>3, ChainUnfolds
  <2>4. CASE Parent(i) # NoBudget
    <3>1. Parent(i) \in RegisteredIds /\ Fact(Parent(i))
      BY <2>2, <2>4, BudgetOf
    <3>2. Chain(i) = {i} \cup Chain(Parent(i))
      BY <2>4, ChainUnfolds
    <3>3. Fact(i)
      BY <3>1, <3>2
    <3>4. QED
      BY <3>3
  <2>5. QED
    BY <2>3, <2>4
<1>3. QED
  BY <1>1, <1>2

-----------------------------------------------------------------------------
\* Registration adds a leaf: the forest stays one, and no chain changes.
LEMMA RegisterKeepsForest ==
  ASSUME Forest, NEW b \in Catalogue, Register(b)
  PROVE  /\ Forest'
         /\ RegisteredIds' = RegisteredIds \cup {b.id}
         /\ \A i \in RegisteredIds : Budget(i)' = Budget(i)
<1>1. /\ b.id \notin RegisteredIds /\ registered' = registered \cup {b}
      /\ b.parent # NoBudget => b.parent \in RegisteredIds
  BY DEF Register
<1>2. RegisteredIds' = RegisteredIds \cup {b.id}
  BY <1>1 DEF RegisteredIds
<1>3. \A c, d \in registered' : c.id = d.id => c = d
  BY <1>1 DEF Forest, RegisteredIds
<1>4. ASSUME NEW i \in RegisteredIds'
      PROVE  Budget(i)' \in registered' /\ Budget(i)'.id = i
  BY <1>4 DEF RegisteredIds, Budget
<1>5. \A i \in RegisteredIds : Budget(i)' = Budget(i)
  BY <1>1, <1>2, <1>3, <1>4, BudgetOf
<1>6. ASSUME NEW i, i = b.id PROVE Budget(i)' = b
  <2>1. i \in RegisteredIds' /\ b \in registered'
    BY <1>1, <1>2, <1>6
  <2>2. QED
    BY <1>3, <1>4, <1>6, <2>1
<1>7. ASSUME NEW T \in SUBSET RegisteredIds', T # {}
      PROVE  \E i \in T : Parent(i)' \notin T
  <2>1. CASE T = {b.id}
    BY <1>6, <2>1, CatalogueAssumption DEF Parent
  <2>2. CASE T # {b.id}
    <3>1. PICK i \in T \ {b.id} : Parent(i) \notin T \ {b.id}
      <4>1. T \ {b.id} \in SUBSET RegisteredIds /\ T \ {b.id} # {}
        BY <1>2, <1>7, <2>2
      <4>2. QED
        BY <4>1 DEF Forest
    <3>2. i \in RegisteredIds /\ Parent(i)' = Parent(i)
      BY <1>2, <1>5, <1>7 DEF Parent
    <3>3. Parent(i) # b.id
      BY <1>1, <3>2, BudgetOf, CatalogueAssumption DEF BudgetIds
    <3>4. QED
      BY <3>1, <3>2, <3>3
  <2>3. QED
    BY <2>1, <2>2
<1>8. registered' \subseteq Catalogue
  BY <1>1 DEF Forest
<1>9. \A c \in registered' : c.parent # NoBudget => c.parent \in RegisteredIds'
  BY <1>1, <1>2 DEF Forest
<1>10. QED
  BY <1>2, <1>3, <1>5, <1>7, <1>8, <1>9 DEF Forest

LEMMA RegisterKeepsChains ==
  ASSUME Forest, NEW b \in Catalogue, Register(b)
  PROVE  \A i \in RegisteredIds : Chain(i)' = Chain(i)
<1> DEFINE Bad == {i \in RegisteredIds : ~ (Chain(i)' = Chain(i))}
<1>1. SUFFICES ASSUME Bad # {} PROVE FALSE
  OBVIOUS
<1>2. PICK i \in Bad : Parent(i) \notin Bad
  BY <1>1 DEF Forest
<1>3. Forest' /\ i \in RegisteredIds /\ i \in RegisteredIds' /\ Parent(i)' = Parent(i)
  BY RegisterKeepsForest DEF Parent
<1>4. Chain(i) = {i} \cup IF Parent(i) = NoBudget THEN {} ELSE Chain(Parent(i))
  BY <1>3, ChainUnfolds
<1>5. PICK p : p = Parent(i) OBVIOUS
<1>6. Chain(i)' = {i} \cup IF p = NoBudget THEN {} ELSE Chain(p)'
  BY <1>3, <1>5, ChainUnfoldsNext DEF ChainEquation
<1>7. p # NoBudget => Chain(p)' = Chain(p)
  BY <1>2, <1>3, <1>5, BudgetOf
<1>8. QED
  BY <1>2, <1>4, <1>5, <1>6, <1>7

LEMMA SameChains ==
  ASSUME Forest, registered' = registered
  PROVE  /\ RegisteredIds' = RegisteredIds /\ Forest'
         /\ \A i : Budget(i)' = Budget(i)
         /\ \A i \in RegisteredIds : Chain(i)' = Chain(i)
<1>1. RegisteredIds' = RegisteredIds
  BY DEF RegisteredIds
<1>2. \A i : Budget(i)' = Budget(i)
  BY DEF Budget
<1>3. \A i : Parent(i)' = Parent(i)
  BY <1>2 DEF Parent
<1>4. Forest'
  BY <1>1, <1>3 DEF Forest
<1>5. \A i \in RegisteredIds : Chain(i)' = Chain(i)
  <2> DEFINE Bad == {i \in RegisteredIds : ~ (Chain(i)' = Chain(i))}
  <2>1. SUFFICES ASSUME Bad # {} PROVE FALSE
    OBVIOUS
  <2>2. PICK i \in Bad : Parent(i) \notin Bad
    BY <2>1 DEF Forest
  <2>3. PICK p : p = Parent(i)
    OBVIOUS
  <2>4. Chain(i) = {i} \cup IF p = NoBudget THEN {} ELSE Chain(p)
    BY <2>3, ChainUnfolds
  <2>5. Chain(i)' = {i} \cup IF p = NoBudget THEN {} ELSE Chain(p)'
    BY <1>1, <1>3, <1>4, <2>3, ChainUnfoldsNext DEF ChainEquation
  <2>6. p # NoBudget => Chain(p)' = Chain(p)
    BY <2>2, <2>3, BudgetOf
  <2>7. QED
    BY <2>2, <2>4, <2>5, <2>6
<1>6. QED
  BY <1>1, <1>2, <1>4, <1>5

-----------------------------------------------------------------------------
\* Every reservation has an id of its own and counts against registered
\* budgets.
IdsInv ==
  /\ IsFiniteSet(issued)
  /\ \A r \in issued : r.id <= Cardinality(issued)
  /\ \A r, s \in issued : r.id = s.id => r = s
  /\ \A r \in issued : r.budget \in RegisteredIds
  /\ pending \subseteq issued

\* It is outstanding, burned or consumed in one call, and in one of them only.
SettledInv ==
  /\ Consumed \subseteq issued
  /\ Consumed \cap pending = {}
  /\ \A S, T \in settled : S # T => S \cap T = {}
  /\ burned \cap UNION settled = {}

\* Nothing was consumed of a budget before it was registered.
UnusedInv == \A a \in Accounts : a[1] \notin RegisteredIds => committed[a] = 0

LedgerInv == TypeOK /\ Forest /\ IdsInv /\ SettledInv /\ UnusedInv

ConsumedAmount(k, v) == Total(Against(Consumed, k, v))

LEMMA Amounted ==
  ASSUME LedgerInv, NEW S, S \subseteq issued, NEW k, NEW v
  PROVE  /\ IsFiniteSet(S) /\ \A r \in S : r.amount \in Nat /\ r.id \in Nat
         /\ IsFiniteSet(Against(S, k, v))
         /\ \A r \in Against(S, k, v) : r.amount \in Nat
         /\ Total(Against(S, k, v)) \in Nat
<1>1. IsFiniteSet(S)
  BY FS_Subset DEF LedgerInv, IdsInv
<1>2. \A r \in S : r \in Reservation
  BY DEF LedgerInv, TypeOK
<1>3. \A r \in S : r.amount \in Nat /\ r.id \in Nat
  <2>1. \A r \in Reservation : r.amount \in Amounts /\ r.id \in 1..MaxReservations
    BY DEF Reservation
  <2>2. Amounts \subseteq Nat /\ 1..MaxReservations \subseteq Nat
    BY AmountAssumption, BoundAssumption
  <2>3. QED
    BY <1>2, <2>1, <2>2
<1>4. Against(S, k, v) \in SUBSET S
  BY DEF Against
<1>5. IsFiniteSet(Against(S, k, v))
  BY <1>1, <1>4, FS_Subset
<1>6. QED
  BY <1>1, <1>3, <1>4, <1>5, TotalType

\* What a registration does to the accounts: nothing, and those of the new
\* budget are empty.
LEMMA AfterRegister ==
  ASSUME LedgerInv, NEW b \in Catalogue, Register(b)
  PROVE  /\ RegisteredIds' = RegisteredIds \cup {b.id} /\ b.id \notin RegisteredIds
         /\ \A k \in RegisteredIds : Budget(k)' = Budget(k)
         /\ \A k \in RegisteredIds, v \in Windows :
              /\ PendingAmount(k, v)' = PendingAmount(k, v)
              /\ ConsumedAmount(k, v)' = ConsumedAmount(k, v)
         /\ \A k, v : k = b.id =>
              PendingAmount(k, v)' = 0 /\ ConsumedAmount(k, v)' = 0
<1>1. /\ RegisteredIds' = RegisteredIds \cup {b.id} /\ b.id \notin RegisteredIds
      /\ \A k \in RegisteredIds : Budget(k)' = Budget(k)
  BY RegisterKeepsForest DEF LedgerInv, Register
<1>2. \A r \in issued : /\ Chain(r.budget)' = Chain(r.budget)
                        /\ Chain(r.budget) \subseteq RegisteredIds
  BY RegisterKeepsChains, ChainFacts DEF LedgerInv, IdsInv
<1>3. /\ pending' = pending /\ Consumed' = Consumed
      /\ pending \subseteq issued /\ Consumed \subseteq issued
  BY DEF Register, Consumed, LedgerInv, IdsInv, SettledInv
<1>4. ASSUME NEW k, NEW v
      PROVE  /\ Against(pending, k, v)' = Against(pending, k, v)
             /\ Against(Consumed, k, v)' = Against(Consumed, k, v)
  BY <1>2, <1>3 DEF Against
<1>5. ASSUME NEW k, NEW v, k = b.id
      PROVE  Against(pending, k, v) = {} /\ Against(Consumed, k, v) = {}
  BY <1>1, <1>2, <1>3, <1>5 DEF Against
<1>6. QED
  BY <1>1, <1>4, <1>5, TotalEmpty DEF PendingAmount, ConsumedAmount

\* A new reservation is charged to the budgets of its chain, in its window.
LEMMA AfterReserve ==
  ASSUME LedgerInv, NEW id \in BudgetIds, NEW w \in Windows, NEW a \in Amounts,
         NEW x \in Bindings, NEW now \in Times, Reserve(id, w, a, x, now)
  PROVE  /\ \E r \in Reservation :
              /\ r \notin issued /\ r.id = Cardinality(issued) + 1
              /\ r.budget = id
              /\ pending' = pending \cup {r} /\ issued' = issued \cup {r}
         /\ \A k, v :
              PendingAmount(k, v)' =
                IF v = w /\ k \in Chain(id) THEN PendingAmount(k, v) + a
                ELSE PendingAmount(k, v)
<1> DEFINE r == [id |-> Cardinality(issued) + 1, budget |-> id, window |-> w,
                 dimension |-> Budget(id).dimension, amount |-> a,
                 bound |-> x, issued |-> now]
<1>1. /\ Cardinality(issued) \in Nat /\ Cardinality(issued) < MaxReservations
      /\ id \in RegisteredIds
  BY FS_CardinalityType DEF Reserve, LedgerInv, IdsInv
<1>2. r \in Reservation
  <2>1. Cardinality(issued) + 1 \in 1..MaxReservations
    BY <1>1, BoundAssumption
  <2>2. Budget(id).dimension \in {b.dimension : b \in Catalogue}
    BY <1>1, BudgetOf DEF LedgerInv, Forest
  <2>3. QED
    BY <2>1, <2>2 DEF Reservation
<1>3. r \notin issued
  BY <1>1 DEF LedgerInv, IdsInv
<1>4. pending' = pending \cup {r} /\ issued' = issued \cup {r}
  BY DEF Reserve
<1>5. \A q \in pending' : Chain(q.budget)' = Chain(q.budget)
  <2>1. \A q \in pending : q.budget \in RegisteredIds
    BY DEF LedgerInv, IdsInv
  <2>2. \A i \in RegisteredIds : Chain(i)' = Chain(i)
    BY SameChains DEF Reserve, LedgerInv
  <2>3. QED
    BY <1>1, <1>4, <2>1, <2>2
<1>6. r.window = w /\ r.budget = id /\ r.amount = a /\ r.id = Cardinality(issued) + 1
  OBVIOUS
<1> HIDE DEF r
<1>7. ASSUME NEW k, NEW v, v = w, k \in Chain(id)
      PROVE  PendingAmount(k, v)' = PendingAmount(k, v) + a
  <2>1. Against(pending, k, v)' = Against(pending, k, v) \cup {r}
    BY <1>4, <1>5, <1>6, <1>7 DEF Against
  <2>2. /\ IsFiniteSet(Against(pending, k, v)) /\ IsFiniteSet({r})
        /\ Against(pending, k, v) \cap {r} = {}
        /\ \A q \in Against(pending, k, v) \cup {r} : q.amount \in Nat
        /\ Total(Against(pending, k, v)) \in Nat
    <3>1. pending \subseteq issued
      BY DEF LedgerInv, IdsInv
    <3>2. /\ IsFiniteSet(Against(pending, k, v))
          /\ \A q \in Against(pending, k, v) : q.amount \in Nat
          /\ Total(Against(pending, k, v)) \in Nat
      BY <3>1, Amounted
    <3>3. Against(pending, k, v) \cap {r} = {}
      BY <1>3, <3>1 DEF Against
    <3>4. r.amount \in Nat
      BY <1>6, AmountAssumption
    <3>5. QED
      BY <3>2, <3>3, <3>4, FS_Singleton
  <2>3. Total({r}) = a
    <3>1. {r} \ {r} = {}
      OBVIOUS
    <3>2. Total({r}) = r.amount + Total({r} \ {r})
      BY <2>2, TotalRemove
    <3>3. QED
      BY <1>6, <3>1, <3>2, TotalEmpty, AmountAssumption
  <2>4. Total(Against(pending, k, v) \cup {r}) = Total(Against(pending, k, v)) + a
    BY <2>2, <2>3, TotalUnion
  <2>5. QED
    BY <2>1, <2>4 DEF PendingAmount
<1>8. ASSUME NEW k, NEW v, ~ (v = w /\ k \in Chain(id))
      PROVE  PendingAmount(k, v)' = PendingAmount(k, v)
  <2>1. Against(pending, k, v)' = Against(pending, k, v)
    BY <1>4, <1>5, <1>6, <1>8 DEF Against
  <2>2. QED
    BY <2>1 DEF PendingAmount
<1>9. QED
  BY <1>2, <1>3, <1>4, <1>6, <1>7, <1>8

\* What consume_many settles leaves pending and is charged as it was reserved,
\* whether or not the loop gets to its end.
LEMMA AfterSettle ==
  ASSUME LedgerInv, NEW S, S \subseteq pending, Settle(S),
         registered' = registered, issued' = issued, Consumed' = Consumed \cup S
  PROVE  /\ pending' = pending \ S
         /\ \A a \in Accounts : a[1] \notin RegisteredIds => committed'[a] = committed[a]
         /\ \A k \in RegisteredIds, v \in Windows :
              \E charge \in Nat :
                /\ PendingAmount(k, v) = PendingAmount(k, v)' + charge
                /\ PendingAmount(k, v)' \in Nat
                /\ ConsumedAmount(k, v)' = ConsumedAmount(k, v) + charge
                /\ Cumulative(k) => committed[<<k, v>>]' = committed[<<k, v>>] + charge
<1>1. pending \subseteq issued /\ Consumed \subseteq issued /\ S \subseteq issued
      /\ Consumed \cap S = {}
  BY DEF LedgerInv, IdsInv, SettledInv
<1>2. pending' = pending \ S
  <2>1. \A p \in pending, r \in S : p.id = r.id => p = r
    BY <1>1 DEF LedgerInv, IdsInv
  <2>2. QED
    BY <2>1 DEF Settle
<1>3. \A r \in issued : Chain(r.budget)' = Chain(r.budget)
  BY SameChains DEF LedgerInv, IdsInv
<1>4. \A a \in Accounts : a[1] \notin RegisteredIds => committed'[a] = committed[a]
  BY DEF Settle
<1>5. ASSUME NEW k \in RegisteredIds, NEW v \in Windows
      PROVE  \E charge \in Nat :
                /\ PendingAmount(k, v) = PendingAmount(k, v)' + charge
                /\ PendingAmount(k, v)' \in Nat
                /\ ConsumedAmount(k, v)' = ConsumedAmount(k, v) + charge
                /\ Cumulative(k) => committed[<<k, v>>]' = committed[<<k, v>>] + charge
  <2> DEFINE charge == Total(Against(S, k, v))
  <2>1. /\ Against(pending, k, v)' = Against(pending \ S, k, v)
        /\ Against(Consumed, k, v)' = Against(Consumed, k, v) \cup Against(S, k, v)
    BY <1>1, <1>2, <1>3 DEF Against
  <2>2. /\ Against(pending, k, v) = Against(pending \ S, k, v) \cup Against(S, k, v)
        /\ Against(pending \ S, k, v) \cap Against(S, k, v) = {}
        /\ Against(Consumed, k, v) \cap Against(S, k, v) = {}
    BY <1>1 DEF Against
  <2>3. pending \ S \subseteq issued
    BY <1>1
  <2>4. /\ IsFiniteSet(Against(S, k, v)) /\ charge \in Nat
        /\ \A r \in Against(S, k, v) : r.amount \in Nat
    BY <1>1, Amounted
  <2>5. /\ IsFiniteSet(Against(pending \ S, k, v))
        /\ \A r \in Against(pending \ S, k, v) : r.amount \in Nat
        /\ Total(Against(pending \ S, k, v)) \in Nat
    BY <2>3, Amounted
  <2>6. /\ IsFiniteSet(Against(Consumed, k, v))
        /\ \A r \in Against(Consumed, k, v) : r.amount \in Nat
        /\ Total(Against(Consumed, k, v)) \in Nat
    BY <1>1, Amounted
  <2>7. Total(Against(pending, k, v)) = Total(Against(pending \ S, k, v)) + charge
    BY <2>2, <2>4, <2>5, TotalUnion
  <2>8. Total(Against(Consumed, k, v) \cup Against(S, k, v))
          = Total(Against(Consumed, k, v)) + charge
    BY <2>2, <2>4, <2>6, TotalUnion
  <2>9. Cumulative(k) => committed[<<k, v>>]' = committed[<<k, v>>] + charge
    <3>1. k \in BudgetIds
      BY BudgetOf DEF LedgerInv
    <3>2. <<k, v>> \in Accounts
      BY <3>1 DEF Accounts
    <3>3. QED
      BY <3>2 DEF Settle
  <2>10. /\ PendingAmount(k, v)' = Total(Against(pending \ S, k, v))
         /\ ConsumedAmount(k, v)' = Total(Against(Consumed, k, v) \cup Against(S, k, v))
    BY <2>1 DEF PendingAmount, ConsumedAmount
  <2> HIDE DEF charge
  <2>11. QED
    BY <2>4, <2>5, <2>7, <2>8, <2>9, <2>10 DEF PendingAmount, ConsumedAmount
<1>6. QED
  BY <1>2, <1>4, <1>5

\* consume_many, whether it returns or raises, settles reservations that are
\* outstanding and records them in one of the two histories.
Settles(S) ==
  /\ Settle(S)
  /\ \/ settled' = settled \cup {S} /\ burned' = burned
     \/ settled' = settled /\ burned' = burned \cup S
  /\ UNCHANGED <<registered, issued>>

LEMMA ConsumptionSettles ==
  ASSUME NEW P, NEW named, NEW x, NEW now,
         ConsumeMany(P, named, x, now) \/ ConsumeManyRaises(P, named, x, now)
  PROVE  \E S \in SUBSET pending : Settles(S)
<1>1. CASE ConsumeMany(P, named, x, now)
  <2>1. P \subseteq pending /\ Settles(P)
    BY <1>1 DEF ConsumeMany, Presented, Settles
  <2>2. QED
    BY <2>1
<1>2. CASE ConsumeManyRaises(P, named, x, now)
  <2>1. PICK late \in Late(P, now), before \in SUBSET (P \ Late(P, now)) :
          Settle(before \cup {late}) /\ burned' = burned \cup (before \cup {late})
    BY <1>2 DEF ConsumeManyRaises
  <2>2. before \cup {late} \subseteq pending
    BY <1>2 DEF ConsumeManyRaises, Presented, Late
  <2>3. Settles(before \cup {late})
    BY <1>2, <2>1 DEF ConsumeManyRaises, Settles
  <2>4. QED
    BY <2>2, <2>3
<1>3. QED
  BY <1>1, <1>2

\* A step of the ledger, by what it does.
LEMMA StepCases ==
  ASSUME [Next]_vars
  PROVE  \/ \E b \in Catalogue : Register(b)
         \/ \E id \in BudgetIds, w \in Windows, a \in Amounts, x \in Bindings,
               now \in Times : Reserve(id, w, a, x, now)
         \/ \E S \in SUBSET pending : Settles(S)
         \/ UNCHANGED vars
<1>1. ASSUME NEW P \in SUBSET Presentable, NEW x \in Bindings, NEW now \in Times,
             LET named == {r.budget : r \in P} IN
             \/ ConsumeMany(P, named, x, now)
             \/ ConsumeManyRaises(P, named, x, now)
      PROVE  \E S \in SUBSET pending : Settles(S)
  BY <1>1, ConsumptionSettles
<1>2. QED
  BY <1>1 DEF Next

-----------------------------------------------------------------------------
\* The invariant, step by step.
LEMMA RegisterKeepsInv ==
  ASSUME LedgerInv, NEW b \in Catalogue, Register(b)
  PROVE  LedgerInv'
<1>1. /\ UNCHANGED <<pending, committed, issued, settled, burned>>
      /\ registered' = registered \cup {b}
  BY DEF Register
<1>2. Forest' /\ RegisteredIds' = RegisteredIds \cup {b.id}
  BY RegisterKeepsForest DEF LedgerInv
<1>3. TypeOK'
  BY <1>1 DEF LedgerInv, TypeOK
<1>4. IdsInv'
  BY <1>1, <1>2 DEF LedgerInv, IdsInv
<1>5. SettledInv'
  BY <1>1 DEF LedgerInv, SettledInv, Consumed
<1>6. UnusedInv'
  BY <1>1, <1>2 DEF LedgerInv, UnusedInv
<1>7. QED
  BY <1>2, <1>3, <1>4, <1>5, <1>6 DEF LedgerInv

LEMMA ReserveKeepsInv ==
  ASSUME LedgerInv, NEW id \in BudgetIds, NEW w \in Windows, NEW a \in Amounts,
         NEW x \in Bindings, NEW now \in Times, Reserve(id, w, a, x, now)
  PROVE  LedgerInv'
<1>1. /\ UNCHANGED <<registered, committed, settled, burned>>
      /\ id \in RegisteredIds
  BY DEF Reserve
<1>2. PICK r \in Reservation :
        /\ r \notin issued /\ r.id = Cardinality(issued) + 1 /\ r.budget = id
        /\ pending' = pending \cup {r} /\ issued' = issued \cup {r}
  BY AfterReserve
<1>3. Forest' /\ RegisteredIds' = RegisteredIds
  BY <1>1, SameChains DEF LedgerInv
<1>4. TypeOK'
  BY <1>1, <1>2 DEF LedgerInv, TypeOK
<1>5. IdsInv'
  <2>1. /\ IsFiniteSet(issued') /\ Cardinality(issued') = Cardinality(issued) + 1
        /\ Cardinality(issued) \in Nat
    BY <1>2, FS_AddElement, FS_CardinalityType DEF LedgerInv, IdsInv
  <2>2. \A q \in issued : q.id \in Nat /\ q.id <= Cardinality(issued)
    BY Amounted DEF LedgerInv, IdsInv
  <2>3. \A q \in issued' : q.id <= Cardinality(issued')
    BY <1>2, <2>1, <2>2
  <2>4. \A q, s \in issued' : q.id = s.id => q = s
    BY <1>2, <2>1, <2>2 DEF LedgerInv, IdsInv
  <2>5. \A q \in issued' : q.budget \in RegisteredIds'
    BY <1>1, <1>2, <1>3 DEF LedgerInv, IdsInv
  <2>6. pending' \subseteq issued'
    BY <1>2 DEF LedgerInv, IdsInv
  <2>7. QED
    BY <2>1, <2>3, <2>4, <2>5, <2>6 DEF IdsInv
<1>6. SettledInv'
  BY <1>1, <1>2 DEF LedgerInv, SettledInv, Consumed
<1>7. UnusedInv'
  BY <1>1, <1>3 DEF LedgerInv, UnusedInv
<1>8. QED
  BY <1>3, <1>4, <1>5, <1>6, <1>7 DEF LedgerInv

LEMMA SettlingKeepsInv ==
  ASSUME LedgerInv, NEW S \in SUBSET pending, Settles(S)
  PROVE  LedgerInv' /\ Consumed' = Consumed \cup S
<1>1. /\ registered' = registered /\ issued' = issued
      /\ Settle(S) /\ Consumed' = Consumed \cup S
  BY DEF Settles, Consumed
<1>2. pending' = pending \ S
  BY <1>1, AfterSettle
<1>3. /\ Forest' /\ RegisteredIds' = RegisteredIds
      /\ \A k : Cumulative(k)' = Cumulative(k)
  BY <1>1, SameChains DEF LedgerInv, Cumulative
<1>4. /\ pending \subseteq issued /\ S \subseteq issued /\ issued \subseteq Reservation
      /\ S \cap Consumed = {}
  BY DEF LedgerInv, TypeOK, IdsInv, SettledInv
<1>5. TypeOK'
  <2>1. committed' \in [Accounts -> Nat]
    <3>1. \A a \in Accounts : Total(Against(S, a[1], a[2])) \in Nat
      BY <1>4, Amounted
    <3>2. QED
      BY <1>1, <3>1 DEF Settle, LedgerInv, TypeOK
  <2>2. settled' \subseteq SUBSET Reservation /\ burned' \subseteq Reservation
    BY <1>4 DEF Settles, LedgerInv, TypeOK
  <2>3. QED
    BY <1>1, <1>2, <2>1, <2>2 DEF LedgerInv, TypeOK
<1>6. IdsInv'
  BY <1>1, <1>2, <1>3 DEF LedgerInv, IdsInv
<1>7. SettledInv'
  <2>1. Consumed' \subseteq issued' /\ Consumed' \cap pending' = {}
    BY <1>1, <1>2, <1>4 DEF LedgerInv, SettledInv
  <2>2. \A T \in settled : T \cap S = {}
    BY <1>4 DEF Consumed
  <2>3. \A T, U \in settled' : T # U => T \cap U = {}
    BY <2>2 DEF Settles, LedgerInv, SettledInv
  <2>4. burned' \cap UNION settled' = {}
    BY <1>4 DEF Settles, LedgerInv, SettledInv, Consumed
  <2>5. QED
    BY <2>1, <2>3, <2>4 DEF SettledInv
<1>8. UnusedInv'
  BY <1>1, <1>3, AfterSettle DEF LedgerInv, UnusedInv
<1>9. QED
  BY <1>1, <1>3, <1>5, <1>6, <1>7, <1>8 DEF LedgerInv

LEMMA StutterKeepsInv ==
  ASSUME LedgerInv, UNCHANGED vars
  PROVE  LedgerInv'
<1>1. Forest' /\ RegisteredIds' = RegisteredIds
  BY SameChains DEF LedgerInv, vars
<1>2. QED
  BY <1>1 DEF LedgerInv, vars, TypeOK, IdsInv, SettledInv, UnusedInv, Consumed

LEMMA InitInv == Init => LedgerInv
<1> SUFFICES ASSUME Init PROVE LedgerInv
  OBVIOUS
<1>1. RegisteredIds = {}
  BY DEF Init, RegisteredIds
<1>2. IsFiniteSet(issued)
  BY FS_EmptySet DEF Init
<1>3. QED
  BY <1>1, <1>2 DEF Init, LedgerInv, TypeOK, Forest, IdsInv, SettledInv, UnusedInv, Consumed

LEMMA StepKeepsInv == LedgerInv /\ [Next]_vars => LedgerInv'
BY StepCases, RegisterKeepsInv, ReserveKeepsInv, SettlingKeepsInv, StutterKeepsInv

LEMMA AlwaysLedgerInv == Spec => []LedgerInv
BY InitInv, StepKeepsInv, PTL DEF Spec

-----------------------------------------------------------------------------
\* The ledger's state has its type: in particular a running total never goes
\* below zero, whatever is consumed.
THEOREM LedgerTypeOK == Spec => []TypeOK
BY AlwaysLedgerInv, PTL DEF LedgerInv

\* A reservation is consumed as reserve made it, in one call of consume_many,
\* and is not outstanding afterwards, even when the call raised half-way.
THEOREM ReservationsConsumedOnce == Spec => []ConsumedAsReserved
<1>1. LedgerInv => ConsumedAsReserved
  BY DEF LedgerInv, IdsInv, SettledInv, ConsumedAsReserved
<1>2. QED
  BY <1>1, AlwaysLedgerInv, PTL

\* What a step may do to the account of a registered budget: an outstanding
\* amount is added if it fits, or becomes consumed; the rest stays.
Step(k, v) ==
  /\ k \in RegisteredIds' /\ Budget(k)' = Budget(k)
  /\ \/ /\ UNCHANGED committed
        /\ ConsumedAmount(k, v)' = ConsumedAmount(k, v)
        /\ \/ PendingAmount(k, v)' = PendingAmount(k, v)
           \/ \E a \in Nat : /\ HasRoom(k, v, a)
                             /\ PendingAmount(k, v)' = PendingAmount(k, v) + a
     \/ \E charge \in Nat :
          /\ PendingAmount(k, v) = PendingAmount(k, v)' + charge
          /\ PendingAmount(k, v)' \in Nat
          /\ ConsumedAmount(k, v)' = ConsumedAmount(k, v) + charge
          /\ Cumulative(k) => committed[<<k, v>>]' = committed[<<k, v>>] + charge

LEMMA EveryStep ==
  ASSUME LedgerInv, [Next]_vars
  PROVE  \A k \in RegisteredIds, v \in Windows : Step(k, v)
<1> SUFFICES ASSUME NEW k \in RegisteredIds, NEW v \in Windows
             PROVE  Step(k, v)
  OBVIOUS
<1>1. ASSUME NEW b \in Catalogue, Register(b) PROVE Step(k, v)
  BY <1>1, AfterRegister DEF Step, Register
<1>2. ASSUME NEW id \in BudgetIds, NEW w \in Windows, NEW a \in Amounts,
             NEW x \in Bindings, NEW now \in Times, Reserve(id, w, a, x, now)
      PROVE  Step(k, v)
  <2>1. /\ k \in RegisteredIds' /\ Budget(k)' = Budget(k) /\ UNCHANGED committed
        /\ ConsumedAmount(k, v)' = ConsumedAmount(k, v)
    <3>1. /\ UNCHANGED <<registered, committed, settled, burned>>
      BY <1>2 DEF Reserve
    <3>2. /\ RegisteredIds' = RegisteredIds /\ Budget(k)' = Budget(k)
          /\ \A i \in RegisteredIds : Chain(i)' = Chain(i)
      BY <3>1, SameChains DEF LedgerInv
    <3>3. /\ Consumed' = Consumed
          /\ \A r \in Consumed : Chain(r.budget)' = Chain(r.budget)
      BY <3>1, <3>2 DEF Consumed, LedgerInv, SettledInv, IdsInv
    <3>4. Against(Consumed, k, v)' = Against(Consumed, k, v)
      BY <3>3 DEF Against
    <3>5. QED
      BY <3>1, <3>2, <3>4 DEF ConsumedAmount
  <2>2. v = w /\ k \in Chain(id) => HasRoom(k, v, a)
    BY <1>2 DEF Reserve
  <2>3. a \in Nat
    BY AmountAssumption
  <2>4. PendingAmount(k, v)' = IF v = w /\ k \in Chain(id)
                               THEN PendingAmount(k, v) + a ELSE PendingAmount(k, v)
    BY <1>2, AfterReserve
  <2>5. QED
    BY <2>1, <2>2, <2>3, <2>4 DEF Step
<1>3. ASSUME NEW S \in SUBSET pending, Settles(S) PROVE Step(k, v)
  <2>1. /\ Settle(S) /\ registered' = registered /\ issued' = issued
        /\ Consumed' = Consumed \cup S
    BY <1>3, SettlingKeepsInv DEF Settles
  <2>2. RegisteredIds' = RegisteredIds /\ Budget(k)' = Budget(k)
    BY <2>1, SameChains DEF LedgerInv
  <2>3. QED
    BY <2>1, <2>2, AfterSettle DEF Step
<1>4. CASE UNCHANGED vars
  <2>1. /\ RegisteredIds' = RegisteredIds /\ Budget(k)' = Budget(k)
        /\ \A i \in RegisteredIds : Chain(i)' = Chain(i)
    BY <1>4, SameChains DEF LedgerInv, vars
  <2>2. /\ Consumed' = Consumed /\ pending' = pending /\ UNCHANGED committed
        /\ \A r \in issued : Chain(r.budget)' = Chain(r.budget)
    BY <1>4, <2>1 DEF Consumed, vars, LedgerInv, IdsInv
  <2>3. pending \subseteq issued /\ Consumed \subseteq issued
    BY DEF LedgerInv, IdsInv, SettledInv
  <2>4. /\ Against(Consumed, k, v)' = Against(Consumed, k, v)
        /\ Against(pending, k, v)' = Against(pending, k, v)
    BY <2>2, <2>3 DEF Against
  <2>5. QED
    BY <2>1, <2>2, <2>4 DEF Step, ConsumedAmount, PendingAmount
<1>5. QED
  BY <1>1, <1>2, <1>3, <1>4, StepCases

\* An account has natural numbers in it.
LEMMA AccountTypes ==
  ASSUME LedgerInv, NEW k \in RegisteredIds, NEW v \in Windows
  PROVE  /\ <<k, v>> \in Accounts /\ committed[<<k, v>>] \in Nat
         /\ PendingAmount(k, v) \in Nat /\ ConsumedAmount(k, v) \in Nat
         /\ Budget(k).limit \in Nat
<1>1. <<k, v>> \in Accounts
  BY BudgetOf DEF Accounts, LedgerInv
<1>2. committed[<<k, v>>] \in Nat
  BY <1>1 DEF LedgerInv, TypeOK
<1>3. PendingAmount(k, v) \in Nat /\ ConsumedAmount(k, v) \in Nat
  BY Amounted DEF PendingAmount, ConsumedAmount, LedgerInv, IdsInv, SettledInv
<1>4. Budget(k).limit \in Nat
  BY BudgetOf, CatalogueAssumption DEF LedgerInv, Forest
<1>5. QED
  BY <1>1, <1>2, <1>3, <1>4

\* The accounts of a budget that a step registers are empty.
LEMMA NewAccount ==
  ASSUME LedgerInv, [Next]_vars, NEW k \in RegisteredIds' \ RegisteredIds,
         NEW v \in Windows
  PROVE  /\ committed[<<k, v>>]' = 0 /\ Budget(k)'.limit \in Nat
         /\ PendingAmount(k, v)' = 0 /\ ConsumedAmount(k, v)' = 0
<1>1. PICK b \in Catalogue : Register(b)
  <2>1. registered' = registered => RegisteredIds' = RegisteredIds
    BY DEF RegisteredIds
  <2>2. QED
    BY <2>1, StepCases DEF Reserve, Settles, vars
<1>2. k = b.id /\ PendingAmount(k, v)' = 0 /\ ConsumedAmount(k, v)' = 0
  BY <1>1, AfterRegister
<1>3. <<k, v>> \in Accounts /\ committed[<<k, v>>] = 0
  BY <1>2 DEF Accounts, BudgetIds, LedgerInv, UnusedInv
<1>4. committed[<<k, v>>]' = 0
  BY <1>1, <1>3 DEF Register
<1>5. Budget(k)' \in registered' /\ registered' \subseteq Catalogue
  BY <1>1 DEF Register, RegisteredIds, Budget, LedgerInv, Forest
<1>6. QED
  BY <1>2, <1>4, <1>5, CatalogueAssumption

\* The same invariant again, one account at a time.
WithinLimit(k, v) ==
  Cumulative(k) => committed[<<k, v>>] + PendingAmount(k, v) <= Budget(k).limit

\* No order of registrations, reservations and consumptions, failed ones
\* included, takes a cumulative budget over its hard limit: reserve checks every
\* level of the hierarchy, and what it lets through is only moved afterwards.
THEOREM LimitsHold == Spec => []HardLimitHolds
<1>1. Init => HardLimitHolds
  BY DEF Init, HardLimitHolds, RegisteredIds
<1>2. LedgerInv /\ HardLimitHolds /\ [Next]_vars => HardLimitHolds'
  <2> SUFFICES ASSUME LedgerInv, HardLimitHolds, [Next]_vars,
                      NEW k \in RegisteredIds', NEW v \in Windows
               PROVE  WithinLimit(k, v)'
    BY DEF HardLimitHolds, WithinLimit
  <2>1. CASE k \in RegisteredIds
    <3>1. Step(k, v) /\ WithinLimit(k, v)
      BY <2>1, EveryStep DEF HardLimitHolds, WithinLimit
    <3>2. /\ committed[<<k, v>>] \in Nat /\ PendingAmount(k, v) \in Nat
          /\ Budget(k).limit \in Nat
      BY <2>1, AccountTypes
    <3>3. Budget(k)' = Budget(k) /\ (Cumulative(k)' <=> Cumulative(k))
      BY <3>1 DEF Step, Cumulative
    <3>4. CASE UNCHANGED committed /\ PendingAmount(k, v)' = PendingAmount(k, v)
      BY <3>1, <3>3, <3>4 DEF WithinLimit
    <3>5. ASSUME NEW a \in Nat, UNCHANGED committed, HasRoom(k, v, a),
                 PendingAmount(k, v)' = PendingAmount(k, v) + a
          PROVE  WithinLimit(k, v)'
      BY <3>2, <3>3, <3>5 DEF WithinLimit, HasRoom
    <3>6. ASSUME NEW charge \in Nat, PendingAmount(k, v)' \in Nat,
                 PendingAmount(k, v) = PendingAmount(k, v)' + charge,
                 Cumulative(k) => committed[<<k, v>>]' = committed[<<k, v>>] + charge
          PROVE  WithinLimit(k, v)'
      BY <3>1, <3>2, <3>3, <3>6 DEF WithinLimit
    <3>7. QED
      BY <3>1, <3>4, <3>5, <3>6 DEF Step
  <2>2. CASE k \notin RegisteredIds
    BY <2>2, NewAccount DEF WithinLimit
  <2>3. QED
    BY <2>1, <2>2
<1>3. QED
  BY <1>1, <1>2, AlwaysLedgerInv, PTL DEF Spec

Exact(k, v) == Cumulative(k) => committed[<<k, v>>] = ConsumedAmount(k, v)

\* The running totals are exactly what was consumed below each budget of the
\* hierarchy in each window, for any tree and any order of consume_many calls.
THEOREM TotalsAreConsumed == Spec => []CommittedIsConsumed
<1>1. Init => CommittedIsConsumed
  BY DEF Init, CommittedIsConsumed, RegisteredIds
<1>2. LedgerInv /\ CommittedIsConsumed /\ [Next]_vars => CommittedIsConsumed'
  <2> SUFFICES ASSUME LedgerInv, CommittedIsConsumed, [Next]_vars,
                      NEW k \in RegisteredIds', NEW v \in Windows
               PROVE  Exact(k, v)'
    BY DEF CommittedIsConsumed, Exact, ConsumedAmount
  <2>1. CASE k \in RegisteredIds
    <3>1. Step(k, v) /\ Exact(k, v)
      BY <2>1, EveryStep DEF CommittedIsConsumed, Exact, ConsumedAmount
    <3>2. Cumulative(k)' <=> Cumulative(k)
      BY <3>1 DEF Step, Cumulative
    <3>3. QED
      BY <3>1, <3>2 DEF Step, Exact
  <2>2. CASE k \notin RegisteredIds
    BY <2>2, NewAccount DEF Exact
  <2>3. QED
    BY <2>1, <2>2
<1>3. QED
  BY <1>1, <1>2, AlwaysLedgerInv, PTL DEF Spec

\* What remains of a budget never grows within a window: reserving and
\* consuming are one-way, and a failed consume_many gives nothing back.
THEOREM RemainingShrinks == Spec => RemainingNeverGrows
<1>1. LedgerInv /\ [Next]_vars =>
        [\A id \in RegisteredIds, w \in Windows :
           Remaining(id, w)' <= Remaining(id, w)]_vars
  <2> SUFFICES ASSUME LedgerInv, [Next]_vars,
                      NEW k \in RegisteredIds, NEW v \in Windows
               PROVE  Remaining(k, v)' <= Remaining(k, v)
    OBVIOUS
  <2> DEFINE used == committed[<<k, v>>] + PendingAmount(k, v)
  <2>1. /\ committed[<<k, v>>] \in Nat /\ PendingAmount(k, v) \in Nat
        /\ Budget(k).limit \in Nat
    BY AccountTypes
  <2>2. Step(k, v)
    BY EveryStep
  <2>3. Budget(k)' = Budget(k) /\ (Cumulative(k)' <=> Cumulative(k))
    BY <2>2 DEF Step, Cumulative
  <2>4. CASE ~ Cumulative(k)
    BY <2>1, <2>3, <2>4 DEF Remaining
  <2>5. CASE Cumulative(k)
    <3>1. used \in Nat /\ used' \in Nat /\ used <= used'
      <4>1. CASE UNCHANGED committed /\ PendingAmount(k, v)' = PendingAmount(k, v)
        BY <2>1, <4>1
      <4>2. ASSUME NEW a \in Nat, UNCHANGED committed,
                   PendingAmount(k, v)' = PendingAmount(k, v) + a
            PROVE  used' \in Nat /\ used <= used'
        BY <2>1, <4>2
      <4>3. ASSUME NEW charge \in Nat, PendingAmount(k, v)' \in Nat,
                   PendingAmount(k, v) = PendingAmount(k, v)' + charge,
                   committed[<<k, v>>]' = committed[<<k, v>>] + charge
            PROVE  used' \in Nat /\ used <= used'
        BY <2>1, <4>3
      <4>4. QED
        BY <2>1, <2>2, <2>5, <4>1, <4>2, <4>3 DEF Step
    <3>2. /\ Remaining(k, v) = IF Budget(k).limit - used > 0
                               THEN Budget(k).limit - used ELSE 0
          /\ Remaining(k, v)' = IF Budget(k).limit - used' > 0
                                THEN Budget(k).limit - used' ELSE 0
      <4>1. /\ committed[<<k, v>>]' \in Nat /\ PendingAmount(k, v)' \in Nat
        BY <2>1, <2>2, <2>5 DEF Step
      <4>2. QED
        BY <2>1, <2>3, <2>5, <4>1 DEF Remaining
    <3> HIDE DEF used
    <3>3. QED
      BY <2>1, <3>1, <3>2
  <2>6. QED
    BY <2>4, <2>5
<1>2. QED
  BY <1>1, AlwaysLedgerInv, PTL DEF Spec, RemainingNeverGrows

-----------------------------------------------------------------------------
\* What register checks against the parent.
HierarchyInv ==
  \A i \in RegisteredIds : Parent(i) # NoBudget =>
    /\ Budget(i).mode = Budget(Parent(i)).mode
    /\ Budget(i).dimension = Budget(Parent(i)).dimension
    /\ Budget(i).limit <= Budget(Parent(i)).limit

LEMMA HierarchyStep == LedgerInv /\ HierarchyInv /\ [Next]_vars => HierarchyInv'
<1> SUFFICES ASSUME LedgerInv, HierarchyInv, [Next]_vars PROVE HierarchyInv'
  OBVIOUS
<1>1. ASSUME NEW b \in Catalogue, Register(b) PROVE HierarchyInv'
  <2>1. /\ RegisteredIds' = RegisteredIds \cup {b.id} /\ b.id \notin RegisteredIds
        /\ registered' = registered \cup {b} /\ Forest'
        /\ \A i \in RegisteredIds : Budget(i)' = Budget(i)
    BY <1>1, RegisterKeepsForest DEF Register, LedgerInv
  <2>2. SUFFICES ASSUME NEW i \in RegisteredIds', NEW p, p = Parent(i)', p # NoBudget
                 PROVE  /\ Budget(i)'.mode = Budget(p)'.mode
                        /\ Budget(i)'.dimension = Budget(p)'.dimension
                        /\ Budget(i)'.limit <= Budget(p)'.limit
    BY DEF HierarchyInv
  <2>3. CASE i \in RegisteredIds
    <3>1. p = Parent(i) /\ p \in RegisteredIds
      BY <2>1, <2>2, <2>3, BudgetOf DEF Parent, LedgerInv
    <3>2. QED
      BY <2>1, <2>2, <2>3, <3>1 DEF HierarchyInv
  <2>4. CASE i = b.id
    <3>1. Budget(i)' \in registered' /\ Budget(i)'.id = i
      BY <2>4, <2>1 DEF Budget
    <3>2. Budget(i)' = b
      BY <2>1, <2>4, <3>1 DEF Forest
    <3>3. p = b.parent
      BY <2>2, <3>2 DEF Parent
    <3>4. QED
      BY <1>1, <2>1, <2>2, <3>2, <3>3 DEF Register
  <2>5. QED
    BY <2>1, <2>3, <2>4
<1>2. ASSUME registered' = registered PROVE HierarchyInv'
  <2>1. RegisteredIds' = RegisteredIds /\ \A i : Budget(i)' = Budget(i)
    BY <1>2, SameChains DEF LedgerInv
  <2>2. \A i : Parent(i)' = Parent(i)
    BY <2>1 DEF Parent
  <2>3. QED
    BY <2>1, <2>2 DEF HierarchyInv
<1>3. QED
  BY <1>1, <1>2, StepCases DEF Reserve, Settles, vars

LEMMA TotalGrows ==
  ASSUME NEW S, IsFiniteSet(S), \A r \in S : r.amount \in Nat, NEW T, T \subseteq S
  PROVE  Total(T) <= Total(S)
<1>1. IsFiniteSet(T) /\ IsFiniteSet(S \ T) /\ T \cup (S \ T) = S
  BY FS_Subset
<1>2. Total(S) = Total(T) + Total(S \ T)
  BY <1>1, TotalUnion
<1>3. Total(T) \in Nat /\ Total(S \ T) \in Nat
  BY <1>1, TotalType
<1>4. QED
  BY <1>2, <1>3

\* Every budget of a chain has the dimension and the mode of the first, and at
\* least its limit and its use.
AncestorsCover ==
  \A i \in RegisteredIds : \A k \in Chain(i) :
    /\ k \in RegisteredIds
    /\ Budget(i).mode = Budget(k).mode
    /\ Budget(i).dimension = Budget(k).dimension
    /\ Budget(i).limit <= Budget(k).limit
    /\ \A w \in Windows : Cumulative(i) =>
         committed[<<i, w>>] + PendingAmount(i, w)
           <= committed[<<k, w>>] + PendingAmount(k, w)

LEMMA ChainIsAlike ==
  ASSUME LedgerInv, HierarchyInv
  PROVE  \A i \in RegisteredIds : \A k \in Chain(i) :
           /\ Budget(i).mode = Budget(k).mode
           /\ Budget(i).dimension = Budget(k).dimension
           /\ Budget(i).limit <= Budget(k).limit
<1> DEFINE Alike(i) == \A k \in Chain(i) :
             /\ Budget(i).mode = Budget(k).mode
             /\ Budget(i).dimension = Budget(k).dimension
             /\ Budget(i).limit <= Budget(k).limit
           Bad == {i \in RegisteredIds : ~ Alike(i)}
<1>1. SUFFICES ASSUME Bad # {} PROVE FALSE
  OBVIOUS
<1>2. PICK i \in Bad : Parent(i) \notin Bad
  BY <1>1 DEF LedgerInv, Forest
<1>3. \A j \in RegisteredIds : Budget(j).limit \in Nat
  BY BudgetOf, CatalogueAssumption DEF LedgerInv, Forest
<1>4. Chain(i) = {i} \cup IF Parent(i) = NoBudget THEN {} ELSE Chain(Parent(i))
  BY ChainUnfolds DEF LedgerInv
<1>5. CASE Parent(i) = NoBudget
  BY <1>2, <1>3, <1>4, <1>5
<1>6. CASE Parent(i) # NoBudget
  <2>1. Parent(i) \in RegisteredIds /\ Alike(Parent(i))
    BY <1>2, <1>6, BudgetOf DEF LedgerInv
  <2>2. Chain(Parent(i)) \subseteq RegisteredIds
    BY <2>1, ChainFacts DEF LedgerInv
  <2>3. Alike(i)
    BY <1>3, <1>4, <1>6, <2>1, <2>2 DEF HierarchyInv
  <2>4. QED
    BY <1>2, <2>3
<1>7. QED
  BY <1>5, <1>6

\* A child budget never escapes its ancestors: whatever is outstanding against
\* it or consumed of it counts in full against each of them, in the same window
\* and dimension, and its own limit is within theirs.
THEOREM ChildrenCountForAncestors == Spec => []AncestorsCover
<1>1. Spec => []HierarchyInv
  <2>1. Init => HierarchyInv
    BY DEF Init, HierarchyInv, RegisteredIds
  <2>2. QED
    BY <2>1, HierarchyStep, AlwaysLedgerInv, PTL DEF Spec
<1>2. LedgerInv /\ HierarchyInv /\ CommittedIsConsumed => AncestorsCover
  <2> SUFFICES ASSUME LedgerInv, HierarchyInv, CommittedIsConsumed,
                      NEW i \in RegisteredIds, NEW k \in Chain(i)
               PROVE  /\ k \in RegisteredIds
                      /\ Budget(i).mode = Budget(k).mode
                      /\ Budget(i).dimension = Budget(k).dimension
                      /\ Budget(i).limit <= Budget(k).limit
                      /\ \A w \in Windows : Cumulative(i) =>
                           committed[<<i, w>>] + PendingAmount(i, w)
                             <= committed[<<k, w>>] + PendingAmount(k, w)
    BY DEF AncestorsCover
  <2>1. /\ k \in RegisteredIds
        /\ \A j \in RegisteredIds : i \in Chain(j) => k \in Chain(j)
    BY ChainFacts DEF LedgerInv
  <2>2. /\ Budget(i).mode = Budget(k).mode
        /\ Budget(i).dimension = Budget(k).dimension
        /\ Budget(i).limit <= Budget(k).limit
    BY ChainIsAlike
  <2>3. ASSUME NEW w \in Windows, Cumulative(i)
        PROVE  committed[<<i, w>>] + PendingAmount(i, w)
                 <= committed[<<k, w>>] + PendingAmount(k, w)
    <3>1. /\ committed[<<i, w>>] = ConsumedAmount(i, w)
          /\ committed[<<k, w>>] = ConsumedAmount(k, w)
      BY <2>1, <2>2, <2>3 DEF CommittedIsConsumed, Cumulative, ConsumedAmount
    <3>2. pending \subseteq issued /\ Consumed \subseteq issued
      BY DEF LedgerInv, IdsInv, SettledInv
    <3>3. /\ Against(pending, i, w) \subseteq Against(pending, k, w)
          /\ Against(Consumed, i, w) \subseteq Against(Consumed, k, w)
      BY <2>1, <3>2 DEF Against, LedgerInv, IdsInv
    <3>4. /\ PendingAmount(i, w) <= PendingAmount(k, w)
          /\ ConsumedAmount(i, w) <= ConsumedAmount(k, w)
      BY <3>2, <3>3, Amounted, TotalGrows DEF PendingAmount, ConsumedAmount
    <3>5. QED
      BY <2>1, <3>1, <3>4, AccountTypes
  <2>4. QED
    BY <2>1, <2>2, <2>3
<1>3. QED
  BY <1>1, <1>2, AlwaysLedgerInv, TotalsAreConsumed, PTL

-----------------------------------------------------------------------------
\* The ledger gives execute what EffectBoundary takes it for: reserve grants a
\* reservation that never was, consume_many spends what is outstanding, whether
\* it returns or raises, and nothing that was spent is outstanding again.
THEOREM LedgerImplementsPool == Spec => ImplementsPool
<1>1. Init => Pool!Init
  BY DEF Init, Pool!Init, Consumed
<1>2. LedgerInv /\ [Next]_vars => [Pool!Next]_(Pool!poolVars)
  <2> SUFFICES ASSUME LedgerInv, [Next]_vars PROVE [Pool!Next]_(Pool!poolVars)
    OBVIOUS
  <2> USE DEF Pool!poolVars
  <2>1. ASSUME NEW b \in Catalogue, Register(b)
        PROVE  UNCHANGED Pool!poolVars
    BY <2>1 DEF Register, Consumed
  <2>2. ASSUME NEW id \in BudgetIds, NEW w \in Windows, NEW a \in Amounts,
               NEW x \in Bindings, NEW now \in Times, Reserve(id, w, a, x, now)
        PROVE  Pool!Next
    <3>1. PICK r \in Reservation :
            r \notin issued /\ pending' = pending \cup {r}
      BY <2>2, AfterReserve
    <3>2. r \notin pending \cup Consumed
      BY <3>1 DEF LedgerInv, IdsInv, SettledInv
    <3>3. Consumed' = Consumed
      BY <2>2 DEF Reserve, Consumed
    <3>4. QED
      BY <3>1, <3>2, <3>3 DEF Pool!Next, Pool!Grant
  <2>3. ASSUME NEW S \in SUBSET pending, Settles(S)
        PROVE  Pool!Next
    <3>1. Consumed' = Consumed \cup S
      BY <2>3, SettlingKeepsInv
    <3>2. pending' = pending \ S
      BY <2>3, <3>1, AfterSettle DEF Settles
    <3>3. S \in SUBSET Reservation
      BY DEF LedgerInv, TypeOK
    <3>4. QED
      BY <3>1, <3>2, <3>3 DEF Pool!Next, Pool!Spend
  <2>4. CASE UNCHANGED vars
    BY <2>4 DEF vars, Consumed
  <2>5. QED
    BY <2>1, <2>2, <2>3, <2>4, StepCases
<1>3. QED
  BY <1>1, <1>2, AlwaysLedgerInv, PTL DEF Spec, ImplementsPool, Pool!Spec

-----------------------------------------------------------------------------
\* Whatever part of what was consumed is looked at, the effects of one caller or
\* of all, its amounts stay within the limit of every cumulative budget above.
ConsumptionWithinLimit ==
  \A k \in RegisteredIds, v \in Windows : Cumulative(k) =>
    \A S \in SUBSET Consumed : Total(Against(S, k, v)) <= Budget(k).limit

\* What execute has spent on effects never exceeds a hard limit: the reservations
\* consumed for them, in any selection, add up to at most what the budget and
\* each of its ancestors allow in the window.
THEOREM ConsumptionStaysWithinLimit == Spec => []ConsumptionWithinLimit
<1>1. LedgerInv /\ HardLimitHolds /\ CommittedIsConsumed => ConsumptionWithinLimit
  <2> SUFFICES ASSUME LedgerInv, HardLimitHolds, CommittedIsConsumed,
                      NEW k \in RegisteredIds, NEW v \in Windows, Cumulative(k),
                      NEW S \in SUBSET Consumed
               PROVE  Total(Against(S, k, v)) <= Budget(k).limit
    BY DEF ConsumptionWithinLimit
  <2>1. Consumed \subseteq issued
    BY DEF LedgerInv, SettledInv
  <2>2. Against(S, k, v) \subseteq Against(Consumed, k, v)
    BY DEF Against
  <2>3. Total(Against(S, k, v)) <= ConsumedAmount(k, v)
    BY <2>1, <2>2, Amounted, TotalGrows DEF ConsumedAmount
  <2>4. Total(Against(S, k, v)) \in Nat
    BY <2>1, Amounted
  <2>5. /\ committed[<<k, v>>] = ConsumedAmount(k, v)
        /\ committed[<<k, v>>] + PendingAmount(k, v) <= Budget(k).limit
    BY DEF CommittedIsConsumed, HardLimitHolds, ConsumedAmount
  <2>6. QED
    BY <2>3, <2>4, <2>5, AccountTypes
<1>2. QED
  BY <1>1, AlwaysLedgerInv, LimitsHold, TotalsAreConsumed, PTL

\* Single amounts fit at every level, under a limit per action as under a
\* cumulative one.
AmountsFit ==
  \A r \in issued : \A k \in Chain(r.budget) : r.amount <= Budget(k).limit

\* No single reservation is larger than the limit of its budget or of any
\* ancestor of it, also in the mode in which only single amounts are limited.
THEOREM ReservationsFitEveryLevel == Spec => []AmountsFit
<1>1. Init => AmountsFit
  BY DEF Init, AmountsFit
<1>2. LedgerInv /\ AmountsFit /\ [Next]_vars => AmountsFit'
  <2> SUFFICES ASSUME LedgerInv, AmountsFit, [Next]_vars PROVE AmountsFit'
    OBVIOUS
  <2>1. \A r \in issued : r.budget \in RegisteredIds /\ Chain(r.budget) \subseteq RegisteredIds
    BY ChainFacts DEF LedgerInv, IdsInv
  <2>2. ASSUME NEW b \in Catalogue, Register(b) PROVE AmountsFit'
    BY <2>1, <2>2, RegisterKeepsForest, RegisterKeepsChains
       DEF AmountsFit, Register, LedgerInv
  <2>3. ASSUME registered' = registered
        PROVE  /\ \A r \in issued : Chain(r.budget)' = Chain(r.budget)
               /\ \A k : Budget(k)' = Budget(k)
    BY <2>1, <2>3, SameChains DEF LedgerInv
  <2>4. ASSUME NEW id \in BudgetIds, NEW w \in Windows, NEW a \in Amounts,
               NEW x \in Bindings, NEW now \in Times, Reserve(id, w, a, x, now)
        PROVE  AmountsFit'
    <3> DEFINE r == [id |-> Cardinality(issued) + 1, budget |-> id, window |-> w,
                     dimension |-> Budget(id).dimension, amount |-> a,
                     bound |-> x, issued |-> now]
    <3>1. /\ issued' = issued \cup {r} /\ registered' = registered
          /\ id \in RegisteredIds
          /\ \A k \in Chain(id) : HasRoom(k, w, a)
      BY <2>4 DEF Reserve
    <3>2. r.budget = id /\ r.amount = a
      OBVIOUS
    <3> HIDE DEF r
    <3>3. \A k \in Chain(id) : a <= Budget(k).limit
      <4> SUFFICES ASSUME NEW k \in Chain(id) PROVE a <= Budget(k).limit
        OBVIOUS
      <4>1. k \in RegisteredIds
        BY <3>1, ChainFacts DEF LedgerInv
      <4>2. /\ committed[<<k, w>>] \in Nat /\ PendingAmount(k, w) \in Nat
            /\ Budget(k).limit \in Nat
        BY <4>1, AccountTypes
      <4>3. a \in Nat
        BY AmountAssumption
      <4>4. QED
        BY <3>1, <4>2, <4>3 DEF HasRoom
    <3>4. Chain(id)' = Chain(id) /\ \A k : Budget(k)' = Budget(k)
      BY <3>1, SameChains DEF LedgerInv
    <3>5. QED
      BY <2>3, <3>1, <3>2, <3>3, <3>4 DEF AmountsFit
  <2>5. ASSUME registered' = registered, issued' = issued PROVE AmountsFit'
    BY <2>3, <2>5 DEF AmountsFit
  <2>6. QED
    BY <2>2, <2>4, <2>5, StepCases DEF Settles, vars
<1>3. QED
  BY <1>1, <1>2, AlwaysLedgerInv, PTL DEF Spec
=============================================================================

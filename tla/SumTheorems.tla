------------------------------ MODULE SumTheorems ------------------------------
(***************************************************************************)
(* Sums over finite sets of numbers, SumFunctionOnSet of FiniteSetsExt:    *)
(* they are defined by a recursive function that takes the elements in the *)
(* order of CHOOSE, and have the value of any other order.  There is no    *)
(* induction over an operator here: each lemma looks at a smallest set, or *)
(* a smallest number, for which it would fail.                             *)
(***************************************************************************)
EXTENDS Integers, FiniteSets, FiniteSetsExt, FiniteSetTheorems, TLAPS

(* A set of finite sets has one that contains no other of them. *)
LEMMA MinimalSet ==
  ASSUME NEW S, IsFiniteSet(S), NEW B, B \subseteq SUBSET S, B # {}
  PROVE  \E m \in B : \A b \in B : ~(b \subseteq m /\ b # m)
<1>1. IsWellFoundedOn(StrictSubsetOrdering(S), SUBSET S)
  BY FS_StrictSubsetOrderingWellFounded, FS_FiniteSubsetsOfFinite
<1>2. \E m \in B : \A b \in B : ~(<<b, m>> \in StrictSubsetOrdering(S))
  BY <1>1, WFMin
<1>3. QED
  BY <1>2 DEF StrictSubsetOrdering

(* So has a set of numbers. *)
LEMMA Least ==
  ASSUME NEW B, B \subseteq Nat, B # {}
  PROVE  \E m \in B : \A b \in B : m <= b
<1>1. IsWellFoundedOn(OpToRel(<, Nat), Nat)
  BY NatLessThanWellFounded
<1>2. \E m \in B : \A b \in B : ~(<<b, m>> \in OpToRel(<, Nat))
  BY <1>1, WFMin
<1>3. \A b, m \in Nat : b < m => <<b, m>> \in OpToRel(<, Nat)
  BY DEF OpToRel
<1>4. PICK m \in B : \A b \in B : ~(<<b, m>> \in OpToRel(<, Nat))
  BY <1>2
<1>5. \A b \in B : m \in Nat /\ b \in Nat /\ ~(b < m)
  BY <1>3, <1>4
<1>6. QED
  BY <1>5

(* The recursion of SumFunctionOnSet, with its parts named. *)
First(s) == CHOOSE x \in s : TRUE
Adds(f, g, s) == IF s = {} THEN 0 ELSE f[First(s)] + g[s \ {First(s)}]
Iter(f, S) == CHOOSE g : g = [s \in SUBSET S |-> Adds(f, g, s)]

(* The library's sum is the value of that recursion. *)
LEMMA SumIsIter == ASSUME NEW f, NEW S PROVE SumFunctionOnSet(f, S) = Iter(f, S)[S]
  BY DEF SumFunctionOnSet, FoldFunctionOnSet, MapThenFoldSet, Iter, Adds, First

(* The recursion has a solution: there is one for the sets of at most n elements, for each n. *)
LEMMA IterEquation ==
  ASSUME NEW f, NEW S, IsFiniteSet(S)
  PROVE  \A s \in SUBSET S : Iter(f, S)[s] = Adds(f, Iter(f, S), s)
<1> DEFINE D(n) == {s \in SUBSET S : Cardinality(s) <= n}
           Solves(g, n) == g = [s \in D(n) |-> Adds(f, g, s)]
           Bad == {n \in Nat : ~ \E g : Solves(g, n)}
<1>1. \A s \in SUBSET S : IsFiniteSet(s) /\ Cardinality(s) \in Nat /\ Cardinality(s) <= Cardinality(S)
  BY FS_Subset, FS_CardinalityType
<1>2. \A s \in SUBSET S : s # {} =>
         /\ First(s) \in s /\ s \ {First(s)} \in SUBSET S
         /\ Cardinality(s \ {First(s)}) = Cardinality(s) - 1
  BY <1>1, FS_RemoveElement DEF First
<1>3. \E g : Solves(g, 0)
  <2>1. \A s \in D(0) : s = {}
    BY <1>1, FS_EmptySet
  <2>2. Solves([s \in D(0) |-> 0], 0)
    BY <2>1 DEF Adds
  <2>3. QED
    BY <2>2
<1>4. ASSUME NEW n \in Nat, \E g : Solves(g, n)
      PROVE  \E g : Solves(g, n + 1)
  <2>1. PICK g : Solves(g, n)
    BY <1>4
  <2> DEFINE h == [s \in D(n + 1) |-> Adds(f, g, s)]
  <2>2. \A s \in D(n) : s \in D(n + 1) /\ h[s] = g[s]
    BY <1>1, <2>1
  <2>3. \A s \in D(n + 1) : s # {} => s \ {First(s)} \in D(n)
    BY <1>1, <1>2
  <2>4. \A s \in D(n + 1) : Adds(f, g, s) = Adds(f, h, s)
    BY <2>2, <2>3 DEF Adds
  <2>5. Solves(h, n + 1)
    BY <2>4
  <2>6. QED
    BY <2>5
<1>5. Bad = {}
  <2>1. SUFFICES ASSUME Bad # {} PROVE FALSE
    OBVIOUS
  <2>2. PICK m \in Bad : \A b \in Bad : m <= b
    BY <2>1, Least
  <2> HIDE DEF Solves
  <2>3. m # 0 /\ m \in Nat
    BY <1>3
  <2>4. m - 1 \notin Bad /\ m - 1 \in Nat
    <3>1. m - 1 \in Nat /\ ~(m <= m - 1)
      BY <2>3
    <3>2. QED
      BY <2>2, <3>1
  <2>5. \E g : Solves(g, (m - 1) + 1)
    BY <1>4, <2>3, <2>4
  <2>6. QED
    BY <2>2, <2>5
<1>6. PICK g : Solves(g, Cardinality(S))
  <2>1. Cardinality(S) \in Nat
    BY FS_CardinalityType
  <2> HIDE DEF Solves
  <2>2. QED
    BY <1>5, <2>1
<1>7. D(Cardinality(S)) = SUBSET S
  BY <1>1
<1>8. g = [s \in SUBSET S |-> Adds(f, g, s)]
  BY <1>6, <1>7
<1>9. Iter(f, S) = [s \in SUBSET S |-> Adds(f, Iter(f, S), s)]
  BY <1>8 DEF Iter
<1>10. QED
  BY <1>9

(* It gives a subset the same sum, whichever set it started from. *)
LEMMA IterAgrees ==
  ASSUME NEW f, NEW S, IsFiniteSet(S), NEW T \in SUBSET S
  PROVE  Iter(f, S)[T] = SumFunctionOnSet(f, T)
<1> DEFINE Bad == {u \in SUBSET T : Iter(f, S)[u] # Iter(f, T)[u]}
<1>1. IsFiniteSet(T)
  BY FS_Subset
<1>2. Bad = {}
  <2>1. SUFFICES ASSUME Bad # {} PROVE FALSE
    OBVIOUS
  <2>2. PICK m \in Bad : \A b \in Bad : ~(b \subseteq m /\ b # m)
    <3>1. Bad \subseteq SUBSET T
      OBVIOUS
    <3> HIDE DEF Bad
    <3>2. QED
      BY <1>1, <2>1, <3>1, MinimalSet
  <2>3. Iter(f, S)[m] = Adds(f, Iter(f, S), m) /\ Iter(f, T)[m] = Adds(f, Iter(f, T), m)
    BY <1>1, IterEquation, m \in SUBSET S, m \in SUBSET T
  <2>4. m # {}
    BY <2>2, <2>3 DEF Adds
  <2>5. First(m) \in m
    BY <2>4 DEF First
  <2>6. Iter(f, S)[m \ {First(m)}] = Iter(f, T)[m \ {First(m)}]
    BY <2>2, <2>5
  <2>7. QED
    BY <2>2, <2>3, <2>6 DEF Adds
<1>3. QED
  BY <1>2, SumIsIter

(* The sum of nothing is zero. *)
LEMMA SumOfNone == ASSUME NEW f PROVE SumFunctionOnSet(f, {}) = 0
<1>1. Iter(f, {})[{}] = Adds(f, Iter(f, {}), {})
  BY FS_EmptySet, IterEquation
<1>2. QED
  BY <1>1, SumIsIter DEF Adds

(* The element that CHOOSE picks is added to the sum of the others. *)
LEMMA SumByFirst ==
  ASSUME NEW f, NEW S, IsFiniteSet(S), S # {}
  PROVE  SumFunctionOnSet(f, S) = f[First(S)] + SumFunctionOnSet(f, S \ {First(S)})
<1>1. Iter(f, S)[S] = Adds(f, Iter(f, S), S)
  BY IterEquation
<1>2. Iter(f, S)[S \ {First(S)}] = SumFunctionOnSet(f, S \ {First(S)})
  BY IterAgrees
<1>3. QED
  BY <1>1, <1>2, SumIsIter DEF Adds

(* Integers add up to an integer. *)
LEMMA SumIsInteger ==
  ASSUME NEW f, NEW S, IsFiniteSet(S), \A x \in S : f[x] \in Int
  PROVE  SumFunctionOnSet(f, S) \in Int
<1> DEFINE Bad == {u \in SUBSET S : SumFunctionOnSet(f, u) \notin Int}
<1>1. SUFFICES ASSUME Bad # {} PROVE FALSE
  OBVIOUS
<1>2. PICK m \in Bad : \A b \in Bad : ~(b \subseteq m /\ b # m)
  <2>1. Bad \subseteq SUBSET S
    OBVIOUS
  <2> HIDE DEF Bad
  <2>2. QED
    BY <1>1, <2>1, MinimalSet
<1>3. m # {}
  BY SumOfNone
<1>4. First(m) \in m /\ IsFiniteSet(m)
  BY <1>3, FS_Subset DEF First
<1>5. SumFunctionOnSet(f, m \ {First(m)}) \in Int
  BY <1>2, <1>4
<1>6. QED
  BY <1>3, <1>4, <1>5, SumByFirst

(* So is any other element: the order does not matter. *)
LEMMA SumWithout ==
  ASSUME NEW f, NEW S, IsFiniteSet(S), \A x \in S : f[x] \in Int, NEW e \in S
  PROVE  SumFunctionOnSet(f, S) = f[e] + SumFunctionOnSet(f, S \ {e})
<1> DEFINE Sum(u) == SumFunctionOnSet(f, u)
           Bad == {u \in SUBSET S : \E x \in u : Sum(u) # f[x] + Sum(u \ {x})}
<1>1. SUFFICES ASSUME Bad # {} PROVE FALSE
  OBVIOUS
<1>2. PICK m \in Bad : \A b \in Bad : ~(b \subseteq m /\ b # m)
  <2>1. Bad \subseteq SUBSET S
    OBVIOUS
  <2> HIDE DEF Bad
  <2>2. QED
    BY <1>1, <2>1, MinimalSet
<1>3. PICK x \in m : Sum(m) # f[x] + Sum(m \ {x})
  OBVIOUS
<1> DEFINE c == First(m)
<1>4. c \in m /\ IsFiniteSet(m) /\ Sum(m) = f[c] + Sum(m \ {c})
  BY FS_Subset, SumByFirst DEF First
<1>5. x # c
  BY <1>3, <1>4
<1>6. Sum(m \ {c}) = f[x] + Sum((m \ {c}) \ {x})
  <2>1. m \ {c} \notin Bad
    BY <1>2, <1>4
  <2>2. QED
    BY <1>5, <2>1
<1>7. Sum(m \ {x}) = f[c] + Sum((m \ {x}) \ {c})
  <2>1. m \ {x} \notin Bad
    BY <1>2
  <2>2. QED
    BY <1>4, <1>5, <2>1
<1>8. (m \ {x}) \ {c} = (m \ {c}) \ {x}
  OBVIOUS
<1>9. f[x] \in Int /\ f[c] \in Int /\ Sum((m \ {c}) \ {x}) \in Int
  BY <1>4, FS_Subset, SumIsInteger
<1>10. \A a, b, d \in Int : a + (b + d) = b + (a + d)
  OBVIOUS
<1>11. Sum(m) = f[c] + (f[x] + Sum((m \ {c}) \ {x})) /\ Sum(m \ {x}) = f[c] + Sum((m \ {c}) \ {x})
  BY <1>4, <1>6, <1>7, <1>8
<1> HIDE DEF Sum, Bad, c
<1>12. QED
  BY <1>3, <1>9, <1>10, <1>11

(* A sum reads only the values of its elements. *)
LEMMA SumSame ==
  ASSUME NEW f, NEW g, NEW S, IsFiniteSet(S), \A x \in S : f[x] = g[x]
  PROVE  SumFunctionOnSet(f, S) = SumFunctionOnSet(g, S)
<1> DEFINE Bad == {u \in SUBSET S : SumFunctionOnSet(f, u) # SumFunctionOnSet(g, u)}
<1>1. SUFFICES ASSUME Bad # {} PROVE FALSE
  OBVIOUS
<1>2. PICK m \in Bad : \A b \in Bad : ~(b \subseteq m /\ b # m)
  <2>1. Bad \subseteq SUBSET S
    OBVIOUS
  <2> HIDE DEF Bad
  <2>2. QED
    BY <1>1, <2>1, MinimalSet
<1>3. m # {}
  BY SumOfNone
<1>4. First(m) \in m /\ IsFiniteSet(m)
  BY <1>3, FS_Subset DEF First
<1>5. SumFunctionOnSet(f, m \ {First(m)}) = SumFunctionOnSet(g, m \ {First(m)})
  BY <1>2, <1>4
<1>6. QED
  BY <1>3, <1>4, <1>5, SumByFirst

(* A new element is added to the sum. *)
LEMMA SumWith ==
  ASSUME NEW f, NEW S, IsFiniteSet(S), NEW e, e \notin S, \A x \in S \cup {e} : f[x] \in Int
  PROVE  SumFunctionOnSet(f, S \cup {e}) = f[e] + SumFunctionOnSet(f, S)
<1>1. IsFiniteSet(S \cup {e})
  BY FS_AddElement
<1>2. (S \cup {e}) \ {e} = S
  OBVIOUS
<1>3. QED
  BY <1>1, <1>2, SumWithout

(* Natural numbers add up to one, and a part of them to no more than all. *)
LEMMA SumIsNatural ==
  ASSUME NEW f, NEW S, IsFiniteSet(S), \A x \in S : f[x] \in Nat
  PROVE  SumFunctionOnSet(f, S) \in Nat
<1> DEFINE Bad == {u \in SUBSET S : SumFunctionOnSet(f, u) \notin Nat}
<1>1. SUFFICES ASSUME Bad # {} PROVE FALSE
  OBVIOUS
<1>2. PICK m \in Bad : \A b \in Bad : ~(b \subseteq m /\ b # m)
  <2>1. Bad \subseteq SUBSET S
    OBVIOUS
  <2> HIDE DEF Bad
  <2>2. QED
    BY <1>1, <2>1, MinimalSet
<1>3. m # {}
  BY SumOfNone
<1>4. First(m) \in m /\ IsFiniteSet(m)
  BY <1>3, FS_Subset DEF First
<1>5. SumFunctionOnSet(f, m \ {First(m)}) \in Nat
  BY <1>2, <1>4
<1>6. QED
  BY <1>3, <1>4, <1>5, SumByFirst

LEMMA SumOfPart ==
  ASSUME NEW f, NEW S, IsFiniteSet(S), \A x \in S : f[x] \in Nat, NEW T, T \subseteq S
  PROVE  SumFunctionOnSet(f, T) <= SumFunctionOnSet(f, S)
<1> DEFINE Sum(u) == SumFunctionOnSet(f, u)
           Bad == {u \in SUBSET S : T \subseteq u /\ ~(Sum(T) <= Sum(u))}
<1>1. SUFFICES ASSUME Bad # {} PROVE FALSE
  OBVIOUS
<1>2. PICK m \in Bad : \A b \in Bad : ~(b \subseteq m /\ b # m)
  <2>1. Bad \subseteq SUBSET S
    OBVIOUS
  <2> HIDE DEF Bad
  <2>2. QED
    BY <1>1, <2>1, MinimalSet
<1>3. \A u \in SUBSET S : Sum(u) \in Nat
  <2> SUFFICES ASSUME NEW u \in SUBSET S PROVE Sum(u) \in Nat
    OBVIOUS
  <2>1. IsFiniteSet(u)
    BY FS_Subset
  <2>2. QED
    BY <2>1, SumIsNatural
<1>4. m \in SUBSET S /\ T \subseteq m /\ ~(Sum(T) <= Sum(m))
  OBVIOUS
<1>5. PICK e \in m : e \notin T
  <2>1. m # T
    BY <1>3, <1>4
  <2>2. QED
    BY <1>4, <2>1
<1>6. IsFiniteSet(m) /\ f[e] \in Nat
  BY <1>4, FS_Subset
<1>7. Sum(m) = f[e] + Sum(m \ {e})
  <2>1. \A x \in m : f[x] \in Int
    BY <1>4
  <2>2. QED
    BY <1>6, <2>1, SumWithout
<1>8. Sum(T) <= Sum(m \ {e})
  BY <1>2, <1>4, <1>5
<1>9. Sum(T) \in Nat /\ Sum(m \ {e}) \in Nat
  BY <1>3, <1>4
<1> HIDE DEF Sum
<1>10. QED
  BY <1>4, <1>6, <1>7, <1>8, <1>9

LEMMA SumOfZeros ==
  ASSUME NEW f, NEW S, IsFiniteSet(S), \A x \in S : f[x] = 0
  PROVE  SumFunctionOnSet(f, S) = 0
<1> DEFINE Bad == {u \in SUBSET S : SumFunctionOnSet(f, u) # 0}
<1>1. SUFFICES ASSUME Bad # {} PROVE FALSE
  OBVIOUS
<1>2. PICK m \in Bad : \A b \in Bad : ~(b \subseteq m /\ b # m)
  <2>1. Bad \subseteq SUBSET S
    OBVIOUS
  <2> HIDE DEF Bad
  <2>2. QED
    BY <1>1, <2>1, MinimalSet
<1>3. m # {}
  BY SumOfNone
<1>4. First(m) \in m /\ IsFiniteSet(m)
  BY <1>3, FS_Subset DEF First
<1>5. SumFunctionOnSet(f, m \ {First(m)}) = 0
  BY <1>2, <1>4
<1>6. QED
  BY <1>3, <1>4, <1>5, SumByFirst
=============================================================================

---------------------------- MODULE DataInduction -----------------------------
(***************************************************************************)
(* Induction over data, in the form the proofs about the components use    *)
(* it.  The induction theorems of the library take a predicate, which the  *)
(* provers cannot instantiate; here the predicate is a set, the set of     *)
(* what it holds for, so that each instance is an ordinary fact.           *)
(***************************************************************************)
EXTENDS FiniteSetTheorems, TLAPS

-------------------------------------------------------------------------------
(* Natural numbers.                                                        *)

\* A nonempty set of natural numbers has a least element.
LEMMA NatMinimum ==
    ASSUME NEW S \in SUBSET Nat, S # {}
    PROVE  \E m \in S : \A n \in S : m <= n
<1>. DEFINE below == OpToRel(<, Nat)
<1>1. PICK m \in S : \A n \in S : <<n, m>> \notin below
  <2>1. IsWellFoundedOn(below, Nat)
    BY NatLessThanWellFounded
  <2>. HIDE DEF below
  <2>. QED
    BY <2>1, WFMin
<1>2. \A n \in S : ~(n < m)
  BY <1>1 DEF OpToRel
<1>. QED
  BY <1>2

\* A set that holds zero and with each number the next one holds all.
LEMMA NatSetInduction ==
    ASSUME NEW S, 0 \in S, \A n \in Nat : n \in S => n + 1 \in S
    PROVE  Nat \subseteq S
<1>. DEFINE bad == Nat \ S
<1>. SUFFICES ASSUME bad # {} PROVE FALSE
  OBVIOUS
<1>1. \E m \in bad : \A n \in bad : m <= n
  <2>1. bad \in SUBSET Nat
    OBVIOUS
  <2>. HIDE DEF bad
  <2>. QED
    BY <2>1, NatMinimum
<1>2. PICK m \in bad : \A n \in bad : m <= n
  BY <1>1
<1>3. m - 1 \in Nat /\ m - 1 \in S
  BY <1>2
<1>. QED
  BY <1>2, <1>3

\* A nonempty set of naturals below a bound has a greatest one.
LEMMA NatMaximum ==
    ASSUME NEW b \in Nat, NEW S \in SUBSET (0..b), S # {}
    PROVE  \E m \in S : \A n \in S : n <= m
<1>. DEFINE rest == {b - n : n \in S}
<1>1. rest \in SUBSET Nat /\ rest # {}
  <2>1. \A n \in S : b - n \in Nat
    OBVIOUS
  <2>. QED
    BY <2>1
<1>2. \E r \in rest : \A q \in rest : r <= q
  <2>. HIDE DEF rest
  <2>. QED
    BY <1>1, NatMinimum
<1>3. PICK m \in S : \A q \in rest : b - m <= q
  BY <1>2
<1>4. ASSUME NEW n \in S PROVE n <= m
  <2>1. b - m <= b - n
    BY <1>3
  <2>2. m \in Int /\ n \in Int
    OBVIOUS
  <2>. QED
    BY <2>1, <2>2
<1>. QED
  BY <1>4

-------------------------------------------------------------------------------
(* Finite sets.                                                            *)

\* If the empty set is in C, and C is closed under adding an element of S to a subset of
\* S, then S is in C.
LEMMA SetInduction ==
    ASSUME NEW S, IsFiniteSet(S), NEW C, {} \in C,
           \A T \in SUBSET S : T \in C => \A x \in S \ T : T \cup {x} \in C
    PROVE  S \in C
<1>. DEFINE left == {Cardinality(S \ T) : T \in {U \in SUBSET S : U \in C}}
<1>1. ASSUME NEW T \in SUBSET S
      PROVE  IsFiniteSet(S \ T) /\ Cardinality(S \ T) \in Nat
  BY FS_Subset, FS_CardinalityType
<1>2. left \in SUBSET Nat /\ left # {}
  BY <1>1
<1>3. \E m \in left : \A n \in left : m <= n
  <2>. HIDE DEF left
  <2>. QED
    BY <1>2, NatMinimum
<1>4. PICK T \in SUBSET S : T \in C /\ \A n \in left : Cardinality(S \ T) <= n
  BY <1>3
<1>5. ASSUME NEW x \in S \ T PROVE FALSE
  <2>1. T \cup {x} \in C /\ T \cup {x} \in SUBSET S
    BY <1>4
  <2>2. S \ (T \cup {x}) = (S \ T) \ {x}
    OBVIOUS
  <2>3. Cardinality((S \ T) \ {x}) = Cardinality(S \ T) - 1
    BY <1>1, <1>5, FS_RemoveElement
  <2>4. Cardinality(S \ (T \cup {x})) \in left
    BY <2>1
  <2>5. Cardinality(S \ T) <= Cardinality((S \ T) \ {x})
    <3>. HIDE DEF left
    <3>. QED
      BY <1>4, <2>2, <2>4
  <2>. QED
    BY <1>1, <2>3, <2>5
<1>6. T = S
  BY <1>5
<1>. QED
  BY <1>4, <1>6

\* Induction over the subsets of a finite set: if C holds what all smaller subsets of a
\* subset make it hold, it holds every subset.
LEMMA SubsetInduction ==
    ASSUME NEW S, IsFiniteSet(S), NEW C,
           \A T \in SUBSET S : (\A U \in (SUBSET T) \ {T} : U \in C) => T \in C
    PROVE  SUBSET S \subseteq C
<1>. DEFINE bad == (SUBSET S) \ C
            below == StrictSubsetOrdering(S)
<1>. SUFFICES ASSUME bad # {} PROVE FALSE
  OBVIOUS
<1>1. IsWellFoundedOn(below, SUBSET S)
  <2>1. FiniteSubsetsOf(S) = SUBSET S
    BY FS_FiniteSubsetsOfFinite
  <2>2. IsWellFoundedOn(below, FiniteSubsetsOf(S))
    BY FS_StrictSubsetOrderingWellFounded
  <2>. QED
    BY <2>1, <2>2, Zenon
<1>2. \E T \in bad : \A U \in bad : <<U, T>> \notin below
  <2>1. bad \in SUBSET (SUBSET S)
    OBVIOUS
  <2>. HIDE DEF bad, below
  <2>. QED
    BY <1>1, <2>1, WFMin
<1>3. PICK T \in bad : \A U \in bad : <<U, T>> \notin below
  BY <1>2
<1>4. ASSUME NEW U \in (SUBSET T) \ {T} PROVE U \in C
  BY <1>3 DEF StrictSubsetOrdering
<1>. QED
  BY <1>3, <1>4
-------------------------------------------------------------------------------
(* Sums.  SumFunctionOnSet folds the values of a function over a set, in   *)
(* the order in which CHOOSE picks its elements.                           *)

Pick(T) == CHOOSE x \in T : TRUE

\* g is that fold of f, for every subset of S.
FoldStep(f, g, T) == IF T = {} THEN 0 ELSE f[Pick(T)] + g[T \ {Pick(T)}]
IsFold(f, S, g) == g = [T \in SUBSET S |-> FoldStep(f, g, T)]

\* Taking an element away makes a finite set smaller.
LEMMA PickSmaller ==
    ASSUME NEW S, IsFiniteSet(S), NEW T \in SUBSET S, T # {}
    PROVE  /\ Pick(T) \in T /\ T \ {Pick(T)} \in (SUBSET T) \ {T}
           /\ IsFiniteSet(T) /\ Cardinality(T) \in Nat
           /\ Cardinality(T \ {Pick(T)}) = Cardinality(T) - 1
<1>1. Pick(T) \in T
  BY DEF Pick
<1>2. IsFiniteSet(T) /\ Cardinality(T) \in Nat
  BY FS_Subset, FS_CardinalityType
<1>3. Cardinality(T \ {Pick(T)}) = Cardinality(T) - 1
  BY <1>1, <1>2, FS_RemoveElement
<1>. QED
  BY <1>1, <1>2, <1>3

\* The recursion of the fold has a solution on the subsets of a finite set.
LEMMA FoldExists ==
    ASSUME NEW f, NEW S, IsFiniteSet(S)
    PROVE  \E g : IsFold(f, S, g)
<1>. DEFINE Upto(n, g) == \A T \in SUBSET S : Cardinality(T) <= n => g[T] = FoldStep(f, g, T)
            N == {n \in Nat : \E g : Upto(n, g)}
<1>1. 0 \in N
  <2>. DEFINE g == [T \in SUBSET S |-> 0]
  <2>1. ASSUME NEW T \in SUBSET S, Cardinality(T) <= 0 PROVE g[T] = FoldStep(f, g, T)
    <3>1. ASSUME T # {} PROVE FALSE
      <4>1. T \ {Pick(T)} \in SUBSET S
        OBVIOUS
      <4>2. IsFiniteSet(T \ {Pick(T)}) /\ Cardinality(T \ {Pick(T)}) \in Nat
        BY <4>1, FS_Subset, FS_CardinalityType
      <4>3. Cardinality(T) \in Nat /\ Cardinality(T \ {Pick(T)}) = Cardinality(T) - 1
        BY <3>1, PickSmaller
      <4>. QED
        BY <2>1, <4>2, <4>3
    <3>. QED
      BY <3>1 DEF FoldStep
  <2>. QED
    BY <2>1
<1>2. ASSUME NEW n \in Nat, n \in N PROVE n + 1 \in N
  <2>1. PICK g : Upto(n, g)
    BY <1>2
  <2>. DEFINE h == [T \in SUBSET S |-> FoldStep(f, g, T)]
  <2>2. ASSUME NEW T \in SUBSET S, Cardinality(T) <= n + 1 PROVE h[T] = FoldStep(f, h, T)
    <3>1. CASE T = {}
      BY <3>1 DEF FoldStep
    <3>2. CASE T # {}
      <4>. DEFINE U == T \ {Pick(T)}
      <4>1. U \in SUBSET S /\ Cardinality(U) <= n
        BY <2>2, <3>2, PickSmaller
      <4>2. g[U] = FoldStep(f, g, U) /\ h[U] = FoldStep(f, g, U)
        BY <2>1, <4>1
      <4>3. h[T] = f[Pick(T)] + g[U] /\ FoldStep(f, h, T) = f[Pick(T)] + h[U]
        BY <3>2, Zenon DEF FoldStep
      <4>. QED
        BY <4>2, <4>3, Zenon
    <3>. QED
      BY <3>1, <3>2
  <2>3. Upto(n + 1, h)
    BY <2>2
  <2>. HIDE DEF h
  <2>. QED
    BY <2>3
<1>3. Nat \subseteq N
  <2>. HIDE DEF N
  <2>. QED
    BY <1>1, <1>2, NatSetInduction
<1>4. Cardinality(S) \in Nat /\ \A T \in SUBSET S : Cardinality(T) <= Cardinality(S)
  BY FS_CardinalityType, FS_Subset
<1>5. PICK g : \A T \in SUBSET S : g[T] = FoldStep(f, g, T)
  BY <1>3, <1>4
<1>. DEFINE h == [T \in SUBSET S |-> g[T]]
<1>6. ASSUME NEW T \in SUBSET S PROVE h[T] = FoldStep(f, h, T)
  <2>1. T \ {Pick(T)} \in SUBSET S
    OBVIOUS
  <2>2. FoldStep(f, h, T) = FoldStep(f, g, T)
    BY <2>1, Zenon DEF FoldStep
  <2>. QED
    BY <1>5, <2>2
<1>7. h = [T \in SUBSET S |-> FoldStep(f, h, T)]
  BY <1>6
<1>. QED
  BY <1>7, Zenon DEF IsFold

\* Two folds agree on the sets both are defined for.
LEMMA FoldUnique ==
    ASSUME NEW f, NEW S, IsFiniteSet(S), NEW R \in SUBSET S, NEW g, NEW h,
           IsFold(f, S, g), IsFold(f, R, h)
    PROVE  \A T \in SUBSET R : g[T] = h[T]
<1>. DEFINE C == {T \in SUBSET R : g[T] = h[T]}
<1>1. IsFiniteSet(R)
  BY FS_Subset
<1>2. /\ \A T \in SUBSET S : g[T] = FoldStep(f, g, T)
      /\ \A T \in SUBSET R : h[T] = FoldStep(f, h, T)
  BY Zenon DEF IsFold
<1>3. ASSUME NEW T \in SUBSET R, \A U \in (SUBSET T) \ {T} : U \in C PROVE T \in C
  <2>1. CASE T = {}
    BY <1>2, <2>1 DEF FoldStep
  <2>2. CASE T # {}
    <3>1. T \ {Pick(T)} \in C
      BY <1>1, <1>3, <2>2, PickSmaller
    <3>2. g[T \ {Pick(T)}] = h[T \ {Pick(T)}]
      BY <3>1
    <3>3. FoldStep(f, g, T) = FoldStep(f, h, T)
      BY <3>2, Zenon DEF FoldStep
    <3>. QED
      BY <1>2, <3>3
  <2>. QED
    BY <2>1, <2>2
<1>4. SUBSET R \subseteq C
  <2>. HIDE DEF C
  <2>. QED
    BY <1>1, <1>3, SubsetInduction
<1>. QED
  BY <1>4

\* The library's sum is the value of a fold.
LEMMA SumIsFold ==
    ASSUME NEW f, NEW S, IsFiniteSet(S)
    PROVE  \E g : IsFold(f, S, g) /\ SumFunctionOnSet(f, S) = g[S]
<1>. DEFINE g == CHOOSE g : IsFold(f, S, g)
<1>1. IsFold(f, S, g)
  BY FoldExists, Zenon
<1>2. SumFunctionOnSet(f, S) = g[S]
  BY Zenon DEF SumFunctionOnSet, FoldFunctionOnSet, MapThenFoldSet, IsFold, FoldStep, Pick
<1>. QED
  BY <1>1, <1>2

\* A sum over nothing is zero.
LEMMA SumEmpty == ASSUME NEW f PROVE SumFunctionOnSet(f, {}) = 0
<1>1. PICK g : IsFold(f, {}, g) /\ SumFunctionOnSet(f, {}) = g[{}]
  BY SumIsFold, FS_EmptySet
<1>2. g[{}] = FoldStep(f, g, {})
  BY <1>1, Zenon DEF IsFold
<1>. QED
  BY <1>1, <1>2 DEF FoldStep

\* A sum takes off the element CHOOSE picks.
LEMMA SumPick ==
    ASSUME NEW f, NEW S, IsFiniteSet(S), S # {}
    PROVE  SumFunctionOnSet(f, S) = f[Pick(S)] + SumFunctionOnSet(f, S \ {Pick(S)})
<1>. DEFINE R == S \ {Pick(S)}
<1>1. IsFiniteSet(R) /\ R \in SUBSET S
  BY FS_Subset
<1>2. PICK g : IsFold(f, S, g) /\ SumFunctionOnSet(f, S) = g[S]
  BY SumIsFold
<1>3. PICK h : IsFold(f, R, h) /\ SumFunctionOnSet(f, R) = h[R]
  BY <1>1, SumIsFold
<1>4. g[R] = h[R]
  BY <1>1, <1>2, <1>3, FoldUnique
<1>5. g[S] = FoldStep(f, g, S)
  BY <1>2, Zenon DEF IsFold
<1>. QED
  BY <1>2, <1>3, <1>4, <1>5 DEF FoldStep

\* A sum of integers is one, and of natural numbers also.
LEMMA SumType ==
    ASSUME NEW f, NEW S, IsFiniteSet(S), \A x \in S : f[x] \in Int
    PROVE  /\ SumFunctionOnSet(f, S) \in Int
           /\ (\A x \in S : f[x] \in Nat) => SumFunctionOnSet(f, S) \in Nat
<1>. DEFINE C == {T \in SUBSET S : /\ SumFunctionOnSet(f, T) \in Int
                                   /\ (\A x \in S : f[x] \in Nat) =>
                                          SumFunctionOnSet(f, T) \in Nat}
<1>1. ASSUME NEW T \in SUBSET S, \A U \in (SUBSET T) \ {T} : U \in C PROVE T \in C
  <2>1. CASE T = {}
    BY <2>1, SumEmpty
  <2>2. CASE T # {}
    <3>1. Pick(T) \in S /\ T \ {Pick(T)} \in C /\ IsFiniteSet(T)
      BY <1>1, <2>2, PickSmaller
    <3>2. SumFunctionOnSet(f, T) = f[Pick(T)] + SumFunctionOnSet(f, T \ {Pick(T)})
      BY <2>2, <3>1, SumPick
    <3>. QED
      BY <3>1, <3>2
  <2>. QED
    BY <2>1, <2>2
<1>2. SUBSET S \subseteq C
  <2>. HIDE DEF C
  <2>. QED
    BY <1>1, SubsetInduction
<1>. QED
  BY <1>2

\* A sum takes off any of its elements: the order does not matter.
LEMMA SumRemove ==
    ASSUME NEW f, NEW S, IsFiniteSet(S), \A x \in S : f[x] \in Int, NEW y \in S
    PROVE  SumFunctionOnSet(f, S) = f[y] + SumFunctionOnSet(f, S \ {y})
<1>. DEFINE Sum(T) == SumFunctionOnSet(f, T)
            C == {T \in SUBSET S : \A x \in T : Sum(T) = f[x] + Sum(T \ {x})}
<1>1. ASSUME NEW T \in SUBSET S PROVE Sum(T) \in Int
  BY FS_Subset, SumType
<1>2. ASSUME NEW T \in SUBSET S, \A U \in (SUBSET T) \ {T} : U \in C PROVE T \in C
  <2>. SUFFICES ASSUME NEW x \in T PROVE Sum(T) = f[x] + Sum(T \ {x})
    OBVIOUS
  <2>. DEFINE p == Pick(T)
  <2>1. p \in T /\ T \ {p} \in C /\ T \ {x} \in C /\ IsFiniteSet(T)
    <3>1. T # {}
      OBVIOUS
    <3>2. p \in T /\ IsFiniteSet(T)
      <4>. HIDE DEF p
      <4>. QED
        BY <3>1, PickSmaller DEF p
    <3>3. T \ {p} \in (SUBSET T) \ {T} /\ T \ {x} \in (SUBSET T) \ {T}
      BY <3>2
    <3>. QED
      BY <1>2, <3>2, <3>3
  <2>2. Sum(T) = f[p] + Sum(T \ {p})
    BY <2>1, SumPick
  <2>3. CASE x = p
    BY <2>2, <2>3
  <2>4. CASE x # p
    <3>1. Sum(T \ {p}) = f[x] + Sum((T \ {p}) \ {x})
      BY <2>1, <2>4
    <3>2. Sum(T \ {x}) = f[p] + Sum((T \ {x}) \ {p})
      BY <2>1, <2>4
    <3>3. (T \ {p}) \ {x} = (T \ {x}) \ {p}
      OBVIOUS
    <3>4. Sum((T \ {x}) \ {p}) \in Int /\ f[x] \in Int /\ f[p] \in Int
      BY <1>1, <2>1
    <3>5. Sum(T) = f[p] + (f[x] + Sum((T \ {x}) \ {p}))
      BY <2>2, <3>1, <3>3
    <3>. HIDE DEF Sum
    <3>. QED
      BY <3>2, <3>4, <3>5
  <2>. QED
    BY <2>3, <2>4
<1>3. SUBSET S \subseteq C
  <2>. HIDE DEF C
  <2>. QED
    BY <1>2, SubsetInduction
<1>. QED
  BY <1>3

\* A sum adds an element that is not in its set.
LEMMA SumAdd ==
    ASSUME NEW f, NEW S, IsFiniteSet(S), NEW y, y \notin S, \A x \in S \cup {y} : f[x] \in Int
    PROVE  SumFunctionOnSet(f, S \cup {y}) = f[y] + SumFunctionOnSet(f, S)
<1>1. IsFiniteSet(S \cup {y}) /\ (S \cup {y}) \ {y} = S
  BY FS_AddElement
<1>. QED
  BY <1>1, SumRemove

\* A sum of smaller values is smaller.
LEMMA SumCompare ==
    ASSUME NEW S, IsFiniteSet(S), NEW f, NEW g, \A x \in S : f[x] \in Int /\ g[x] \in Int,
           \A x \in S : f[x] <= g[x]
    PROVE  SumFunctionOnSet(f, S) <= SumFunctionOnSet(g, S)
<1>. DEFINE F(T) == SumFunctionOnSet(f, T)
            G(T) == SumFunctionOnSet(g, T)
            C == {T \in SUBSET S : F(T) <= G(T)}
<1>1. {} \in C
  BY SumEmpty
<1>2. ASSUME NEW T \in SUBSET S, T \in C, NEW x \in S \ T PROVE T \cup {x} \in C
  <2>1. IsFiniteSet(T)
    BY FS_Subset
  <2>2. F(T \cup {x}) = f[x] + F(T) /\ G(T \cup {x}) = g[x] + G(T)
    BY <2>1, SumAdd
  <2>3. F(T) \in Int /\ G(T) \in Int /\ F(T) <= G(T)
    BY <1>2, <2>1, SumType
  <2>4. F(T \cup {x}) <= G(T \cup {x})
    <3>. HIDE DEF F, G
    <3>. QED
      BY <2>2, <2>3
  <2>. QED
    BY <2>4
<1>3. S \in C
  <2>. HIDE DEF C
  <2>. QED
    BY <1>1, <1>2, SetInduction
<1>. QED
  BY <1>3

\* Sums of equal values are equal, whatever the functions are elsewhere.
LEMMA SumSame ==
    ASSUME NEW S, IsFiniteSet(S), NEW f, NEW g, \A x \in S : f[x] \in Int /\ g[x] = f[x]
    PROVE  SumFunctionOnSet(f, S) = SumFunctionOnSet(g, S)
<1>1. SumFunctionOnSet(f, S) \in Int /\ SumFunctionOnSet(g, S) \in Int
  BY SumType
<1>2. /\ SumFunctionOnSet(f, S) <= SumFunctionOnSet(g, S)
      /\ SumFunctionOnSet(g, S) <= SumFunctionOnSet(f, S)
  BY SumCompare
<1>. QED
  BY <1>1, <1>2

\* The sum of sums.
LEMMA SumPlus ==
    ASSUME NEW S, IsFiniteSet(S), NEW f, NEW g, NEW h,
           \A x \in S : f[x] \in Int /\ g[x] \in Int /\ h[x] = f[x] + g[x]
    PROVE  SumFunctionOnSet(h, S) = SumFunctionOnSet(f, S) + SumFunctionOnSet(g, S)
<1>. DEFINE F(T) == SumFunctionOnSet(f, T)
            G(T) == SumFunctionOnSet(g, T)
            H(T) == SumFunctionOnSet(h, T)
            C == {T \in SUBSET S : H(T) = F(T) + G(T)}
<1>1. {} \in C
  BY SumEmpty
<1>2. ASSUME NEW T \in SUBSET S, T \in C, NEW x \in S \ T PROVE T \cup {x} \in C
  <2>1. IsFiniteSet(T) /\ \A y \in S : h[y] \in Int
    BY FS_Subset
  <2>2. /\ F(T \cup {x}) = f[x] + F(T) /\ G(T \cup {x}) = g[x] + G(T)
        /\ H(T \cup {x}) = (f[x] + g[x]) + H(T)
    BY <2>1, SumAdd
  <2>3. F(T) \in Int /\ G(T) \in Int /\ H(T) = F(T) + G(T)
    BY <1>2, <2>1, SumType
  <2>4. H(T \cup {x}) = F(T \cup {x}) + G(T \cup {x})
    <3>. HIDE DEF F, G, H
    <3>. QED
      BY <2>2, <2>3
  <2>. QED
    BY <2>4
<1>3. S \in C
  <2>. HIDE DEF C
  <2>. QED
    BY <1>1, <1>2, SetInduction
<1>. QED
  BY <1>3

\* The sum of multiples.
LEMMA SumTimes ==
    ASSUME NEW S, IsFiniteSet(S), NEW k \in Int, NEW f, NEW g,
           \A x \in S : f[x] \in Int /\ g[x] = k * f[x]
    PROVE  SumFunctionOnSet(g, S) = k * SumFunctionOnSet(f, S)
<1>. DEFINE F(T) == SumFunctionOnSet(f, T)
            G(T) == SumFunctionOnSet(g, T)
            C == {T \in SUBSET S : G(T) = k * F(T)}
<1>1. {} \in C
  BY SumEmpty
<1>2. ASSUME NEW T \in SUBSET S, T \in C, NEW x \in S \ T PROVE T \cup {x} \in C
  <2>1. IsFiniteSet(T) /\ \A y \in S : g[y] \in Int
    BY FS_Subset
  <2>2. F(T \cup {x}) = f[x] + F(T) /\ G(T \cup {x}) = k * f[x] + G(T)
    BY <2>1, SumAdd
  <2>3. F(T) \in Int /\ G(T) = k * F(T)
    BY <1>2, <2>1, SumType
  <2>4. G(T \cup {x}) = k * F(T \cup {x})
    <3>. HIDE DEF F, G
    <3>. QED
      BY <2>2, <2>3
  <2>. QED
    BY <2>4
<1>3. S \in C
  <2>. HIDE DEF C
  <2>. QED
    BY <1>1, <1>2, SetInduction
<1>. QED
  BY <1>3

\* A sum of one value is that value times the size of the set.
LEMMA SumConstant ==
    ASSUME NEW S, IsFiniteSet(S), NEW k \in Int, NEW f, \A x \in S : f[x] = k
    PROVE  SumFunctionOnSet(f, S) = k * Cardinality(S)
<1>. DEFINE F(T) == SumFunctionOnSet(f, T)
            C == {T \in SUBSET S : F(T) = k * Cardinality(T)}
<1>1. {} \in C
  BY SumEmpty, FS_EmptySet
<1>2. ASSUME NEW T \in SUBSET S, T \in C, NEW x \in S \ T PROVE T \cup {x} \in C
  <2>1. IsFiniteSet(T) /\ Cardinality(T) \in Nat
    BY FS_Subset, FS_CardinalityType
  <2>2. F(T \cup {x}) = k + F(T)
    BY <2>1, SumAdd
  <2>3. Cardinality(T \cup {x}) = Cardinality(T) + 1
    BY <2>1, FS_AddElement
  <2>4. F(T) = k * Cardinality(T)
    BY <1>2
  <2>5. F(T \cup {x}) = k * Cardinality(T \cup {x})
    <3>. HIDE DEF F
    <3>. QED
      BY <2>1, <2>2, <2>3, <2>4
  <2>. QED
    BY <2>5
<1>3. S \in C
  <2>. HIDE DEF C
  <2>. QED
    BY <1>1, <1>2, SetInduction
<1>. QED
  BY <1>3

\* Outside A the values are zero: the sum is that over A.
LEMMA SumWithin ==
    ASSUME NEW S, IsFiniteSet(S), NEW A \in SUBSET S, NEW f, NEW g,
           \A x \in A : f[x] \in Int /\ g[x] = f[x], \A x \in S \ A : g[x] = 0
    PROVE  SumFunctionOnSet(g, S) = SumFunctionOnSet(f, A)
<1>. DEFINE F(T) == SumFunctionOnSet(f, T)
            G(T) == SumFunctionOnSet(g, T)
            C == {T \in SUBSET S : G(T) = F(T \cap A)}
<1>1. {} \in C
  <2>1. {} \cap A = {}
    OBVIOUS
  <2>. QED
    BY <2>1, SumEmpty
<1>2. ASSUME NEW T \in SUBSET S, T \in C, NEW x \in S \ T PROVE T \cup {x} \in C
  <2>1. IsFiniteSet(T) /\ IsFiniteSet(T \cap A) /\ \A y \in S : g[y] \in Int
    BY FS_Subset
  <2>2. G(T \cup {x}) = g[x] + G(T) /\ G(T) \in Int
    BY <2>1, SumAdd, SumType
  <2>3. G(T) = F(T \cap A)
    BY <1>2
  <2>4. G(T \cup {x}) = F((T \cup {x}) \cap A)
    <3>1. CASE x \in A
      <4>1. (T \cup {x}) \cap A = (T \cap A) \cup {x} /\ x \notin T \cap A
        BY <1>2, <3>1
      <4>2. F((T \cap A) \cup {x}) = f[x] + F(T \cap A)
        BY <2>1, <3>1, <4>1, SumAdd
      <4>. QED
        BY <2>2, <2>3, <3>1, <4>1, <4>2
    <3>2. CASE x \notin A
      <4>1. (T \cup {x}) \cap A = T \cap A
        BY <3>2
      <4>. QED
        BY <2>2, <2>3, <3>2, <4>1
    <3>. QED
      BY <3>1, <3>2
  <2>. QED
    BY <2>4
<1>3. S \in C
  <2>. HIDE DEF C
  <2>. QED
    BY <1>1, <1>2, SetInduction
<1>4. S \cap A = A
  OBVIOUS
<1>. QED
  BY <1>3, <1>4

\* A sum over part of a set is at most the sum over the set.
LEMMA SumPart ==
    ASSUME NEW S, IsFiniteSet(S), NEW A \in SUBSET S, NEW f, \A x \in S : f[x] \in Nat
    PROVE  SumFunctionOnSet(f, A) <= SumFunctionOnSet(f, S)
<1>. DEFINE g == [x \in S |-> IF x \in A THEN f[x] ELSE 0]
<1>1. SumFunctionOnSet(g, S) = SumFunctionOnSet(f, A)
  BY SumWithin
<1>2. SumFunctionOnSet(g, S) <= SumFunctionOnSet(f, S)
  BY SumCompare
<1>. QED
  BY <1>1, <1>2

\* F and G are one table of integers, by rows and by columns; sums are those of its rows.
Table(F, G, A, B) == \A a \in A, b \in B : F[a][b] \in Int /\ G[b][a] = F[a][b]
SumsOf(sums, F, A, B) == \A a \in A : sums[a] = SumFunctionOnSet(F[a], B)

\* The sum over a table is the same row by row and column by column.
LEMMA SumSwap ==
    ASSUME NEW A, IsFiniteSet(A), NEW B, IsFiniteSet(B), NEW F, NEW G, Table(F, G, A, B),
           NEW rows, SumsOf(rows, F, A, B), NEW columns, SumsOf(columns, G, B, A)
    PROVE  SumFunctionOnSet(rows, A) = SumFunctionOnSet(columns, B)
<1>. USE DEF Table, SumsOf
<1>. DEFINE upto(T) == [b \in B |-> SumFunctionOnSet(G[b], T)]
            C == {T \in SUBSET A : SumFunctionOnSet(rows, T) = SumFunctionOnSet(upto(T), B)}
<1>1. \A a \in A : rows[a] \in Int
  BY SumType
<1>2. ASSUME NEW T \in SUBSET A, NEW b \in B
      PROVE  upto(T)[b] = SumFunctionOnSet(G[b], T) /\ upto(T)[b] \in Int
  BY FS_Subset, SumType
<1>3. {} \in C
  <2>. DEFINE none == upto({})
  <2>1. \A b \in B : none[b] = 0
    BY SumEmpty
  <2>2. SumFunctionOnSet(none, B) = 0 * Cardinality(B)
    <3>. HIDE DEF none
    <3>. QED
      BY <2>1, SumConstant
  <2>3. Cardinality(B) \in Nat
    BY FS_CardinalityType
  <2>. QED
    BY <2>2, <2>3, SumEmpty
<1>4. ASSUME NEW T \in SUBSET A, T \in C, NEW x \in A \ T PROVE T \cup {x} \in C
  <2>. DEFINE old == upto(T)
              new == upto(T \cup {x})
              row == F[x]
  <2>1. IsFiniteSet(T) /\ T \cup {x} \in SUBSET A
    BY FS_Subset
  <2>2. SumFunctionOnSet(rows, T \cup {x}) = rows[x] + SumFunctionOnSet(rows, T)
    BY <1>1, <2>1, SumAdd
  <2>3. ASSUME NEW b \in B PROVE row[b] \in Int /\ old[b] \in Int /\ new[b] = row[b] + old[b]
    <3>1. SumFunctionOnSet(G[b], T \cup {x}) = G[b][x] + SumFunctionOnSet(G[b], T)
      BY <2>1, SumAdd
    <3>. HIDE DEF upto
    <3>. QED
      BY <1>2, <2>1, <3>1
  <2>4. SumFunctionOnSet(new, B) = SumFunctionOnSet(row, B) + SumFunctionOnSet(old, B)
    <3>. HIDE DEF old, new, row
    <3>. QED
      BY <2>3, SumPlus
  <2>5. SumFunctionOnSet(rows, T) = SumFunctionOnSet(old, B)
    BY <1>4
  <2>6. SumFunctionOnSet(rows, T \cup {x}) = SumFunctionOnSet(new, B)
    <3>. HIDE DEF old, new
    <3>. QED
      BY <2>2, <2>4, <2>5
  <2>. QED
    BY <2>1, <2>6
<1>5. A \in C
  <2>. HIDE DEF C
  <2>. QED
    BY <1>3, <1>4, SetInduction
<1>6. SumFunctionOnSet(columns, B) = SumFunctionOnSet(upto(A), B)
  <2>. DEFINE whole == upto(A)
  <2>1. \A b \in B : whole[b] \in Int /\ columns[b] = whole[b]
    <3>. HIDE DEF upto
    <3>. QED
      BY <1>2
  <2>. HIDE DEF whole
  <2>. QED
    BY <2>1, SumSame
<1>. QED
  BY <1>5, <1>6

\* parts are the sums of f over the classes of S, the elements with the same key.
ClassSums(parts, f, S, key, K) ==
    \A k \in K : parts[k] = SumFunctionOnSet(f, {x \in S : key[x] = k})

\* A sum is the sum of those over the classes, when every element has its key in K.
LEMMA SumByClass ==
    ASSUME NEW S, IsFiniteSet(S), NEW f, \A x \in S : f[x] \in Int,
           NEW K, IsFiniteSet(K), NEW key, \A x \in S : key[x] \in K,
           NEW part, ClassSums(part, f, S, key, K)
    PROVE  SumFunctionOnSet(part, K) = SumFunctionOnSet(f, S)
<1>. USE DEF ClassSums
<1>. DEFINE F == [x \in S |-> [k \in K |-> IF key[x] = k THEN f[x] ELSE 0]]
            G == [k \in K |-> [x \in S |-> F[x][k]]]
            rows == [x \in S |-> SumFunctionOnSet(F[x], K)]
<1>2. ASSUME NEW x \in S PROVE rows[x] = f[x]
  <2>. DEFINE row == F[x]
              one == [k \in {key[x]} |-> f[x]]
  <2>1. /\ {key[x]} \in SUBSET K /\ IsFiniteSet({key[x]}) /\ Cardinality({key[x]}) = 1
        /\ \A k \in {key[x]} : f[x] \in Int /\ row[k] = f[x] /\ one[k] = f[x]
        /\ \A k \in K \ {key[x]} : row[k] = 0
    BY FS_Singleton
  <2>2. SumFunctionOnSet(row, K) = SumFunctionOnSet(one, {key[x]})
    <3>. HIDE DEF row, one
    <3>. QED
      BY <2>1, SumWithin
  <2>3. SumFunctionOnSet(one, {key[x]}) = f[x] * 1
    <3>. HIDE DEF one
    <3>. QED
      BY <2>1, SumConstant
  <2>. QED
    BY <2>2, <2>3
<1>3. ASSUME NEW k \in K PROVE part[k] = SumFunctionOnSet(G[k], S)
  <2>. DEFINE column == [x \in S |-> F[x][k]]
              class == {x \in S : key[x] = k}
  <2>1. /\ class \in SUBSET S
        /\ \A x \in class : f[x] \in Int /\ column[x] = f[x]
        /\ \A x \in S \ class : column[x] = 0
    OBVIOUS
  <2>2. SumFunctionOnSet(column, S) = SumFunctionOnSet(f, class)
    <3>. HIDE DEF column, class
    <3>. QED
      BY <2>1, SumWithin
  <2>. QED
    BY <2>2
<1>4. SumFunctionOnSet(rows, S) = SumFunctionOnSet(part, K)
  <2>1. /\ \A x \in S : rows[x] = SumFunctionOnSet(F[x], K)
        /\ \A x \in S, k \in K : F[x][k] \in Int /\ G[k][x] = F[x][k]
    OBVIOUS
  <2>2. \A k \in K : part[k] = SumFunctionOnSet(G[k], S)
    BY <1>3
  <2>3. Table(F, G, S, K) /\ SumsOf(rows, F, S, K) /\ SumsOf(part, G, K, S)
    BY <2>1, <2>2 DEF Table, SumsOf
  <2>. HIDE DEF F, G, rows
  <2>. QED
    BY <2>3, SumSwap
<1>5. SumFunctionOnSet(f, S) = SumFunctionOnSet(rows, S)
  <2>. HIDE DEF rows
  <2>. QED
    BY <1>2, SumSame
<1>. QED
  BY <1>4, <1>5
===============================================================================

-------------------------- MODULE KacConsumeProofs ---------------------------
(***************************************************************************)
(* The safety of kac consume for any partitions, any topic, any faults,    *)
(* any buffer and any length of the run.                                   *)
(***************************************************************************)
EXTENDS KacConsume, FiniteSetTheorems, NaturalsInduction, WellFoundedInduction, TLAPS

-----------------------------------------------------------------------------
(* Induction over the subsets of a finite set, and over the numbers.       *)
LEMMA SubsetInduction ==
  ASSUME NEW S, IsFiniteSet(S), NEW Good,
         \A T \in SUBSET S : (\A x \in T : T \ {x} \in Good) => T \in Good
  PROVE  SUBSET S \subseteq Good
<1> DEFINE Bad == (SUBSET S) \ Good
<1> SUFFICES ASSUME Bad # {} PROVE FALSE
  OBVIOUS
<1>1. PICK T \in Bad : \A U \in Bad : ~(<<U, T>> \in StrictSubsetOrdering(S))
  <2>1. IsWellFoundedOn(StrictSubsetOrdering(S), SUBSET S)
    <3>1. FiniteSubsetsOf(S) = SUBSET S
      BY FS_FiniteSubsetsOfFinite
    <3>2. IsWellFoundedOn(StrictSubsetOrdering(S), FiniteSubsetsOf(S))
      BY FS_StrictSubsetOrderingWellFounded
    <3>3. QED
      BY <3>1, <3>2, Zenon
  <2>2. Bad \subseteq SUBSET S
    OBVIOUS
  <2> HIDE DEF Bad
  <2>3. QED
    BY <2>1, <2>2, WFMin
<1>2. ASSUME NEW x \in T PROVE T \ {x} \in Good
  <2>1. /\ T \ {x} \in SUBSET S /\ T \in SUBSET S
        /\ T \ {x} \subseteq T /\ T \ {x} # T
    BY <1>2
  <2>2. <<T \ {x}, T>> \in StrictSubsetOrdering(S)
    BY <2>1 DEF StrictSubsetOrdering
  <2>3. QED
    BY <1>1, <2>1, <2>2
<1>3. QED
  BY <1>1, <1>2

LEMMA Counting ==
  ASSUME NEW Good, 0 \in Good, \A n \in Nat : n \in Good => n + 1 \in Good
  PROVE  Nat \subseteq Good
<1> DEFINE Bad == Nat \ Good
<1> SUFFICES ASSUME Bad # {} PROVE FALSE
  OBVIOUS
<1>1. PICK n \in Bad : \A m \in Bad : ~(<<m, n>> \in OpToRel(<, Nat))
  <2>1. Bad \subseteq Nat
    OBVIOUS
  <2> HIDE DEF Bad
  <2>2. QED
    BY <2>1, NatLessThanWellFounded, WFMin
<1>2. \A m, k \in Nat : m < k => <<m, k>> \in OpToRel(<, Nat)
  BY DEF OpToRel
<1>3. n # 0 /\ n \in Nat /\ n \notin Good
  BY <1>1
<1>4. n - 1 \in Nat /\ n - 1 < n /\ (n - 1) + 1 = n
  BY <1>3
<1>5. n - 1 \in Good
  BY <1>1, <1>2, <1>3, <1>4
<1>6. QED
  BY <1>3, <1>4, <1>5

-----------------------------------------------------------------------------
(* What a fold over the subsets of S satisfies, with a function for the    *)
(* operator.                                                               *)
Element(s) == CHOOSE x \in s : TRUE

FoldAt(g, op, base, f, s) ==
  g[s] = IF s = {} THEN base ELSE op[<<f[Element(s)], g[s \ {Element(s)}]>>]

IsFold(g, op, base, f, S) == \A s \in SUBSET S : FoldAt(g, op, base, f, s)

TypedFold(g, op, base, f, S) ==
  /\ IsFiniteSet(S) /\ f \in [S -> Nat] /\ base \in Nat
  /\ g \in [SUBSET S -> Nat] /\ IsFold(g, op, base, f, S)

Operation(op) ==
  /\ op \in [Nat \X Nat -> Nat]
  /\ \A a, b \in Nat : op[<<a, b>>] = op[<<b, a>>]
  /\ \A a, b, c \in Nat : op[<<a, op[<<b, c>>]>>] = op[<<b, op[<<a, c>>]>>]

LEMMA ElementOf == ASSUME NEW s, s # {} PROVE Element(s) \in s
BY DEF Element

LEMMA FoldExists ==
  ASSUME NEW S, IsFiniteSet(S), NEW f \in [S -> Nat], NEW op, Operation(op),
         NEW base \in Nat
  PROVE  \E g : TypedFold(g, op, base, f, S)
<1> DEFINE Upto(g, n) == \A s \in SUBSET S : Cardinality(s) <= n => FoldAt(g, op, base, f, s)
           Good == {n \in Nat : \E g \in [SUBSET S -> Nat] : Upto(g, n)}
<1>1. \A s \in SUBSET S : IsFiniteSet(s) /\ Cardinality(s) \in Nat /\ Cardinality(s) <= Cardinality(S)
  BY FS_Subset, FS_CardinalityType
<1>2. 0 \in Good
  <2> DEFINE g == [s \in SUBSET S |-> base]
  <2>1. \A s \in SUBSET S : Cardinality(s) <= 0 => s = {}
    BY <1>1, FS_EmptySet
  <2>2. g \in [SUBSET S -> Nat] /\ Upto(g, 0)
    BY <2>1 DEF FoldAt
  <2> HIDE DEF g
  <2>3. QED
    BY <2>2
<1>3. ASSUME NEW n \in Nat, n \in Good PROVE n + 1 \in Good
  <2>1. PICK g \in [SUBSET S -> Nat] : Upto(g, n)
    BY <1>3
  <2> DEFINE h == [s \in SUBSET S |->
                     IF s = {} THEN base ELSE op[<<f[Element(s)], g[s \ {Element(s)}]>>]]
  <2>2. ASSUME NEW s \in SUBSET S, s # {}
        PROVE  /\ Element(s) \in s /\ f[Element(s)] \in Nat
               /\ s \ {Element(s)} \in SUBSET S /\ g[s \ {Element(s)}] \in Nat
               /\ op[<<f[Element(s)], g[s \ {Element(s)}]>>] \in Nat
               /\ Cardinality(s \ {Element(s)}) = Cardinality(s) - 1
    <3>1. Element(s) \in s
      BY <2>2, ElementOf
    <3>2. Element(s) \in S /\ s \ {Element(s)} \in SUBSET S
      BY <3>1
    <3>3. f[Element(s)] \in Nat /\ g[s \ {Element(s)}] \in Nat
      BY <3>2
    <3>4. Cardinality(s \ {Element(s)}) = Cardinality(s) - 1
      BY <1>1, <3>1, FS_RemoveElement
    <3>5. QED
      BY <3>1, <3>2, <3>3, <3>4 DEF Operation
  <2>3. h \in [SUBSET S -> Nat]
    BY <2>2
  <2>4. ASSUME NEW s \in SUBSET S, Cardinality(s) <= n + 1
        PROVE  FoldAt(h, op, base, f, s)
    <3>1. CASE s = {}
      BY <3>1 DEF FoldAt
    <3>2. CASE s # {}
      <4> DEFINE r == s \ {Element(s)}
      <4>1. r \in SUBSET S /\ Cardinality(r) <= n
        <5>1. r \in SUBSET S /\ Cardinality(r) = Cardinality(s) - 1
          BY <2>2, <3>2
        <5> HIDE DEF r
        <5>2. QED
          BY <1>1, <2>4, <5>1
      <4>2. h[r] = g[r]
        <5>1. FoldAt(g, op, base, f, r)
          BY <2>1, <4>1
        <5> HIDE DEF r
        <5>2. h[r] = IF r = {} THEN base ELSE op[<<f[Element(r)], g[r \ {Element(r)}]>>]
          BY <4>1
        <5> HIDE DEF h
        <5>3. QED
          BY <5>1, <5>2 DEF FoldAt
      <4>3. h[s] = op[<<f[Element(s)], g[r]>>]
        BY <3>2
      <4> HIDE DEF h
      <4>4. QED
        BY <3>2, <4>2, <4>3 DEF FoldAt
    <3>3. QED
      BY <3>1, <3>2
  <2> HIDE DEF h
  <2>5. QED
    BY <2>3, <2>4
<1> HIDE DEF Good
<1>4. Cardinality(S) \in Good
  BY <1>1, <1>2, <1>3, Counting
<1> USE DEF Good
<1>5. QED
  BY <1>1, <1>4 DEF IsFold, TypedFold

(* Any one element may be taken out first. *)
LEMMA FoldTakesOut ==
  ASSUME NEW S, NEW f, NEW op, NEW base, NEW g,
         Operation(op), TypedFold(g, op, base, f, S)
  PROVE  \A s \in SUBSET S : \A x \in s : g[s] = op[<<f[x], g[s \ {x}]>>]
<1> DEFINE Good == {s \in SUBSET S : \A x \in s : g[s] = op[<<f[x], g[s \ {x}]>>]}
<1>1. ASSUME NEW T \in SUBSET S, \A x \in T : T \ {x} \in Good
      PROVE  T \in Good
  <2> SUFFICES ASSUME NEW x \in T PROVE g[T] = op[<<f[x], g[T \ {x}]>>]
    OBVIOUS
  <2> DEFINE e == Element(T)
  <2>1. e \in T /\ g[T] = op[<<f[e], g[T \ {e}]>>]
    <3>1. T # {}
      OBVIOUS
    <3>2. FoldAt(g, op, base, f, T)
      BY DEF TypedFold, IsFold
    <3>3. QED
      BY <3>1, <3>2, ElementOf DEF FoldAt
  <2> HIDE DEF e
  <2>2. CASE x = e
    BY <2>1, <2>2
  <2>3. CASE x # e
    <3> DEFINE r == (T \ {x}) \ {e}
    <3>1. r = (T \ {e}) \ {x} /\ r \in SUBSET S
      BY <2>1
    <3>2. g[T \ {e}] = op[<<f[x], g[r]>>]
      <4>1. T \ {e} \in Good /\ x \in T \ {e}
        BY <1>1, <2>1, <2>3
      <4>2. \A y \in T \ {e} : g[T \ {e}] = op[<<f[y], g[(T \ {e}) \ {y}]>>]
        BY <4>1
      <4> HIDE DEF r, Good
      <4>3. g[T \ {e}] = op[<<f[x], g[(T \ {e}) \ {x}]>>]
        BY <4>1, <4>2
      <4>4. QED
        BY <3>1, <4>3
    <3>3. g[T \ {x}] = op[<<f[e], g[r]>>]
      BY <1>1, <2>1, <2>3
    <3>4. f[x] \in Nat /\ f[e] \in Nat /\ g[r] \in Nat
      BY <2>1, <3>1 DEF TypedFold
    <3> HIDE DEF r
    <3>5. op[<<f[e], op[<<f[x], g[r]>>]>>] = op[<<f[x], op[<<f[e], g[r]>>]>>]
      <4>1. \A a, b, c \in Nat : op[<<a, op[<<b, c>>]>>] = op[<<b, op[<<a, c>>]>>]
        BY DEF Operation
      <4> HIDE DEF Good
      <4>2. QED
        BY <3>4, <4>1
    <3>6. QED
      BY <2>1, <3>2, <3>3, <3>5, Zenon
  <2>4. QED
    BY <2>2, <2>3
<1>2. IsFiniteSet(S)
  BY DEF TypedFold
<1> HIDE DEF Good
<1>3. SUBSET S \subseteq Good
  BY <1>1, <1>2, SubsetInduction
<1>4. QED
  BY <1>3 DEF Good

-----------------------------------------------------------------------------
(* The sum and the product of a function over a finite set.                *)
Plus == [p \in Nat \X Nat |-> p[1] + p[2]]
Times == [p \in Nat \X Nat |-> p[1] * p[2]]

LEMMA PlusOK == Operation(Plus)
<1>1. \A a, b \in Nat : Plus[<<a, b>>] = a + b
  BY DEF Plus
<1>2. Plus \in [Nat \X Nat -> Nat]
  BY DEF Plus
<1>3. QED
  BY <1>1, <1>2 DEF Operation

LEMMA TimesOK == Operation(Times)
<1>1. \A a, b \in Nat : Times[<<a, b>>] = a * b
  BY DEF Times
<1>2. Times \in [Nat \X Nat -> Nat]
  BY DEF Times
<1>3. \A a, b, c \in Nat : a * b \in Nat /\ a * b = b * a /\ a * (b * c) = b * (a * c)
  OBVIOUS
<1>4. QED
  BY <1>1, <1>2, <1>3 DEF Operation
Product(f, S) == FoldFunctionOnSet(LAMBDA a, b : a * b, 1, f, S)

LEMMA SumIsFold ==
  ASSUME NEW S, IsFiniteSet(S), NEW f \in [S -> Nat]
  PROVE  \E g : /\ TypedFold(g, Plus, 0, f, S)
                /\ \A T \in SUBSET S : SumFunctionOnSet(f, T) = g[T]
<1> DEFINE Is(h, T) == h = [s \in SUBSET T |->
                        IF s = {} THEN 0 ELSE f[Element(s)] + h[s \ {Element(s)}]]
<1>1. PICK g : TypedFold(g, Plus, 0, f, S)
  BY FoldExists, PlusOK
<1>2. ASSUME NEW s \in SUBSET S
      PROVE  g[s] = IF s = {} THEN 0 ELSE f[Element(s)] + g[s \ {Element(s)}]
  <2>1. CASE s = {}
    BY <1>1, <2>1 DEF TypedFold, IsFold, FoldAt
  <2>2. CASE s # {}
    <3>1. g[s] = Plus[<<f[Element(s)], g[s \ {Element(s)}]>>]
      BY <1>1, <2>2 DEF TypedFold, IsFold, FoldAt
    <3>2. f[Element(s)] \in Nat /\ g[s \ {Element(s)}] \in Nat
      <4>1. Element(s) \in S /\ s \ {Element(s)} \in SUBSET S
        BY <2>2, ElementOf
      <4>2. QED
        BY <1>1, <4>1 DEF TypedFold
    <3>3. QED
      BY <2>2, <3>1, <3>2 DEF Plus
  <2>3. QED
    BY <2>1, <2>2
<1>3. ASSUME NEW T \in SUBSET S PROVE SumFunctionOnSet(f, T) = g[T]
  <2> DEFINE sums == CHOOSE h : Is(h, T)
             Good == {s \in SUBSET T : sums[s] = g[s]}
  <2>1. SumFunctionOnSet(f, T) = sums[T]
    BY DEF SumFunctionOnSet, FoldFunctionOnSet, MapThenFoldSet, Element
  <2>2. \E h : Is(h, T)
    <3> DEFINE h == [s \in SUBSET T |-> g[s]]
    <3>1. ASSUME NEW s \in SUBSET T
          PROVE  h[s] = IF s = {} THEN 0 ELSE f[Element(s)] + h[s \ {Element(s)}]
      <4>1. s \in SUBSET S /\ s \ {Element(s)} \in SUBSET T
        OBVIOUS
      <4>2. h[s] = g[s] /\ h[s \ {Element(s)}] = g[s \ {Element(s)}]
        BY <4>1
      <4> HIDE DEF h
      <4>3. QED
        BY <1>2, <4>1, <4>2
    <3>2. h = [s \in SUBSET T |-> h[s]]
      OBVIOUS
    <3> HIDE DEF h
    <3>3. Is(h, T)
      BY <3>1, <3>2, Zenon
    <3>4. QED
      BY <3>3
  <2>3. Is(sums, T)
    BY <2>2, Zenon
  <2> HIDE DEF sums
  <2>4. ASSUME NEW s \in SUBSET T, \A x \in s : s \ {x} \in Good PROVE s \in Good
    <3>1. sums[s] = IF s = {} THEN 0 ELSE f[Element(s)] + sums[s \ {Element(s)}]
      BY <2>3, Zenon
    <3>2. s # {} => sums[s \ {Element(s)}] = g[s \ {Element(s)}]
      BY <2>4, ElementOf
    <3>3. s \in SUBSET S
      OBVIOUS
    <3>4. sums[s] = g[s]
      BY <1>2, <3>1, <3>2, <3>3
    <3>5. QED
      BY <3>4
  <2> HIDE DEF Good
  <2>5. IsFiniteSet(T)
    BY FS_Subset
  <2>6. SUBSET T \subseteq Good
    BY <2>4, <2>5, SubsetInduction
  <2>7. QED
    BY <2>1, <2>6 DEF Good
<1>4. QED
  BY <1>1, <1>3

LEMMA ProductIsFold ==
  ASSUME NEW S, IsFiniteSet(S), NEW f \in [S -> Nat]
  PROVE  \E g : /\ TypedFold(g, Times, 1, f, S)
                /\ \A T \in SUBSET S : Product(f, T) = g[T]
<1> DEFINE Is(h, T) == h = [s \in SUBSET T |->
                        IF s = {} THEN 1 ELSE f[Element(s)] * h[s \ {Element(s)}]]
<1>1. PICK g : TypedFold(g, Times, 1, f, S)
  BY FoldExists, TimesOK
<1>2. ASSUME NEW s \in SUBSET S
      PROVE  g[s] = IF s = {} THEN 1 ELSE f[Element(s)] * g[s \ {Element(s)}]
  <2>1. CASE s = {}
    BY <1>1, <2>1 DEF TypedFold, IsFold, FoldAt
  <2>2. CASE s # {}
    <3>1. g[s] = Times[<<f[Element(s)], g[s \ {Element(s)}]>>]
      BY <1>1, <2>2 DEF TypedFold, IsFold, FoldAt
    <3>2. f[Element(s)] \in Nat /\ g[s \ {Element(s)}] \in Nat
      <4>1. Element(s) \in S /\ s \ {Element(s)} \in SUBSET S
        BY <2>2, ElementOf
      <4>2. QED
        BY <1>1, <4>1 DEF TypedFold
    <3>3. QED
      BY <2>2, <3>1, <3>2 DEF Times
  <2>3. QED
    BY <2>1, <2>2
<1>3. ASSUME NEW T \in SUBSET S PROVE Product(f, T) = g[T]
  <2> DEFINE sums == CHOOSE h : Is(h, T)
             Good == {s \in SUBSET T : sums[s] = g[s]}
  <2>1. Product(f, T) = sums[T]
    BY DEF Product, FoldFunctionOnSet, MapThenFoldSet, Element
  <2>2. \E h : Is(h, T)
    <3> DEFINE h == [s \in SUBSET T |-> g[s]]
    <3>1. ASSUME NEW s \in SUBSET T
          PROVE  h[s] = IF s = {} THEN 1 ELSE f[Element(s)] * h[s \ {Element(s)}]
      <4>1. s \in SUBSET S /\ s \ {Element(s)} \in SUBSET T
        OBVIOUS
      <4>2. h[s] = g[s] /\ h[s \ {Element(s)}] = g[s \ {Element(s)}]
        BY <4>1
      <4> HIDE DEF h
      <4>3. QED
        BY <1>2, <4>1, <4>2
    <3>2. h = [s \in SUBSET T |-> h[s]]
      OBVIOUS
    <3> HIDE DEF h
    <3>3. Is(h, T)
      BY <3>1, <3>2, Zenon
    <3>4. QED
      BY <3>3
  <2>3. Is(sums, T)
    BY <2>2, Zenon
  <2> HIDE DEF sums
  <2>4. ASSUME NEW s \in SUBSET T, \A x \in s : s \ {x} \in Good PROVE s \in Good
    <3>1. sums[s] = IF s = {} THEN 1 ELSE f[Element(s)] * sums[s \ {Element(s)}]
      BY <2>3, Zenon
    <3>2. s # {} => sums[s \ {Element(s)}] = g[s \ {Element(s)}]
      BY <2>4, ElementOf
    <3>3. s \in SUBSET S
      OBVIOUS
    <3>4. sums[s] = g[s]
      BY <1>2, <3>1, <3>2, <3>3
    <3>5. QED
      BY <3>4
  <2> HIDE DEF Good
  <2>5. IsFiniteSet(T)
    BY FS_Subset
  <2>6. SUBSET T \subseteq Good
    BY <2>4, <2>5, SubsetInduction
  <2>7. QED
    BY <2>1, <2>6 DEF Good
<1>4. QED
  BY <1>1, <1>3

-----------------------------------------------------------------------------
LEMMA SumFacts ==
  ASSUME NEW S, IsFiniteSet(S), NEW f \in [S -> Nat], NEW T \in SUBSET S
  PROVE  /\ SumFunctionOnSet(f, T) \in Nat
         /\ T = {} => SumFunctionOnSet(f, T) = 0
         /\ \A x \in T : SumFunctionOnSet(f, T) = f[x] + SumFunctionOnSet(f, T \ {x})
<1>1. PICK g : /\ TypedFold(g, Plus, 0, f, S)
               /\ \A U \in SUBSET S : SumFunctionOnSet(f, U) = g[U]
  BY SumIsFold
<1>2. g[T] \in Nat /\ (T = {} => g[T] = 0)
  <2>1. FoldAt(g, Plus, 0, f, T) /\ g \in [SUBSET S -> Nat]
    BY <1>1 DEF TypedFold, IsFold
  <2>2. QED
    BY <2>1 DEF FoldAt
<1>3. ASSUME NEW x \in T PROVE SumFunctionOnSet(f, T) = f[x] + SumFunctionOnSet(f, T \ {x})
  <2>1. g[T] = Plus[<<f[x], g[T \ {x}]>>]
    <3>1. TypedFold(g, Plus, 0, f, S) /\ Operation(Plus) /\ 0 \in Nat
      BY <1>1, PlusOK
    <3>2. QED
      BY <3>1, FoldTakesOut
  <2>2. f[x] \in Nat /\ g[T \ {x}] \in Nat /\ T \ {x} \in SUBSET S
    BY <1>1 DEF TypedFold
  <2>3. QED
    BY <1>1, <2>1, <2>2 DEF Plus
<1>4. QED
  BY <1>1, <1>2, <1>3

LEMMA ProductFacts ==
  ASSUME NEW S, IsFiniteSet(S), NEW f \in [S -> Nat], NEW T \in SUBSET S
  PROVE  /\ Product(f, T) \in Nat
         /\ T = {} => Product(f, T) = 1
         /\ \A x \in T : Product(f, T) = f[x] * Product(f, T \ {x})
<1>1. PICK g : /\ TypedFold(g, Times, 1, f, S)
               /\ \A U \in SUBSET S : Product(f, U) = g[U]
  BY ProductIsFold
<1>2. g[T] \in Nat /\ (T = {} => g[T] = 1)
  BY <1>1 DEF TypedFold, IsFold, FoldAt
<1>3. ASSUME NEW x \in T PROVE Product(f, T) = f[x] * Product(f, T \ {x})
  <2>1. g[T] = Times[<<f[x], g[T \ {x}]>>]
    BY <1>1, TimesOK, FoldTakesOut
  <2>2. f[x] \in Nat /\ g[T \ {x}] \in Nat /\ T \ {x} \in SUBSET S
    BY <1>1 DEF TypedFold
  <2>3. QED
    BY <1>1, <2>1, <2>2 DEF Times
<1>4. QED
  BY <1>1, <1>2, <1>3

(* A sum is monotone. *)
LEMMA SumBelow ==
  ASSUME NEW S, IsFiniteSet(S), NEW f, f \in [S -> Nat], NEW h, h \in [S -> Nat],
         NEW T \in SUBSET S, \A x \in T : f[x] <= h[x]
  PROVE  SumFunctionOnSet(f, T) <= SumFunctionOnSet(h, T)
<1> DEFINE Good == {U \in SUBSET T : SumFunctionOnSet(f, U) <= SumFunctionOnSet(h, U)}
<1>1. ASSUME NEW U \in SUBSET T, \A x \in U : U \ {x} \in Good PROVE U \in Good
  <2>1. CASE U = {}
    <3>1. SumFunctionOnSet(f, U) = 0 /\ SumFunctionOnSet(h, U) = 0
      BY <2>1, SumFacts
    <3>2. QED
      BY <3>1
  <2>2. CASE U # {}
    <3>1. PICK x \in U : TRUE
      BY <2>2
    <3>2. /\ SumFunctionOnSet(f, U) = f[x] + SumFunctionOnSet(f, U \ {x})
          /\ SumFunctionOnSet(h, U) = h[x] + SumFunctionOnSet(h, U \ {x})
          /\ SumFunctionOnSet(f, U \ {x}) \in Nat /\ SumFunctionOnSet(h, U \ {x}) \in Nat
      <4>1. U \in SUBSET S /\ U \ {x} \in SUBSET S
        OBVIOUS
      <4>2. QED
        BY <4>1, SumFacts
    <3>3. SumFunctionOnSet(f, U \ {x}) <= SumFunctionOnSet(h, U \ {x})
      BY <1>1
    <3>4. f[x] \in Nat /\ h[x] \in Nat /\ f[x] <= h[x]
      OBVIOUS
    <3>5. SumFunctionOnSet(f, U) <= SumFunctionOnSet(h, U)
      BY <3>2, <3>3, <3>4
    <3>6. QED
      BY <3>5
  <2>3. QED
    BY <2>1, <2>2
<1>2. IsFiniteSet(T)
  BY FS_Subset
<1> HIDE DEF Good
<1>3. SUBSET T \subseteq Good
  BY <1>1, <1>2, SubsetInduction
<1>4. QED
  BY <1>3 DEF Good

(* The sum of a function that is the same everywhere but at x. *)
LEMMA SumAt ==
  ASSUME NEW S, IsFiniteSet(S), NEW f, f \in [S -> Nat], NEW h, h \in [S -> Nat],
         NEW x \in S, \A y \in S \ {x} : f[y] = h[y]
  PROVE  SumFunction(h) + f[x] = SumFunction(f) + h[x]
<1>1. DOMAIN f = S /\ DOMAIN h = S /\ f[x] \in Nat /\ h[x] \in Nat
  OBVIOUS
<1>2. /\ SumFunctionOnSet(f, S) = f[x] + SumFunctionOnSet(f, S \ {x})
      /\ SumFunctionOnSet(h, S) = h[x] + SumFunctionOnSet(h, S \ {x})
      /\ SumFunctionOnSet(f, S \ {x}) \in Nat /\ SumFunctionOnSet(h, S \ {x}) \in Nat
  BY SumFacts
<1>3. /\ SumFunctionOnSet(f, S \ {x}) <= SumFunctionOnSet(h, S \ {x})
      /\ SumFunctionOnSet(h, S \ {x}) <= SumFunctionOnSet(f, S \ {x})
  <2>1. \A y \in S \ {x} : f[y] <= h[y] /\ h[y] <= f[y]
    OBVIOUS
  <2>2. QED
    BY <2>1, SumBelow
<1>4. QED
  BY <1>1, <1>2, <1>3 DEF SumFunction

(* Sums add up. *)
IsSum(h, f, g, S) ==
  /\ f \in [S -> Nat] /\ g \in [S -> Nat] /\ h \in [S -> Nat]
  /\ \A x \in S : h[x] = f[x] + g[x]

LEMMA SumAdds ==
  ASSUME NEW S, IsFiniteSet(S), NEW f, NEW g, NEW h, IsSum(h, f, g, S)
  PROVE  SumFunction(h) = SumFunction(f) + SumFunction(g)
<1> /\ f \in [S -> Nat] /\ g \in [S -> Nat] /\ h \in [S -> Nat]
    /\ \A x \in S : h[x] = f[x] + g[x]
  BY DEF IsSum
<1> DEFINE Good == {U \in SUBSET S :
             SumFunctionOnSet(h, U) = SumFunctionOnSet(f, U) + SumFunctionOnSet(g, U)}
<1>1. ASSUME NEW U \in SUBSET S, \A x \in U : U \ {x} \in Good PROVE U \in Good
  <2>1. CASE U = {}
    <3>1. /\ SumFunctionOnSet(f, U) = 0 /\ SumFunctionOnSet(g, U) = 0
          /\ SumFunctionOnSet(h, U) = 0
      BY <2>1, SumFacts
    <3>2. QED
      BY <3>1
  <2>2. CASE U # {}
    <3>1. PICK x \in U : TRUE
      BY <2>2
    <3> DEFINE r == U \ {x}
    <3>2. r \in SUBSET S /\ U \in SUBSET S /\ r \in Good
      BY <1>1
    <3>3. /\ SumFunctionOnSet(f, U) = f[x] + SumFunctionOnSet(f, r)
          /\ SumFunctionOnSet(g, U) = g[x] + SumFunctionOnSet(g, r)
          /\ SumFunctionOnSet(h, U) = h[x] + SumFunctionOnSet(h, r)
          /\ SumFunctionOnSet(f, r) \in Nat /\ SumFunctionOnSet(g, r) \in Nat
      BY <3>2, SumFacts
    <3>4. SumFunctionOnSet(h, r) = SumFunctionOnSet(f, r) + SumFunctionOnSet(g, r)
      BY <3>2
    <3>5. f[x] \in Nat /\ g[x] \in Nat /\ h[x] = f[x] + g[x]
      OBVIOUS
    <3> HIDE DEF r
    <3>6. SumFunctionOnSet(h, U) = SumFunctionOnSet(f, U) + SumFunctionOnSet(g, U)
      BY <3>3, <3>4, <3>5
    <3>7. QED
      BY <3>6
  <2>3. QED
    BY <2>1, <2>2
<1> HIDE DEF Good
<1>2. SUBSET S \subseteq Good
  BY <1>1, SubsetInduction
<1>3. DOMAIN f = S /\ DOMAIN g = S /\ DOMAIN h = S
  OBVIOUS
<1>4. QED
  BY <1>2, <1>3 DEF Good, SumFunction

(* The sum of a function that is c everywhere. *)
LEMMA SumConstant ==
  ASSUME NEW S, IsFiniteSet(S), NEW f, f \in [S -> Nat], NEW c \in Nat,
         \A x \in S : f[x] = c
  PROVE  SumFunction(f) = Cardinality(S) * c
<1> DEFINE Good == {U \in SUBSET S : SumFunctionOnSet(f, U) = Cardinality(U) * c}
<1>1. ASSUME NEW U \in SUBSET S, \A x \in U : U \ {x} \in Good PROVE U \in Good
  <2>1. CASE U = {}
    <3>1. SumFunctionOnSet(f, U) = 0 /\ Cardinality(U) = 0
      BY <2>1, SumFacts, FS_EmptySet
    <3>2. QED
      BY <3>1
  <2>2. CASE U # {}
    <3>1. PICK x \in U : TRUE
      BY <2>2
    <3>2. SumFunctionOnSet(f, U) = c + SumFunctionOnSet(f, U \ {x})
      BY SumFacts
    <3>3. SumFunctionOnSet(f, U \ {x}) = Cardinality(U \ {x}) * c
      BY <1>1
    <3>4. IsFiniteSet(U) /\ Cardinality(U) \in Nat /\ Cardinality(U \ {x}) = Cardinality(U) - 1
      BY FS_Subset, FS_CardinalityType, FS_RemoveElement
    <3>5. \A n \in Nat : c + (n - 1) * c = n * c
      OBVIOUS
    <3>6. SumFunctionOnSet(f, U) = Cardinality(U) * c
      BY <3>2, <3>3, <3>4, <3>5
    <3>7. QED
      BY <3>6
  <2>3. QED
    BY <2>1, <2>2
<1> HIDE DEF Good
<1>2. SUBSET S \subseteq Good
  BY <1>1, SubsetInduction
<1>3. DOMAIN f = S
  OBVIOUS
<1>4. QED
  BY <1>2, <1>3 DEF Good, SumFunction

LEMMA ProductPositive ==
  ASSUME NEW S, IsFiniteSet(S), NEW f, f \in [S -> Nat],
         NEW T \in SUBSET S, \A x \in T : f[x] # 0
  PROVE  Product(f, T) # 0
<1> DEFINE Good == {U \in SUBSET T : Product(f, U) # 0}
<1>1. ASSUME NEW U \in SUBSET T, \A x \in U : U \ {x} \in Good PROVE U \in Good
  <2>1. CASE U = {}
    BY <2>1, ProductFacts
  <2>2. CASE U # {}
    <3>1. PICK x \in U : TRUE
      BY <2>2
    <3>2. Product(f, U) = f[x] * Product(f, U \ {x}) /\ Product(f, U \ {x}) \in Nat
      <4>1. U \in SUBSET S /\ U \ {x} \in SUBSET S
        OBVIOUS
      <4>2. QED
        BY <4>1, ProductFacts
    <3>3. Product(f, U \ {x}) # 0 /\ f[x] \in Nat /\ f[x] # 0
      BY <1>1
    <3>4. \A a, b \in Nat : a # 0 /\ b # 0 => a * b # 0
      OBVIOUS
    <3>5. QED
      BY <3>2, <3>3, <3>4
  <2>3. QED
    BY <2>1, <2>2
<1>2. IsFiniteSet(T)
  BY FS_Subset
<1> HIDE DEF Good
<1>3. SUBSET T \subseteq Good
  BY <1>1, <1>2, SubsetInduction
<1>4. QED
  BY <1>3 DEF Good

(* Of quotients that are at most 1, the mean is 1 only when all are.       *)
LEMMA MeanIsOne ==
  ASSUME NEW S, IsFiniteSet(S), NEW num, num \in [S -> Nat], NEW den, den \in [S -> Nat],
         NEW scaled, scaled \in [S -> Nat],
         \A x \in S : scaled[x] = num[x] * Product(den, S \ {x}),
         \A x \in S : den[x] # 0 /\ num[x] <= den[x],
         SumFunction(scaled) >= Cardinality(S) * Product(den, S)
  PROVE  \A x \in S : num[x] = den[x]
<1> DEFINE whole == [x \in S |-> Product(den, S)]
<1>1. Product(den, S) \in Nat
  BY ProductFacts
<1>2. ASSUME NEW x \in S
      PROVE  /\ num[x] \in Nat /\ den[x] \in Nat
             /\ Product(den, S \ {x}) \in Nat /\ Product(den, S \ {x}) # 0
             /\ Product(den, S) = den[x] * Product(den, S \ {x})
  BY ProductFacts, ProductPositive
<1>3. ASSUME NEW x \in S
      PROVE  /\ scaled[x] <= Product(den, S)
             /\ num[x] # den[x] => scaled[x] < Product(den, S)
  <2>1. \A a, b, c \in Nat :
          /\ a * c \in Nat
          /\ a <= b => a * c <= b * c
          /\ a <= b /\ a # b /\ c # 0 => a * c < b * c
    <3>1. ASSUME NEW a \in Nat, NEW b \in Nat, NEW c \in Nat, a <= b
          PROVE  /\ a * c <= b * c
                 /\ a # b /\ c # 0 => a * c < b * c
      <4>1. PICK d \in Nat : b = a + d
        <5>1. b - a \in Nat /\ b = a + (b - a)
          BY <3>1
        <5>2. QED
          BY <5>1
      <4>2. b * c = a * c + d * c
        BY <4>1
      <4>3. a * c \in Nat /\ d * c \in Nat /\ (d # 0 /\ c # 0 => d * c # 0)
        OBVIOUS
      <4>4. QED
        BY <4>1, <4>2, <4>3
    <3>2. \A a, c \in Nat : a * c \in Nat
      OBVIOUS
    <3>3. QED
      BY <3>1, <3>2
  <2>2. PICK r : r = Product(den, S \ {x})
    OBVIOUS
  <2>3. /\ scaled[x] = num[x] * r /\ Product(den, S) = den[x] * r
        /\ r \in Nat /\ r # 0 /\ num[x] \in Nat /\ den[x] \in Nat /\ num[x] <= den[x]
    BY <1>2, <2>2
  <2>4. scaled[x] <= den[x] * r /\ (num[x] # den[x] => scaled[x] < den[x] * r)
    BY <2>1, <2>3
  <2>5. QED
    BY <2>3, <2>4
<1>4. whole \in [S -> Nat] /\ DOMAIN scaled = S /\ DOMAIN whole = S
  BY <1>1
<1>5. \A x \in S : whole[x] = Product(den, S)
  OBVIOUS
<1> HIDE DEF whole
<1>6. SumFunction(whole) = Cardinality(S) * Product(den, S)
  BY <1>1, <1>4, <1>5, SumConstant
<1>7. ASSUME NEW x \in S, num[x] # den[x] PROVE FALSE
  <2> DEFINE rest == S \ {x}
  <2> rest \in SUBSET S /\ S \in SUBSET S
    OBVIOUS
  <2>1. /\ SumFunctionOnSet(scaled, S) = scaled[x] + SumFunctionOnSet(scaled, rest)
        /\ SumFunctionOnSet(whole, S) = whole[x] + SumFunctionOnSet(whole, rest)
        /\ SumFunctionOnSet(scaled, rest) \in Nat /\ SumFunctionOnSet(whole, rest) \in Nat
    BY <1>4, SumFacts
  <2>2. SumFunctionOnSet(scaled, rest) <= SumFunctionOnSet(whole, rest)
    <3>1. \A y \in rest : scaled[y] <= whole[y]
      BY <1>3, <1>5
    <3> HIDE DEF rest
    <3>2. QED
      BY <1>4, <3>1, SumBelow
  <2> HIDE DEF rest
  <2>3. SumFunctionOnSet(scaled, S) < SumFunctionOnSet(whole, S)
    BY <1>1, <1>3, <1>4, <1>5, <1>7, <2>1, <2>2
  <2>4. SumFunction(scaled) = SumFunctionOnSet(scaled, S)
        /\ SumFunction(whole) = SumFunctionOnSet(whole, S)
    BY <1>4 DEF SumFunction
  <2>5. SumFunctionOnSet(scaled, S) \in Nat /\ SumFunctionOnSet(whole, S) \in Nat
    BY <1>4, SumFacts
  <2>6. SumFunctionOnSet(scaled, S) >= SumFunctionOnSet(whole, S)
    BY <1>6, <2>4
  <2>7. QED
    BY <2>3, <2>5, <2>6
<1>8. QED
  BY <1>7

-----------------------------------------------------------------------------
(* The inductive invariant.                                                *)

(* The offset ConsumerProgressTransform takes next of partition p: a       *)
(* partition of which it has seen nothing still has the initial item,      *)
(* whose high water offset is 0.                                           *)
Seen(p) == p \in DOMAIN progress /\ progress[p].highWaterOffset # 0
Taken(p) == IF Seen(p) THEN progress[p].offset + 1 ELSE FirstOffset[p]

LogOK ==
  \A p \in Partitions :
    /\ FirstOffset[p] <= Taken(p) /\ Taken(p) <= next[p]
    /\ next[p] <= log[p] /\ InitialLog[p] <= log[p]

(* The consumer stream holds, of each partition, the messages from the one *)
(* that is taken next to the one that is fetched next, in order.           *)
HeldOK(i) ==
  LET m == fetched[i] IN
    /\ m.offset >= Taken(m.partition) /\ m.offset < next[m.partition]
    /\ m.offset < m.highWaterOffset /\ InitialLog[m.partition] <= m.highWaterOffset

InOrder ==
  \A i, j \in DOMAIN fetched :
    i < j /\ fetched[i].partition = fetched[j].partition
      => fetched[i].offset < fetched[j].offset

Complete ==
  \A p \in Partitions : \A o \in Taken(p)..(next[p] - 1) :
    \E i \in DOMAIN fetched : fetched[i].partition = p /\ fetched[i].offset = o

Held == \A i \in DOMAIN fetched : HeldOK(i)

FetchedOK == Held /\ InOrder /\ Complete

ProgressOK ==
  \A p \in DOMAIN progress :
    \/ progress[p] = InitialItem
    \/ /\ Seen(p)
       /\ progress[p].progress = <<progress[p].offset, progress[p].highWaterOffset - 1>>
       /\ progress[p].offset < progress[p].highWaterOffset
       /\ InitialLog[p] <= progress[p].highWaterOffset

(* Message o of partition p was pushed, or is one of the n that go first   *)
(* of those that wait.                                                     *)
PassedBy(p, o, n) ==
  \/ \E i \in DOMAIN out : out[i].message.partition = p /\ out[i].message.offset = o
  \/ \E i \in DOMAIN waiting :
       i <= n /\ waiting[i].message.partition = p /\ waiting[i].message.offset = o

(* While nothing has stopped, what was taken was passed on or waits, and a *)
(* message that is marked as the last comes after all the initial ones.    *)
PassedOK ==
  stop = "open" =>
    /\ \A p \in Partitions : \A o \in FirstOffset[p]..(Taken(p) - 1) :
         PassedBy(p, o, Len(waiting))
    /\ \A n \in DOMAIN waiting : waiting[n].finished =>
         \A p \in Partitions : \A o \in FirstOffset[p]..(InitialLog[p] - 1) : PassedBy(p, o, n)

TakenCounts == [p \in Partitions |-> Taken(p) - FirstOffset[p]]

(* What the transforms count: each message once, and those before the      *)
(* first offset of the group as well.                                      *)
CountOK ==
  /\ stop = "open" =>
       /\ Len(out) + Len(waiting) = SumFunction(TakenCounts)
       /\ \A n \in DOMAIN waiting : waiting[n].finished =>
            /\ waiting[n].totalCount = Len(out) + n + SumFunction(FirstOffset)
            /\ \A p \in Partitions : Seen(p)
  /\ \A n \in DOMAIN waiting : waiting[n].totalCount <= TotalCount(progress)
  /\ \A n \in DOMAIN out : out[n].totalCount <= TotalCount(progress)

StopOK ==
  stop # "open" =>
    /\ ~tail /\ AllConsumed
    /\ out # <<>> /\ out[Len(out)].totalCount = Len(out) + SumFunction(FirstOffset)
    /\ \A p \in Partitions : Seen(p)

SummaryOK ==
  summary.printed =>
    /\ stop = "ended" /\ read = Len(out)
    /\ summary.totalCount = read + SumFunction(FirstOffset)
    /\ summary.partitions \in [Partitions -> Nat]
    /\ summary.totalCount <= SumFunction(summary.partitions)
    /\ \A p \in Partitions : summary.partitions[p] <= next[p]

IInv ==
  /\ TypeOK /\ LogOK /\ FetchedOK /\ ProgressOK
  /\ PassedOK /\ CountOK /\ StopOK /\ SummaryOK

-----------------------------------------------------------------------------
(* Every function over the partitions the proofs add up has numbers.       *)
LEMMA PartitionsFinite == IsFiniteSet(Partitions) /\ Cardinality(Partitions) \in Nat
BY PartitionsAssumption, FS_CardinalityType

LEMMA FirstOffsetSum == SumFunction(FirstOffset) \in Nat
<1>1. FirstOffset \in [Partitions -> Nat] /\ DOMAIN FirstOffset = Partitions
  BY LogAssumption
<1>2. Partitions \in SUBSET Partitions
  OBVIOUS
<1>3. QED
  BY <1>1, <1>2, PartitionsFinite, SumFacts DEF SumFunction

LEMMA ItemTyped ==
  ASSUME TypeOK, NEW p \in DOMAIN progress
  PROVE  /\ p \in Partitions /\ DOMAIN progress = Partitions
         /\ progress[p] \in Item
         /\ progress[p].offset \in Nat /\ progress[p].highWaterOffset \in Nat
BY DEF TypeOK, Item

LEMMA TakenTyped ==
  ASSUME TypeOK, NEW p \in Partitions
  PROVE  Taken(p) \in Nat /\ FirstOffset[p] \in Nat /\ InitialLog[p] \in Nat
         /\ next[p] \in Nat /\ log[p] \in Nat
BY ItemTyped, LogAssumption DEF Taken, Seen, TypeOK

LEMMA MessagesTyped ==
  ASSUME TypeOK
  PROVE  /\ \A i \in DOMAIN fetched : fetched[i] \in Message /\ fetched[i].partition \in Partitions
         /\ \A i \in DOMAIN waiting : /\ waiting[i] \in ProgressMessage
                                      /\ waiting[i].totalCount \in Nat
         /\ \A i \in DOMAIN out : out[i] \in ProgressMessage /\ out[i].totalCount \in Nat
<1>1. /\ fetched \in Seq(Message) /\ waiting \in Seq(ProgressMessage)
      /\ out \in Seq(ProgressMessage)
  BY DEF TypeOK
<1>2. /\ \A i \in DOMAIN fetched : fetched[i] \in Message
      /\ \A i \in DOMAIN waiting : waiting[i] \in ProgressMessage
      /\ \A i \in DOMAIN out : out[i] \in ProgressMessage
  BY <1>1
<1>3. QED
  BY <1>2 DEF Message, ProgressMessage

LEMMA InitIInv == Init => IInv
<1> SUFFICES ASSUME Init PROVE IInv
  OBVIOUS
<1>1. TypeOK
  BY LogAssumption DEF Init, TypeOK, Message, ProgressMessage
<1>2. \A p \in Partitions : ~Seen(p) /\ Taken(p) = FirstOffset[p]
  BY DEF Init, Seen, Taken
<1>3. \A p \in Partitions : FirstOffset[p] \in Nat /\ InitialLog[p] \in Nat
  BY LogAssumption
<1>4. LogOK
  BY <1>2, <1>3, LogAssumption DEF Init, LogOK
<1>5. FetchedOK
  BY <1>2, <1>3 DEF Init, FetchedOK, Held, HeldOK, InOrder, Complete
<1>6. ProgressOK
  BY DEF Init, ProgressOK
<1>7. PassedOK
  BY <1>2, <1>3 DEF Init, PassedOK
<1>8. CountOK
  <2>1. TakenCounts \in [Partitions -> Nat] /\ \A p \in Partitions : TakenCounts[p] = 0
    BY <1>2, <1>3 DEF TakenCounts
  <2>2. SumFunction(TakenCounts) = 0
    <3>1. SumFunction(TakenCounts) = Cardinality(Partitions) * 0
      BY <2>1, PartitionsFinite, SumConstant
    <3>2. QED
      BY <3>1, PartitionsFinite
  <2>3. QED
    BY <2>2 DEF Init, CountOK
<1>9. QED
  BY <1>1, <1>4, <1>5, <1>6, <1>7, <1>8 DEF Init, IInv, StopOK, SummaryOK

-----------------------------------------------------------------------------
LEMMA ProduceIInv == ASSUME IInv, NEW p \in Partitions, Produce(p) PROVE IInv'
<1>1. /\ log' = [log EXCEPT ![p] = @ + 1]
      /\ UNCHANGED <<tail, next, fetched, progress, waiting, stop, consumer, out,
                     read, failure, summary>>
  BY DEF Produce
<1>2. TypeOK'
  BY <1>1 DEF IInv, TypeOK
<1>3. LogOK'
  <2> SUFFICES ASSUME NEW q \in Partitions
               PROVE  /\ FirstOffset[q] <= Taken(q) /\ Taken(q) <= next[q]
                      /\ next[q] <= log'[q] /\ InitialLog[q] <= log'[q]
    BY <1>1 DEF LogOK, Taken, Seen
  <2>1. log'[q] = log[q] \/ log'[q] = log[q] + 1
    BY <1>1 DEF IInv, TypeOK
  <2>2. QED
    BY <2>1, TakenTyped DEF IInv, LogOK
<1>4. FetchedOK' /\ ProgressOK'
  BY <1>1 DEF IInv, FetchedOK, Held, HeldOK, InOrder, Complete, ProgressOK, Taken, Seen
<1>5. PassedOK' /\ CountOK'
  BY <1>1 DEF IInv, PassedOK, PassedBy, CountOK, TakenCounts, Taken, Seen
<1>6. StopOK' /\ SummaryOK'
  BY <1>1 DEF IInv, StopOK, AllConsumed, Consumed, Seen, SummaryOK
<1>7. QED
  BY <1>2, <1>3, <1>4, <1>5, <1>6 DEF IInv

LEMMA Appended ==
  ASSUME NEW S, NEW a \in Seq(S), NEW b \in Seq(S)
  PROVE  /\ a \o b \in Seq(S) /\ Len(a \o b) = Len(a) + Len(b)
         /\ DOMAIN (a \o b) = 1..(Len(a) + Len(b))
         /\ \A i \in 1..(Len(a) + Len(b)) :
              (a \o b)[i] = IF i <= Len(a) THEN a[i] ELSE b[i - Len(a)]
<1>1. Len(a) \in Nat /\ Len(b) \in Nat
  OBVIOUS
<1>2. a \o b \in Seq(S) /\ Len(a \o b) = Len(a) + Len(b)
  OBVIOUS
<1>3. DOMAIN (a \o b) = 1..(Len(a) + Len(b))
  BY <1>2
<1>4. \A i \in 1..(Len(a) + Len(b)) :
        (a \o b)[i] = IF i <= Len(a) THEN a[i] ELSE b[i - Len(a)]
  OBVIOUS
<1>5. QED
  BY <1>2, <1>3, <1>4

LEMMA FetchIInv == ASSUME IInv, NEW p \in Partitions, Fetch(p) PROVE IInv'
<1>1. TypeOK /\ LogOK /\ FetchedOK /\ SummaryOK
  BY DEF IInv
<1> DEFINE more(last) == [i \in 1..(last - next[p] + 1) |->
               [partition |-> p, offset |-> next[p] + i - 1, highWaterOffset |-> log[p]]]
<1>2. PICK last \in next[p]..(log[p] - 1) :
        /\ fetched' = fetched \o more(last)
        /\ next' = [next EXCEPT ![p] = last + 1]
  BY DEF Fetch
<1> DEFINE new == more(last)
<1>3. UNCHANGED <<tail, log, progress, waiting, stop, consumer, out, read, failure, summary>>
  BY DEF Fetch
<1>4. /\ next[p] \in Nat /\ log[p] \in Nat /\ last \in Nat /\ next[p] <= last /\ last < log[p]
      /\ fetched \in Seq(Message) /\ next \in [Partitions -> Nat]
      /\ Taken(p) \in Nat /\ Taken(p) <= next[p] /\ InitialLog[p] <= log[p]
      /\ InitialLog[p] \in Nat
  <2>1. next \in [Partitions -> Nat] /\ log \in [Partitions -> Nat] /\ fetched \in Seq(Message)
    BY <1>1 DEF TypeOK
  <2>2. Taken(p) \in Nat /\ InitialLog[p] \in Nat /\ Taken(p) <= next[p] /\ InitialLog[p] <= log[p]
    BY <1>1, TakenTyped DEF LogOK
  <2>3. QED
    BY <2>1, <2>2
<1> DEFINE n == Len(fetched)
           k == last - next[p] + 1
<1>5. n \in Nat /\ k \in Nat /\ DOMAIN fetched = 1..n
  BY <1>4
<1>6. /\ new \in Seq(Message) /\ Len(new) = k
      /\ \A i \in 1..k : new[i] = [partition |-> p, offset |-> next[p] + i - 1,
                                    highWaterOffset |-> log[p]]
  <2>1. \A i \in 1..k : [partition |-> p, offset |-> next[p] + i - 1,
                           highWaterOffset |-> log[p]] \in Message
    BY <1>4, <1>5 DEF Message
  <2>2. QED
    BY <1>5, <2>1
<1> HIDE DEF new, k, more
<1>7. /\ fetched' \in Seq(Message) /\ Len(fetched') = n + k
      /\ DOMAIN fetched' = 1..(n + k)
      /\ \A i \in 1..n : fetched'[i] = fetched[i]
      /\ \A i \in (n + 1)..(n + k) :
           /\ fetched'[i].partition = p /\ fetched'[i].offset = next[p] + (i - n) - 1
           /\ fetched'[i].highWaterOffset = log[p]
  <2>1. fetched' = fetched \o new
    BY <1>2 DEF new
  <2>2. /\ fetched' \in Seq(Message) /\ Len(fetched') = n + k /\ DOMAIN fetched' = 1..(n + k)
        /\ \A i \in 1..(n + k) : fetched'[i] = IF i <= n THEN fetched[i] ELSE new[i - n]
    <3>1. fetched \in Seq(Message) /\ new \in Seq(Message) /\ Len(fetched) = n /\ Len(new) = k
      BY <1>4, <1>6 DEF n
    <3>2. QED
      BY <2>1, <3>1, Appended
  <2>3. \A i \in (n + 1)..(n + k) : i - n \in 1..k
    BY <1>5
  <2>4. \A i \in 1..n : i \in 1..(n + k) /\ i <= n
    BY <1>5
  <2>5. \A i \in (n + 1)..(n + k) : i \in 1..(n + k) /\ ~(i <= n)
    BY <1>5
  <2>6. QED
    BY <1>6, <2>2, <2>3, <2>4, <2>5
<1>8. /\ next' \in [Partitions -> Nat] /\ next'[p] = last + 1 /\ k = next'[p] - next[p]
      /\ \A q \in Partitions : q # p => next'[q] = next[q]
      /\ \A q \in Partitions : next[q] \in Nat /\ next[q] <= next'[q]
  <2>1. /\ next' \in [Partitions -> Nat] /\ next'[p] = last + 1
        /\ \A q \in Partitions : q # p => next'[q] = next[q]
    BY <1>2, <1>4
  <2>2. \A q \in Partitions : next[q] \in Nat
    BY <1>4
  <2>3. k = next'[p] - next[p] /\ next[p] <= next'[p]
    BY <1>4, <2>1 DEF k
  <2>4. ASSUME NEW q \in Partitions PROVE next[q] <= next'[q]
    BY <2>1, <2>2, <2>3
  <2>5. QED
    BY <2>1, <2>2, <2>3, <2>4
<1>9. \A q \in Partitions : Taken(q)' = Taken(q)
  BY <1>3 DEF Taken, Seen
<1>10. TypeOK'
  BY <1>1, <1>3, <1>7, <1>8 DEF TypeOK
<1>11. LogOK'
  <2> SUFFICES ASSUME NEW q \in Partitions
               PROVE  /\ FirstOffset[q] <= Taken(q) /\ Taken(q) <= next'[q]
                      /\ next'[q] <= log[q] /\ InitialLog[q] <= log[q]
    BY <1>3, <1>9 DEF LogOK
  <2>1. /\ Taken(q) \in Nat /\ next[q] \in Nat /\ next'[q] \in Nat /\ log[q] \in Nat
        /\ FirstOffset[q] \in Nat /\ InitialLog[q] \in Nat
    BY <1>1, <1>8, TakenTyped
  <2>2. /\ FirstOffset[q] <= Taken(q) /\ Taken(q) <= next[q] /\ next[q] <= log[q]
        /\ InitialLog[q] <= log[q]
    BY <1>1 DEF LogOK
  <2>3. next[q] <= next'[q] /\ next'[q] <= log[q]
    <3>1. CASE q = p
      BY <1>4, <1>8, <3>1
    <3>2. CASE q # p
      BY <1>8, <2>1, <2>2, <3>2
    <3>3. QED
      BY <3>1, <3>2
  <2>4. QED
    BY <2>1, <2>2, <2>3
<1>12. FetchedOK'
  <2>1. ASSUME NEW i \in DOMAIN fetched'
        PROVE  /\ fetched'[i].offset >= Taken(fetched'[i].partition)
               /\ fetched'[i].partition \in Partitions
               /\ fetched'[i].offset < next'[fetched'[i].partition]
               /\ fetched'[i].offset < fetched'[i].highWaterOffset
               /\ InitialLog[fetched'[i].partition] <= fetched'[i].highWaterOffset
    <3>1. CASE i \in 1..n
      <4>1. fetched'[i] = fetched[i] /\ fetched[i] \in Message
        BY <1>4, <1>5, <1>7, <3>1
      <4>2. fetched[i].partition \in Partitions /\ fetched[i].offset \in Nat
        BY <4>1 DEF Message
      <4>3. next[fetched[i].partition] <= next'[fetched[i].partition]
        BY <1>8, <4>2
      <4>4. QED
        BY <1>1, <1>5, <1>8, <3>1, <4>1, <4>2, <4>3 DEF FetchedOK, Held, HeldOK, InOrder, Complete
    <3>2. CASE i \in (n + 1)..(n + k)
      <4>1. /\ fetched'[i].partition = p /\ fetched'[i].offset = next[p] + (i - n) - 1
            /\ fetched'[i].highWaterOffset = log[p]
        BY <1>7, <3>2
      <4>2. i - n >= 1 /\ i - n <= k /\ i - n \in Nat
        BY <1>5, <3>2
      <4>3. next[p] + (i - n) - 1 >= next[p] /\ next[p] + (i - n) - 1 <= last
        BY <1>4, <1>8, <4>2
      <4>4. /\ fetched'[i].offset >= Taken(p) /\ fetched'[i].offset < next'[p]
            /\ fetched'[i].offset < log[p]
        <5>1. PICK o \in Nat : o = fetched'[i].offset /\ o >= next[p] /\ o <= last
          BY <1>4, <4>1, <4>2, <4>3
        <5>2. /\ Taken(p) \in Nat /\ next[p] \in Nat /\ last \in Nat /\ log[p] \in Nat
              /\ Taken(p) <= next[p] /\ next'[p] = last + 1 /\ last < log[p]
          BY <1>4, <1>8
        <5>3. o >= Taken(p) /\ o < next'[p] /\ o < log[p]
          BY <5>1, <5>2
        <5>4. QED
          BY <5>1, <5>3
      <4>5. QED
        BY <1>4, <4>1, <4>4
    <3>3. QED
      BY <1>5, <1>7, <3>1, <3>2
  <2>2. ASSUME NEW i \in DOMAIN fetched', NEW j \in DOMAIN fetched', i < j,
               fetched'[i].partition = fetched'[j].partition
        PROVE  fetched'[i].offset < fetched'[j].offset
    <3>1. CASE j \in 1..n
      <4>1. i \in 1..n
        BY <1>5, <1>7, <2>2, <3>1
      <4>2. fetched'[i] = fetched[i] /\ fetched'[j] = fetched[j]
        BY <1>7, <3>1, <4>1
      <4>3. QED
        BY <1>1, <1>5, <2>2, <3>1, <4>1, <4>2 DEF FetchedOK, Held, HeldOK, InOrder, Complete
    <3>2. CASE i \in 1..n /\ j \in (n + 1)..(n + k)
      <4>1. fetched[i] \in Message /\ fetched'[i] = fetched[i]
        BY <1>4, <1>5, <1>7, <3>2
      <4>2. fetched[i].offset < next[p] /\ fetched[i].offset \in Nat
        <5>1. fetched[i].partition = p
          BY <1>7, <2>2, <3>2, <4>1
        <5>2. fetched[i].offset \in Nat
          BY <4>1 DEF Message
        <5>3. HeldOK(i)
          BY <1>1, <1>5, <3>2 DEF FetchedOK, Held
        <5>4. QED
          BY <5>1, <5>2, <5>3 DEF HeldOK
      <4>3. fetched'[j].offset >= next[p] /\ fetched'[j].offset \in Nat
        <5>1. fetched'[j].offset = next[p] + (j - n) - 1
          BY <1>7, <3>2
        <5>2. j - n \in Nat /\ j - n >= 1
          BY <1>5, <3>2
        <5>3. QED
          BY <1>4, <5>1, <5>2
      <4>4. fetched'[i].offset < fetched'[j].offset
        BY <1>4, <4>1, <4>2, <4>3
      <4>5. QED
        BY <4>4
    <3>3. CASE i \in (n + 1)..(n + k) /\ j \in (n + 1)..(n + k)
      <4>1. /\ fetched'[i].offset = next[p] + (i - n) - 1
            /\ fetched'[j].offset = next[p] + (j - n) - 1
        BY <1>7, <3>3
      <4>2. i \in Nat /\ j \in Nat /\ i < j
        BY <1>5, <2>2, <3>3
      <4>3. QED
        BY <1>4, <1>5, <4>1, <4>2
    <3>4. QED
      BY <1>5, <1>7, <2>2, <3>1, <3>2, <3>3
  <2>3. ASSUME NEW q \in Partitions, NEW o \in Taken(q)..(next'[q] - 1)
        PROVE  \E i \in DOMAIN fetched' : fetched'[i].partition = q /\ fetched'[i].offset = o
    <3>1. Taken(q) \in Nat /\ next[q] \in Nat /\ next'[q] \in Nat
      BY <1>1, <1>8, TakenTyped
    <3>2. CASE o <= next[q] - 1
      <4>1. o \in Taken(q)..(next[q] - 1)
        BY <3>1, <3>2
      <4>2. PICK i \in DOMAIN fetched : fetched[i].partition = q /\ fetched[i].offset = o
        BY <1>1, <4>1 DEF FetchedOK, Held, HeldOK, InOrder, Complete
      <4>3. QED
        BY <1>5, <1>7, <4>2
    <3>3. CASE o > next[q] - 1
      <4>1. q = p /\ o >= next[p] /\ o <= last /\ o \in Nat
        BY <1>8, <3>1, <3>3
      <4> DEFINE i == n + (o - next[p]) + 1
      <4>2. i \in (n + 1)..(n + k) /\ next[p] + (i - n) - 1 = o /\ i \in 1..(n + k)
        <5>1. k = last + 1 - next[p]
          BY <1>8
        <5>2. PICK d \in Nat : d = o - next[p]
          BY <1>4, <4>1
        <5>3. i = n + d + 1 /\ o = next[p] + d
          BY <1>4, <4>1, <5>2
        <5>4. d + 1 <= k
          BY <1>4, <1>5, <4>1, <5>1, <5>2
        <5>5. next[p] \in Nat /\ n \in Nat /\ k \in Nat
          BY <1>4, <1>5
        <5> HIDE DEF i, n
        <5>6. i - n = d + 1 /\ i \in (n + 1)..(n + k) /\ i \in 1..(n + k)
          BY <5>2, <5>3, <5>4, <5>5
        <5>7. next[p] + (d + 1) - 1 = o
          BY <5>2, <5>3, <5>5
        <5>8. QED
          BY <5>6, <5>7
      <4> HIDE DEF i
      <4>3. i \in DOMAIN fetched' /\ fetched'[i].partition = p /\ fetched'[i].offset = o
        BY <1>7, <4>2
      <4>4. QED
        BY <4>1, <4>3
    <3>4. QED
      BY <3>1, <3>2, <3>3
  <2>4. ASSUME NEW i \in DOMAIN fetched'
        PROVE  HeldOK(i)'
    BY <1>9, <2>1 DEF HeldOK
  <2>5. ASSUME NEW q \in Partitions
        PROVE  \A o \in Taken(q)'..(next'[q] - 1) :
                 \E i \in DOMAIN fetched' : fetched'[i].partition = q /\ fetched'[i].offset = o
    <3>1. Taken(q)' = Taken(q)
      BY <1>9
    <3>2. QED
      BY <2>3, <3>1
  <2>6. InOrder'
    BY <2>2 DEF InOrder
  <2>7. Complete'
    BY <2>5 DEF Complete
  <2>8. Held'
    BY <2>4 DEF Held
  <2>9. QED
    BY <2>8, <2>6, <2>7 DEF FetchedOK
<1>13. ProgressOK' /\ PassedOK' /\ CountOK' /\ StopOK'
  <2>1. ProgressOK' /\ StopOK'
    BY <1>3 DEF IInv, ProgressOK, Seen, StopOK, AllConsumed, Consumed
  <2>2. PassedOK'
    BY <1>3 DEF IInv, PassedOK, PassedBy, Taken, Seen
  <2>3. CountOK'
    BY <1>3 DEF IInv, CountOK, TakenCounts, Taken, Seen
  <2>4. QED
    BY <2>1, <2>2, <2>3
<1>14. SummaryOK'
  <2> SUFFICES ASSUME summary.printed
               PROVE  \A q \in Partitions : summary.partitions[q] <= next'[q]
    BY <1>1, <1>3 DEF SummaryOK
  <2>1. \A q \in Partitions : summary.partitions[q] \in Nat /\ summary.partitions[q] <= next[q]
    BY <1>1 DEF SummaryOK
  <2>2. QED
    BY <1>8, <2>1
<1>15. QED
  BY <1>10, <1>11, <1>12, <1>13, <1>14 DEF IInv

-----------------------------------------------------------------------------
(* The count of a progress is a number, whatever was seen. *)
LEMMA CountTyped ==
  ASSUME NEW items, DOMAIN items \in {{}, Partitions},
         \A p \in DOMAIN items : items[p].offset \in Nat
  PROVE  /\ TotalCount(items) \in Nat
         /\ DOMAIN items = {} => TotalCount(items) = 0
<1> DEFINE counts == [p \in DOMAIN items |-> items[p].offset + 1]
<1>1. IsFiniteSet(DOMAIN items)
  BY PartitionsFinite, FS_EmptySet
<1>2. counts \in [DOMAIN items -> Nat] /\ DOMAIN counts = DOMAIN items
  OBVIOUS
<1>3. TotalCount(items) = SumFunctionOnSet(counts, DOMAIN items)
  BY <1>2 DEF TotalCount, SumFunction
<1> HIDE DEF counts
<1>4. DOMAIN items \in SUBSET (DOMAIN items)
  OBVIOUS
<1>5. QED
  BY <1>1, <1>2, <1>3, <1>4, SumFacts

LEMMA InitPartitionProgressIInv == ASSUME IInv, InitPartitionProgress PROVE IInv'
<1>1. /\ DOMAIN progress = {}
      /\ progress' = progress \/ progress' = [p \in Partitions |-> InitialItem]
      /\ UNCHANGED <<tail, log, next, fetched, waiting, stop, consumer, out, read, summary>>
      /\ failure' \in {failure, "metadata"}
  BY DEF InitPartitionProgress
<1>2. \A p \in Partitions : ~Seen(p) /\ ~Seen(p)'
  BY <1>1 DEF Seen, InitialItem
<1>3. \A p \in Partitions : Taken(p)' = Taken(p)
  BY <1>2 DEF Taken
<1>4. TypeOK'
  <2>1. InitialItem \in Item
    BY DEF InitialItem, Item
  <2>2. DOMAIN progress' \in {{}, Partitions} /\ \A p \in DOMAIN progress' : progress'[p] \in Item
    BY <1>1, <2>1
  <2>3. QED
    BY <1>1, <2>2 DEF IInv, TypeOK
<1>5. LogOK'
  BY <1>1, <1>3 DEF IInv, LogOK
<1>6. FetchedOK'
  <2>1. \A i \in DOMAIN fetched : fetched[i].partition \in Partitions
    BY MessagesTyped DEF IInv
  <2>2. QED
    BY <1>1, <1>3, <2>1 DEF IInv, FetchedOK, Held, HeldOK, InOrder, Complete
<1>7. ProgressOK'
  BY <1>1 DEF ProgressOK
<1>8. PassedOK'
  BY <1>1, <1>3 DEF IInv, PassedOK, PassedBy
<1>9. CountOK'
  <2>1. TakenCounts' = TakenCounts
    BY <1>3 DEF TakenCounts
  <2>2. TotalCount(progress) = 0 /\ TotalCount(progress)' \in Nat
    <3>1. DOMAIN progress' \in {{}, Partitions} /\ \A p \in DOMAIN progress' : progress'[p].offset \in Nat
      BY <1>1 DEF InitialItem
    <3>2. TotalCount(progress') \in Nat
      BY <3>1, CountTyped
    <3>3. QED
      BY <1>1, <3>2, CountTyped
  <2>3. /\ \A n \in DOMAIN waiting : waiting[n].totalCount \in Nat
        /\ \A n \in DOMAIN out : out[n].totalCount \in Nat
    BY MessagesTyped DEF IInv
  <2>4. stop = "open" => \A n \in DOMAIN waiting : ~waiting[n].finished
    BY <1>2, PartitionsAssumption DEF IInv, CountOK
  <2>5. QED
    BY <1>1, <2>1, <2>2, <2>3, <2>4 DEF IInv, CountOK
<1>10. StopOK'
  BY <1>1, <1>2, PartitionsAssumption DEF IInv, StopOK
<1>11. SummaryOK'
  BY <1>1 DEF IInv, SummaryOK
<1>12. QED
  BY <1>4, <1>5, <1>6, <1>7, <1>8, <1>9, <1>10, <1>11 DEF IInv

-----------------------------------------------------------------------------
(* The step of ConsumerProgressTransform.                                  *)

(* It takes the message that comes next of its partition. *)
LEMMA TakesNext ==
  ASSUME IInv, fetched # <<>>
  PROVE  /\ Head(fetched) = fetched[1] /\ Head(fetched) \in Message
         /\ Head(fetched).partition \in Partitions
         /\ Head(fetched).offset \in Nat /\ Head(fetched).highWaterOffset \in Nat
         /\ Head(fetched).offset = Taken(Head(fetched).partition)
         /\ Head(fetched).offset < next[Head(fetched).partition]
         /\ Head(fetched).offset < Head(fetched).highWaterOffset
         /\ InitialLog[Head(fetched).partition] <= Head(fetched).highWaterOffset
<1> DEFINE m == fetched[1]
           p == m.partition
<1>1. fetched \in Seq(Message) /\ 1 \in DOMAIN fetched /\ Head(fetched) = m /\ m \in Message
  BY DEF IInv, TypeOK
<1>2. p \in Partitions /\ m.offset \in Nat /\ m.highWaterOffset \in Nat
  BY <1>1 DEF Message
<1>3. /\ m.offset >= Taken(p) /\ m.offset < next[p] /\ m.offset < m.highWaterOffset
      /\ InitialLog[p] <= m.highWaterOffset
  BY <1>1 DEF IInv, FetchedOK, Held, HeldOK, InOrder, Complete
<1>4. Taken(p) \in Nat /\ next[p] \in Nat
  BY <1>2, TakenTyped DEF IInv
<1>5. PICK i \in DOMAIN fetched : fetched[i].partition = p /\ fetched[i].offset = Taken(p)
  <2>1. Taken(p) \in Taken(p)..(next[p] - 1)
    BY <1>2, <1>3, <1>4
  <2>2. QED
    BY <1>2, <2>1 DEF IInv, FetchedOK, Held, HeldOK, InOrder, Complete
<1>6. i # 1 => m.offset < fetched[i].offset
  <2>1. i # 1 => 1 < i
    BY <1>1
  <2>2. QED
    BY <1>1, <1>5, <2>1 DEF IInv, FetchedOK, Held, HeldOK, InOrder, Complete
<1>7. m.offset = Taken(p)
  BY <1>2, <1>3, <1>4, <1>5, <1>6
<1>8. QED
  BY <1>1, <1>2, <1>3, <1>7

(* What the step does to what was taken, and what the rest then holds. *)
LEMMA TransformFacts ==
  ASSUME IInv, TransformProgress, NEW m, m = Head(fetched), NEW p, p = m.partition
  PROVE  /\ DOMAIN progress = Partitions /\ DOMAIN progress' = Partitions
         /\ p \in Partitions /\ progress'[p] = ItemOf(m)
         /\ \A q \in Partitions \ {p} : progress'[q] = progress[q]
         /\ Taken(p)' = Taken(p) + 1 /\ Seen(p)'
         /\ \A q \in Partitions \ {p} : Taken(q)' = Taken(q) /\ (Seen(q)' <=> Seen(q))
         /\ fetched' \in Seq(Message) /\ Len(fetched') = Len(fetched) - 1
         /\ DOMAIN fetched' = 1..(Len(fetched) - 1) /\ Len(fetched) \in Nat
         /\ DOMAIN fetched = 1..Len(fetched) /\ Len(fetched) # 0
         /\ \A i \in 1..(Len(fetched) - 1) : fetched'[i] = fetched[i + 1]
<1>1. /\ fetched # <<>> /\ fetched' = Tail(fetched) /\ DOMAIN progress # {}
      /\ progress' = [progress EXCEPT ![p] = ItemOf(m)]
  BY DEF TransformProgress
<1>2. /\ m \in Message /\ p \in Partitions /\ m.offset \in Nat /\ m.highWaterOffset \in Nat
      /\ m.offset = Taken(p) /\ m.offset < m.highWaterOffset
  BY <1>1, TakesNext
<1>3. DOMAIN progress = Partitions /\ fetched \in Seq(Message)
  BY <1>1 DEF IInv, TypeOK
<1>4. /\ DOMAIN progress' = Partitions /\ progress'[p] = ItemOf(m)
      /\ \A q \in Partitions \ {p} : progress'[q] = progress[q]
  <2>1. DOMAIN progress' = DOMAIN progress
    BY <1>1
  <2>2. progress'[p] = ItemOf(m)
    BY <1>1, <1>2, <1>3
  <2>3. \A q \in Partitions \ {p} : progress'[q] = progress[q]
    BY <1>1, <1>3
  <2>4. QED
    BY <1>3, <2>1, <2>2, <2>3
<1>5. Seen(p)' /\ Taken(p)' = Taken(p) + 1
  <2>1. ItemOf(m).offset = m.offset /\ ItemOf(m).highWaterOffset = m.highWaterOffset
    BY DEF ItemOf
  <2>2. progress'[p].offset = m.offset /\ progress'[p].highWaterOffset # 0
    BY <1>2, <1>4, <2>1
  <2>3. QED
    BY <1>2, <1>4, <2>2 DEF Seen, Taken
<1>6. \A q \in Partitions \ {p} : Taken(q)' = Taken(q) /\ (Seen(q)' <=> Seen(q))
  BY <1>3, <1>4 DEF Seen, Taken
<1>7. /\ fetched' \in Seq(Message) /\ Len(fetched') = Len(fetched) - 1
      /\ DOMAIN fetched' = 1..(Len(fetched) - 1) /\ Len(fetched) \in Nat
      /\ DOMAIN fetched = 1..Len(fetched) /\ Len(fetched) # 0
      /\ \A i \in 1..(Len(fetched) - 1) : fetched'[i] = fetched[i + 1]
  BY <1>1, <1>3
<1>8. QED
  BY <1>2, <1>3, <1>4, <1>5, <1>6, <1>7

LEMMA TransformFetched == ASSUME IInv, TransformProgress PROVE LogOK' /\ FetchedOK' /\ ProgressOK'
<1> PICK m : m = Head(fetched)
  OBVIOUS
<1> PICK p : p = m.partition
  OBVIOUS
<1> PICK n : n = Len(fetched) - 1
  OBVIOUS
<1>1. UNCHANGED <<log, next>> /\ fetched # <<>>
  BY DEF TransformProgress
<1>2. /\ m = fetched[1] /\ m \in Message /\ p \in Partitions
      /\ m.offset \in Nat /\ m.highWaterOffset \in Nat
      /\ m.offset = Taken(p) /\ m.offset < next[p] /\ m.offset < m.highWaterOffset
      /\ InitialLog[p] <= m.highWaterOffset
  BY <1>1, TakesNext
<1>3. /\ DOMAIN progress = Partitions /\ DOMAIN progress' = Partitions
      /\ progress'[p] = ItemOf(m)
      /\ \A q \in Partitions \ {p} : progress'[q] = progress[q]
  BY TransformFacts
<1>4. /\ Taken(p)' = Taken(p) + 1 /\ Seen(p)'
      /\ \A q \in Partitions \ {p} : Taken(q)' = Taken(q) /\ (Seen(q)' <=> Seen(q))
  BY TransformFacts
<1>5. /\ n \in Nat /\ DOMAIN fetched' = 1..n /\ DOMAIN fetched = 1..(n + 1)
      /\ \A i \in 1..n : fetched'[i] = fetched[i + 1] /\ fetched'[i] \in Message
  BY TransformFacts
<1>6. \A q \in Partitions : /\ Taken(q) \in Nat /\ next[q] \in Nat /\ FirstOffset[q] \in Nat
                            /\ FirstOffset[q] <= Taken(q) /\ Taken(q) <= next[q]
                            /\ next[q] <= log[q] /\ InitialLog[q] <= log[q]
  BY TakenTyped DEF IInv, LogOK
<1>7. LogOK'
  <2> SUFFICES ASSUME NEW q \in Partitions
               PROVE  FirstOffset[q] <= Taken(q)' /\ Taken(q)' <= next[q]
    BY <1>1, <1>6 DEF LogOK
  <2>1. CASE q = p
    BY <1>2, <1>4, <1>6, <2>1
  <2>2. CASE q # p
    BY <1>4, <1>6, <2>2
  <2>3. QED
    BY <2>1, <2>2
<1>8. FetchedOK'
  <2>1. ASSUME NEW i \in 1..n
        PROVE  /\ i + 1 \in DOMAIN fetched /\ fetched'[i] = fetched[i + 1]
               /\ fetched[i + 1].partition \in Partitions /\ fetched[i + 1].offset \in Nat
               /\ fetched[i + 1].partition = p => m.offset < fetched[i + 1].offset
    <3>1. i + 1 \in DOMAIN fetched /\ 1 \in DOMAIN fetched /\ 1 < i + 1
      BY <1>5
    <3>2. fetched[i + 1].partition \in Partitions /\ fetched[i + 1].offset \in Nat
      BY <1>5 DEF Message
    <3>3. fetched[i + 1].partition = p => m.offset < fetched[i + 1].offset
      <4>1. InOrder
        BY DEF IInv, FetchedOK
      <4>2. QED
        BY <1>2, <3>1, <4>1 DEF InOrder
    <3>4. QED
      BY <1>5, <3>1, <3>2, <3>3
  <2>2. ASSUME NEW i \in 1..n
        PROVE  /\ fetched'[i].offset >= Taken(fetched[i].partition)'
               /\ fetched'[i].offset < next[fetched'[i].partition]
               /\ fetched'[i].offset < fetched'[i].highWaterOffset
               /\ InitialLog[fetched'[i].partition] <= fetched'[i].highWaterOffset
    <3>1. /\ fetched[i + 1].offset >= Taken(fetched[i + 1].partition)
          /\ fetched[i + 1].offset < next[fetched[i + 1].partition]
          /\ fetched[i + 1].offset < fetched[i + 1].highWaterOffset
          /\ InitialLog[fetched[i + 1].partition] <= fetched[i + 1].highWaterOffset
      BY <2>1 DEF IInv, FetchedOK, Held, HeldOK, InOrder, Complete
    <3>2. PICK q \in Partitions : q = fetched[i + 1].partition
      BY <2>1
    <3>3. fetched[i + 1].offset >= Taken(q)'
      <4>1. CASE q = p
        <5>1. Taken(q)' = m.offset + 1
          BY <1>2, <1>4, <4>1
        <5>2. m.offset < fetched[i + 1].offset /\ fetched[i + 1].offset \in Nat
          BY <2>1, <3>2, <4>1
        <5>3. m.offset \in Nat
          BY <1>2
        <5>4. QED
          BY <5>1, <5>2, <5>3
      <4>2. CASE q # p
        BY <1>4, <3>1, <3>2, <4>2
      <4>3. QED
        BY <4>1, <4>2
    <3>4. Taken(fetched[i].partition)' = Taken(q)'
      BY <2>1, <3>2
    <3>5. QED
      BY <2>1, <3>1, <3>3, <3>4
  <2>3. ASSUME NEW i \in 1..n, NEW j \in 1..n, i < j,
               fetched'[i].partition = fetched'[j].partition
        PROVE  fetched'[i].offset < fetched'[j].offset
    <3>1. i + 1 < j + 1 /\ i + 1 \in DOMAIN fetched /\ j + 1 \in DOMAIN fetched
      BY <2>1, <2>3
    <3>2. fetched[i + 1].partition = fetched[j + 1].partition
      BY <2>1, <2>3
    <3>3. fetched[i + 1].offset < fetched[j + 1].offset
      BY <3>1, <3>2 DEF IInv, FetchedOK, Held, HeldOK, InOrder, Complete
    <3>4. QED
      BY <2>1, <3>3
  <2>4. ASSUME NEW q \in Partitions, NEW o \in Taken(q)'..(next[q] - 1)
        PROVE  \E i \in 1..n : fetched'[i].partition = q /\ fetched'[i].offset = o
    <3>1. Taken(q)' >= Taken(q) /\ Taken(q)' \in Nat /\ Taken(q) \in Nat /\ (q = p => o # m.offset)
      <4>1. CASE q = p
        BY <1>2, <1>4, <1>6, <2>4, <4>1
      <4>2. CASE q # p
        BY <1>4, <1>6, <4>2
      <4>3. QED
        BY <4>1, <4>2
    <3>2. o \in Taken(q)..(next[q] - 1)
      BY <1>6, <3>1
    <3>3. PICK i \in DOMAIN fetched : fetched[i].partition = q /\ fetched[i].offset = o
      BY <3>2 DEF IInv, FetchedOK, Held, HeldOK, InOrder, Complete
    <3>4. i # 1
      BY <1>2, <3>1, <3>3
    <3>5. i - 1 \in 1..n /\ (i - 1) + 1 = i
      BY <1>5, <3>3, <3>4
    <3>6. fetched'[i - 1] = fetched[i]
      BY <1>5, <3>5
    <3>7. QED
      BY <3>3, <3>5, <3>6
  <2>5. ASSUME NEW i \in DOMAIN fetched'
        PROVE  HeldOK(i)'
    BY <1>1, <1>5, <2>1, <2>2 DEF HeldOK
  <2>6. InOrder'
    BY <1>5, <2>3 DEF InOrder
  <2>7. Complete'
    BY <1>1, <1>5, <2>4 DEF Complete
  <2>8. Held'
    BY <2>5 DEF Held
  <2>9. QED
    BY <2>8, <2>6, <2>7 DEF FetchedOK
<1>9. ProgressOK'
  <2> SUFFICES ASSUME NEW q \in Partitions
               PROVE  \/ progress'[q] = InitialItem
                      \/ /\ Seen(q)'
                         /\ progress'[q].progress = <<progress'[q].offset, progress'[q].highWaterOffset - 1>>
                         /\ progress'[q].offset < progress'[q].highWaterOffset
                         /\ InitialLog[q] <= progress'[q].highWaterOffset
    BY <1>3 DEF ProgressOK
  <2>1. CASE q = p
    <3>1. /\ ItemOf(m).progress = <<m.offset, m.highWaterOffset - 1>>
          /\ ItemOf(m).offset = m.offset /\ ItemOf(m).highWaterOffset = m.highWaterOffset
      BY DEF ItemOf
    <3>2. QED
      BY <1>2, <1>3, <1>4, <2>1, <3>1
  <2>2. CASE q # p
    BY <1>3, <1>4, <2>2 DEF IInv, ProgressOK
  <2>3. QED
    BY <2>1, <2>2
<1>10. QED
  BY <1>7, <1>8, <1>9

(* The mean of the progresses is 1 only when each partition has been seen  *)
(* to its end, which lies at or after the end it had at the start.         *)
LEMMA FinishedMeans ==
  ASSUME NEW items, items \in [Partitions -> Item],
         \A p \in Partitions :
           \/ items[p] = InitialItem
           \/ /\ items[p].highWaterOffset # 0
              /\ items[p].progress = <<items[p].offset, items[p].highWaterOffset - 1>>
              /\ items[p].offset < items[p].highWaterOffset
              /\ InitialLog[p] <= items[p].highWaterOffset,
         TotalIsOne(items)
  PROVE  \A p \in Partitions : /\ items[p].highWaterOffset # 0
                               /\ InitialLog[p] <= items[p].offset + 1
<1> DEFINE num == [p \in Partitions |-> items[p].progress[1]]
           den == [p \in Partitions |-> items[p].progress[2]]
           scaled == [p \in Partitions |-> num[p] * Product(den, Partitions \ {p})]
<1>1. DOMAIN items = Partitions
  OBVIOUS
<1>2. /\ 0 \notin Range(den)
      /\ SumFunction(scaled) >= Cardinality(Partitions) * Product(den, Partitions)
  BY <1>1 DEF TotalIsOne, Product
<1>3. ASSUME NEW p \in Partitions
      PROVE  /\ items[p].offset \in Nat /\ items[p].highWaterOffset \in Nat
             /\ num[p] \in Nat /\ den[p] \in Nat /\ den[p] # 0 /\ num[p] <= den[p]
  <2>1. items[p] \in Item
    OBVIOUS
  <2>2. /\ items[p].offset \in Nat /\ items[p].highWaterOffset \in Nat
        /\ items[p].progress \in Nat \X Nat
    BY <2>1 DEF Item
  <2>3. num[p] = items[p].progress[1] /\ den[p] = items[p].progress[2]
    OBVIOUS
  <2>4. den[p] # 0
    BY <1>2 DEF Range
  <2>5. items[p].progress[1] <= items[p].progress[2]
    <3>1. CASE items[p] = InitialItem
      BY <3>1 DEF InitialItem
    <3>2. CASE items[p] # InitialItem
      BY <2>2, <3>2
    <3>3. QED
      BY <3>1, <3>2
  <2>6. QED
    BY <2>2, <2>3, <2>4, <2>5
<1>4. num \in [Partitions -> Nat] /\ den \in [Partitions -> Nat]
  BY <1>3
<1>5. ASSUME NEW p \in Partitions
      PROVE  /\ scaled[p] = num[p] * Product(den, Partitions \ {p})
             /\ scaled[p] \in Nat
  <2>1. scaled[p] = num[p] * Product(den, Partitions \ {p})
    OBVIOUS
  <2> HIDE DEF num, den, scaled
  <2>2. Product(den, Partitions \ {p}) \in Nat
    BY <1>4, PartitionsFinite, ProductFacts
  <2>3. \A a, b \in Nat : a * b \in Nat
    OBVIOUS
  <2>4. QED
    BY <1>3, <2>1, <2>2, <2>3
<1>6. scaled \in [Partitions -> Nat]
  BY <1>5
<1> HIDE DEF scaled
<1>7. \A p \in Partitions : num[p] = den[p]
  <2> HIDE DEF num, den
  <2>1. QED
    BY <1>2, <1>3, <1>4, <1>5, <1>6, PartitionsFinite, MeanIsOne
<1>8. ASSUME NEW p \in Partitions
      PROVE  /\ items[p].highWaterOffset # 0
             /\ InitialLog[p] <= items[p].offset + 1
  <2>1. items[p].progress[1] = items[p].progress[2]
    BY <1>7
  <2>2. items[p] # InitialItem
    BY <2>1 DEF InitialItem
  <2>3. items[p].offset = items[p].highWaterOffset - 1
    BY <2>1, <2>2
  <2>4. QED
    BY <1>3, <2>2, <2>3
<1>9. QED
  BY <1>8

(* What waits, and the message that now waits last. *)
LEMMA TransformWaiting ==
  ASSUME IInv, TransformProgress, NEW m, m = Head(fetched), NEW w, w = Len(waiting)
  PROVE  /\ w \in Nat /\ DOMAIN waiting = 1..w
         /\ waiting' \in Seq(ProgressMessage) /\ Len(waiting') = w + 1
         /\ DOMAIN waiting' = 1..(w + 1)
         /\ \A n \in 1..w : waiting'[n] = waiting[n]
         /\ waiting'[w + 1].message = m
         /\ waiting'[w + 1].finished <=> TotalIsOne(progress')
         /\ waiting'[w + 1].totalCount = TotalCount(progress')
<1>1. /\ fetched # <<>>
      /\ progress' = [progress EXCEPT ![m.partition] = ItemOf(m)]
      /\ waiting' = Append(waiting, [message |-> m,
             finished |-> TotalIsOne([progress EXCEPT ![m.partition] = ItemOf(m)]),
             totalCount |-> TotalCount([progress EXCEPT ![m.partition] = ItemOf(m)])])
  BY DEF TransformProgress
<1> DEFINE new == [message |-> m, finished |-> TotalIsOne(progress'),
                   totalCount |-> TotalCount(progress')]
<1>2. waiting' = Append(waiting, new)
  BY <1>1
<1>3. m \in Message /\ m.offset \in Nat /\ m.highWaterOffset \in Nat /\ m.partition \in Partitions
  BY <1>1, TakesNext
<1>4. TotalCount(progress') \in Nat
  <2>1. DOMAIN progress' = Partitions /\ \A q \in Partitions : progress'[q].offset \in Nat
    <3>1. /\ DOMAIN progress = Partitions /\ DOMAIN progress' = Partitions
          /\ progress'[m.partition] = ItemOf(m)
          /\ \A q \in Partitions \ {m.partition} : progress'[q] = progress[q]
      BY TransformFacts
    <3>2. \A q \in Partitions : progress[q].offset \in Nat
      BY <3>1, ItemTyped DEF IInv
    <3>3. ItemOf(m).offset = m.offset
      BY DEF ItemOf
    <3>4. QED
      BY <1>3, <3>1, <3>2, <3>3
  <2>2. QED
    BY <2>1, CountTyped
<1>5. TotalIsOne(progress') \in BOOLEAN
  BY DEF TotalIsOne
<1>6. new \in ProgressMessage
  BY <1>3, <1>4, <1>5 DEF ProgressMessage
<1>7. new.message = m /\ new.finished = TotalIsOne(progress') /\ new.totalCount = TotalCount(progress')
  OBVIOUS
<1>8. waiting \in Seq(ProgressMessage)
  BY DEF IInv, TypeOK
<1> HIDE DEF new
<1>9. /\ w \in Nat /\ DOMAIN waiting = 1..w
      /\ waiting' \in Seq(ProgressMessage) /\ Len(waiting') = w + 1
      /\ DOMAIN waiting' = 1..(w + 1)
      /\ \A n \in 1..w : waiting'[n] = waiting[n]
      /\ waiting'[w + 1] = new
  BY <1>2, <1>6, <1>8
<1>10. QED
  BY <1>7, <1>9

(* A message marked as the last is one with which every partition has been *)
(* seen to the end it had at the start.                                    *)
LEMMA TransformFinished ==
  ASSUME IInv, TransformProgress, TotalIsOne(progress')
  PROVE  \A q \in Partitions :
           /\ Seen(q)' /\ InitialLog[q] <= Taken(q)' /\ Taken(q)' = progress'[q].offset + 1
<1> PICK m : m = Head(fetched)
  OBVIOUS
<1> PICK p : p = m.partition
  OBVIOUS
<1>1. ProgressOK' /\ DOMAIN progress' = Partitions
  BY TransformFetched, TransformFacts
<1>2. progress' \in [Partitions -> Item]
  <2>1. /\ fetched # <<>> /\ progress' = [progress EXCEPT ![p] = ItemOf(m)]
    BY DEF TransformProgress
  <2>2. m.offset \in Nat /\ m.highWaterOffset \in Nat /\ m.offset < m.highWaterOffset
    BY <2>1, TakesNext
  <2>3. m.highWaterOffset - 1 \in Nat
    BY <2>2
  <2>4. ItemOf(m) \in Item
    BY <2>2, <2>3 DEF ItemOf, Item
  <2>5. DOMAIN progress = Partitions /\ \A q \in Partitions : progress[q] \in Item
    BY TransformFacts, ItemTyped DEF IInv
  <2>6. QED
    BY <2>1, <2>4, <2>5
<1>3. \A q \in Partitions :
           \/ progress'[q] = InitialItem
           \/ /\ progress'[q].highWaterOffset # 0
              /\ progress'[q].progress = <<progress'[q].offset, progress'[q].highWaterOffset - 1>>
              /\ progress'[q].offset < progress'[q].highWaterOffset
              /\ InitialLog[q] <= progress'[q].highWaterOffset
  BY <1>1 DEF ProgressOK, Seen
<1>4. \A q \in Partitions : /\ progress'[q].highWaterOffset # 0
                            /\ InitialLog[q] <= progress'[q].offset + 1
  BY <1>2, <1>3, FinishedMeans
<1>5. QED
  BY <1>1, <1>4 DEF Seen, Taken

LEMMA TransformPassed == ASSUME IInv, TransformProgress PROVE PassedOK'
<1> SUFFICES ASSUME stop' = "open" PROVE PassedOK'
  BY DEF PassedOK
<1> PICK m : m = Head(fetched)
  OBVIOUS
<1> PICK p : p = m.partition
  OBVIOUS
<1> PICK w : w = Len(waiting)
  OBVIOUS
<1>1. stop = "open" /\ UNCHANGED out /\ fetched # <<>>
  BY DEF TransformProgress
<1>2. /\ w \in Nat /\ DOMAIN waiting = 1..w /\ Len(waiting') = w + 1
      /\ DOMAIN waiting' = 1..(w + 1) /\ \A n \in 1..w : waiting'[n] = waiting[n]
      /\ waiting'[w + 1].message = m
      /\ waiting'[w + 1].finished <=> TotalIsOne(progress')
  BY TransformWaiting
<1>3. /\ p \in Partitions /\ Taken(p)' = Taken(p) + 1 /\ m.offset = Taken(p)
      /\ \A q \in Partitions \ {p} : Taken(q)' = Taken(q)
  BY <1>1, TransformFacts, TakesNext
<1>4. \A q \in Partitions : /\ Taken(q) \in Nat /\ Taken(q)' \in Nat
                            /\ FirstOffset[q] \in Nat /\ InitialLog[q] \in Nat
  BY <1>3, TakenTyped DEF IInv
<1>5. ASSUME NEW q \in Partitions, NEW o, NEW n \in 0..w, PassedBy(q, o, n)
      PROVE  PassedBy(q, o, n)'
  BY <1>1, <1>2, <1>5 DEF PassedBy
<1>6. ASSUME NEW q \in Partitions, NEW o \in FirstOffset[q]..(Taken(q)' - 1)
      PROVE  PassedBy(q, o, w + 1)'
  <2>1. CASE q = p /\ o = m.offset
    <3>1. w + 1 \in DOMAIN waiting'
      BY <1>2
    <3>2. QED
      BY <1>2, <2>1, <3>1 DEF PassedBy
  <2>2. CASE ~(q = p /\ o = m.offset)
    <3>1. o \in FirstOffset[q]..(Taken(q) - 1)
      <4>1. CASE q = p
        BY <1>3, <1>4, <2>2, <4>1
      <4>2. CASE q # p
        BY <1>3, <1>4, <4>2
      <4>3. QED
        BY <4>1, <4>2
    <3>2. PassedBy(q, o, w)
      BY <1>1, <3>1 DEF IInv, PassedOK
    <3>3. PassedBy(q, o, w)'
      BY <1>2, <1>5, <3>2
    <3>4. QED
      BY <1>2, <3>3 DEF PassedBy
  <2>3. QED
    BY <2>1, <2>2
<1>7. ASSUME NEW n \in DOMAIN waiting', waiting'[n].finished,
             NEW q \in Partitions, NEW o \in FirstOffset[q]..(InitialLog[q] - 1)
      PROVE  PassedBy(q, o, n)'
  <2>1. CASE n \in 1..w
    <3>1. waiting[n].finished /\ n \in DOMAIN waiting
      BY <1>2, <1>7, <2>1
    <3>2. PassedBy(q, o, n)
      BY <1>1, <3>1 DEF IInv, PassedOK
    <3>3. QED
      BY <1>2, <1>5, <2>1, <3>2
  <2>2. CASE n = w + 1
    <3>1. InitialLog[q] <= Taken(q)'
      BY <1>2, <1>7, <2>2, TransformFinished
    <3>2. o \in FirstOffset[q]..(Taken(q)' - 1)
      BY <1>4, <3>1
    <3>3. QED
      BY <1>6, <2>2, <3>2
  <2>3. QED
    BY <1>2, <2>1, <2>2
<1>8. QED
  BY <1>2, <1>6, <1>7 DEF PassedOK

LEMMA TakenCountsTyped ==
  ASSUME TypeOK, LogOK
  PROVE  TakenCounts \in [Partitions -> Nat]
BY TakenTyped DEF TakenCounts, LogOK

LEMMA TransformCount == ASSUME IInv, TransformProgress PROVE CountOK'
<1> PICK m : m = Head(fetched)
  OBVIOUS
<1> PICK p : p = m.partition
  OBVIOUS
<1> PICK w : w = Len(waiting)
  OBVIOUS
<1>1. UNCHANGED <<stop, out>> /\ fetched # <<>>
  BY DEF TransformProgress
<1>2. /\ w \in Nat /\ DOMAIN waiting = 1..w /\ Len(waiting') = w + 1
      /\ DOMAIN waiting' = 1..(w + 1) /\ \A n \in 1..w : waiting'[n] = waiting[n]
      /\ waiting'[w + 1].finished <=> TotalIsOne(progress')
      /\ waiting'[w + 1].totalCount = TotalCount(progress')
  BY TransformWaiting
<1>3. /\ p \in Partitions /\ Taken(p)' = Taken(p) + 1 /\ Seen(p)'
      /\ \A q \in Partitions \ {p} : Taken(q)' = Taken(q) /\ (Seen(q)' <=> Seen(q))
      /\ DOMAIN progress = Partitions /\ DOMAIN progress' = Partitions
      /\ progress'[p] = ItemOf(m)
      /\ \A q \in Partitions \ {p} : progress'[q] = progress[q]
  BY TransformFacts
<1>4. \A q \in Partitions : /\ Taken(q) \in Nat /\ Taken(q)' \in Nat
                            /\ FirstOffset[q] \in Nat /\ FirstOffset[q] <= Taken(q)
                            /\ FirstOffset[q] <= Taken(q)'
  BY <1>3, TakenTyped DEF IInv, LogOK
<1>5. Len(out) \in Nat
  BY DEF IInv, TypeOK
<1> PICK before : before = TakenCounts
  OBVIOUS
<1> PICK after : after = TakenCounts'
  OBVIOUS
<1>6. /\ before \in [Partitions -> Nat] /\ after \in [Partitions -> Nat]
      /\ after[p] = before[p] + 1 /\ \A q \in Partitions \ {p} : after[q] = before[q]
      /\ \A q \in Partitions : after[q] + FirstOffset[q] = Taken(q)'
  <2>1. /\ before = [q \in Partitions |-> Taken(q) - FirstOffset[q]]
        /\ after = [q \in Partitions |-> Taken(q)' - FirstOffset[q]]
    BY DEF TakenCounts
  <2>2. ASSUME NEW q \in Partitions
        PROVE  /\ before[q] \in Nat /\ after[q] \in Nat
               /\ after[q] + FirstOffset[q] = Taken(q)'
               /\ before[q] + FirstOffset[q] = Taken(q)
    <3>1. before[q] = Taken(q) - FirstOffset[q] /\ after[q] = Taken(q)' - FirstOffset[q]
      BY <2>1
    <3>2. QED
      BY <1>4, <3>1
  <2>3. before = [q \in Partitions |-> before[q]] /\ after = [q \in Partitions |-> after[q]]
    BY <2>1
  <2>4. after[p] = before[p] + 1
    <3>1. PICK x \in Nat, y \in Nat, c \in Nat : x = before[p] /\ y = after[p] /\ c = FirstOffset[p]
      BY <1>3, <1>4, <2>2
    <3>2. y + c = Taken(p)' /\ x + c = Taken(p) /\ Taken(p)' = Taken(p) + 1
      BY <1>3, <2>2, <3>1
    <3>3. y + c = (x + c) + 1
      BY <3>2
    <3>4. y = x + 1
      BY <3>3
    <3>5. QED
      BY <3>1, <3>4
  <2>5. ASSUME NEW q \in Partitions \ {p} PROVE after[q] = before[q]
    <3>1. PICK x \in Nat, y \in Nat, c \in Nat : x = before[q] /\ y = after[q] /\ c = FirstOffset[q]
      BY <1>4, <2>2
    <3>2. y + c = Taken(q)' /\ x + c = Taken(q) /\ Taken(q)' = Taken(q)
      BY <1>3, <2>2, <3>1
    <3>3. y + c = x + c
      BY <3>2
    <3>4. QED
      BY <3>1, <3>3
  <2>6. QED
    BY <2>2, <2>3, <2>4, <2>5
<1>8. SumFunction(after) = SumFunction(before) + 1
      /\ SumFunction(before) \in Nat /\ SumFunction(after) \in Nat
  <2>1. SumFunction(after) + before[p] = SumFunction(before) + after[p]
    <3>1. \A q \in Partitions \ {p} : before[q] = after[q]
      BY <1>6
    <3>2. before \in [Partitions -> Nat] /\ after \in [Partitions -> Nat] /\ p \in Partitions
          /\ IsFiniteSet(Partitions)
      BY <1>3, <1>6, PartitionsFinite
    <3>3. QED
      BY <3>1, <3>2, SumAt
  <2>2. SumFunction(before) \in Nat /\ SumFunction(after) \in Nat
    <3>1. DOMAIN before = Partitions /\ DOMAIN after = Partitions
      BY <1>6
    <3>2. Partitions \in SUBSET Partitions
      OBVIOUS
    <3>3. QED
      BY <1>6, <3>1, <3>2, PartitionsFinite, SumFacts DEF SumFunction
  <2>3. before[p] \in Nat /\ after[p] = before[p] + 1
    BY <1>3, <1>6
  <2>4. \A a, b, x \in Nat : a + x = b + (x + 1) => a = b + 1
    OBVIOUS
  <2>5. QED
    BY <2>1, <2>2, <2>3, <2>4
<1>9. stop' = "open" => Len(out') + Len(waiting') = SumFunction(after)
  <2>1. stop = "open" => Len(out) + w = SumFunction(before)
    BY DEF IInv, CountOK
  <2>2. QED
    BY <1>1, <1>2, <1>5, <1>8, <2>1
<1>10. ASSUME stop = "open", NEW n \in DOMAIN waiting', waiting'[n].finished
       PROVE  /\ waiting'[n].totalCount = Len(out) + n + SumFunction(FirstOffset)
              /\ \A q \in Partitions : Seen(q)'
  <2>1. CASE n \in 1..w
    <3>1. waiting'[n] = waiting[n] /\ n \in DOMAIN waiting /\ waiting[n].finished
      BY <1>2, <1>10, <2>1
    <3>2. /\ waiting[n].totalCount = Len(out) + n + SumFunction(FirstOffset)
          /\ \A q \in Partitions : Seen(q)
      BY <1>10, <3>1 DEF IInv, CountOK
    <3>3. QED
      BY <1>3, <3>1, <3>2
  <2>2. CASE n = w + 1
    <3>1. \A q \in Partitions : Seen(q)' /\ Taken(q)' = progress'[q].offset + 1
      BY <1>2, <1>10, <2>2, TransformFinished
    <3> PICK counts : counts = [q \in DOMAIN progress' |-> progress'[q].offset + 1]
      OBVIOUS
    <3>2. counts \in [Partitions -> Nat] /\ \A q \in Partitions : counts[q] = after[q] + FirstOffset[q]
      <4>1. \A q \in Partitions : counts[q] = Taken(q)'
        BY <1>3, <3>1
      <4>2. \A q \in Partitions : after[q] + FirstOffset[q] = Taken(q)'
        BY <1>6
      <4>3. DOMAIN counts = Partitions /\ counts = [q \in DOMAIN counts |-> counts[q]]
        BY <1>3
      <4>4. QED
        BY <1>4, <4>1, <4>2, <4>3
    <3>3. TotalCount(progress') = SumFunction(counts)
      BY DEF TotalCount
    <3>4. FirstOffset \in [Partitions -> Nat]
      BY LogAssumption
    <3>5. SumFunction(counts) = SumFunction(after) + SumFunction(FirstOffset)
      <4>1. after \in [Partitions -> Nat] /\ IsFiniteSet(Partitions)
        BY <1>6, PartitionsFinite
      <4>2. PICK first : first = FirstOffset
        OBVIOUS
      <4>3. first \in [Partitions -> Nat] /\ \A q \in Partitions : counts[q] = after[q] + first[q]
        BY <3>2, <3>4, <4>2
      <4>4. IsSum(counts, after, first, Partitions)
        BY <3>2, <4>1, <4>3 DEF IsSum
      <4>5. SumFunction(counts) = SumFunction(after) + SumFunction(first)
        BY <4>1, <4>4, SumAdds
      <4>6. QED
        BY <4>2, <4>5
    <3>6. waiting'[n].totalCount = (Len(out) + n) + SumFunction(FirstOffset)
      <4>1. SumFunction(after) = Len(out) + n
        BY <1>1, <1>2, <1>9, <1>10, <2>2
      <4>2. QED
        BY <1>2, <2>2, <3>3, <3>5, <4>1
    <3>7. QED
      BY <3>1, <3>6
  <2>3. QED
    BY <1>2, <2>1, <2>2
<1>11. TotalCount(progress) <= TotalCount(progress')
       /\ TotalCount(progress) \in Nat /\ TotalCount(progress') \in Nat
  <2>1. ASSUME NEW q \in Partitions
        PROVE  progress[q].offset \in Nat /\ progress'[q].offset \in Nat
               /\ progress[q].offset <= progress'[q].offset
    <3>1. progress[q].offset \in Nat
      BY <1>3, ItemTyped DEF IInv
    <3>2. CASE q # p
      BY <1>3, <3>1, <3>2
    <3>3. CASE q = p
      <4>1. progress'[p].offset = m.offset /\ m.offset \in Nat /\ m.offset = Taken(p)
        BY <1>1, <1>3, TakesNext DEF ItemOf
      <4>2. Seen(p) \/ progress[p].offset = 0
        BY <1>3 DEF IInv, ProgressOK, InitialItem
      <4>3. Seen(p) => Taken(p) = progress[p].offset + 1
        BY DEF Taken
      <4>4. QED
        BY <3>1, <3>3, <4>1, <4>2, <4>3
    <3>4. QED
      BY <3>2, <3>3
  <2> DEFINE old == [q \in DOMAIN progress |-> progress[q].offset + 1]
             new == [q \in DOMAIN progress' |-> progress'[q].offset + 1]
  <2>2. /\ old \in [Partitions -> Nat] /\ new \in [Partitions -> Nat]
        /\ \A q \in Partitions : old[q] <= new[q]
        /\ DOMAIN old = Partitions /\ DOMAIN new = Partitions
    BY <1>3, <2>1
  <2>3. TotalCount(progress) = SumFunction(old) /\ TotalCount(progress') = SumFunction(new)
    BY DEF TotalCount
  <2> HIDE DEF old, new
  <2>4. Partitions \in SUBSET Partitions
    OBVIOUS
  <2>5. /\ SumFunctionOnSet(old, Partitions) <= SumFunctionOnSet(new, Partitions)
        /\ SumFunctionOnSet(old, Partitions) \in Nat /\ SumFunctionOnSet(new, Partitions) \in Nat
    BY <2>2, <2>4, PartitionsFinite, SumBelow, SumFacts
  <2>6. QED
    BY <2>2, <2>3, <2>5 DEF SumFunction
<1>12. /\ \A n \in DOMAIN waiting' : waiting'[n].totalCount <= TotalCount(progress')
       /\ \A n \in DOMAIN out : out[n].totalCount <= TotalCount(progress')
  <2>1. /\ \A n \in DOMAIN waiting : waiting[n].totalCount \in Nat /\ waiting[n].totalCount <= TotalCount(progress)
        /\ \A n \in DOMAIN out : out[n].totalCount \in Nat /\ out[n].totalCount <= TotalCount(progress)
    BY MessagesTyped DEF IInv, CountOK
  <2>2. \A n \in DOMAIN out : out[n].totalCount <= TotalCount(progress')
    BY <1>11, <2>1
  <2>3. ASSUME NEW n \in DOMAIN waiting' PROVE waiting'[n].totalCount <= TotalCount(progress')
    <3>1. CASE n \in 1..w
      BY <1>2, <1>11, <2>1, <3>1
    <3>2. CASE n = w + 1
      BY <1>2, <1>11, <3>2
    <3>3. QED
      BY <1>2, <3>1, <3>2
  <2>4. QED
    BY <2>2, <2>3
<1>13. QED
  <2>1. TotalCount(progress)' = TotalCount(progress')
    OBVIOUS
  <2>2. stop' = "open" =>
          /\ Len(out') + Len(waiting') = SumFunction(TakenCounts')
          /\ \A n \in DOMAIN waiting' : waiting'[n].finished =>
               /\ waiting'[n].totalCount = Len(out') + n + SumFunction(FirstOffset)
               /\ \A q \in Partitions : Seen(q)'
    BY <1>1, <1>9, <1>10
  <2>3. QED
    BY <1>1, <1>12, <2>2 DEF CountOK

LEMMA TransformIInv == ASSUME IInv, TransformProgress PROVE IInv'
<1> PICK m : m = Head(fetched)
  OBVIOUS
<1> PICK p : p = m.partition
  OBVIOUS
<1>1. UNCHANGED <<tail, log, next, stop, consumer, out, read, failure, summary>>
      /\ fetched # <<>>
  BY DEF TransformProgress
<1>2. TypeOK'
  <2>1. /\ DOMAIN progress' = Partitions /\ fetched' \in Seq(Message) /\ progress'[p] = ItemOf(m)
        /\ \A q \in Partitions \ {p} : progress'[q] = progress[q]
        /\ DOMAIN progress = Partitions
    BY TransformFacts
  <2>2. waiting' \in Seq(ProgressMessage)
    BY TransformWaiting
  <2>3. ASSUME NEW q \in Partitions PROVE progress'[q] \in Item
    <3>1. CASE q = p
      <4>1. m.offset \in Nat /\ m.highWaterOffset \in Nat /\ m.offset < m.highWaterOffset
        BY <1>1, TakesNext
      <4>2. m.highWaterOffset - 1 \in Nat
        BY <4>1
      <4>3. QED
        BY <2>1, <3>1, <4>1, <4>2 DEF ItemOf, Item
    <3>2. CASE q # p
      BY <2>1, <3>2, ItemTyped DEF IInv
    <3>3. QED
      BY <3>1, <3>2
  <2>4. QED
    BY <1>1, <2>1, <2>2, <2>3 DEF IInv, TypeOK
<1>3. StopOK'
  <2>1. \A q \in Partitions : Seen(q) => Seen(q)'
    BY TransformFacts
  <2>2. QED
    BY <1>1, <2>1 DEF IInv, StopOK, AllConsumed, Consumed
<1>4. SummaryOK'
  BY <1>1 DEF IInv, SummaryOK
<1>5. QED
  BY <1>2, <1>3, <1>4, TransformFetched, TransformPassed, TransformCount DEF IInv

-----------------------------------------------------------------------------
(* The steps of StopOnFinishProgressTransform.                             *)

(* The message that waits first is taken away. *)
LEMMA WaitingTail ==
  ASSUME TypeOK, waiting # <<>>, waiting' = Tail(waiting), NEW w, w = Len(waiting) - 1
  PROVE  /\ w \in Nat /\ Len(waiting) = w + 1 /\ DOMAIN waiting = 1..(w + 1)
         /\ waiting' \in Seq(ProgressMessage) /\ Len(waiting') = w
         /\ DOMAIN waiting' = 1..w
         /\ \A n \in 1..w : waiting'[n] = waiting[n + 1]
         /\ Head(waiting) = waiting[1] /\ waiting[1] \in ProgressMessage
<1>1. waiting \in Seq(ProgressMessage)
  BY DEF TypeOK
<1>2. QED
  BY <1>1

LEMMA StopTransformPassed ==
  ASSUME IInv, StopTransform
  PROVE  PassedOK' /\ (stop' # "open" => ~tail /\ AllConsumed')
<1> PICK k : k = Len(out)
  OBVIOUS
<1> PICK w : w = Len(waiting) - 1
  OBVIOUS
<1> PICK h : h = Head(waiting)
  OBVIOUS
<1>1. /\ stop = "open" /\ waiting # <<>> /\ out' = Append(out, h) /\ waiting' = Tail(waiting)
      /\ (IF ~tail /\ h.finished THEN stop' = "closing" ELSE stop' = stop)
      /\ UNCHANGED progress
  BY DEF StopTransform
<1>2. /\ w \in Nat /\ Len(waiting) = w + 1 /\ DOMAIN waiting = 1..(w + 1)
      /\ Len(waiting') = w /\ DOMAIN waiting' = 1..w
      /\ \A n \in 1..w : waiting'[n] = waiting[n + 1]
      /\ h = waiting[1] /\ h \in ProgressMessage
  BY <1>1, WaitingTail DEF IInv
<1>3. /\ k \in Nat /\ DOMAIN out = 1..k /\ DOMAIN out' = 1..(k + 1)
      /\ \A i \in 1..k : out'[i] = out[i]
      /\ out'[k + 1] = h
  <2>1. out \in Seq(ProgressMessage)
    BY DEF IInv, TypeOK
  <2>2. QED
    BY <1>1, <1>2, <2>1
<1>4. ASSUME NEW q, NEW o, NEW n \in 0..w, PassedBy(q, o, n + 1)
      PROVE  PassedBy(q, o, n)'
  <2>1. CASE \E i \in DOMAIN out : out[i].message.partition = q /\ out[i].message.offset = o
    <3>1. PICK i \in 1..k : out[i].message.partition = q /\ out[i].message.offset = o
      BY <1>3, <2>1
    <3>2. i \in DOMAIN out' /\ out'[i] = out[i]
      BY <1>3
    <3>3. QED
      BY <3>1, <3>2 DEF PassedBy
  <2>2. CASE \E i \in DOMAIN waiting :
               /\ i <= n + 1
               /\ waiting[i].message.partition = q /\ waiting[i].message.offset = o
    <3>1. PICK i \in 1..(w + 1) :
                 /\ i <= n + 1
                 /\ waiting[i].message.partition = q /\ waiting[i].message.offset = o
      BY <1>2, <2>2
    <3>2. CASE i = 1
      <4>1. k + 1 \in DOMAIN out' /\ out'[k + 1] = waiting[i]
        BY <1>2, <1>3, <3>2
      <4>2. QED
        BY <3>1, <4>1 DEF PassedBy
    <3>3. CASE i # 1
      <4>1. i - 1 \in 1..w /\ i - 1 <= n /\ (i - 1) + 1 = i
        BY <1>2, <3>1, <3>3
      <4>2. i - 1 \in DOMAIN waiting' /\ waiting'[i - 1] = waiting[i]
        BY <1>2, <4>1
      <4>3. QED
        BY <3>1, <4>1, <4>2 DEF PassedBy
    <3>4. QED
      BY <3>2, <3>3
  <2>3. QED
    BY <1>4, <2>1, <2>2 DEF PassedBy
<1>5. /\ \A q \in Partitions : \A o \in FirstOffset[q]..(Taken(q) - 1) : PassedBy(q, o, w + 1)
      /\ \A n \in DOMAIN waiting : waiting[n].finished =>
           \A q \in Partitions : \A o \in FirstOffset[q]..(InitialLog[q] - 1) : PassedBy(q, o, n)
  BY <1>1, <1>2 DEF IInv, PassedOK
<1>6. PassedOK'
  <2>1. \A q \in Partitions : Taken(q)' = Taken(q)
    BY <1>1 DEF Taken, Seen
  <2>2. ASSUME NEW q \in Partitions, NEW o \in FirstOffset[q]..(Taken(q) - 1)
        PROVE  PassedBy(q, o, w)'
    BY <1>2, <1>4, <1>5
  <2>3. ASSUME NEW n \in 1..w, waiting'[n].finished, NEW q \in Partitions,
               NEW o \in FirstOffset[q]..(InitialLog[q] - 1)
        PROVE  PassedBy(q, o, n)'
    <3>1. n + 1 \in DOMAIN waiting /\ waiting[n + 1].finished /\ n \in 0..w
      BY <1>2, <2>3
    <3>2. PassedBy(q, o, n + 1)
      BY <1>5, <3>1
    <3>3. QED
      BY <1>4, <3>1, <3>2
  <2>4. QED
    BY <1>2, <2>1, <2>2, <2>3 DEF PassedOK
<1>7. ASSUME stop' # "open" PROVE ~tail /\ AllConsumed'
  <2>1. ~tail /\ h.finished
    BY <1>1, <1>7
  <2>2. ASSUME NEW q \in Partitions, NEW o \in FirstOffset[q]..(InitialLog[q] - 1)
        PROVE  \E i \in DOMAIN out' : out'[i].message.partition = q /\ out'[i].message.offset = o
    <3>1. 1 \in DOMAIN waiting /\ waiting[1].finished /\ 0 \in 0..w /\ 0 + 1 = 1
      BY <1>2, <2>1
    <3>2. PassedBy(q, o, 0 + 1)
      BY <1>5, <3>1
    <3>3. PassedBy(q, o, 0)'
      BY <1>4, <3>1, <3>2
    <3>4. \A i \in DOMAIN waiting' : ~(i <= 0)
      BY <1>2
    <3>5. QED
      BY <3>3, <3>4 DEF PassedBy
  <2>3. QED
    BY <2>1, <2>2 DEF AllConsumed, Consumed
<1>8. QED
  BY <1>6, <1>7

LEMMA StopTransformCount ==
  ASSUME IInv, StopTransform
  PROVE  /\ CountOK'
         /\ stop' # "open" =>
              /\ out' # <<>> /\ out'[Len(out')].totalCount = Len(out') + SumFunction(FirstOffset)
              /\ \A q \in Partitions : Seen(q)'
<1> PICK k : k = Len(out)
  OBVIOUS
<1> PICK w : w = Len(waiting) - 1
  OBVIOUS
<1> PICK h : h = Head(waiting)
  OBVIOUS
<1> PICK before : before = SumFunction(FirstOffset)
  OBVIOUS
<1>1. /\ stop = "open" /\ waiting # <<>> /\ out' = Append(out, h) /\ waiting' = Tail(waiting)
      /\ (IF ~tail /\ h.finished THEN stop' = "closing" ELSE stop' = stop)
      /\ UNCHANGED progress
  BY DEF StopTransform
<1>2. /\ w \in Nat /\ Len(waiting) = w + 1 /\ DOMAIN waiting = 1..(w + 1)
      /\ Len(waiting') = w /\ DOMAIN waiting' = 1..w
      /\ \A n \in 1..w : waiting'[n] = waiting[n + 1]
      /\ h = waiting[1] /\ h \in ProgressMessage
  BY <1>1, WaitingTail DEF IInv
<1>3. /\ k \in Nat /\ DOMAIN out = 1..k /\ DOMAIN out' = 1..(k + 1) /\ Len(out') = k + 1
      /\ \A i \in 1..k : out'[i] = out[i]
      /\ out'[k + 1] = h /\ out' # <<>>
  <2>1. out \in Seq(ProgressMessage)
    BY DEF IInv, TypeOK
  <2>2. QED
    BY <1>1, <1>2, <2>1
<1>4. /\ k + (w + 1) = SumFunction(TakenCounts)
      /\ \A n \in 1..(w + 1) : waiting[n].finished =>
           /\ waiting[n].totalCount = k + n + before
           /\ \A q \in Partitions : Seen(q)
      /\ \A n \in 1..(w + 1) : waiting[n].totalCount <= TotalCount(progress)
      /\ \A n \in 1..k : out[n].totalCount <= TotalCount(progress)
  BY <1>1, <1>2, <1>3 DEF IInv, CountOK
<1>5. before \in Nat
  BY FirstOffsetSum
<1>6. /\ \A q \in Partitions : Seen(q)' = Seen(q)
      /\ TakenCounts' = TakenCounts /\ TotalCount(progress)' = TotalCount(progress)
  BY <1>1 DEF Seen, TakenCounts, Taken
<1>7. ASSUME NEW n \in 1..w, waiting'[n].finished
      PROVE  waiting'[n].totalCount = (k + 1) + n + before /\ \A q \in Partitions : Seen(q)'
  <2>1. n + 1 \in 1..(w + 1) /\ waiting'[n] = waiting[n + 1] /\ waiting[n + 1].finished
    BY <1>2, <1>7
  <2>2. waiting[n + 1].totalCount = k + (n + 1) + before /\ \A q \in Partitions : Seen(q)
    BY <1>4, <2>1
  <2>3. k + (n + 1) + before = (k + 1) + n + before
    BY <1>3, <1>5
  <2>4. QED
    BY <1>6, <2>1, <2>2, <2>3
<1>8. (k + 1) + w = k + (w + 1)
  BY <1>2, <1>3
<1>9. \A n \in 1..w : waiting'[n].totalCount <= TotalCount(progress)
  <2>1. \A n \in 1..w : n + 1 \in 1..(w + 1)
    BY <1>2
  <2>2. QED
    BY <1>2, <1>4, <2>1
<1>10. \A n \in 1..(k + 1) : out'[n].totalCount <= TotalCount(progress)
  <2>1. h.totalCount <= TotalCount(progress)
    BY <1>2, <1>4
  <2>2. \A n \in 1..(k + 1) : n \in 1..k \/ n = k + 1
    BY <1>3
  <2>3. QED
    BY <1>3, <1>4, <2>1, <2>2
<1>11. CountOK'
  BY <1>2, <1>3, <1>4, <1>6, <1>7, <1>8, <1>9, <1>10 DEF CountOK
<1>12. ASSUME stop' # "open"
       PROVE  /\ out'[k + 1].totalCount = (k + 1) + before
              /\ \A q \in Partitions : Seen(q)'
  <2>1. h.finished /\ 1 \in 1..(w + 1)
    BY <1>1, <1>2, <1>12
  <2>2. waiting[1].totalCount = k + 1 + before /\ \A q \in Partitions : Seen(q)
    BY <1>2, <1>4, <2>1
  <2>3. QED
    BY <1>2, <1>3, <1>6, <2>2
<1>13. QED
  BY <1>3, <1>11, <1>12

LEMMA StopTransformIInv == ASSUME IInv, StopTransform PROVE IInv'
<1>1. /\ stop = "open" /\ waiting # <<>> /\ out' = Append(out, Head(waiting))
      /\ waiting' = Tail(waiting) /\ stop' \in {"open", "closing"}
      /\ consumer' \in {consumer, "closed", "closing"}
      /\ UNCHANGED <<tail, log, next, fetched, progress, read, failure, summary>>
  BY DEF StopTransform
<1>2. waiting' \in Seq(ProgressMessage) /\ Head(waiting) \in ProgressMessage
  BY <1>1, WaitingTail DEF IInv
<1>3. out' \in Seq(ProgressMessage) /\ read' \in 0..Len(out')
  <2>1. out \in Seq(ProgressMessage) /\ read \in 0..Len(out)
    BY DEF IInv, TypeOK
  <2>2. QED
    BY <1>1, <1>2, <2>1
<1>4. TypeOK'
  BY <1>1, <1>2, <1>3 DEF IInv, TypeOK
<1>5. LogOK' /\ FetchedOK' /\ ProgressOK'
  BY <1>1 DEF IInv, LogOK, FetchedOK, Held, HeldOK, InOrder, Complete, ProgressOK, Taken, Seen
<1>6. PassedOK' /\ CountOK' /\ StopOK'
  BY <1>1, StopTransformPassed, StopTransformCount DEF StopOK
<1>7. SummaryOK'
  BY <1>1 DEF IInv, SummaryOK
<1>8. QED
  BY <1>4, <1>5, <1>6, <1>7 DEF IInv

LEMMA PushAfterEndIInv == ASSUME IInv, PushAfterEnd PROVE IInv'
<1> PICK w : w = Len(waiting) - 1
  OBVIOUS
<1>1. /\ stop = "ended" /\ waiting # <<>> /\ waiting' = Tail(waiting)
      /\ UNCHANGED <<tail, log, next, fetched, progress, stop, consumer, out, read, failure,
                     summary>>
  BY DEF PushAfterEnd
<1>2. /\ w \in Nat /\ DOMAIN waiting = 1..(w + 1) /\ waiting' \in Seq(ProgressMessage)
      /\ DOMAIN waiting' = 1..w /\ \A n \in 1..w : waiting'[n] = waiting[n + 1]
  BY <1>1, WaitingTail DEF IInv
<1>3. TypeOK'
  BY <1>1, <1>2 DEF IInv, TypeOK
<1>4. LogOK' /\ FetchedOK' /\ ProgressOK' /\ PassedOK'
  BY <1>1 DEF IInv, LogOK, FetchedOK, Held, HeldOK, InOrder, Complete, ProgressOK, PassedOK, Taken, Seen
<1>5. CountOK'
  <2>1. \A n \in 1..w : n + 1 \in DOMAIN waiting
    BY <1>2
  <2>2. \A n \in DOMAIN waiting' : waiting'[n].totalCount <= TotalCount(progress)
    BY <1>2, <2>1 DEF IInv, CountOK
  <2>3. QED
    BY <1>1, <2>2 DEF IInv, CountOK
<1>6. StopOK' /\ SummaryOK'
  BY <1>1 DEF IInv, StopOK, AllConsumed, Consumed, Seen, SummaryOK
<1>7. QED
  BY <1>3, <1>4, <1>5, <1>6 DEF IInv

-----------------------------------------------------------------------------
(* The other steps. *)
LEMMA ClosedIInv == ASSUME IInv, Closed PROVE IInv'
<1>1. /\ consumer' = "closed"
      /\ UNCHANGED <<tail, log, next, fetched, progress, waiting, stop, out, read, failure,
                     summary>>
  BY DEF Closed
<1>2. TypeOK'
  BY <1>1 DEF IInv, TypeOK
<1>3. LogOK' /\ FetchedOK' /\ ProgressOK'
  BY <1>1 DEF IInv, LogOK, FetchedOK, Held, HeldOK, InOrder, Complete, ProgressOK, Taken, Seen
<1>4. PassedOK' /\ CountOK'
  BY <1>1 DEF IInv, PassedOK, PassedBy, CountOK, TakenCounts, Taken, Seen
<1>5. StopOK' /\ SummaryOK'
  BY <1>1 DEF IInv, StopOK, AllConsumed, Consumed, Seen, SummaryOK
<1>6. QED
  BY <1>2, <1>3, <1>4, <1>5 DEF IInv

LEMMA EndIInv == ASSUME IInv, End PROVE IInv'
<1>1. /\ stop = "closing" /\ stop' = "ended"
      /\ UNCHANGED <<tail, log, next, fetched, progress, waiting, consumer, out, read, failure,
                     summary>>
  BY DEF End
<1>2. TypeOK'
  BY <1>1 DEF IInv, TypeOK
<1>3. LogOK' /\ FetchedOK' /\ ProgressOK'
  BY <1>1 DEF IInv, LogOK, FetchedOK, Held, HeldOK, InOrder, Complete, ProgressOK, Taken, Seen
<1>4. PassedOK' /\ CountOK'
  BY <1>1 DEF IInv, PassedOK, CountOK
<1>5. StopOK' /\ SummaryOK'
  BY <1>1 DEF IInv, StopOK, AllConsumed, Consumed, Seen, SummaryOK
<1>6. QED
  BY <1>2, <1>3, <1>4, <1>5 DEF IInv

(* The summary is printed when all that was pushed has been read, so       *)
(* nothing is read after it.                                               *)
LEMMA LogIInv == ASSUME IInv, Log PROVE IInv'
<1>1. /\ read < Len(out) /\ read' = read + 1
      /\ UNCHANGED <<tail, log, next, fetched, progress, waiting, stop, consumer, out, failure,
                     summary>>
  BY DEF Log
<1>2. read \in Nat /\ Len(out) \in Nat
  BY DEF IInv, TypeOK
<1>3. TypeOK'
  <2>1. read' \in 0..Len(out')
    BY <1>1, <1>2
  <2>2. QED
    BY <1>1, <2>1 DEF IInv, TypeOK
<1>4. LogOK' /\ FetchedOK' /\ ProgressOK'
  BY <1>1 DEF IInv, LogOK, FetchedOK, Held, HeldOK, InOrder, Complete, ProgressOK, Taken, Seen
<1>5. PassedOK' /\ CountOK'
  BY <1>1 DEF IInv, PassedOK, PassedBy, CountOK, TakenCounts, Taken, Seen
<1>6. StopOK'
  BY <1>1 DEF IInv, StopOK, AllConsumed, Consumed, Seen
<1>7. SummaryOK'
  BY <1>1, <1>2 DEF IInv, SummaryOK
<1>8. QED
  BY <1>3, <1>4, <1>5, <1>6, <1>7 DEF IInv

LEMMA DecodeFailsIInv == ASSUME IInv, DecodeFails PROVE IInv'
<1>1. /\ failure' = "decode" /\ consumer' \in {"closed", "closing"}
      /\ UNCHANGED <<tail, log, next, fetched, progress, waiting, stop, out, read, summary>>
  BY DEF DecodeFails
<1>2. TypeOK'
  BY <1>1 DEF IInv, TypeOK
<1>3. LogOK' /\ FetchedOK' /\ ProgressOK'
  BY <1>1 DEF IInv, LogOK, FetchedOK, Held, HeldOK, InOrder, Complete, ProgressOK, Taken, Seen
<1>4. PassedOK' /\ CountOK'
  BY <1>1 DEF IInv, PassedOK, PassedBy, CountOK, TakenCounts, Taken, Seen
<1>5. StopOK' /\ SummaryOK'
  BY <1>1 DEF IInv, StopOK, AllConsumed, Consumed, Seen, SummaryOK
<1>6. QED
  BY <1>2, <1>3, <1>4, <1>5 DEF IInv

(* The total that is printed belongs to the message that finished the      *)
(* topic; the partitions have gone on since, but never beyond the fetches. *)
LEMMA FlushIInv == ASSUME IInv, Flush PROVE IInv'
<1>1. /\ stop = "ended" /\ read = Len(out)
      /\ summary' = [printed |-> TRUE, totalCount |-> out[read].totalCount,
                     partitions |-> CountsOf(progress)]
      /\ UNCHANGED <<tail, log, next, fetched, progress, waiting, stop, consumer, out, read,
                     failure>>
  BY DEF Flush
<1>2. TypeOK'
  BY <1>1 DEF IInv, TypeOK
<1>3. LogOK' /\ FetchedOK' /\ ProgressOK'
  BY <1>1 DEF IInv, LogOK, FetchedOK, Held, HeldOK, InOrder, Complete, ProgressOK, Taken, Seen
<1>4. PassedOK' /\ CountOK'
  BY <1>1 DEF IInv, PassedOK, CountOK
<1>5. StopOK'
  BY <1>1 DEF IInv, StopOK, AllConsumed, Consumed, Seen
<1>6. /\ out # <<>> /\ out[Len(out)].totalCount = Len(out) + SumFunction(FirstOffset)
      /\ \A p \in Partitions : Seen(p)
  BY <1>1 DEF IInv, StopOK
<1>7. summary'.totalCount = read + SumFunction(FirstOffset)
  BY <1>1, <1>6
<1>8. summary'.totalCount <= TotalCount(progress)
  <2>1. Len(out) \in DOMAIN out
    <3>1. out \in Seq(ProgressMessage)
      BY DEF IInv, TypeOK
    <3>2. QED
      BY <1>6, <3>1
  <2>2. QED
    BY <1>1, <2>1 DEF IInv, CountOK
<1>9. /\ DOMAIN progress = Partitions
      /\ \A p \in Partitions : progress[p].offset \in Nat /\ Taken(p) = progress[p].offset + 1
  BY <1>6, PartitionsAssumption, ItemTyped DEF IInv, Seen, Taken
<1>10. /\ CountsOf(progress) \in [Partitions -> Nat]
       /\ \A p \in Partitions : CountsOf(progress)[p] = Taken(p)
       /\ TotalCount(progress) = SumFunction(CountsOf(progress))
  BY <1>9 DEF CountsOf, TotalCount
<1>11. SummaryOK'
  BY <1>1, <1>7, <1>8, <1>10 DEF IInv, LogOK, SummaryOK
<1>12. QED
  BY <1>2, <1>3, <1>4, <1>5, <1>11 DEF IInv

LEMMA NextIInv == IInv /\ [Next]_vars => IInv'
<1> SUFFICES ASSUME IInv, [Next]_vars PROVE IInv'
  OBVIOUS
<1>1. ASSUME NEW p \in Partitions, Produce(p) PROVE IInv'
  BY <1>1, ProduceIInv
<1>2. ASSUME NEW p \in Partitions, Fetch(p) PROVE IInv'
  BY <1>2, FetchIInv
<1>3. CASE InitPartitionProgress
  BY <1>3, InitPartitionProgressIInv
<1>4. CASE TransformProgress
  BY <1>4, TransformIInv
<1>5. CASE StopTransform
  BY <1>5, StopTransformIInv
<1>6. CASE Closed
  BY <1>6, ClosedIInv
<1>7. CASE End
  BY <1>7, EndIInv
<1>8. CASE PushAfterEnd
  BY <1>8, PushAfterEndIInv
<1>9. CASE Log
  BY <1>9, LogIInv
<1>10. CASE DecodeFails
  BY <1>10, DecodeFailsIInv
<1>11. CASE Flush
  BY <1>11, FlushIInv
<1>12. CASE UNCHANGED vars
  <2>1. UNCHANGED <<tail, log, next, fetched, progress, waiting, stop, consumer, out, read,
                    failure, summary>>
    BY <1>12 DEF vars
  <2>2. TypeOK'
    BY <2>1 DEF IInv, TypeOK
  <2>3. LogOK' /\ FetchedOK' /\ ProgressOK'
    BY <2>1 DEF IInv, LogOK, FetchedOK, Held, HeldOK, InOrder, Complete, ProgressOK, Taken, Seen
  <2>4. PassedOK' /\ CountOK'
    BY <2>1 DEF IInv, PassedOK, PassedBy, CountOK, TakenCounts, Taken, Seen
  <2>5. StopOK' /\ SummaryOK'
    BY <2>1 DEF IInv, StopOK, AllConsumed, Consumed, Seen, SummaryOK
  <2>6. QED
    BY <2>2, <2>3, <2>4, <2>5 DEF IInv
<1>13. QED
  BY <1>1, <1>2, <1>3, <1>4, <1>5, <1>6, <1>7, <1>8, <1>9, <1>10, <1>11, <1>12 DEF Next

-----------------------------------------------------------------------------
(* In every reachable state the parts of the pipeline agree on what was    *)
(* fetched, taken, passed on and counted.                                  *)
THEOREM Inductive == Spec => []IInv
<1>1. Init => IInv
  BY InitIInv
<1>2. IInv /\ [Next]_vars => IInv'
  BY NextIInv
<1>3. QED
  BY <1>1, <1>2, PTL DEF Spec

(* For any partitions, any log and any order of the fetches, the command   *)
(* stops by itself only without --tail and once every message the topic    *)
(* held at the start was passed on (StopOnFinishProgressTransform.ts:10-26,*)
(* ConsumerProgressTransform.ts:41-71).                                    *)
THEOREM StopsOnlyWhenConsumedHolds == Spec => []StopsOnlyWhenConsumed
<1>1. IInv => StopsOnlyWhenConsumed
  BY DEF IInv, StopOK, StopsOnlyWhenConsumed
<1>2. QED
  BY <1>1, Inductive, PTL

(* Whatever the offsets the group is given first, the printed total        *)
(* exceeds the messages that were read by exactly what lies before those   *)
(* offsets: totalCount() adds up offsets, not messages                     *)
(* (ConsumerProgressTransform.ts:49).                                      *)
CountsFromZero == summary.printed => summary.totalCount = read + SumFunction(FirstOffset)

THEOREM CountsFromZeroHolds == Spec => []CountsFromZero
<1>1. IInv => CountsFromZero
  BY DEF IInv, SummaryOK, CountsFromZero
<1>2. QED
  BY <1>1, Inductive, PTL

(* When the group begins at offset 0 of every partition, the total that is *)
(* printed is the number of messages read, and the partitions, which go on *)
(* until they are printed, hold at least as many and no more than were     *)
(* fetched (LogConsumerProgressTransform.ts:22-30).                        *)
THEOREM SummaryIsConsumedHolds ==
  ASSUME \A p \in Partitions : FirstOffset[p] = 0
  PROVE  Spec => []SummaryIsConsumed
<1>1. SumFunction(FirstOffset) = 0
  <2>1. SumFunction(FirstOffset) = Cardinality(Partitions) * 0
    BY LogAssumption, PartitionsFinite, SumConstant
  <2>2. QED
    BY <2>1, PartitionsFinite
<1>2. IInv => SummaryIsConsumed
  <2> SUFFICES ASSUME IInv, summary.printed
               PROVE  /\ summary.totalCount = read
                      /\ SumFunction(summary.partitions) \in summary.totalCount..SumFunction(next)
    BY DEF IInv, SummaryIsConsumed
  <2>1. /\ summary.totalCount = read + 0 /\ read \in Nat
        /\ summary.partitions \in [Partitions -> Nat] /\ next \in [Partitions -> Nat]
        /\ summary.totalCount <= SumFunction(summary.partitions)
        /\ \A p \in Partitions : summary.partitions[p] <= next[p]
    BY <1>1 DEF IInv, SummaryOK, TypeOK
  <2>2. Partitions \in SUBSET Partitions
    OBVIOUS
  <2>3. /\ SumFunctionOnSet(summary.partitions, Partitions) <= SumFunctionOnSet(next, Partitions)
        /\ SumFunctionOnSet(summary.partitions, Partitions) \in Nat
        /\ SumFunctionOnSet(next, Partitions) \in Nat
    BY <2>1, <2>2, PartitionsFinite, SumBelow, SumFacts
  <2>4. /\ SumFunction(summary.partitions) = SumFunctionOnSet(summary.partitions, Partitions)
        /\ SumFunction(next) = SumFunctionOnSet(next, Partitions)
    BY <2>1 DEF SumFunction
  <2>5. QED
    BY <2>1, <2>3, <2>4
<1>3. QED
  BY <1>2, Inductive, PTL

-----------------------------------------------------------------------------
(* The other direction: the end is not missed.                             *)

(* A high water offset is never ahead of the log.                          *)
HighOK ==
  /\ \A p \in Partitions : Seen(p) => progress[p].highWaterOffset <= log[p]
  /\ \A i \in DOMAIN fetched : fetched[i].highWaterOffset <= log[fetched[i].partition]

(* The message that was taken last is marked as the last just when the     *)
(* progress is that of the end, and stops the command once it is passed on.*)
LastOK ==
  /\ DOMAIN progress = {} => waiting = <<>>
  /\ stop = "open" /\ waiting # <<>> =>
       (waiting[Len(waiting)].finished <=> TotalIsOne(progress))
  /\ stop = "open" /\ waiting = <<>> /\ DOMAIN progress # {} /\ ~tail => ~TotalIsOne(progress)

AtEndIInv == IInv /\ HighOK /\ LastOK

LEMMA InitialIsNotOne ==
  ASSUME NEW items, items \in [Partitions -> Item], \A p \in Partitions : items[p] = InitialItem
  PROVE  ~TotalIsOne(items)
<1> SUFFICES ASSUME TotalIsOne(items) PROVE FALSE
  OBVIOUS
<1>1. \A p \in Partitions : items[p].highWaterOffset # 0
  BY FinishedMeans
<1>2. InitialItem.highWaterOffset = 0
  BY DEF InitialItem
<1>3. QED
  BY <1>1, <1>2, PartitionsAssumption

(* The mean of quotients that all are 1 is 1.                              *)
LEMMA AllAreOne ==
  ASSUME NEW items, DOMAIN items = Partitions, \A p \in Partitions : items[p] \in Item,
         \A p \in Partitions :
           items[p].progress[1] = items[p].progress[2] /\ items[p].progress[2] # 0
  PROVE  TotalIsOne(items)
<1> DEFINE num == [p \in Partitions |-> items[p].progress[1]]
           den == [p \in Partitions |-> items[p].progress[2]]
           scaled == [p \in Partitions |-> num[p] * Product(den, Partitions \ {p})]
<1>1. DOMAIN items = Partitions
  OBVIOUS
<1>2. ASSUME NEW p \in Partitions
      PROVE  num[p] \in Nat /\ den[p] \in Nat /\ den[p] # 0 /\ num[p] = den[p]
  <2>1. items[p].progress \in Nat \X Nat
    BY DEF Item
  <2>2. QED
    BY <2>1
<1>3. num \in [Partitions -> Nat] /\ den \in [Partitions -> Nat]
  BY <1>2
<1>4. 0 \notin Range(den)
  BY <1>2 DEF Range
<1>5. \A p \in Partitions : scaled[p] = num[p] * Product(den, Partitions \ {p})
  OBVIOUS
<1>6. scaled = [p \in Partitions |-> scaled[p]]
  OBVIOUS
<1>7. TotalIsOne(items) <=>
        /\ 0 \notin Range(den)
        /\ SumFunction(scaled) >= Cardinality(Partitions) * Product(den, Partitions)
  BY <1>1 DEF TotalIsOne, Product
<1> HIDE DEF num, den, scaled
<1>8. Partitions \in SUBSET Partitions
  OBVIOUS
<1>9. Product(den, Partitions) \in Nat
  BY <1>3, <1>8, PartitionsFinite, ProductFacts
<1>10. \A p \in Partitions : Product(den, Partitions) = den[p] * Product(den, Partitions \ {p})
  BY <1>3, <1>8, PartitionsFinite, ProductFacts
<1>11. \A p \in Partitions : scaled[p] = Product(den, Partitions)
  BY <1>2, <1>5, <1>10
<1>12. scaled \in [Partitions -> Nat]
  BY <1>6, <1>9, <1>11
<1>13. SumFunction(scaled) = Cardinality(Partitions) * Product(den, Partitions)
  BY <1>9, <1>11, <1>12, PartitionsFinite, SumConstant
<1>14. Cardinality(Partitions) * Product(den, Partitions) \in Nat
  <2>1. \A a, b \in Nat : a * b \in Nat
    OBVIOUS
  <2>2. QED
    BY <1>9, <2>1, PartitionsFinite
<1>15. QED
  BY <1>4, <1>7, <1>13, <1>14

LEMMA InitEnd == Init => HighOK /\ LastOK
<1> SUFFICES ASSUME Init PROVE HighOK /\ LastOK
  OBVIOUS
<1>1. progress = <<>> /\ fetched = <<>> /\ waiting = <<>>
  BY DEF Init
<1>2. DOMAIN progress = {} /\ DOMAIN fetched = {}
  BY <1>1
<1>3. QED
  BY <1>1, <1>2 DEF HighOK, LastOK, Seen

LEMMA HighKept ==
  ASSUME AtEndIInv, [Next]_vars PROVE HighOK'
<1>1. /\ log \in [Partitions -> Nat] /\ fetched \in Seq(Message)
      /\ \A i \in DOMAIN fetched : /\ fetched[i] \in Message /\ fetched[i].partition \in Partitions
                                   /\ fetched[i].highWaterOffset \in Nat
      /\ \A p \in Partitions : Seen(p) => progress[p].highWaterOffset \in Nat
  <2>1. fetched \in Seq(Message) /\ log \in [Partitions -> Nat] /\ TypeOK
    BY DEF AtEndIInv, IInv, TypeOK
  <2>2. \A i \in DOMAIN fetched : fetched[i] \in Message
    BY <2>1
  <2>3. \A p \in Partitions : Seen(p) => progress[p].highWaterOffset \in Nat
    BY <2>1, ItemTyped DEF Seen
  <2>4. QED
    BY <2>1, <2>2, <2>3 DEF Message
<1>2. ASSUME NEW p \in Partitions, Produce(p) PROVE HighOK'
  <2>1. /\ log' = [log EXCEPT ![p] = @ + 1] /\ UNCHANGED <<progress, fetched>>
    BY <1>2 DEF Produce
  <2>2. \A q \in Partitions : log[q] \in Nat /\ log'[q] \in Nat /\ log[q] <= log'[q]
    BY <1>1, <2>1
  <2>3. QED
    BY <1>1, <2>1, <2>2 DEF AtEndIInv, HighOK, Seen
<1>3. ASSUME NEW p \in Partitions, Fetch(p) PROVE HighOK'
  <2>1. PICK last \in next[p]..(log[p] - 1) :
          fetched' = fetched \o
            [i \in 1..(last - next[p] + 1) |->
               [partition |-> p, offset |-> next[p] + i - 1, highWaterOffset |-> log[p]]]
    BY <1>3 DEF Fetch
  <2>2. UNCHANGED <<progress, log>>
    BY <1>3 DEF Fetch
  <2>3. next[p] \in Nat /\ log[p] \in Nat
    BY TakenTyped DEF AtEndIInv, IInv
  <2>4. PICK k \in Nat : k = last - next[p] + 1
    BY <2>1, <2>3
  <2>5. PICK new : new = [i \in 1..k |->
               [partition |-> p, offset |-> next[p] + i - 1, highWaterOffset |-> log[p]]]
    OBVIOUS
  <2>6. \A i \in 1..k : /\ new[i].partition = p /\ new[i].highWaterOffset = log[p]
                        /\ new[i] \in Message
    <3>1. \A i \in 1..k : next[p] + i - 1 \in Nat
      BY <2>3
    <3>2. QED
      BY <2>3, <2>5, <3>1 DEF Message
  <2>7. new \in Seq(Message) /\ Len(new) = k
    <3>1. new \in [1..k -> Message]
      BY <2>5, <2>6
    <3>2. QED
      BY <2>4, <3>1
  <2>8. fetched' = fetched \o new
    BY <2>1, <2>4, <2>5
  <2>9. \A i \in DOMAIN fetched' :
          \/ i \in DOMAIN fetched /\ fetched'[i] = fetched[i]
          \/ i - Len(fetched) \in 1..k /\ fetched'[i] = new[i - Len(fetched)]
    BY <1>1, <2>7, <2>8
  <2>10. ASSUME NEW i \in DOMAIN fetched'
         PROVE  fetched'[i].highWaterOffset <= log[fetched'[i].partition]
    <3>1. CASE i \in DOMAIN fetched /\ fetched'[i] = fetched[i]
      BY <3>1 DEF AtEndIInv, HighOK
    <3>2. CASE i - Len(fetched) \in 1..k /\ fetched'[i] = new[i - Len(fetched)]
      BY <2>3, <2>6, <3>2
    <3>3. QED
      BY <2>9, <3>1, <3>2
  <2>11. QED
    BY <2>2, <2>10 DEF AtEndIInv, HighOK, Seen
<1>4. CASE InitPartitionProgress
  <2>1. /\ DOMAIN progress = {} /\ UNCHANGED <<log, fetched>>
        /\ progress' = [p \in Partitions |-> InitialItem] \/ progress' = progress
    BY <1>4 DEF InitPartitionProgress
  <2>2. ASSUME NEW p \in Partitions PROVE ~Seen(p)'
    <3>1. CASE progress' = progress
      BY <2>1, <3>1 DEF Seen
    <3>2. CASE progress' = [q \in Partitions |-> InitialItem]
      BY <3>2 DEF Seen, InitialItem
    <3>3. QED
      BY <2>1, <3>1, <3>2
  <2>3. QED
    BY <2>1, <2>2 DEF AtEndIInv, HighOK
<1>5. CASE TransformProgress
  <2>1. PICK m, p : m = Head(fetched) /\ p = m.partition
    OBVIOUS
  <2>2. UNCHANGED log /\ fetched # <<>>
    BY <1>5 DEF TransformProgress
  <2>3. /\ DOMAIN progress' = Partitions /\ progress'[p] = ItemOf(m)
        /\ \A q \in Partitions \ {p} : progress'[q] = progress[q] /\ (Seen(q)' <=> Seen(q))
        /\ DOMAIN fetched' = 1..(Len(fetched) - 1) /\ Len(fetched) \in Nat
        /\ DOMAIN fetched = 1..Len(fetched) /\ Len(fetched) # 0
        /\ \A i \in 1..(Len(fetched) - 1) : fetched'[i] = fetched[i + 1]
    BY <1>5, <2>1, TransformFacts DEF AtEndIInv
  <2>4. m = fetched[1] /\ 1 \in DOMAIN fetched
    BY <2>1, <2>2, <2>3, TakesNext DEF AtEndIInv
  <2>5. ItemOf(m).highWaterOffset <= log[p]
    <3>1. ItemOf(m).highWaterOffset = m.highWaterOffset
      BY DEF ItemOf
    <3>2. QED
      BY <2>1, <2>4, <3>1 DEF AtEndIInv, HighOK
  <2>6. \A q \in Partitions : Seen(q)' => progress'[q].highWaterOffset <= log'[q]
    BY <2>2, <2>3, <2>5 DEF AtEndIInv, HighOK
  <2>7. ASSUME NEW i \in DOMAIN fetched'
        PROVE  fetched'[i].highWaterOffset <= log'[fetched'[i].partition]
    <3>1. i + 1 \in DOMAIN fetched /\ fetched'[i] = fetched[i + 1]
      BY <2>3
    <3>2. QED
      BY <2>2, <3>1 DEF AtEndIInv, HighOK
  <2>8. QED
    BY <2>6, <2>7 DEF HighOK
<1>6. CASE UNCHANGED <<log, fetched, progress>>
  BY <1>6 DEF AtEndIInv, HighOK, Seen
<1>7. QED
  BY <1>2, <1>3, <1>4, <1>5, <1>6
     DEF Next, vars, StopTransform, Closed, End, PushAfterEnd, Log, DecodeFails, Flush

LEMMA LastKept ==
  ASSUME AtEndIInv, [Next]_vars PROVE LastOK'
<1>1. waiting \in Seq(ProgressMessage) /\ DOMAIN progress \in {{}, Partitions}
  BY DEF AtEndIInv, IInv, TypeOK
<1>2. CASE InitPartitionProgress
  <2>1. /\ DOMAIN progress = {} /\ UNCHANGED <<waiting, stop, tail>>
        /\ progress' = [p \in Partitions |-> InitialItem] \/ progress' = progress
    BY <1>2 DEF InitPartitionProgress
  <2>2. waiting = <<>>
    BY <2>1 DEF AtEndIInv, LastOK
  <2>3. CASE progress' = progress
    BY <2>1, <2>3 DEF AtEndIInv, LastOK
  <2>4. CASE progress' = [p \in Partitions |-> InitialItem]
    <3>1. progress' \in [Partitions -> Item] /\ \A p \in Partitions : progress'[p] = InitialItem
      BY <2>4 DEF InitialItem, Item
    <3>2. ~TotalIsOne(progress')
      BY <3>1, InitialIsNotOne
    <3>3. QED
      BY <2>1, <2>2, <3>2 DEF LastOK
  <2>5. QED
    BY <2>1, <2>3, <2>4
<1>3. CASE TransformProgress
  <2>1. PICK m, w : m = Head(fetched) /\ w = Len(waiting)
    OBVIOUS
  <2>2. /\ w \in Nat /\ waiting' \in Seq(ProgressMessage) /\ Len(waiting') = w + 1
        /\ waiting'[w + 1].finished <=> TotalIsOne(progress')
        /\ DOMAIN progress' = Partitions
    BY <1>3, <2>1, TransformWaiting, TransformFacts DEF AtEndIInv
  <2>3. waiting' # <<>> /\ Partitions # {}
    BY <2>2, PartitionsAssumption
  <2>4. QED
    BY <2>2, <2>3 DEF LastOK
<1>4. CASE StopTransform
  <2>1. /\ stop = "open" /\ waiting # <<>> /\ waiting' = Tail(waiting)
        /\ UNCHANGED <<tail, progress>>
        /\ ~tail /\ Head(waiting).finished => stop' = "closing"
    BY <1>4 DEF StopTransform
  <2>2. /\ Len(waiting) \in Nat \ {0} /\ Len(waiting') = Len(waiting) - 1
        /\ waiting' \in Seq(ProgressMessage)
        /\ Head(waiting) = waiting[1]
        /\ Len(waiting') # 0 => waiting'[Len(waiting')] = waiting[Len(waiting)]
        /\ Len(waiting') = 0 => Len(waiting) = 1
        /\ waiting' = <<>> <=> Len(waiting') = 0
    <3>1. PICK w, n : w = waiting /\ n = Len(waiting)
      OBVIOUS
    <3>2. w \in Seq(ProgressMessage) /\ w # <<>> /\ n = Len(w)
      BY <1>1, <2>1, <3>1
    <3>3. n \in Nat \ {0} /\ Tail(w) \in Seq(ProgressMessage) /\ Len(Tail(w)) = n - 1
      BY <3>2
    <3>4. \A i \in 1..(n - 1) : Tail(w)[i] = w[i + 1]
      BY <3>2, <3>3
    <3>5. n - 1 # 0 => Tail(w)[n - 1] = w[n]
      BY <3>3, <3>4
    <3>6. Tail(w) = <<>> <=> Len(Tail(w)) = 0
      BY <3>3
    <3>7. Head(w) = w[1]
      BY <3>2
    <3>8. QED
      BY <2>1, <3>1, <3>2, <3>3, <3>5, <3>6, <3>7
  <2>3. waiting[Len(waiting)].finished <=> TotalIsOne(progress)
    BY <2>1 DEF AtEndIInv, LastOK
  <2>4. DOMAIN progress # {}
    BY <2>1 DEF AtEndIInv, LastOK
  <2>5. CASE waiting' = <<>>
    BY <2>1, <2>2, <2>3, <2>4, <2>5 DEF LastOK
  <2>6. CASE waiting' # <<>>
    BY <2>1, <2>2, <2>3, <2>4, <2>6 DEF LastOK
  <2>7. QED
    BY <2>5, <2>6
<1>5. CASE PushAfterEnd
  <2>1. stop' = "ended" /\ waiting # <<>> /\ waiting' = Tail(waiting) /\ UNCHANGED progress
    BY <1>5 DEF PushAfterEnd
  <2>2. DOMAIN progress # {}
    BY <2>1 DEF AtEndIInv, LastOK
  <2>3. QED
    BY <2>1, <2>2 DEF LastOK
<1>6. CASE stop' \in {"ended", stop} /\ UNCHANGED <<progress, waiting, tail>>
  BY <1>6 DEF AtEndIInv, LastOK
<1>7. QED
  BY <1>2, <1>3, <1>4, <1>5, <1>6
     DEF Next, vars, Produce, Fetch, Closed, End, Log, DecodeFails, Flush

THEOREM EndInductive == Spec => []AtEndIInv
<1>1. Init => AtEndIInv
  BY InitIInv, InitEnd DEF AtEndIInv
<1>2. AtEndIInv /\ [Next]_vars => AtEndIInv'
  BY NextIInv, HighKept, LastKept DEF AtEndIInv
<1>3. QED
  BY <1>1, <1>2, PTL DEF Spec

(* When all there is was fetched and passed on and nobody produces more,   *)
(* the command has stopped, unless a partition holds nothing to read or a  *)
(* single message: the last message of each partition is taken as progress *)
(* 1, and the mean of such progresses is not missed (totalProgress(),      *)
(* ConsumerProgressTransform.ts:35-48, StopOnFinishProgressTransform.ts).  *)
(* What EndsOnceConsumed needs besides is that the streams run.            *)
StopsByTheEnd ==
  /\ ~tail /\ fetched = <<>> /\ waiting = <<>>
  /\ \A p \in Partitions : next[p] = log[p] /\ log[p] > FirstOffset[p] /\ log[p] > 1
  => stop # "open"

THEOREM StopsByTheEndHolds == Spec => []StopsByTheEnd
<1>1. AtEndIInv => StopsByTheEnd
  <2> SUFFICES ASSUME AtEndIInv, ~tail, fetched = <<>>, waiting = <<>>, stop = "open",
                      \A p \in Partitions :
                        next[p] = log[p] /\ log[p] > FirstOffset[p] /\ log[p] > 1
               PROVE  FALSE
    BY DEF StopsByTheEnd
  <2>1. ASSUME NEW p \in Partitions
        PROVE  /\ p \in DOMAIN progress /\ progress[p] \in Item
               /\ progress[p].progress[1] = progress[p].progress[2]
               /\ progress[p].progress[2] # 0
    <3>1. Taken(p) \in Nat /\ next[p] \in Nat /\ log[p] \in Nat /\ FirstOffset[p] \in Nat
      BY TakenTyped DEF AtEndIInv, IInv
    <3>2. Taken(p) = log[p]
      <4>1. Taken(p) <= next[p]
        BY DEF AtEndIInv, IInv, LogOK
      <4>2. \A o \in Taken(p)..(next[p] - 1) : o \in {}
        BY DEF AtEndIInv, IInv, FetchedOK, Complete
      <4>3. ~(Taken(p) < next[p])
        <5>1. Taken(p) < next[p] => Taken(p) \in Taken(p)..(next[p] - 1)
          BY <3>1
        <5>2. QED
          BY <4>2, <5>1
      <4>4. QED
        BY <3>1, <4>1, <4>3
    <3>3. Seen(p) /\ progress[p].offset + 1 = log[p]
      BY <3>1, <3>2 DEF Taken
    <3>4. progress[p].offset \in Nat /\ progress[p].highWaterOffset \in Nat /\ progress[p] \in Item
          /\ p \in DOMAIN progress
      BY <3>3, ItemTyped DEF Seen, AtEndIInv, IInv
    <3>5. progress[p] # InitialItem
      BY <3>3 DEF Seen, InitialItem
    <3>6. /\ progress[p].progress = <<progress[p].offset, progress[p].highWaterOffset - 1>>
          /\ progress[p].offset < progress[p].highWaterOffset
      BY <3>4, <3>5 DEF AtEndIInv, IInv, ProgressOK
    <3>7. progress[p].highWaterOffset <= log[p]
      BY <3>3 DEF AtEndIInv, HighOK
    <3>8. progress[p].highWaterOffset - 1 = progress[p].offset /\ progress[p].offset # 0
      BY <3>1, <3>3, <3>4, <3>6, <3>7
    <3>9. QED
      BY <3>4, <3>6, <3>8
  <2>2. DOMAIN progress = Partitions /\ DOMAIN progress # {}
    BY <2>1, PartitionsAssumption DEF AtEndIInv, IInv, TypeOK
  <2>3. TotalIsOne(progress)
    BY <2>1, <2>2, AllAreOne
  <2>4. QED
    BY <2>2, <2>3 DEF AtEndIInv, LastOK
<1>2. QED
  BY <1>1, EndInductive, PTL
=============================================================================

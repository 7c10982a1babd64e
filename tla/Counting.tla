------------------------------- MODULE Counting -------------------------------
(* Sums and least elements, for the proofs of several components.  A sum   *)
(* of naturals over a finite set is the number of its quanta: as many      *)
(* pairs for every element as its value.  That makes the folds of the      *)
(* community modules, whatever element they choose first, subject to the   *)
(* theorems about cardinalities.                                           *)
EXTENDS Integers, FiniteSets, Functions, FiniteSetTheorems, NaturalsInduction,
        WellFoundedInduction, TLAPS

Quanta(h, S) == {q \in S \X Nat : q[2] < h[q[1]]}
Count(h, S) == Cardinality(Quanta(h, S))

(* A nonempty set of naturals has a least element.                         *)
LEMMA LeastNatural ==
  ASSUME NEW T \in SUBSET Nat, T # {}
  PROVE  \E x \in T : \A y \in T : x <= y
<1> DEFINE R == {ss \in Nat \X Nat : ss[1] < ss[2]}
<1>1. IsWellFoundedOn(R, Nat)
  BY NatLessThanWellFounded DEF OpToRel
<1>2. \A x, y \in Nat : <<y, x>> \notin R => x <= y
  OBVIOUS
<1> HIDE DEF R
<1>3. PICK x \in T : \A y \in T : ~ (<<y, x>> \in R)
  BY <1>1, WFMin
<1>4. \A y \in T : x <= y
  BY <1>2, <1>3
<1> QED BY <1>4

(* A nonempty set of subsets of a finite set has a least one.              *)
LEMMA LeastSubset ==
  ASSUME NEW Base, IsFiniteSet(Base), NEW Bad \in SUBSET (SUBSET Base), Bad # {}
  PROVE  \E T \in Bad : \A U \in Bad : ~(U \subseteq T /\ U # T)
<1>1. FiniteSubsetsOf(Base) = SUBSET Base
  BY FS_FiniteSubsetsOfFinite
<1>2. IsWellFoundedOn(StrictSubsetOrdering(Base), SUBSET Base)
  BY <1>1, FS_StrictSubsetOrderingWellFounded
<1>3. PICK T \in Bad : \A U \in Bad : ~(<<U, T>> \in StrictSubsetOrdering(Base))
  BY <1>2, WFMin
<1> QED BY <1>3 DEF StrictSubsetOrdering

-----------------------------------------------------------------------------
(* The quanta of one element, of none, and of two disjoint sets.           *)
LEMMA CountOfOne ==
  ASSUME NEW h, NEW x, h[x] \in Nat
  PROVE  IsFiniteSet(Quanta(h, {x})) /\ Count(h, {x}) = h[x]
<1> DEFINE n == h[x]
           I == 0 .. n - 1
<1>2. n \in Nat /\ 0 \in Int /\ n - 1 \in Int
  OBVIOUS
<1> HIDE DEF n
<1>3. IsFiniteSet(I) /\ Cardinality(I) = n
  <2>1. IsFiniteSet(I) /\ Cardinality(I) = IF 0 > n - 1 THEN 0 ELSE n - 1 - 0 + 1
    BY <1>2, FS_Interval
  <2> HIDE DEF I
  <2> QED BY <1>2, <2>1
<1>4. IsFiniteSet({x}) /\ Cardinality({x}) = 1
  BY FS_Singleton
<1>5. IsFiniteSet({x} \X I) /\ Cardinality({x} \X I) = Cardinality({x}) * Cardinality(I)
  BY <1>3, <1>4, FS_Product
<1>6. Quanta(h, {x}) = {x} \X I
  BY <1>2 DEF Quanta, n
<1> HIDE DEF I
<1>7. IsFiniteSet({x} \X I) /\ Cardinality({x} \X I) = n
  BY <1>2, <1>3, <1>4, <1>5
<1> QED BY <1>6, <1>7, Zenon DEF Count, n

LEMMA CountOfNone ==
  ASSUME NEW h
  PROVE  IsFiniteSet(Quanta(h, {})) /\ Count(h, {}) = 0
<1>1. Quanta(h, {}) = {}
  BY DEF Quanta
<1> QED BY <1>1, FS_EmptySet DEF Count

LEMMA CountOfTwo ==
  ASSUME NEW h, NEW S, NEW T, S \cap T = {},
         IsFiniteSet(Quanta(h, S)), IsFiniteSet(Quanta(h, T))
  PROVE  /\ IsFiniteSet(Quanta(h, S \cup T))
         /\ Count(h, S \cup T) = Count(h, S) + Count(h, T)
         /\ Count(h, S) \in Nat /\ Count(h, T) \in Nat
<1>1. Quanta(h, S \cup T) = Quanta(h, S) \cup Quanta(h, T)
  BY DEF Quanta
<1>2. Quanta(h, S) \cap Quanta(h, T) = {}
  BY DEF Quanta
<1>3. Cardinality({}) = 0
  BY FS_EmptySet
<1>4. Count(h, S) \in Nat /\ Count(h, T) \in Nat
  BY FS_CardinalityType DEF Count
<1> DEFINE P == Quanta(h, S)
           Q == Quanta(h, T)
<1>5. IsFiniteSet(P) /\ IsFiniteSet(Q) /\ P \cap Q = {}
  BY <1>2
<1> HIDE DEF P, Q
<1>6. /\ IsFiniteSet(P \cup Q)
      /\ Cardinality(P \cup Q) = Cardinality(P) + Cardinality(Q) - Cardinality({})
  BY <1>5, FS_Union
<1>7. /\ Quanta(h, S \cup T) = P \cup Q
      /\ Count(h, S) = Cardinality(P) /\ Count(h, T) = Cardinality(Q)
  BY <1>1 DEF Count, P, Q
<1>8. Count(h, S \cup T) = Cardinality(P \cup Q)
  BY <1>7 DEF Count
<1>9. Cardinality(P \cup Q) = Cardinality(P) + Cardinality(Q)
  BY <1>3, <1>4, <1>6, <1>7
<1> QED BY <1>4, <1>6, <1>7, <1>8, <1>9, Zenon

(* Functions that agree on a set have the same quanta there.               *)
LEMMA CountAgrees ==
  ASSUME NEW S, NEW h, NEW g, \A x \in S : h[x] = g[x]
  PROVE  Count(h, S) = Count(g, S)
<1>1. Quanta(h, S) = Quanta(g, S)
  BY DEF Quanta
<1> QED BY <1>1 DEF Count

(* Every finite set has finitely many quanta.  By well-founded induction:  *)
(* a least set without would have an element to take out.                  *)
LEMMA CountIsNat ==
  ASSUME NEW S, IsFiniteSet(S), NEW h, \A x \in S : h[x] \in Nat
  PROVE  IsFiniteSet(Quanta(h, S)) /\ Count(h, S) \in Nat
<1> DEFINE Bad == {T \in SUBSET S : ~IsFiniteSet(Quanta(h, T))}
<1>1. ASSUME Bad # {}
      PROVE  FALSE
  <2>0. Bad \in SUBSET (SUBSET S)
    OBVIOUS
  <2>1. PICK T \in Bad : \A U \in Bad : ~(U \subseteq T /\ U # T)
    <3> HIDE DEF Bad
    <3> QED BY <1>1, <2>0, LeastSubset
  <2>2. T # {}
    BY CountOfNone
  <2>3. PICK x \in T : TRUE
    BY <2>2
  <2>4. T \ {x} \notin Bad /\ T \ {x} \in SUBSET S /\ x \in S
    BY <2>1
  <2>5. IsFiniteSet(Quanta(h, T \ {x})) /\ IsFiniteSet(Quanta(h, {x}))
    BY <2>4, CountOfOne
  <2>6. IsFiniteSet(Quanta(h, (T \ {x}) \cup {x})) /\ (T \ {x}) \cup {x} = T
    BY <2>5, CountOfTwo
  <2> QED BY <2>6
<1>2. IsFiniteSet(Quanta(h, S))
  BY <1>1
<1> QED BY <1>2, FS_CardinalityType DEF Count

(* Taking an element out of a set takes its quanta.                        *)
LEMMA CountWithout ==
  ASSUME NEW S, IsFiniteSet(S), NEW h, \A y \in S : h[y] \in Nat,
         NEW T \in SUBSET S, NEW x \in T
  PROVE  /\ Count(h, T) = h[x] + Count(h, T \ {x})
         /\ Count(h, T) \in Nat /\ Count(h, T \ {x}) \in Nat
<1>1. T \ {x} \in SUBSET S /\ x \in S /\ (T \ {x}) \cup {x} = T
      /\ (T \ {x}) \cap {x} = {}
  OBVIOUS
<1>2. IsFiniteSet(T \ {x}) /\ IsFiniteSet(T)
  BY <1>1, FS_Subset
<1>3. /\ IsFiniteSet(Quanta(h, T \ {x})) /\ IsFiniteSet(Quanta(h, {x}))
      /\ Count(h, {x}) = h[x] /\ Count(h, T) \in Nat
  BY <1>1, <1>2, CountIsNat, CountOfOne
<1>4. /\ Count(h, (T \ {x}) \cup {x}) = Count(h, T \ {x}) + Count(h, {x})
      /\ Count(h, T \ {x}) \in Nat /\ Count(h, {x}) \in Nat
  BY <1>1, <1>3, CountOfTwo
<1>5. Count(h, (T \ {x}) \cup {x}) = Count(h, T)
  BY <1>1
<1> QED BY <1>3, <1>4, <1>5

(* The fold that adds the values of a function counts its quanta.  Its     *)
(* recursive function exists, Count being one, and has only one value: a   *)
(* least set on which another differs has an element to take out.          *)
LEMMA SumIsCount ==
  ASSUME NEW S, IsFiniteSet(S), NEW h, \A y \in S : h[y] \in Nat
  PROVE  FoldFunctionOnSet(+, 0, h, S) = Count(h, S)
<1> DEFINE chosen(T) == CHOOSE x \in T : TRUE
           Fold(iter) == iter = [T \in SUBSET S |->
             IF T = {} THEN 0 ELSE h[chosen(T)] + iter[T \ {chosen(T)}]]
           g == CHOOSE iter : Fold(iter)
           F == [T \in SUBSET S |-> Count(h, T)]
<1>1. FoldFunctionOnSet(+, 0, h, S) = g[S]
  BY DEF FoldFunctionOnSet, MapThenFoldSet
<1>2. \A T \in SUBSET S : T # {} => chosen(T) \in T /\ T \ {chosen(T)} \in SUBSET S
  OBVIOUS
<1> HIDE DEF chosen
<1>4. Fold(F)
  <2>1. ASSUME NEW T \in SUBSET S
        PROVE  F[T] = IF T = {} THEN 0 ELSE h[chosen(T)] + F[T \ {chosen(T)}]
    <3>1. CASE T = {}
      BY <3>1, CountOfNone
    <3>2. CASE T # {}
      <4>1. Count(h, T) = h[chosen(T)] + Count(h, T \ {chosen(T)})
        BY <1>2, <3>2, CountWithout
      <4>2. F[T] = Count(h, T) /\ F[T \ {chosen(T)}] = Count(h, T \ {chosen(T)})
        BY <1>2, <3>2
      <4> QED BY <3>2, <4>1, <4>2
    <3> QED BY <3>1, <3>2
  <2> QED BY <2>1
<1> HIDE DEF F
<1>5. Fold(g)
  BY <1>4
<1>6. \A T \in SUBSET S : F[T] = Count(h, T)
  BY DEF F
<1>7. ASSUME NEW T \in SUBSET S
      PROVE  /\ T = {} => g[T] = 0 /\ F[T] = 0
             /\ T # {} => /\ g[T] = h[chosen(T)] + g[T \ {chosen(T)}]
                          /\ F[T] = h[chosen(T)] + F[T \ {chosen(T)}]
  <2> HIDE DEF g
  <2> QED BY <1>4, <1>5
<1> HIDE DEF g, Fold
<1> DEFINE Bad == {T \in SUBSET S : g[T] # F[T]}
<1>8. ASSUME Bad # {}
      PROVE  FALSE
  <2>0. Bad \in SUBSET (SUBSET S)
    OBVIOUS
  <2>1. PICK T \in Bad : \A U \in Bad : ~(U \subseteq T /\ U # T)
    <3> HIDE DEF Bad
    <3> QED BY <1>8, <2>0, LeastSubset
  <2>2. T \in SUBSET S /\ g[T] # F[T]
    BY <2>1
  <2>3. T # {}
    BY <1>7, <2>2
  <2>4. chosen(T) \in T /\ T \ {chosen(T)} \in SUBSET S
    BY <1>2, <2>2, <2>3
  <2>5. T \ {chosen(T)} \notin Bad
    BY <2>1, <2>4
  <2>6. g[T \ {chosen(T)}] = F[T \ {chosen(T)}]
    BY <2>4, <2>5
  <2> QED BY <1>7, <2>2, <2>3, <2>6
<1> QED BY <1>1, <1>6, <1>8
=============================================================================

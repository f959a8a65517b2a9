--------------------------- MODULE LibraryProofs ----------------------------
(***************************************************************************)
(* What some operators of the community modules yield: least and greatest  *)
(* elements, the sequence of a set, and SumFunction, which adds up the     *)
(* values of a function over its domain by a recursive function on the     *)
(* subsets of the domain.  They are stated for functions, and the          *)
(* inductions for sets, because the provers do not instantiate operators.  *)
(***************************************************************************)
EXTENDS FiniteSetsExt, SequencesExt, FiniteSetTheorems, WellFoundedInduction, TLAPS

LEMMA MinInSet ==
    ASSUME NEW S \in SUBSET Nat, S # {}
    PROVE  Min(S) \in S /\ \A y \in S : Min(S) =< y
<1>1. PICK x \in S : \A y \in S : ~ (<<y, x>> \in OpToRel(<, Nat))
  BY NatLessThanWellFounded, WFMin
<1>2. ASSUME NEW y \in S, y < x PROVE <<y, x>> \in OpToRel(<, Nat)
  BY <1>2, Zenon DEF OpToRel
<1>3. \A y \in S : ~ (y < x)
  BY <1>1, <1>2, Zenon
<1>4. \A y \in S : x =< y
  BY <1>3
<1>. QED  BY <1>4 DEF Min

LEMMA MaxInSet ==
    ASSUME NEW bound \in Nat, NEW S \in SUBSET (0 .. bound), S # {}
    PROVE  Max(S) \in S /\ \A y \in S : y =< Max(S)
<1>. DEFINE D == {bound - x : x \in S}
<1>1. D \in SUBSET Nat /\ D # {}
  <2>1. \A x \in S : bound - x \in Nat /\ bound - x \in D
    OBVIOUS
  <2>. QED  BY <2>1
<1>2. PICK d \in D : \A y \in D : ~ (<<y, d>> \in OpToRel(<, Nat))
  BY <1>1, NatLessThanWellFounded, WFMin
<1>3. ASSUME NEW y \in D, y < d PROVE <<y, d>> \in OpToRel(<, Nat)
  BY <1>1, <1>3, Zenon DEF OpToRel
<1>4. \A y \in D : ~ (y < d)
  BY <1>2, <1>3, Zenon
<1>5. PICK x \in S : d = bound - x
  OBVIOUS
<1>6. ASSUME NEW y \in S PROVE y =< x
  <2>1. bound - y \in D
    OBVIOUS
  <2>2. ~ (bound - y < d)
    BY <1>4, <2>1
  <2>3. x \in 0 .. bound /\ y \in 0 .. bound
    OBVIOUS
  <2>. QED  BY <1>5, <2>2, <2>3
<1>. HIDE DEF D
<1>. QED  BY <1>6 DEF Max

LEMMA SetToSeqCovers ==
    ASSUME NEW S, IsFiniteSet(S)
    PROVE  SetToSeq(S) \in Seq(S) /\ ToSet(SetToSeq(S)) = S /\ IsInjective(SetToSeq(S))
<1>. DEFINE n == Cardinality(S)
            F == [1 .. n -> S]
            s == SetToSeq(S)
<1>1. n \in Nat /\ ExistsBijection(1 .. n, S)
  BY FS_CardinalityType
<1>2. PICK f : f \in Bijection(1 .. n, S)
  BY <1>1 DEF ExistsBijection
<1>3. f \in F /\ IsInjective(f)
  BY <1>2 DEF Bijection, Injection, IsInjective
<1>4. s \in F /\ IsInjective(s)
  BY <1>3, Zenon DEF SetToSeq
<1>. HIDE DEF s
<1>5. s \in Injection(1 .. n, S)
  BY <1>4 DEF Injection, IsInjective
<1>6. IsFiniteSet(1 .. n) /\ Cardinality(1 .. n) = n
  BY <1>1, FS_Interval
<1>7. s \in Surjection(1 .. n, S)
  BY <1>1, <1>5, <1>6, FS_Injection
<1>8. ToSet(s) = S
  BY <1>4, <1>7 DEF Surjection, ToSet
<1>9. s \in Seq(S)
  BY <1>1, <1>4
<1>. QED  BY <1>4, <1>8, <1>9 DEF s

-----------------------------------------------------------------------------
(* Sums.                                                                   *)

LEMMA NatSetInduction ==
    ASSUME NEW P \in SUBSET Nat, 0 \in P, \A n \in P : n + 1 \in P
    PROVE  P = Nat
<1>. SUFFICES ASSUME Nat \ P # {} PROVE FALSE
  OBVIOUS
<1>1. PICK x \in Nat \ P : \A y \in Nat \ P : ~ (<<y, x>> \in OpToRel(<, Nat))
  BY NatLessThanWellFounded, WFMin
<1>2. ASSUME NEW y \in Nat, y < x PROVE <<y, x>> \in OpToRel(<, Nat)
  BY <1>2, Zenon DEF OpToRel
<1>3. \A y \in Nat \ P : ~ (y < x)
  BY <1>1, <1>2, Zenon
<1>4. x # 0 /\ x - 1 \in Nat /\ x - 1 < x
  OBVIOUS
<1>5. x - 1 \in P
  BY <1>3, <1>4
<1>. QED  BY <1>4, <1>5

(* The element MapThenFoldSet takes out of a set of indices.               *)
Some(s) == CHOOSE x \in s : TRUE

LEMMA SomeIn ==
    ASSUME NEW s, s # {}
    PROVE  Some(s) \in s
BY DEF Some

LEMMA SubsetInduction ==
    ASSUME NEW S, IsFiniteSet(S), NEW P, {} \in P,
           \A s \in (SUBSET S) \ {{}} : s \ {Some(s)} \in P => s \in P
    PROVE  \A s \in SUBSET S : s \in P
<1>. DEFINE N == {n \in Nat : \A s \in SUBSET S : Cardinality(s) = n => s \in P}
<1>1. \A s \in SUBSET S : IsFiniteSet(s) /\ Cardinality(s) \in Nat
  BY FS_Subset, FS_CardinalityType
<1>2. 0 \in N
  BY <1>1, FS_EmptySet
<1>3. ASSUME NEW n \in N PROVE n + 1 \in N
  <2>1. ASSUME NEW s \in SUBSET S, Cardinality(s) = n + 1 PROVE s \in P
    <3>1. s # {}
      BY <1>3, <2>1, FS_EmptySet
    <3>2. Some(s) \in s
      BY <3>1, SomeIn
    <3>3. Cardinality(s \ {Some(s)}) = n
      <4>1. IsFiniteSet(s) /\ n \in Nat
        BY <1>1, <1>3
      <4>2. Cardinality(s \ {Some(s)}) = Cardinality(s) - 1
        BY <3>2, <4>1, FS_RemoveElement
      <4>. QED  BY <2>1, <4>1, <4>2
    <3>4. s \ {Some(s)} \in P
      BY <1>3, <3>3
    <3>. QED  BY <3>1, <3>4
  <2>. QED  BY <1>3, <2>1
<1>4. N = Nat
  <2>1. N \in SUBSET Nat
    OBVIOUS
  <2>. HIDE DEF N
  <2>. QED  BY <1>2, <1>3, <2>1, NatSetInduction
<1>. QED  BY <1>1, <1>4

-----------------------------------------------------------------------------
(* The recursion of MapThenFoldSet, for the values of f.                   *)
FoldStep(f, g, s) == IF s = {} THEN 0 ELSE f[Some(s)] + g[s \ {Some(s)}]

Sums(f, g, S) == \A s \in SUBSET S : g[s] = FoldStep(f, g, s)

(* There is such a function: it is built up by the size of the sets.       *)
LEMMA SumsExist ==
    ASSUME NEW S, IsFiniteSet(S), NEW f \in [S -> Int]
    PROVE  \E g \in [SUBSET S -> Int] : Sums(f, g, S)
<1>. DEFINE Upto(n) == {s \in SUBSET S : Cardinality(s) =< n}
            N == {n \in Nat : \E g \in [Upto(n) -> Int] :
                                  \A s \in Upto(n) : g[s] = FoldStep(f, g, s)}
<1>1. \A s \in SUBSET S : IsFiniteSet(s) /\ Cardinality(s) \in Nat
  BY FS_Subset, FS_CardinalityType
<1>2. ASSUME NEW s \in SUBSET S, s # {}
      PROVE  /\ Some(s) \in s /\ s \ {Some(s)} \in SUBSET S
             /\ Cardinality(s \ {Some(s)}) = Cardinality(s) - 1
  BY <1>1, <1>2, SomeIn, FS_RemoveElement
<1>3. 0 \in N
  <2>. DEFINE g == [s \in Upto(0) |-> 0]
  <2>1. \A s \in Upto(0) : s = {}
    BY <1>1, FS_EmptySet
  <2>2. g \in [Upto(0) -> Int] /\ \A s \in Upto(0) : g[s] = FoldStep(f, g, s)
    BY <2>1 DEF FoldStep
  <2>. HIDE DEF g, Upto
  <2>. QED  BY <2>2
<1>4. ASSUME NEW n \in N PROVE n + 1 \in N
  <2>1. PICK g \in [Upto(n) -> Int] : \A s \in Upto(n) : g[s] = FoldStep(f, g, s)
    BY <1>4
  <2>. DEFINE h == [s \in Upto(n + 1) |-> FoldStep(f, g, s)]
  <2>2. n \in Nat
    BY <1>4
  <2>. HIDE DEF N
  <2>3. ASSUME NEW s \in Upto(n + 1), s # {} PROVE s \ {Some(s)} \in Upto(n)
    BY <1>1, <1>2, <2>2, <2>3
  <2>4. h \in [Upto(n + 1) -> Int]
    <3>1. ASSUME NEW s \in Upto(n + 1) PROVE FoldStep(f, g, s) \in Int
      <4>1. CASE s = {}
        BY <4>1 DEF FoldStep
      <4>2. CASE s # {}
        BY <1>2, <2>1, <2>3, <4>2 DEF FoldStep
      <4>. QED  BY <4>1, <4>2
    <3>. QED  BY <3>1
  <2>5. ASSUME NEW s \in Upto(n) PROVE s \in Upto(n + 1) /\ h[s] = g[s]
    BY <1>1, <2>1, <2>2, <2>5
  <2>6. ASSUME NEW s \in Upto(n + 1) PROVE h[s] = FoldStep(f, h, s)
    <3>1. CASE s = {}
      BY <3>1 DEF FoldStep
    <3>2. CASE s # {}
      <4>1. h[s \ {Some(s)}] = g[s \ {Some(s)}]
        BY <2>3, <2>5, <3>2
      <4>. QED  BY <3>2, <4>1 DEF FoldStep
    <3>. QED  BY <3>1, <3>2
  <2>7. n + 1 \in Nat
    BY <2>2
  <2>. HIDE DEF h, Upto
  <2>. QED  BY <2>4, <2>6, <2>7 DEF N
<1>5. N = Nat
  <2>1. N \in SUBSET Nat
    OBVIOUS
  <2>. HIDE DEF N
  <2>. QED  BY <1>3, <1>4, <2>1, NatSetInduction
<1>6. Cardinality(S) \in N
  BY <1>1, <1>5
<1>7. Upto(Cardinality(S)) = SUBSET S
  BY FS_Subset, FS_CardinalityType
<1>8. PICK g \in [Upto(Cardinality(S)) -> Int] :
         \A s \in Upto(Cardinality(S)) : g[s] = FoldStep(f, g, s)
  BY <1>6
<1>. QED  BY <1>7, <1>8 DEF Sums

LEMMA SumsUnique ==
    ASSUME NEW S, IsFiniteSet(S), NEW f, NEW g, Sums(f, g, S), NEW h, Sums(f, h, S)
    PROVE  \A s \in SUBSET S : g[s] = h[s]
<1>. DEFINE P == {s \in SUBSET S : g[s] = h[s]}
<1>1. {} \in P
  BY DEF Sums, FoldStep
<1>2. ASSUME NEW s \in (SUBSET S) \ {{}}, s \ {Some(s)} \in P PROVE s \in P
  BY <1>2 DEF Sums, FoldStep
<1>. HIDE DEF P
<1>3. \A s \in SUBSET S : s \in P
  BY <1>1, <1>2, SubsetInduction
<1>. QED  BY <1>3 DEF P

LEMMA SumIter ==
    ASSUME NEW S, IsFiniteSet(S), NEW f \in [S -> Int]
    PROVE  \E g \in [SUBSET S -> Int] : Sums(f, g, S) /\ SumFunction(f) = g[S]
<1>. DEFINE Iter(h) == h = [s \in SUBSET S |->
                              IF s = {} THEN 0
                              ELSE f[CHOOSE x \in s : TRUE] + h[s \ {CHOOSE x \in s : TRUE}]]
            iter == CHOOSE h : Iter(h)
<1>1. DOMAIN f = S
  OBVIOUS
<1>2. SumFunction(f) = iter[S]
  BY <1>1, Zenon DEF SumFunction, SumFunctionOnSet, FoldFunctionOnSet, MapThenFoldSet
<1>3. PICK g \in [SUBSET S -> Int] : Sums(f, g, S)
  BY SumsExist
<1>4. Iter(g)
  BY <1>3 DEF Sums, FoldStep, Some
<1>5. Iter(iter)
  BY <1>4, Zenon
<1>6. Sums(f, iter, S)
  BY <1>5 DEF Sums, FoldStep, Some
<1>. HIDE DEF iter
<1>7. g[S] = iter[S]
  BY <1>3, <1>6, SumsUnique
<1>. QED  BY <1>2, <1>3, <1>7

-----------------------------------------------------------------------------
(* What sums of functions are, for those who use them.                     *)

LEMMA SumType ==
    ASSUME NEW S, IsFiniteSet(S), NEW f \in [S -> Int]
    PROVE  SumFunction(f) \in Int
<1>1. PICK g \in [SUBSET S -> Int] : SumFunction(f) = g[S]
  BY SumIter
<1>. QED  BY <1>1

LEMMA SumOfZeros ==
    ASSUME NEW S, IsFiniteSet(S), NEW f \in [S -> Int], \A x \in S : f[x] = 0
    PROVE  SumFunction(f) = 0
<1>1. PICK g \in [SUBSET S -> Int] : Sums(f, g, S) /\ SumFunction(f) = g[S]
  BY SumIter
<1>. DEFINE P == {s \in SUBSET S : g[s] = 0}
<1>2. {} \in P
  BY <1>1 DEF Sums, FoldStep
<1>3. ASSUME NEW s \in (SUBSET S) \ {{}}, s \ {Some(s)} \in P PROVE s \in P
  BY <1>1, <1>3, SomeIn DEF Sums, FoldStep
<1>. HIDE DEF P
<1>4. \A s \in SUBSET S : s \in P
  BY <1>2, <1>3, SubsetInduction
<1>. QED  BY <1>1, <1>4 DEF P

(* One changed value changes the sum by the difference.                    *)
LEMMA SumChanged ==
    ASSUME NEW S, IsFiniteSet(S), NEW f \in [S -> Int], NEW f2 \in [S -> Int], NEW k \in S,
           \A x \in S \ {k} : f2[x] = f[x]
    PROVE  SumFunction(f2) = SumFunction(f) + (f2[k] - f[k])
<1>1. PICK g \in [SUBSET S -> Int] : Sums(f, g, S) /\ SumFunction(f) = g[S]
  BY SumIter
<1>2. PICK h \in [SUBSET S -> Int] : Sums(f2, h, S) /\ SumFunction(f2) = h[S]
  BY SumIter
<1>. DEFINE d == f2[k] - f[k]
            P == {s \in SUBSET S : h[s] = g[s] + (IF k \in s THEN d ELSE 0)}
<1>3. d \in Int
  OBVIOUS
<1>4. {} \in P
  <2>1. g[{}] = 0 /\ h[{}] = 0
    BY <1>1, <1>2 DEF Sums, FoldStep
  <2>. HIDE DEF d
  <2>. QED  BY <2>1
<1>5. ASSUME NEW s \in (SUBSET S) \ {{}}, s \ {Some(s)} \in P PROVE s \in P
  <2>. DEFINE x == Some(s)
              t == s \ {x}
  <2>1. x \in s /\ x \in S /\ t \in SUBSET S
    BY <1>5, SomeIn
  <2>2. g[s] = f[x] + g[t] /\ h[s] = f2[x] + h[t]
    BY <1>1, <1>2, <1>5 DEF Sums, FoldStep
  <2>3. h[t] = g[t] + (IF k \in t THEN d ELSE 0)
    BY <1>5
  <2>4. f[x] \in Int /\ f2[x] \in Int /\ g[t] \in Int /\ f[k] \in Int /\ f2[k] \in Int
    BY <2>1
  <2>5. CASE x = k
    BY <2>1, <2>2, <2>3, <2>4, <2>5
  <2>6. CASE x # k
    <3>1. f2[x] = f[x] /\ (k \in t <=> k \in s)
      BY <2>1, <2>6
    <3>. HIDE DEF x, t, d
    <3>2. h[s] = g[s] + (IF k \in s THEN d ELSE 0)
      BY <1>3, <2>2, <2>3, <2>4, <3>1
    <3>. QED  BY <1>5, <3>2
  <2>. QED  BY <2>5, <2>6
<1>. HIDE DEF P
<1>6. \A s \in SUBSET S : s \in P
  BY <1>4, <1>5, SubsetInduction
<1>. QED  BY <1>1, <1>2, <1>6 DEF P
=============================================================================

----------------------------- MODULE SumProofs -----------------------------
(***************************************************************************)
(* What a sum over a finite set of natural numbers obeys: it splits over   *)
(* disjoint sets, a part is no more than the whole, smaller terms give a   *)
(* smaller sum, the order of two sums does not matter; and what means that *)
(* are cut off obey. SumOver folds by a recursive function, over which the *)
(* provers cannot do induction; the proofs count instead. A stack of f[x]  *)
(* blocks stands for each term, the number of all blocks solves the        *)
(* recursion (BlocksFold), and the recursion has one solution: of two, a   *)
(* smallest set on which they differ does not exist (FoldsUnique).         *)
(***************************************************************************)
EXTENDS Sums, TLAPS, FiniteSetTheorems, WellFoundedInduction

Pick(s) == CHOOSE x \in s : TRUE

Folds(g, f, S) ==
  g = [s \in SUBSET S |-> IF s = {} THEN 0 ELSE f[Pick(s)] + g[s \ {Pick(s)}]]

LEMMA SumUnfolds ==
  ASSUME NEW f, NEW S
  PROVE  SumOver(f, S) = (CHOOSE g : Folds(g, f, S))[S]
  BY Zenon DEF SumOver, MapThenSumSet, MapThenFoldSet, Folds, Pick

LEMMA LeastNatural ==
  ASSUME NEW T, T \subseteq Nat, T # {}
  PROVE  \E x \in T : \A y \in T : x <= y
<1> DEFINE R == OpToRel(<, Nat)
<1>1. IsWellFoundedOn(R, Nat)
  BY NatLessThanWellFounded, Zenon
<1>2. \A x \in Nat, y \in Nat : <<y, x>> \in R <=> y < x
  BY DEF OpToRel
<1> HIDE DEF R
<1>3. PICK x \in T : \A y \in T : ~ (<<y, x>> \in R)
  BY <1>1, WFMin
<1>4. \A y \in T : ~ (y < x)
  BY <1>2, <1>3
<1>5. QED
  BY <1>4

Stack(f, x) == {x} \X (0..(f[x] - 1))
Blocks(f, S) == UNION {Stack(f, x) : x \in S}

Summable(f, S) == IsFiniteSet(S) /\ \A x \in S : f[x] \in Nat

LEMMA StackSize ==
  ASSUME NEW f, NEW x, f[x] \in Nat
  PROVE  IsFiniteSet(Stack(f, x)) /\ Cardinality(Stack(f, x)) = f[x]
<1>1. IsFiniteSet({x}) /\ Cardinality({x}) = 1
  BY FS_Singleton
<1>2. IsFiniteSet(0..(f[x] - 1)) /\ Cardinality(0..(f[x] - 1)) = f[x]
  <2>1. 0 \in Int /\ f[x] - 1 \in Int
    OBVIOUS
  <2>2. /\ IsFiniteSet(0..(f[x] - 1))
        /\ Cardinality(0..(f[x] - 1)) = IF 0 > f[x] - 1 THEN 0 ELSE (f[x] - 1) - 0 + 1
    BY <2>1, FS_Interval
  <2>3. QED
    BY <2>2
<1>3. IsFiniteSet(Stack(f, x)) /\ Cardinality(Stack(f, x)) = 1 * f[x]
  BY <1>1, <1>2, FS_Product DEF Stack
<1>4. QED
  BY <1>3

LEMMA BlocksFinite ==
  ASSUME NEW f, NEW S, Summable(f, S)
  PROVE  IsFiniteSet(Blocks(f, S)) /\ Cardinality(Blocks(f, S)) \in Nat
<1> DEFINE T == {Stack(f, x) : x \in S}
           h == [x \in S |-> Stack(f, x)]
<1>1. h \in Surjection(S, T)
  BY DEF Surjection
<1>2. IsFiniteSet(T)
  BY <1>1, FS_Surjection DEF Summable
<1>3. \A t \in T : IsFiniteSet(t)
  BY StackSize DEF Summable
<1>4. IsFiniteSet(Blocks(f, S))
  BY <1>2, <1>3, FS_UNION DEF Blocks
<1>5. QED
  BY <1>4, FS_CardinalityType

LEMMA BlocksSplit ==
  ASSUME NEW f, NEW S, Summable(f, S), NEW T, Summable(f, T), S \cap T = {}
  PROVE  Cardinality(Blocks(f, S \cup T)) = Cardinality(Blocks(f, S)) + Cardinality(Blocks(f, T))
<1>1. Blocks(f, S \cup T) = Blocks(f, S) \cup Blocks(f, T)
  BY DEF Blocks
<1>2. Blocks(f, S) \cap Blocks(f, T) = {}
  BY DEF Blocks, Stack
<1>3. /\ IsFiniteSet(Blocks(f, S)) /\ IsFiniteSet(Blocks(f, T))
      /\ Cardinality(Blocks(f, S)) \in Nat /\ Cardinality(Blocks(f, T)) \in Nat
  BY BlocksFinite
<1>4. Cardinality({}) = 0
  BY FS_EmptySet
<1>5. Cardinality(Blocks(f, S) \cup Blocks(f, T))
        = Cardinality(Blocks(f, S)) + Cardinality(Blocks(f, T))
            - Cardinality(Blocks(f, S) \cap Blocks(f, T))
  BY <1>3, FS_Union
<1>6. Cardinality(Blocks(f, S) \cap Blocks(f, T)) = 0
  BY <1>2, <1>4
<1>7. Cardinality(Blocks(f, S \cup T))
        = Cardinality(Blocks(f, S)) + Cardinality(Blocks(f, T)) - 0
  BY <1>1, <1>5, <1>6
<1>8. QED
  BY <1>3, <1>7

LEMMA BlocksOfOne ==
  ASSUME NEW f, NEW x, f[x] \in Nat
  PROVE  Summable(f, {x}) /\ Cardinality(Blocks(f, {x})) = f[x]
<1>1. Blocks(f, {x}) = Stack(f, x)
  BY DEF Blocks
<1>2. QED
  BY <1>1, StackSize, FS_Singleton DEF Summable

LEMMA BlocksOfNone == ASSUME NEW f PROVE Blocks(f, {}) = {} /\ Cardinality(Blocks(f, {})) = 0
<1>1. Blocks(f, {}) = {}
  BY DEF Blocks
<1>2. QED
  BY <1>1, FS_EmptySet

LEMMA BlocksFold ==
  ASSUME NEW f, NEW S, Summable(f, S)
  PROVE  Folds([s \in SUBSET S |-> Cardinality(Blocks(f, s))], f, S)
<1> DEFINE g == [s \in SUBSET S |-> Cardinality(Blocks(f, s))]
<1>1. ASSUME NEW s \in SUBSET S
      PROVE  g[s] = IF s = {} THEN 0 ELSE f[Pick(s)] + g[s \ {Pick(s)}]
  <2>1. CASE s = {}
    BY <2>1, BlocksOfNone
  <2>2. CASE s # {}
    <3> DEFINE x == Pick(s)
               t == s \ {x}
    <3>1. x \in s
      BY <2>2 DEF Pick
    <3> HIDE DEF x
    <3>2. f[x] \in Nat /\ t \in SUBSET S /\ s = {x} \cup t /\ {x} \cap t = {}
      BY <3>1 DEF Summable
    <3>3. Summable(f, t)
      BY <3>2, FS_Subset DEF Summable
    <3>4. Summable(f, {x}) /\ Cardinality(Blocks(f, {x})) = f[x]
      BY <3>2, BlocksOfOne
    <3> HIDE DEF t
    <3>5. Cardinality(Blocks(f, s)) = f[x] + Cardinality(Blocks(f, t))
      BY <3>2, <3>3, <3>4, BlocksSplit
    <3>6. g[s] = f[x] + g[t]
      BY <3>2, <3>5
    <3>7. QED
      BY <2>2, <3>6 DEF t, x
  <2>3. QED
    BY <2>1, <2>2
<1>2. QED
  BY <1>1 DEF Folds

LEMMA FoldsUnique ==
  ASSUME NEW f, NEW S, IsFiniteSet(S), NEW g, Folds(g, f, S), NEW h, Folds(h, f, S)
  PROVE  g[S] = h[S]
<1> DEFINE Sizes == {Cardinality(s) : s \in {t \in SUBSET S : g[t] # h[t]}}
<1>0. SUFFICES ASSUME g[S] # h[S]
               PROVE  FALSE
  OBVIOUS
<1>1. Sizes \subseteq Nat /\ Sizes # {}
  <2>1. \A s \in SUBSET S : IsFiniteSet(s) /\ Cardinality(s) \in Nat
    BY FS_Subset, FS_CardinalityType
  <2>2. QED
    BY <1>0, <2>1
<1>2. PICK n \in Sizes : \A m \in Sizes : n <= m
  BY <1>1, LeastNatural
<1>3. PICK s \in SUBSET S : g[s] # h[s] /\ n = Cardinality(s)
  OBVIOUS
<1>4. IsFiniteSet(s) /\ Cardinality(s) \in Nat
  BY FS_Subset, FS_CardinalityType
<1>5. /\ g[s] = IF s = {} THEN 0 ELSE f[Pick(s)] + g[s \ {Pick(s)}]
      /\ h[s] = IF s = {} THEN 0 ELSE f[Pick(s)] + h[s \ {Pick(s)}]
  BY DEF Folds
<1>6. s # {}
  BY <1>3, <1>5
<1>7. Pick(s) \in s
  BY <1>6 DEF Pick
<1>8. /\ s \ {Pick(s)} \in SUBSET S
      /\ Cardinality(s \ {Pick(s)}) = Cardinality(s) - 1
  BY <1>4, <1>7, FS_RemoveElement
<1>9. g[s \ {Pick(s)}] # h[s \ {Pick(s)}]
  BY <1>3, <1>5, <1>6
<1>10. Cardinality(s \ {Pick(s)}) \in Sizes
  BY <1>8, <1>9
<1> HIDE DEF Sizes
<1>11. n <= Cardinality(s \ {Pick(s)})
  BY <1>2, <1>10
<1>12. QED
  BY <1>3, <1>4, <1>8, <1>11

LEMMA SumIsCount ==
  ASSUME NEW f, NEW S, Summable(f, S)
  PROVE  SumOver(f, S) = Cardinality(Blocks(f, S))
<1> DEFINE g == [s \in SUBSET S |-> Cardinality(Blocks(f, s))]
<1>1. Folds(g, f, S)
  BY BlocksFold
<1>2. g[S] = Cardinality(Blocks(f, S))
  OBVIOUS
<1> HIDE DEF g
<1>3. Folds(CHOOSE h : Folds(h, f, S), f, S)
  BY <1>1
<1>4. (CHOOSE h : Folds(h, f, S))[S] = g[S]
  BY <1>1, <1>3, FoldsUnique DEF Summable
<1>5. QED
  BY <1>2, <1>4, SumUnfolds

LEMMA SummableUnion ==
  ASSUME NEW f, NEW S, Summable(f, S), NEW T, Summable(f, T)
  PROVE  Summable(f, S \cup T)
BY FS_Union DEF Summable

LEMMA SumIsNat ==
  ASSUME NEW f, NEW S, Summable(f, S)
  PROVE  SumOver(f, S) \in Nat
  BY SumIsCount, BlocksFinite

LEMMA SumOfNone == ASSUME NEW f PROVE SumOver(f, {}) = 0
<1>1. Summable(f, {})
  BY FS_EmptySet DEF Summable
<1>2. QED
  BY <1>1, SumIsCount, BlocksOfNone

LEMMA SumOfOne ==
  ASSUME NEW f, NEW x, f[x] \in Nat
  PROVE  SumOver(f, {x}) = f[x]
  BY BlocksOfOne, SumIsCount

LEMMA SumSplits ==
  ASSUME NEW f, NEW S, Summable(f, S), NEW T, Summable(f, T), S \cap T = {}
  PROVE  SumOver(f, S \cup T) = SumOver(f, S) + SumOver(f, T)
<1>1. Summable(f, S \cup T)
  BY FS_Union DEF Summable
<1>2. QED
  BY <1>1, SumIsCount, BlocksSplit

LEMMA SumOfPart ==
  ASSUME NEW f, NEW S, Summable(f, S), NEW T \in SUBSET S
  PROVE  SumOver(f, T) \in Nat /\ SumOver(f, T) <= SumOver(f, S)
<1>1. Summable(f, T) /\ Summable(f, S \ T)
  BY FS_Subset DEF Summable
<1>2. S = T \cup (S \ T) /\ T \cap (S \ T) = {}
  OBVIOUS
<1>3. SumOver(f, S) = SumOver(f, T) + SumOver(f, S \ T)
  BY <1>1, <1>2, SumSplits
<1>4. QED
  BY <1>1, <1>3, SumIsNat

LEMMA SumOfLess ==
  ASSUME NEW f, NEW S, Summable(f, S), NEW g, \A x \in S : g[x] \in Nat /\ g[x] <= f[x]
  PROVE  SumOver(g, S) \in Nat /\ SumOver(g, S) <= SumOver(f, S)
<1>1. Summable(g, S)
  BY DEF Summable
<1>2. \A x \in S : f[x] \in Nat
  BY DEF Summable
<1>3. Blocks(g, S) \subseteq Blocks(f, S)
  <2>1. ASSUME NEW x \in S
        PROVE  Stack(g, x) \subseteq Stack(f, x)
    <3>1. 0..(g[x] - 1) \subseteq 0..(f[x] - 1)
      BY <1>2
    <3>2. QED
      BY <3>1 DEF Stack
  <2>2. QED
    BY <2>1 DEF Blocks
<1>4. Cardinality(Blocks(g, S)) <= Cardinality(Blocks(f, S))
  BY <1>3, BlocksFinite, FS_Subset
<1>5. QED
  BY <1>1, <1>4, SumIsCount, SumIsNat

LEMMA SumOfSame ==
  ASSUME NEW f, NEW S, Summable(f, S), NEW g, \A x \in S : g[x] = f[x]
  PROVE  SumOver(g, S) = SumOver(f, S)
<1>1. Summable(g, S)
  BY DEF Summable
<1>2. Blocks(g, S) = Blocks(f, S)
  BY DEF Blocks, Stack
<1>3. QED
  BY <1>1, <1>2, SumIsCount

LEMMA SumOfZeros ==
  ASSUME NEW f, NEW S, IsFiniteSet(S), \A x \in S : f[x] = 0
  PROVE  SumOver(f, S) = 0
<1>1. Summable(f, S)
  BY DEF Summable
<1>2. \A x \in S : Stack(f, x) = {}
  <2>1. 0..(0 - 1) = {}
    OBVIOUS
  <2>2. QED
    BY <2>1 DEF Stack
<1>3. Blocks(f, S) = {}
  BY <1>2 DEF Blocks
<1>4. QED
  BY <1>1, <1>3, SumIsCount, FS_EmptySet

\* A finite set of integers that is not empty has a greatest element.
LEMMA MaxExists ==
  ASSUME NEW S \in SUBSET Int, IsFiniteSet(S), S # {}
  PROVE  Max(S) \in S /\ \A x \in S : Max(S) >= x
<1> DEFINE Has(t) == \E m \in t : \A x \in t : m >= x
           Lacking == {t \in SUBSET S : t # {} /\ ~ Has(t)}
           Sizes == {Cardinality(t) : t \in Lacking}
<1>1. Lacking = {}
  <2>1. SUFFICES ASSUME Lacking # {} PROVE FALSE
    OBVIOUS
  <2>2. \A t \in SUBSET S : IsFiniteSet(t) /\ Cardinality(t) \in Nat
    BY FS_Subset, FS_CardinalityType
  <2>3. Sizes \subseteq Nat /\ Sizes # {}
    BY <2>1, <2>2
  <2>4. PICK n \in Sizes : \A k \in Sizes : n <= k
    BY <2>3, LeastNatural
  <2>5. PICK t \in Lacking : n = Cardinality(t)
    OBVIOUS
  <2>6. PICK x \in t : TRUE
    OBVIOUS
  <2>7. x \in Int /\ t \in SUBSET S
    OBVIOUS
  <2>8. Cardinality(t \ {x}) = Cardinality(t) - 1 /\ Cardinality(t) \in Nat
    BY <2>2, <2>6, <2>7, FS_RemoveElement
  <2>9. t \ {x} \notin Lacking
    <3>1. SUFFICES ASSUME t \ {x} \in Lacking PROVE FALSE
      OBVIOUS
    <3>2. Cardinality(t \ {x}) \in Sizes
      BY <3>1
    <3> HIDE DEF Sizes
    <3>3. n <= Cardinality(t \ {x})
      BY <2>4, <3>2
    <3>4. QED
      BY <2>5, <2>8, <3>3
  <2>10. CASE t \ {x} = {}
    <3>1. t = {x}
      BY <2>6, <2>10
    <3>2. Has(t)
      BY <2>7, <3>1
    <3>3. QED
      BY <3>2
  <2>11. CASE t \ {x} # {}
    <3>1. Has(t \ {x})
      BY <2>7, <2>9, <2>11
    <3>2. PICK m \in t \ {x} : \A y \in t \ {x} : m >= y
      BY <3>1
    <3>3. m \in Int /\ m \in t
      BY <2>7
    <3>4. CASE m >= x
      <4>1. \A y \in t : m >= y
        BY <3>2, <3>4
      <4>2. QED
        BY <3>3, <4>1
    <3>5. CASE ~ (m >= x)
      <4>1. \A y \in t : x >= y
        <5>1. SUFFICES ASSUME NEW y \in t PROVE x >= y
          OBVIOUS
        <5>2. y \in Int
          BY <2>7
        <5>3. y = x \/ m >= y
          BY <3>2
        <5>4. QED
          BY <2>7, <3>3, <3>5, <5>2, <5>3
      <4>2. QED
        BY <2>6, <4>1
    <3>6. QED
      BY <3>4, <3>5
  <2>12. QED
    BY <2>10, <2>11
<1>2. Has(S)
  BY <1>1
<1>3. QED
  BY <1>2 DEF Max

\* A sum over four different elements.
LEMMA SumOfFour ==
  ASSUME NEW f, NEW a, NEW b, NEW c, NEW d,
         Summable(f, {a, b, c, d}), a \notin {b, c, d}, b \notin {c, d}, c # d
  PROVE  SumOver(f, {a, b, c, d}) = f[a] + f[b] + f[c] + f[d]
<1>0. f[a] \in Nat /\ f[b] \in Nat /\ f[c] \in Nat /\ f[d] \in Nat
  BY DEF Summable
<1>1. /\ Summable(f, {a}) /\ Summable(f, {b}) /\ Summable(f, {c}) /\ Summable(f, {d})
      /\ SumOver(f, {a}) = f[a] /\ SumOver(f, {b}) = f[b] /\ SumOver(f, {c}) = f[c] /\ SumOver(f, {d}) = f[d]
  BY <1>0, BlocksOfOne, SumOfOne
<1>2. Summable(f, {a} \cup {b}) /\ SumOver(f, {a} \cup {b}) = f[a] + f[b]
  <2>1. {a} \cap {b} = {}
    OBVIOUS
  <2>2. Summable(f, {a} \cup {b})
    BY <1>1, SummableUnion
  <2>3. SumOver(f, {a} \cup {b}) = SumOver(f, {a}) + SumOver(f, {b})
    BY <1>1, <2>1, SumSplits, Zenon
  <2>4. QED
    BY <1>1, <2>2, <2>3, Zenon
<1>3. Summable(f, {c} \cup {d}) /\ SumOver(f, {c} \cup {d}) = f[c] + f[d]
  <2>1. {c} \cap {d} = {}
    OBVIOUS
  <2>2. Summable(f, {c} \cup {d})
    BY <1>1, SummableUnion
  <2>3. SumOver(f, {c} \cup {d}) = SumOver(f, {c}) + SumOver(f, {d})
    BY <1>1, <2>1, SumSplits, Zenon
  <2>4. QED
    BY <1>1, <2>2, <2>3, Zenon
<1>4. ({a} \cup {b}) \cap ({c} \cup {d}) = {} /\ {a, b, c, d} = ({a} \cup {b}) \cup ({c} \cup {d})
  OBVIOUS
<1>5. SumOver(f, {a, b, c, d}) = (f[a] + f[b]) + (f[c] + f[d])
  <2>1. SumOver(f, ({a} \cup {b}) \cup ({c} \cup {d})) = SumOver(f, {a} \cup {b}) + SumOver(f, {c} \cup {d})
    BY <1>2, <1>3, <1>4, SumSplits, Zenon
  <2>2. QED
    BY <1>2, <1>3, <1>4, <2>1, Zenon
<1>6. QED
  BY <1>0, <1>5

\* How many there are of four.
Tick1(P) == IF P THEN 1 ELSE 0

LEMMA CountOfFour ==
  ASSUME NEW A \in SUBSET {1, 2, 3, 4}
  PROVE  Cardinality(A) = Tick1(1 \in A) + Tick1(2 \in A) + Tick1(3 \in A) + Tick1(4 \in A)
<1> DEFINE f == [i \in {1, 2, 3, 4} |-> Tick1(i \in A)]
<1>1. f[1] \in Nat /\ f[2] \in Nat /\ f[3] \in Nat /\ f[4] \in Nat
  BY DEF Tick1
<1>2. Summable(f, {1, 2, 3, 4})
  <2>1. IsFiniteSet({1, 2, 3, 4})
    <3>1. 1 \in Int /\ 4 \in Int
      OBVIOUS
    <3>2. IsFiniteSet(1..4)
      BY <3>1, FS_Interval
    <3>3. 1..4 = {1, 2, 3, 4}
      OBVIOUS
    <3>4. QED
      BY <3>2, <3>3
  <2>2. \A i \in {1, 2, 3, 4} : f[i] \in Nat
    BY <1>1
  <2>3. QED
    BY <2>1, <2>2 DEF Summable
<1>3. SumOver(f, {1, 2, 3, 4}) = f[1] + f[2] + f[3] + f[4]
  <2>1. 1 \notin {2, 3, 4} /\ 2 \notin {3, 4} /\ 3 # 4
    OBVIOUS
  <2> HIDE DEF f
  <2>2. ASSUME NEW a, NEW b, NEW c, NEW d, a = 1, b = 2, c = 3, d = 4
        PROVE  SumOver(f, {a, b, c, d}) = f[a] + f[b] + f[c] + f[d]
    <3>1. Summable(f, {a, b, c, d})
      BY <1>2, <2>2
    <3>2. a \notin {b, c, d} /\ b \notin {c, d} /\ c # d
      BY <2>1, <2>2
    <3>3. QED
      BY <3>1, <3>2, SumOfFour
  <2>3. QED
    BY <2>2
<1>4. Blocks(f, {1, 2, 3, 4}) = A \X {0}
  <2>1. \A i \in {1, 2, 3, 4} : Stack(f, i) = IF i \in A THEN {i} \X {0} ELSE {}
    <3>1. 0..(1 - 1) = {0} /\ 0..(0 - 1) = {}
      OBVIOUS
    <3>2. ASSUME NEW i \in {1, 2, 3, 4}
          PROVE  Stack(f, i) = IF i \in A THEN {i} \X {0} ELSE {}
      <4>1. f[i] = IF i \in A THEN 1 ELSE 0
        BY DEF Tick1
      <4>2. CASE i \in A
        <5>1. f[i] - 1 = 1 - 1
          BY <4>1, <4>2
        <5>2. QED
          BY <3>1, <4>2, <5>1 DEF Stack
      <4>3. CASE i \notin A
        <5>1. f[i] - 1 = 0 - 1
          BY <4>1, <4>3
        <5>2. QED
          BY <3>1, <4>3, <5>1 DEF Stack
      <4>4. QED
        BY <4>2, <4>3
    <3>3. QED
      BY <3>2
  <2>2. Blocks(f, {1, 2, 3, 4}) = UNION {Stack(f, i) : i \in {1, 2, 3, 4}}
    BY DEF Blocks
  <2> HIDE DEF f
  <2>3. ASSUME NEW x \in Blocks(f, {1, 2, 3, 4})
        PROVE  x \in A \X {0}
    <3>1. PICK i \in {1, 2, 3, 4} : x \in Stack(f, i)
      BY <2>2
    <3>2. i \in A
      BY <2>1, <3>1
    <3>3. QED
      BY <2>1, <3>1, <3>2
  <2>4. ASSUME NEW x \in A \X {0}
        PROVE  x \in Blocks(f, {1, 2, 3, 4})
    <3>0. x = <<x[1], x[2]>> /\ x[1] \in A /\ x[2] = 0
      OBVIOUS
    <3>1. PICK i \in A : x = <<i, 0>>
      BY <3>0
    <3>2. x \in Stack(f, i)
      BY <2>1, <3>1
    <3>3. QED
      BY <2>2, <3>2
  <2>5. QED
    BY <2>3, <2>4
<1>5. Cardinality(A \X {0}) = Cardinality(A)
  <2>1. IsFiniteSet(A) /\ Cardinality(A) \in Nat
    <3>1. IsFiniteSet({1, 2, 3, 4})
      BY <1>2 DEF Summable
    <3>2. QED
      BY <3>1, FS_Subset, FS_CardinalityType
  <2>2. Cardinality(A \X {0}) = Cardinality(A) * 1
    <3>1. IsFiniteSet({0}) /\ Cardinality({0}) = 1
      BY FS_Singleton
    <3>2. Cardinality(A \X {0}) = Cardinality(A) * Cardinality({0})
      BY <2>1, <3>1, FS_Product
    <3>3. QED
      BY <3>1, <3>2
  <2>3. QED
    BY <2>1, <2>2
<1>6. QED
  BY <1>2, <1>3, <1>4, <1>5, SumIsCount

\* Any element may be taken off first.
LEMMA SumStep ==
  ASSUME NEW f, NEW S, Summable(f, S), NEW x \in S
  PROVE  Summable(f, S \ {x}) /\ SumOver(f, S) = f[x] + SumOver(f, S \ {x})
<1>1. S = {x} \cup (S \ {x}) /\ {x} \cap (S \ {x}) = {}
  OBVIOUS
<1>2. Summable(f, {x}) /\ Summable(f, S \ {x}) /\ SumOver(f, {x}) = f[x]
  <2>1. f[x] \in Nat
    BY DEF Summable
  <2>2. Summable(f, S \ {x})
    BY FS_Subset DEF Summable
  <2>3. QED
    BY <2>1, <2>2, BlocksOfOne, SumOfOne DEF Summable
<1>3. SumOver(f, {x} \cup (S \ {x})) = SumOver(f, {x}) + SumOver(f, S \ {x})
  BY <1>1, <1>2, SumSplits
<1>4. QED
  BY <1>1, <1>2, <1>3

\* What solves the recursion is the sum.
Solves(h, f, S) ==
  /\ h = [s \in SUBSET S |-> h[s]]
  /\ h[{}] = 0
  /\ \A s \in SUBSET S : \A x \in s : h[s] = f[x] + h[s \ {x}]

LEMMA SumSolves ==
  ASSUME NEW f, NEW S, Summable(f, S), NEW h, Solves(h, f, S)
  PROVE  SumOver(f, S) = h[S]
<1> DEFINE g == [s \in SUBSET S |-> Cardinality(Blocks(f, s))]
<1>1. Folds(g, f, S)
  BY BlocksFold
<1>2. Folds(h, f, S)
  <2>1. \A s \in SUBSET S : h[s] = IF s = {} THEN 0 ELSE f[Pick(s)] + h[s \ {Pick(s)}]
    BY DEF Pick, Solves
  <2>2. QED
    BY <2>1 DEF Folds, Solves
<1>3. g[S] = SumOver(f, S)
  BY SumIsCount
<1> HIDE DEF g
<1>4. g[S] = h[S]
  BY <1>1, <1>2, FoldsUnique DEF Summable
<1>5. QED
  BY <1>3, <1>4

LEMMA SumOfSums ==
  ASSUME NEW f, NEW g, NEW S, Summable(f, S), Summable(g, S),
         NEW e, \A x \in S : e[x] = f[x] + g[x]
  PROVE  Summable(e, S) /\ SumOver(e, S) = SumOver(f, S) + SumOver(g, S)
<1> DEFINE h == [s \in SUBSET S |-> SumOver(f, s) + SumOver(g, s)]
<1>1. Summable(e, S)
  BY DEF Summable
<1>2. h = [s \in SUBSET S |-> h[s]]
  OBVIOUS
<1>3. h[{}] = 0
  BY SumOfNone
<1>4. ASSUME NEW s \in SUBSET S, NEW x \in s
      PROVE  h[s] = e[x] + h[s \ {x}]
  <2>1. Summable(f, s) /\ Summable(g, s)
    BY FS_Subset DEF Summable
  <2>2. /\ Summable(f, s \ {x}) /\ SumOver(f, s) = f[x] + SumOver(f, s \ {x})
        /\ Summable(g, s \ {x}) /\ SumOver(g, s) = g[x] + SumOver(g, s \ {x})
    BY <2>1, SumStep
  <2>3. SumOver(f, s \ {x}) \in Nat /\ SumOver(g, s \ {x}) \in Nat
    BY <2>2, SumIsNat
  <2>4. f[x] \in Nat /\ g[x] \in Nat /\ e[x] = f[x] + g[x]
    BY DEF Summable
  <2>5. s \ {x} \in SUBSET S
    OBVIOUS
  <2>6. QED
    BY <2>2, <2>3, <2>4, <2>5
<1> HIDE DEF h
<1>5. SumOver(e, S) = h[S]
  <2>1. Solves(h, e, S)
    BY <1>2, <1>3, <1>4 DEF Solves
  <2>2. QED
    BY <1>1, <2>1, SumSolves
<1>6. QED
  BY <1>1, <1>5 DEF h

LEMMA SumOfMultiples ==
  ASSUME NEW f, NEW S, Summable(f, S), NEW c \in Nat,
         NEW e, \A x \in S : e[x] = c * f[x]
  PROVE  Summable(e, S) /\ SumOver(e, S) = c * SumOver(f, S)
<1> DEFINE h == [s \in SUBSET S |-> c * SumOver(f, s)]
<1>1. Summable(e, S)
  <2>1. \A x \in S : f[x] \in Nat
    BY DEF Summable
  <2>2. \A x \in S : c * f[x] \in Nat
    BY <2>1
  <2>3. QED
    BY <2>2 DEF Summable
<1>2. h = [s \in SUBSET S |-> h[s]]
  OBVIOUS
<1>3. h[{}] = 0
  BY SumOfNone
<1>4. ASSUME NEW s \in SUBSET S, NEW x \in s
      PROVE  h[s] = e[x] + h[s \ {x}]
  <2>1. Summable(f, s)
    BY FS_Subset DEF Summable
  <2>2. Summable(f, s \ {x}) /\ SumOver(f, s) = f[x] + SumOver(f, s \ {x})
    BY <2>1, SumStep
  <2>3. SumOver(f, s \ {x}) \in Nat
    BY <2>2, SumIsNat
  <2>4. f[x] \in Nat /\ e[x] = c * f[x]
    BY DEF Summable
  <2>5. s \ {x} \in SUBSET S
    OBVIOUS
  <2>6. c * (f[x] + SumOver(f, s \ {x})) = c * f[x] + c * SumOver(f, s \ {x})
    BY <2>3, <2>4
  <2>7. QED
    BY <2>2, <2>4, <2>5, <2>6
<1> HIDE DEF h
<1>5. SumOver(e, S) = h[S]
  <2>1. Solves(h, e, S)
    BY <1>2, <1>3, <1>4 DEF Solves
  <2>2. QED
    BY <1>1, <2>1, SumSolves
<1>6. QED
  BY <1>1, <1>5 DEF h

LEMMA SumOfConstant ==
  ASSUME NEW S, IsFiniteSet(S), NEW c \in Nat, NEW e, \A x \in S : e[x] = c
  PROVE  Summable(e, S) /\ SumOver(e, S) = Cardinality(S) * c
<1> DEFINE h == [s \in SUBSET S |-> Cardinality(s) * c]
<1>1. Summable(e, S)
  BY DEF Summable
<1>2. h = [s \in SUBSET S |-> h[s]]
  OBVIOUS
<1>3. h[{}] = 0
  BY FS_EmptySet
<1>4. ASSUME NEW s \in SUBSET S, NEW x \in s
      PROVE  h[s] = e[x] + h[s \ {x}]
  <2>1. IsFiniteSet(s) /\ Cardinality(s) \in Nat
    BY FS_Subset, FS_CardinalityType
  <2>2. Cardinality(s \ {x}) = Cardinality(s) - 1
    BY <2>1, FS_RemoveElement
  <2>3. Cardinality(s) * c = c + (Cardinality(s) - 1) * c
    BY <2>1
  <2>4. s \ {x} \in SUBSET S /\ e[x] = c
    OBVIOUS
  <2>5. QED
    BY <2>2, <2>3, <2>4
<1> HIDE DEF h
<1>5. SumOver(e, S) = h[S]
  <2>1. Solves(h, e, S)
    BY <1>2, <1>3, <1>4 DEF Solves
  <2>2. QED
    BY <1>1, <2>1, SumSolves
<1>6. QED
  BY <1>1, <1>5 DEF h

-----------------------------------------------------------------------------
(* Quotients that are cut off, the least and the greatest of some numbers. *)

LEMMA IntervalFinite == ASSUME NEW n \in Nat PROVE IsFiniteSet(1..n)
<1>1. 1 \in Int /\ n \in Int
  OBVIOUS
<1>2. QED
  BY <1>1, FS_Interval

\* Quotient and remainder of a division whose divisor is no numeral.
LEMMA Division ==
  ASSUME NEW n \in Nat, NEW d \in Nat, d > 0
  PROVE  /\ n \div d \in Nat /\ n % d \in Nat /\ n % d < d
         /\ d * (n \div d) + (n % d) = n
OBVIOUS

\* A quotient lies between the bounds the dividend has.
LEMMA DivBetween ==
  ASSUME NEW n \in Nat, NEW d \in Nat, d > 0, NEW lo \in Nat, NEW hi \in Nat, lo * d <= n, n <= hi * d
  PROVE  n \div d \in Nat /\ lo <= n \div d /\ n \div d <= hi
<1> DEFINE q == n \div d
           r == n % d
<1>1. q \in Nat /\ r \in Nat /\ r < d /\ d * q + r = n
  BY Division
<1> HIDE DEF q, r
<1>2. d * q \in Nat /\ d * lo \in Nat /\ d * hi \in Nat /\ lo * d = d * lo /\ hi * d = d * hi
  BY <1>1
<1>3. lo <= q
  <2>1. SUFFICES ASSUME q <= lo - 1 PROVE FALSE
    BY <1>1
  <2>2. d * q <= d * (lo - 1) /\ d * (lo - 1) = d * lo - d
    BY <1>1, <2>1
  <2>3. QED
    BY <1>1, <1>2, <2>2
<1>4. q <= hi
  <2>1. SUFFICES ASSUME q >= hi + 1 PROVE FALSE
    BY <1>1
  <2>2. d * q >= d * (hi + 1) /\ d * (hi + 1) = d * hi + d
    BY <1>1, <2>1
  <2>3. QED
    BY <1>1, <1>2, <2>2
<1>5. QED
  BY <1>1, <1>3, <1>4 DEF q

LEMMA DivExact ==
  ASSUME NEW d \in Nat, d > 0, NEW q \in Nat
  PROVE  (d * q) \div d = q
<1>1. d * q \in Nat /\ q * d <= d * q /\ d * q <= q * d
  OBVIOUS
<1>2. (d * q) \div d \in Nat /\ q <= (d * q) \div d /\ (d * q) \div d <= q
  BY <1>1, DivBetween
<1>3. QED
  BY <1>2

LEMMA Multiple ==
  ASSUME NEW n \in Nat, NEW d \in Nat, d > 0, n % d = 0
  PROVE  n \div d \in Nat /\ n = d * (n \div d)
<1>1. n \div d \in Nat /\ d * (n \div d) + (n % d) = n
  BY Division
<1>2. d * (n \div d) \in Nat
  BY <1>1
<1>3. QED
  BY <1>1, <1>2

\* A positive factor can be taken out of an inequality.
LEMMA CommonFactor ==
  ASSUME NEW t \in Nat, t > 0, NEW x \in Int, NEW lo \in Int, NEW hi \in Int,
         t * lo < t * x, t * x < t * hi
  PROVE  lo < x /\ x < hi
<1>1. lo < x
  <2>1. SUFFICES ASSUME lo >= x PROVE FALSE
    OBVIOUS
  <2>2. t * lo >= t * x
    BY <2>1
  <2>3. t * lo \in Int /\ t * x \in Int
    OBVIOUS
  <2>4. QED
    BY <2>2, <2>3
<1>2. x < hi
  <2>1. SUFFICES ASSUME x >= hi PROVE FALSE
    OBVIOUS
  <2>2. t * x >= t * hi
    BY <2>1
  <2>3. t * hi \in Int /\ t * x \in Int
    OBVIOUS
  <2>4. QED
    BY <2>2, <2>3
<1>3. QED
  BY <1>1, <1>2

LEMMA MinExists ==
  ASSUME NEW S \in SUBSET Nat, S # {}
  PROVE  Min(S) \in S /\ \A x \in S : Min(S) <= x
<1>1. \E x \in S : \A y \in S : x <= y
  BY LeastNatural
<1>2. Min(S) = CHOOSE x \in S : \A y \in S : x <= y
  BY DEF Min
<1>3. QED
  BY <1>1, <1>2

LEMMA GreatestOf ==
  ASSUME NEW D, IsFiniteSet(D), D # {}, NEW f, \A i \in D : f[i] \in Nat
  PROVE  /\ Max({f[i] : i \in D}) \in Nat
         /\ \E i \in D : Max({f[j] : j \in D}) = f[i]
         /\ \A i \in D : f[i] <= Max({f[j] : j \in D})
<1> DEFINE F == {f[i] : i \in D}
           h == [i \in D |-> f[i]]
<1>1. h \in Surjection(D, F)
  BY DEF Surjection
<1>2. IsFiniteSet(F)
  BY <1>1, FS_Surjection
<1>3. F \in SUBSET Int /\ F # {} /\ F \subseteq Nat /\ \A i \in D : f[i] \in F
  OBVIOUS
<1> HIDE DEF F
<1>4. Max(F) \in F /\ \A x \in F : Max(F) >= x
  BY <1>2, <1>3, MaxExists
<1>5. Max(F) \in Nat /\ \A i \in D : f[i] <= Max(F)
  BY <1>3, <1>4
<1>6. \E i \in D : Max(F) = f[i]
  BY <1>4 DEF F
<1>7. QED
  BY <1>5, <1>6 DEF F

LEMMA GreatestOfSome ==
  ASSUME NEW n \in Nat, n > 0, NEW f, \A i \in 1..n : f[i] \in Nat
  PROVE  /\ Max({f[i] : i \in 1..n}) \in Nat
         /\ \E i \in 1..n : Max({f[j] : j \in 1..n}) = f[i]
         /\ \A i \in 1..n : f[i] <= Max({f[j] : j \in 1..n})
<1>1. IsFiniteSet(1..n) /\ 1 \in 1..n
  BY IntervalFinite
<1>2. QED
  BY <1>1, GreatestOf

-----------------------------------------------------------------------------
(* Means that are cut off.                                                 *)

\* A mean lies between the bounds of what it is the mean of.
LEMMA MeanBounds ==
  ASSUME NEW n \in Nat, n > 0, NEW f, NEW lo \in Nat, NEW hi \in Nat,
         \A i \in 1..n : f[i] \in Nat /\ lo <= f[i] /\ f[i] <= hi
  PROVE  /\ SumOver(f, 1..n) \div n \in Nat
         /\ lo <= SumOver(f, 1..n) \div n /\ SumOver(f, 1..n) \div n <= hi
<1> DEFINE least == [i \in 1..n |-> lo]
           most == [i \in 1..n |-> hi]
<1>1. IsFiniteSet(1..n) /\ Cardinality(1..n) = n
  <2>1. 1 \in Int /\ n \in Int
    OBVIOUS
  <2>2. IsFiniteSet(1..n) /\ Cardinality(1..n) = IF 1 > n THEN 0 ELSE n - 1 + 1
    BY <2>1, FS_Interval
  <2>3. QED
    BY <2>2
<1>2. Summable(f, 1..n)
  BY <1>1 DEF Summable
<1>3. \A i \in 1..n : least[i] = lo /\ most[i] = hi
  OBVIOUS
<1> HIDE DEF least, most
<1>4. /\ Summable(least, 1..n) /\ SumOver(least, 1..n) = n * lo
      /\ Summable(most, 1..n) /\ SumOver(most, 1..n) = n * hi
  <2>1. ASSUME NEW c \in Nat, NEW e, \A i \in 1..n : e[i] = c
        PROVE  Summable(e, 1..n) /\ SumOver(e, 1..n) = n * c
    BY <1>1, <2>1, SumOfConstant
  <2>2. QED
    BY <1>3, <2>1
<1>5. SumOver(least, 1..n) <= SumOver(f, 1..n)
  BY <1>2, <1>3, SumOfLess
<1>6. SumOver(f, 1..n) \in Nat /\ SumOver(f, 1..n) <= SumOver(most, 1..n)
  BY <1>2, <1>3, <1>4, SumOfLess
<1>7. lo * n <= SumOver(f, 1..n) /\ SumOver(f, 1..n) <= hi * n
  BY <1>4, <1>5, <1>6
<1>8. QED
  BY <1>6, <1>7, DivBetween

\* x lies between two of the n values of f.
Between(x, f, n) == \E i, j \in 1..n : f[i] <= x /\ x <= f[j]

LEMMA Extremes ==
  ASSUME NEW n \in Nat, n > 0, NEW f, \A i \in 1..n : f[i] \in Nat
  PROVE  \E i, j \in 1..n : \A k \in 1..n : f[i] <= f[k] /\ f[k] <= f[j]
<1> DEFINE F == {f[i] : i \in 1..n}
<1>1. F \in SUBSET Nat /\ F # {}
  <2>1. 1 \in 1..n
    OBVIOUS
  <2>2. QED
    BY <2>1
<1>2. \E x \in F : \A y \in F : x <= y
  <2> HIDE DEF F
  <2>1. QED
    BY <1>1, LeastNatural
<1>3. \E i \in 1..n : \A k \in 1..n : f[i] <= f[k]
  BY <1>2
<1>4. \E j \in 1..n : \A k \in 1..n : f[k] <= f[j]
  <2>1. PICK j \in 1..n : Max({f[k] : k \in 1..n}) = f[j]
    BY GreatestOfSome
  <2>2. \A k \in 1..n : f[k] <= Max({f[i] : i \in 1..n})
    BY GreatestOfSome
  <2>3. QED
    BY <2>1, <2>2
<1>5. QED
  BY <1>3, <1>4

\* A mean lies between two of the numbers it is the mean of.
LEMMA MeanBetween ==
  ASSUME NEW n \in Nat, n > 0, NEW f, \A i \in 1..n : f[i] \in Nat
  PROVE  SumOver(f, 1..n) \div n \in Nat /\ Between(SumOver(f, 1..n) \div n, f, n)
<1>1. PICK i \in 1..n, j \in 1..n : \A k \in 1..n : f[i] <= f[k] /\ f[k] <= f[j]
  BY Extremes
<1>2. f[i] \in Nat /\ f[j] \in Nat
  OBVIOUS
<1>3. ASSUME NEW lo \in Nat, NEW hi \in Nat, lo = f[i], hi = f[j]
      PROVE  /\ SumOver(f, 1..n) \div n \in Nat
             /\ lo <= SumOver(f, 1..n) \div n /\ SumOver(f, 1..n) \div n <= hi
  <2>1. \A k \in 1..n : f[k] \in Nat /\ lo <= f[k] /\ f[k] <= hi
    BY <1>1, <1>3
  <2>2. QED
    BY <2>1, MeanBounds
<1>4. QED
  BY <1>2, <1>3 DEF Between

\* The order of two sums does not matter.
LEMMA SumsSwap ==
  ASSUME NEW I, IsFiniteSet(I), NEW J, IsFiniteSet(J), NEW a, \A i \in I, j \in J : a[i][j] \in Nat
  PROVE  SumOver([i \in I |-> SumOver(a[i], J)], I)
           = SumOver([j \in J |-> SumOver([i \in I |-> a[i][j]], I)], J)
<1> DEFINE f == [i \in I |-> SumOver(a[i], J)]
           col == [j \in J |-> [i \in I |-> a[i][j]]]
           Cols(s) == [j \in J |-> SumOver(col[j], s)]
           h == [s \in SUBSET I |-> SumOver(Cols(s), J)]
<1>1. \A i \in I : Summable(a[i], J) /\ f[i] \in Nat
  <2>1. \A i \in I : Summable(a[i], J)
    BY DEF Summable
  <2>2. QED
    BY <2>1, SumIsNat
<1>2. Summable(f, I)
  BY <1>1 DEF Summable
<1>3. \A s \in SUBSET I, j \in J : Summable(col[j], s) /\ SumOver(col[j], s) \in Nat
  <2>1. \A s \in SUBSET I, j \in J : Summable(col[j], s)
    BY FS_Subset DEF Summable
  <2>2. QED
    BY <2>1, SumIsNat
<1>4. \A i \in I, j \in J : col[j][i] = a[i][j]
  OBVIOUS
<1>5. \A i \in I : f[i] = SumOver(a[i], J)
  OBVIOUS
<1> HIDE DEF col, f
<1>6. \A s \in SUBSET I : Summable(Cols(s), J)
  BY <1>3 DEF Summable
<1>7. h[{}] = 0
  <2>1. \A j \in J : Cols({})[j] = 0
    BY SumOfNone
  <2> HIDE DEF Cols
  <2>2. SumOver(Cols({}), J) = 0
    BY <2>1, SumOfZeros
  <2>3. QED
    BY <2>2
<1>8. ASSUME NEW s \in SUBSET I, NEW x \in s
      PROVE  h[s] = f[x] + h[s \ {x}]
  <2>1. s \ {x} \in SUBSET I /\ x \in I
    OBVIOUS
  <2>2. \A j \in J : Cols(s)[j] = a[x][j] + Cols(s \ {x})[j]
    <3>1. SUFFICES ASSUME NEW j \in J PROVE SumOver(col[j], s) = a[x][j] + SumOver(col[j], s \ {x})
      OBVIOUS
    <3>2. Summable(col[j], s)
      BY <1>3
    <3>3. SumOver(col[j], s) = col[j][x] + SumOver(col[j], s \ {x})
      BY <3>2, SumStep
    <3>4. QED
      BY <1>4, <2>1, <3>3
  <2> HIDE DEF Cols
  <2>3. ASSUME NEW e, NEW p, NEW q, e = Cols(s), p = a[x], q = Cols(s \ {x})
        PROVE  SumOver(e, J) = SumOver(p, J) + SumOver(q, J)
    <3>1. Summable(p, J) /\ Summable(q, J) /\ \A j \in J : e[j] = p[j] + q[j]
      BY <1>1, <1>6, <2>1, <2>2, <2>3
    <3>2. QED
      BY <3>1, SumOfSums
  <2>4. QED
    BY <1>5, <2>1, <2>3
<1>9. Solves(h, f, I)
  <2>1. h = [s \in SUBSET I |-> h[s]]
    OBVIOUS
  <2> HIDE DEF h
  <2>2. QED
    BY <1>7, <1>8, <2>1 DEF Solves
<1>10. SumOver(f, I) = h[I]
  <2> HIDE DEF h
  <2>1. QED
    BY <1>2, <1>9, SumSolves
<1>11. h[I] = SumOver(Cols(I), J)
  OBVIOUS
<1>12. QED
  BY <1>10, <1>11 DEF f, col

\* K rounds of the n cores of a set D: a[i][k] is what core i does in round k, u[k] the mean of round k,
\* cut off.  The mean of the means is that of the cores' means, up to the cuts.
LEMMA CutsAddUp ==
  ASSUME NEW D, IsFiniteSet(D), NEW n \in Nat, n > 0, Cardinality(D) = n, NEW K \in Nat, K > 0, NEW a, NEW u,
         \A i \in D, k \in 1..K : a[i][k] \in Nat,
         \A k \in 1..K : /\ u[k] \in Nat
                         /\ n * u[k] <= SumOver([i \in D |-> a[i][k]], D)
                         /\ SumOver([i \in D |-> a[i][k]], D) <= n * u[k] + (n - 1)
  PROVE  LET U == SumOver(u, 1..K) \div K
             C == SumOver([i \in D |-> SumOver(a[i], 1..K) \div K], D)
         IN  C \in Nat /\ U \in Nat /\ C - 2 * n < n * U /\ n * U < C + n
<1> DEFINE I == D
           J == 1..K
           row == [i \in I |-> SumOver(a[i], J)]
           S == [k \in J |-> SumOver([i \in I |-> a[i][k]], I)]
           c == [i \in I |-> SumOver(a[i], J) \div K]
           A == SumOver(row, I)
           V == SumOver(u, J)
           U == V \div K
           C == SumOver(c, I)
<1>0. ASSUME NEW m \in Nat
      PROVE  m \div K \in Nat /\ K * (m \div K) <= m /\ m <= K * (m \div K) + (K - 1)
  <2>1. m \div K \in Nat /\ m % K \in Nat /\ m % K < K /\ K * (m \div K) + (m % K) = m
    BY Division
  <2>2. K * (m \div K) \in Nat
    BY <2>1
  <2>3. QED
    BY <2>1, <2>2
<1>1. IsFiniteSet(I) /\ Cardinality(I) = n /\ IsFiniteSet(J) /\ Cardinality(J) = K
  <2>1. ASSUME NEW m \in Nat
        PROVE  IsFiniteSet(1..m) /\ Cardinality(1..m) = m
    <3>1. 1 \in Int /\ m \in Int
      OBVIOUS
    <3>2. IsFiniteSet(1..m) /\ Cardinality(1..m) = IF 1 > m THEN 0 ELSE m - 1 + 1
      BY <3>1, FS_Interval
    <3>3. QED
      BY <3>2
  <2>2. QED
    BY <2>1
<1>2. A = SumOver(S, J)
  BY <1>1, SumsSwap
<1>3. \A i \in I : row[i] \in Nat /\ c[i] = row[i] \div K
  <2>1. \A i \in I : Summable(a[i], J)
    BY <1>1 DEF Summable
  <2>2. QED
    BY <2>1, SumIsNat
<1>4. \A k \in J : u[k] \in Nat /\ n * u[k] <= S[k] /\ S[k] <= n * u[k] + (n - 1)
  OBVIOUS
<1>5. \A k \in J : S[k] \in Nat
  <2>1. SUFFICES ASSUME NEW k \in J PROVE SumOver([i \in I |-> a[i][k]], I) \in Nat
    OBVIOUS
  <2>2. Summable([i \in I |-> a[i][k]], I)
    BY <1>1 DEF Summable
  <2>3. QED
    BY <2>2, SumIsNat
<1> HIDE DEF I, J, row, S, c
<1>6. \A i \in I : c[i] \in Nat /\ K * c[i] <= row[i] /\ row[i] <= K * c[i] + (K - 1)
  <2>1. SUFFICES ASSUME NEW i \in I
                 PROVE  c[i] \in Nat /\ K * c[i] <= row[i] /\ row[i] <= K * c[i] + (K - 1)
    OBVIOUS
  <2>2. row[i] \in Nat /\ c[i] = row[i] \div K
    BY <1>3
  <2>3. QED
    BY <1>0, <2>2
<1>7. /\ Summable(row, I) /\ Summable(c, I) /\ Summable(u, J) /\ Summable(S, J)
      /\ A \in Nat /\ V \in Nat /\ C \in Nat
  <2>1. Summable(row, I) /\ Summable(c, I) /\ Summable(u, J) /\ Summable(S, J)
    BY <1>1, <1>3, <1>4, <1>5, <1>6 DEF Summable
  <2>2. QED
    BY <2>1, SumIsNat
\* What a cut takes of each of some sums, it takes of their sum.
<1>8. ASSUME NEW E, IsFiniteSet(E), NEW d \in Nat, NEW w, Summable(w, E), NEW p \in Nat, p > 0, NEW x, Summable(x, E),
             Cardinality(E) = d, \A i \in E : p * x[i] <= w[i] /\ w[i] <= p * x[i] + (p - 1)
      PROVE  p * SumOver(x, E) <= SumOver(w, E) /\ SumOver(w, E) <= p * SumOver(x, E) + d * (p - 1)
  <2> DEFINE px == [i \in E |-> p * x[i]]
             rest == [i \in E |-> p - 1]
             all == [i \in E |-> px[i] + rest[i]]
  <2>1. \A i \in E : px[i] = p * x[i] /\ rest[i] = p - 1 /\ all[i] = px[i] + rest[i]
    OBVIOUS
  <2>2. \A i \in E : w[i] \in Nat /\ x[i] \in Nat
    BY <1>8 DEF Summable
  <2>3. \A i \in E : px[i] \in Nat
    BY <2>1, <2>2
  <2> HIDE DEF px, rest, all
  <2>4. Summable(px, E) /\ SumOver(px, E) = p * SumOver(x, E)
    BY <1>8, <2>1, SumOfMultiples
  <2>5. Summable(rest, E) /\ SumOver(rest, E) = d * (p - 1)
    <3>1. ASSUME NEW m \in Nat, m = p - 1
          PROVE  Summable(rest, E) /\ SumOver(rest, E) = Cardinality(E) * m
      <4>1. \A i \in E : rest[i] = m
        BY <2>1, <3>1
      <4>2. QED
        BY <1>8, <4>1, SumOfConstant
    <3>2. p - 1 \in Nat
      BY <1>8
    <3>3. QED
      BY <1>8, <3>1, <3>2
  <2>6. Summable(all, E) /\ SumOver(all, E) = SumOver(px, E) + SumOver(rest, E)
    BY <2>1, <2>4, <2>5, SumOfSums
  <2>7. SumOver(px, E) <= SumOver(w, E)
    <3>1. \A i \in E : px[i] \in Nat /\ px[i] <= w[i]
      BY <1>8, <2>1, <2>3
    <3>2. QED
      BY <1>8, <3>1, SumOfLess
  <2>8. SumOver(w, E) <= SumOver(all, E)
    <3>1. \A i \in E : w[i] \in Nat /\ w[i] <= all[i]
      BY <1>8, <2>1, <2>2
    <3>2. QED
      BY <2>6, <3>1, SumOfLess
  <2>9. QED
    BY <2>4, <2>5, <2>6, <2>7, <2>8
<1>9. K * C <= A /\ A <= K * C + n * (K - 1)
  BY <1>1, <1>6, <1>7, <1>8
<1>10. n * V <= A /\ A <= n * V + K * (n - 1)
  <2>1. n * V <= SumOver(S, J) /\ SumOver(S, J) <= n * V + K * (n - 1)
    BY <1>1, <1>4, <1>7, <1>8
  <2>2. QED
    BY <1>2, <2>1
<1> HIDE DEF A, V, C
<1>11. U \in Nat /\ K * U <= V /\ V <= K * U + (K - 1)
  BY <1>0, <1>7
<1> HIDE DEF U
<1>12. /\ n * (K * U) <= n * V /\ n * V <= n * (K * U) + n * (K - 1)
  <2>1. ASSUME NEW b \in Nat, NEW e \in Nat, b <= e
        PROVE  n * b <= n * e
    BY <2>1
  <2>2. K * U \in Nat /\ K * U + (K - 1) \in Nat
    BY <1>11
  <2>3. n * (K * U) <= n * V /\ n * V <= n * (K * U + (K - 1))
    BY <1>7, <1>11, <2>1, <2>2
  <2>4. n * (K * U + (K - 1)) = n * (K * U) + n * (K - 1)
    BY <2>2
  <2>5. QED
    BY <2>3, <2>4
<1>13. /\ n * (K * U) = K * (n * U) /\ n * (K - 1) = K * n - n /\ K * (n - 1) = K * n - K
       /\ K * (C + n) = K * C + K * n /\ K * (C - 2 * n) = K * C - 2 * (K * n)
       /\ K * (n * U) \in Nat /\ K * n \in Nat /\ K * C \in Nat /\ n * V \in Nat /\ n * U \in Nat
  BY <1>7, <1>11
<1>14. K * (C - 2 * n) < K * (n * U) /\ K * (n * U) < K * (C + n)
  BY <1>7, <1>9, <1>10, <1>12, <1>13
<1>15. C - 2 * n < n * U /\ n * U < C + n
  <2>1. C - 2 * n \in Int /\ C + n \in Int /\ n * U \in Int
    BY <1>7, <1>13
  <2>2. QED
    BY <1>14, <2>1, CommonFactor
<1>16. QED
  BY <1>7, <1>11, <1>15 DEF C, U, V, c, I, J
=============================================================================

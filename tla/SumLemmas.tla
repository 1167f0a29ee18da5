------------------------------ MODULE SumLemmas ------------------------------
(***************************************************************************)
(* What SumFunctionOnSet computes: the sum of a function over a finite set *)
(* does not depend on the order in which the elements are taken.  It is a  *)
(* recursive function on the subsets of the set; it exists because every   *)
(* step removes an element, and facts about it follow by taking a smallest *)
(* subset for which they would fail.                                       *)
(***************************************************************************)
EXTENDS FiniteSetsExt, FiniteSetTheorems, TLAPS

\* The element the sum takes first.
Pick(s) == CHOOSE x \in s : TRUE

\* g sums f over the sets in D.
IsSum(g, f, D) ==
  g = [s \in D |-> IF s = {} THEN 0 ELSE f[Pick(s)] + g[s \ {Pick(s)}]]

-----------------------------------------------------------------------------
\* Of the subsets of a finite set with some property, one has none below it.
LEMMA SmallestSubset ==
  ASSUME NEW S, IsFiniteSet(S), NEW C \in SUBSET SUBSET S, C # {}
  PROVE  \E T \in C : \A U \in C : ~(U \subseteq T /\ U # T)
<1>1. IsWellFoundedOn(StrictSubsetOrdering(S), SUBSET S)
  BY FS_StrictSubsetOrderingWellFounded, FS_FiniteSubsetsOfFinite
<1>2. PICK T \in C : \A U \in C : <<U, T>> \notin StrictSubsetOrdering(S)
  BY <1>1, WFMin
<1>3. QED
  BY <1>2 DEF StrictSubsetOrdering

\* Of a set of numbers, one is the least.
LEMMA LeastNumber ==
  ASSUME NEW P \in SUBSET Nat, P # {}
  PROVE  \E i \in P : \A j \in P : ~(j < i)
<1>1. PICK i \in P : \A j \in P : <<j, i>> \notin OpToRel(<, Nat)
  BY NatLessThanWellFounded, WFMin
<1>2. QED
  BY <1>1 DEF OpToRel

LEMMA PickIn == ASSUME NEW s, s # {} PROVE Pick(s) \in s
BY DEF Pick

\* The sums over all sets of at most k elements exist together.
LEMMA SumsExist ==
  ASSUME NEW f, NEW S, IsFiniteSet(S)
  PROVE  \E g : IsSum(g, f, SUBSET S)
<1> DEFINE D(k) == {s \in SUBSET S : Cardinality(s) <= k}
           Bad == {k \in Nat : ~ \E g : IsSum(g, f, D(k))}
<1>1. \A s \in SUBSET S : IsFiniteSet(s) /\ Cardinality(s) \in Nat /\ Cardinality(s) <= Cardinality(S)
  BY FS_Subset, FS_CardinalityType
<1>2. Bad = {}
  <2>1. SUFFICES ASSUME Bad # {} PROVE FALSE
    OBVIOUS
  <2>2. PICK k \in Bad : \A j \in Bad : ~(j < k)
    <3>1. Bad \in SUBSET Nat
      OBVIOUS
    <3> HIDE DEF Bad
    <3>2. QED
      BY <2>1, <3>1, LeastNumber
  <2>3. \E g : IsSum(g, f, D(k))
    <3>1. CASE k = 0
      <4> DEFINE g == [s \in D(0) |-> 0]
      <4>1. \A s \in D(0) : s = {}
        BY <1>1, FS_EmptySet
      <4>2. IsSum(g, f, D(0))
        BY <4>1 DEF IsSum
      <4> HIDE DEF g, D
      <4>3. QED
        BY <3>1, <4>2
    <3>2. CASE k # 0
      <4>1. k - 1 \in Nat /\ k - 1 \notin Bad
        <5>1. k \in Nat /\ k - 1 \in Nat /\ k - 1 < k
          BY <3>2
        <5> HIDE DEF Bad
        <5>2. QED
          BY <2>2, <5>1
      <4>2. PICK g : IsSum(g, f, D(k - 1))
        BY <4>1
      <4> DEFINE h == [s \in D(k) |-> IF s = {} THEN 0 ELSE f[Pick(s)] + g[s \ {Pick(s)}]]
      <4>3. ASSUME NEW s \in D(k), s # {}
            PROVE  s \ {Pick(s)} \in D(k - 1) /\ s \ {Pick(s)} \in D(k)
        <5>1. Pick(s) \in s
          BY <4>3, PickIn
        <5>2. Cardinality(s \ {Pick(s)}) = Cardinality(s) - 1
          BY <1>1, <5>1, FS_RemoveElement
        <5>3. QED
          BY <1>1, <2>2, <5>2
      <4>4. \A s \in D(k - 1) : s \in D(k)
        BY <1>1, <2>2
      <4>5. \A s \in D(k - 1) : g[s] = h[s]
        BY <4>2, <4>4 DEF IsSum
      <4>6. IsSum(h, f, D(k))
        BY <4>3, <4>5 DEF IsSum
      <4> HIDE DEF h, D
      <4>7. QED
        BY <4>6
    <3>3. QED
      BY <3>1, <3>2
  <2>4. QED
    BY <2>2, <2>3
<1>3. D(Cardinality(S)) = SUBSET S
  BY <1>1
<1>4. Cardinality(S) \in Nat /\ Cardinality(S) \notin Bad
  BY <1>1, <1>2
<1>5. \E g : IsSum(g, f, D(Cardinality(S)))
  BY <1>4
<1> HIDE DEF D
<1>6. QED
  BY <1>3, <1>5

-----------------------------------------------------------------------------
\* What the operator is: the value of such a sum at the set.
LEMMA SumIs ==
  ASSUME NEW f, NEW S, IsFiniteSet(S)
  PROVE  \E g : IsSum(g, f, SUBSET S) /\ SumFunctionOnSet(f, S) = g[S]
<1> DEFINE g == CHOOSE h : IsSum(h, f, SUBSET S)
<1>1. IsSum(g, f, SUBSET S)
  BY SumsExist
<1>2. SumFunctionOnSet(f, S) = g[S]
  BY DEF SumFunctionOnSet, FoldFunctionOnSet, MapThenFoldSet, IsSum, Pick
<1> HIDE DEF g
<1>3. QED
  BY <1>1, <1>2

LEMMA SumEmpty == ASSUME NEW f PROVE SumFunctionOnSet(f, {}) = 0
<1>1. PICK g : IsSum(g, f, SUBSET {}) /\ SumFunctionOnSet(f, {}) = g[{}]
  BY SumIs, FS_EmptySet
<1>2. QED
  BY <1>1 DEF IsSum

\* It is the value of the sum over any larger set, too.
LEMMA SumWithin ==
  ASSUME NEW f, NEW S, IsFiniteSet(S), NEW T \in SUBSET S,
         NEW g, IsSum(g, f, SUBSET S)
  PROVE  SumFunctionOnSet(f, T) = g[T]
<1>1. IsFiniteSet(T)
  BY FS_Subset
<1>2. PICK h : IsSum(h, f, SUBSET T) /\ SumFunctionOnSet(f, T) = h[T]
  BY <1>1, SumIs
<1>3. \A s \in SUBSET T : g[s] = h[s]
  <2> DEFINE C == {s \in SUBSET T : g[s] # h[s]}
  <2>1. SUFFICES ASSUME C # {} PROVE FALSE
    OBVIOUS
  <2>2. PICK s \in C : \A u \in C : ~(u \subseteq s /\ u # s)
    <3>1. C \in SUBSET SUBSET T /\ IsFiniteSet(T)
      BY FS_Subset
    <3> HIDE DEF C
    <3>2. QED
      BY <2>1, <3>1, SmallestSubset
  <2>3. s # {} /\ s \in SUBSET S
    BY <1>2 DEF IsSum
  <2>4. s \ {Pick(s)} \in SUBSET T /\ g[s \ {Pick(s)}] = h[s \ {Pick(s)}]
    BY <2>2, <2>3, PickIn
  <2>5. QED
    BY <1>2, <2>3, <2>4 DEF IsSum
<1>4. QED
  BY <1>2, <1>3

LEMMA SumFirst ==
  ASSUME NEW f, NEW S, IsFiniteSet(S), S # {}
  PROVE  SumFunctionOnSet(f, S) = f[Pick(S)] + SumFunctionOnSet(f, S \ {Pick(S)})
<1>1. PICK g : IsSum(g, f, SUBSET S) /\ SumFunctionOnSet(f, S) = g[S]
  BY SumIs
<1>2. S \ {Pick(S)} \in SUBSET S
  OBVIOUS
<1>3. SumFunctionOnSet(f, S \ {Pick(S)}) = g[S \ {Pick(S)}]
  BY <1>1, <1>2, SumWithin
<1>4. g[S] = f[Pick(S)] + g[S \ {Pick(S)}]
  BY <1>1 DEF IsSum
<1>5. QED
  BY <1>1, <1>3, <1>4

\* A sum of numbers is a number.
LEMMA SumInt ==
  ASSUME NEW f, NEW S, IsFiniteSet(S), \A x \in S : f[x] \in Int
  PROVE  SumFunctionOnSet(f, S) \in Int
<1> DEFINE C == {s \in SUBSET S : SumFunctionOnSet(f, s) \notin Int}
<1>1. SUFFICES ASSUME C # {} PROVE FALSE
  OBVIOUS
<1>2. PICK s \in C : \A u \in C : ~(u \subseteq s /\ u # s)
  <2> HIDE DEF C
  <2>1. C \in SUBSET SUBSET S
    BY DEF C
  <2>2. QED
    BY <1>1, <2>1, SmallestSubset
<1>3. s # {} /\ IsFiniteSet(s) /\ s \in SUBSET S
  <2>1. SumFunctionOnSet(f, s) # SumFunctionOnSet(f, {})
    BY SumEmpty
  <2>2. QED
    BY <2>1, FS_Subset
<1>4. Pick(s) \in s /\ SumFunctionOnSet(f, s \ {Pick(s)}) \in Int
  BY <1>2, <1>3, PickIn
<1>5. SumFunctionOnSet(f, s) = f[Pick(s)] + SumFunctionOnSet(f, s \ {Pick(s)})
  BY <1>3, SumFirst
<1>6. SumFunctionOnSet(f, s) \in Int
  BY <1>3, <1>4, <1>5
<1>7. QED
  BY <1>2, <1>6

\* Any element can be taken first.
LEMMA SumSplit ==
  ASSUME NEW f, NEW S, IsFiniteSet(S), \A x \in S : f[x] \in Int, NEW x \in S
  PROVE  SumFunctionOnSet(f, S) = f[x] + SumFunctionOnSet(f, S \ {x})
<1> DEFINE Rest(s, y) == SumFunctionOnSet(f, s \ {y})
           C == {s \in SUBSET S : \E y \in s : SumFunctionOnSet(f, s) # f[y] + Rest(s, y)}
<1>1. SUFFICES ASSUME C # {} PROVE FALSE
  OBVIOUS
<1>2. PICK s \in C : \A u \in C : ~(u \subseteq s /\ u # s)
  <2>1. C \in SUBSET SUBSET S
    OBVIOUS
  <2> HIDE DEF C
  <2>2. QED
    BY <1>1, <2>1, SmallestSubset
<1>3. PICK y \in s : SumFunctionOnSet(f, s) # f[y] + Rest(s, y)
  BY <1>2
<1> DEFINE c == Pick(s)
<1>4. s \in SUBSET S /\ IsFiniteSet(s) /\ c \in s
  BY <1>3, FS_Subset, PickIn
<1>5. SumFunctionOnSet(f, s) = f[c] + Rest(s, c)
  BY <1>3, <1>4, SumFirst
<1>6. c # y
  BY <1>3, <1>5
<1>7. s \ {c} \notin C /\ s \ {y} \notin C
  BY <1>2, <1>3, <1>4
<1>8. Rest(s, c) = f[y] + SumFunctionOnSet(f, (s \ {c}) \ {y})
  BY <1>3, <1>4, <1>6, <1>7
<1>9. Rest(s, y) = f[c] + SumFunctionOnSet(f, (s \ {y}) \ {c})
  BY <1>3, <1>4, <1>6, <1>7
<1>10. (s \ {y}) \ {c} = (s \ {c}) \ {y}
  OBVIOUS
<1>11. SumFunctionOnSet(f, (s \ {c}) \ {y}) \in Int
  <2>1. (s \ {c}) \ {y} \in SUBSET S /\ IsFiniteSet((s \ {c}) \ {y})
    BY <1>4, FS_Subset
  <2>2. QED
    BY <2>1, SumInt
<1>12. PICK n \in Int : n = SumFunctionOnSet(f, (s \ {c}) \ {y})
  BY <1>11
<1>13. /\ SumFunctionOnSet(f, s) = f[c] + (f[y] + n)
       /\ f[y] + Rest(s, y) = f[y] + (f[c] + n)
       /\ f[y] \in Int /\ f[c] \in Int
  BY <1>3, <1>4, <1>5, <1>8, <1>9, <1>10, <1>12
<1>14. f[y] + (f[c] + n) = f[c] + (f[y] + n)
  BY <1>12, <1>13
<1>15. QED
  BY <1>3, <1>13, <1>14

\* A sum of natural numbers is one, and no less than any of them.
LEMMA SumNat ==
  ASSUME NEW f, NEW S, IsFiniteSet(S), \A x \in S : f[x] \in Nat
  PROVE  /\ SumFunctionOnSet(f, S) \in Nat
         /\ \A x \in S : f[x] <= SumFunctionOnSet(f, S)
<1> DEFINE C == {s \in SUBSET S : SumFunctionOnSet(f, s) \notin Nat}
<1>1. C = {}
  <2>1. SUFFICES ASSUME C # {} PROVE FALSE
    OBVIOUS
  <2>2. PICK s \in C : \A u \in C : ~(u \subseteq s /\ u # s)
    <3>1. C \in SUBSET SUBSET S
      OBVIOUS
    <3> HIDE DEF C
    <3>2. QED
      BY <2>1, <3>1, SmallestSubset
  <2>3. s # {} /\ IsFiniteSet(s) /\ s \in SUBSET S
    <3>1. SumFunctionOnSet(f, s) # SumFunctionOnSet(f, {})
      BY SumEmpty
    <3>2. QED
      BY <3>1, FS_Subset
  <2>4. Pick(s) \in s /\ SumFunctionOnSet(f, s \ {Pick(s)}) \in Nat
    BY <2>2, <2>3, PickIn
  <2>5. SumFunctionOnSet(f, s) = f[Pick(s)] + SumFunctionOnSet(f, s \ {Pick(s)})
    BY <2>3, SumFirst
  <2>6. SumFunctionOnSet(f, s) \in Nat
    BY <2>3, <2>4, <2>5
  <2>7. QED
    BY <2>2, <2>6
<1>2. \A s \in SUBSET S : SumFunctionOnSet(f, s) \in Nat
  BY <1>1
<1>3. ASSUME NEW x \in S PROVE f[x] <= SumFunctionOnSet(f, S)
  <2>1. SumFunctionOnSet(f, S) = f[x] + SumFunctionOnSet(f, S \ {x})
    BY SumSplit
  <2>2. SumFunctionOnSet(f, S \ {x}) \in Nat /\ f[x] \in Nat
    BY <1>2
  <2>3. QED
    BY <2>1, <2>2
<1>4. QED
  BY <1>2, <1>3

\* A sum of nothings is nothing.
LEMMA SumZero ==
  ASSUME NEW f, NEW S, IsFiniteSet(S), \A x \in S : f[x] = 0
  PROVE  SumFunctionOnSet(f, S) = 0
<1> DEFINE C == {s \in SUBSET S : SumFunctionOnSet(f, s) # 0}
<1>1. SUFFICES ASSUME C # {} PROVE FALSE
  OBVIOUS
<1>2. PICK s \in C : \A u \in C : ~(u \subseteq s /\ u # s)
  <2>1. C \in SUBSET SUBSET S
    OBVIOUS
  <2> HIDE DEF C
  <2>2. QED
    BY <1>1, <2>1, SmallestSubset
<1>3. PICK x \in s : TRUE
  BY <1>2, SumEmpty
<1>4. SumFunctionOnSet(f, s) = f[x] + SumFunctionOnSet(f, s \ {x})
  BY <1>2, FS_Subset, SumSplit
<1>5. SumFunctionOnSet(f, s \ {x}) = 0
  BY <1>2
<1>6. QED
  BY <1>2, <1>4, <1>5

\* A sum with one term in it is that term.
LEMMA SumOne ==
  ASSUME NEW f, NEW S, IsFiniteSet(S), NEW x \in S, f[x] \in Int,
         \A y \in S \ {x} : f[y] = 0
  PROVE  SumFunctionOnSet(f, S) = f[x]
<1>1. IsFiniteSet(S \ {x}) /\ \A y \in S : f[y] \in Int
  BY FS_Subset
<1>2. SumFunctionOnSet(f, S \ {x}) = 0
  BY <1>1, SumZero
<1>3. QED
  BY <1>1, <1>2, SumSplit

\* Functions that agree on a set have the same sum over it.
LEMMA SumSame ==
  ASSUME NEW f, NEW h, NEW S, IsFiniteSet(S), \A x \in S : f[x] = h[x]
  PROVE  SumFunctionOnSet(f, S) = SumFunctionOnSet(h, S)
<1> DEFINE C == {s \in SUBSET S : SumFunctionOnSet(f, s) # SumFunctionOnSet(h, s)}
<1>1. SUFFICES ASSUME C # {} PROVE FALSE
  OBVIOUS
<1>2. PICK s \in C : \A u \in C : ~(u \subseteq s /\ u # s)
  <2>1. C \in SUBSET SUBSET S
    OBVIOUS
  <2> HIDE DEF C
  <2>2. QED
    BY <1>1, <2>1, SmallestSubset
<1>3. s # {} /\ IsFiniteSet(s) /\ s \in SUBSET S
  <2>1. SumFunctionOnSet(f, {}) = 0 /\ SumFunctionOnSet(h, {}) = 0
    BY SumEmpty
  <2>2. QED
    BY <2>1, FS_Subset
<1>4. /\ Pick(s) \in s
      /\ SumFunctionOnSet(f, s \ {Pick(s)}) = SumFunctionOnSet(h, s \ {Pick(s)})
  BY <1>2, <1>3, PickIn
<1>5. /\ SumFunctionOnSet(f, s) = f[Pick(s)] + SumFunctionOnSet(f, s \ {Pick(s)})
      /\ SumFunctionOnSet(h, s) = h[Pick(s)] + SumFunctionOnSet(h, s \ {Pick(s)})
  BY <1>3, SumFirst
<1>6. QED
  BY <1>2, <1>3, <1>4, <1>5

\* One new element adds its value, whatever the function gives elsewhere.
LEMMA SumAdd ==
  ASSUME NEW f, NEW h, NEW S, IsFiniteSet(S), NEW x, x \notin S,
         \A y \in S : f[y] = h[y], \A y \in S \cup {x} : h[y] \in Int
  PROVE  SumFunctionOnSet(h, S \cup {x}) = SumFunctionOnSet(f, S) + h[x]
<1>1. IsFiniteSet(S \cup {x}) /\ (S \cup {x}) \ {x} = S
  BY FS_AddElement
<1>2. SumFunctionOnSet(h, S \cup {x}) = h[x] + SumFunctionOnSet(h, (S \cup {x}) \ {x})
  BY <1>1, SumSplit
<1>3. SumFunctionOnSet(h, S) = SumFunctionOnSet(f, S)
  BY SumSame
<1>4. SumFunctionOnSet(h, S) \in Int
  BY SumInt
<1>5. SumFunctionOnSet(h, S \cup {x}) = h[x] + SumFunctionOnSet(f, S)
  BY <1>1, <1>2, <1>3
<1>6. QED
  BY <1>3, <1>4, <1>5
=============================================================================

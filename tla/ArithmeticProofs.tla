-------------------------- MODULE ArithmeticProofs --------------------------
(***************************************************************************)
(* The laws of a sum over a finite set, and what the cascade of            *)
(* allocatePayment and the capital and interest of splitAllocations do,    *)
(* for every plan and every amount.                                        *)
(*                                                                         *)
(* MapThenSumSet is defined by recursion on subsets, which is a choice of  *)
(* a function that satisfies an equation: the proofs show that such a      *)
(* function exists and that any two agree, by a smallest counterexample,   *)
(* then the laws the same way.                                             *)
(***************************************************************************)
EXTENDS Portfolio, FiniteSetTheorems, WellFoundedInduction, TLAPS

\* A set of subsets of a finite set has a smallest one.
LEMMA SmallestSubset ==
  ASSUME NEW S, IsFiniteSet(S), NEW B \in SUBSET SUBSET S, B # {}
  PROVE  \E T \in B : \A U \in B : U \subseteq T => U = T
<1>1. IsWellFoundedOn(StrictSubsetOrdering(S), SUBSET S)
  BY FS_StrictSubsetOrderingWellFounded, FS_FiniteSubsetsOfFinite
<1>2. PICK T \in B : \A U \in B : ~ (<<U, T>> \in StrictSubsetOrdering(S))
  BY <1>1, WFMin
<1>3. \A U \in B : U \subseteq T => U = T
  BY <1>2 DEF StrictSubsetOrdering
<1> QED
  BY <1>3

\* The element the recursion takes out of a set, and the equation of the recursion.
First(s) == CHOOSE x \in s : TRUE

IsIter(g, f, S) ==
  g = [s \in SUBSET S |-> IF s = {} THEN 0 ELSE f[First(s)] + g[s \ {First(s)}]]

LEMMA SumIsIter ==
  ASSUME NEW f, NEW S
  PROVE  SumOver(f, S) = (CHOOSE g : IsIter(g, f, S))[S]
  BY Zenon DEF SumOver, MapThenSumSet, MapThenFoldSet, IsIter, First

LEMMA FirstIn ==
  ASSUME NEW s, s # {}
  PROVE  First(s) \in s
  BY DEF First

LEMMA IterValue ==
  ASSUME NEW f, NEW S, NEW g, IsIter(g, f, S), NEW s \in SUBSET S
  PROVE  g[s] = IF s = {} THEN 0 ELSE f[First(s)] + g[s \ {First(s)}]
  BY DEF IsIter

\* Two solutions agree where both are defined.
LEMMA IterUnique ==
  ASSUME NEW f, NEW S, IsFiniteSet(S), NEW T \in SUBSET S,
         NEW g, IsIter(g, f, S), NEW h, IsIter(h, f, T)
  PROVE  \A s \in SUBSET T : g[s] = h[s]
<1> DEFINE B == {s \in SUBSET T : g[s] # h[s]}
<1> SUFFICES ASSUME B # {} PROVE FALSE
  OBVIOUS
<1>1. IsFiniteSet(T)
  BY FS_Subset
<1>2. PICK s \in B : \A u \in B : u \subseteq s => u = s
  <2>1. B \in SUBSET SUBSET T
    OBVIOUS
  <2> HIDE DEF B
  <2> QED
    BY <1>1, <2>1, SmallestSubset
<1>3. s \in SUBSET S /\ s \in SUBSET T /\ g[s] # h[s]
  OBVIOUS
<1>4. CASE s = {}
  BY <1>3, <1>4, IterValue
<1>5. CASE s # {}
  <2> DEFINE u == s \ {First(s)}
  <2>1. First(s) \in s
    BY <1>5, FirstIn
  <2>2. u \in SUBSET T /\ u \subseteq s /\ u # s
    BY <1>3, <2>1
  <2>3. g[u] = h[u]
    BY <1>2, <2>2
  <2>4. g[s] = IF s = {} THEN 0 ELSE f[First(s)] + g[u]
    BY <1>3, IterValue
  <2>5. h[s] = IF s = {} THEN 0 ELSE f[First(s)] + h[u]
    <3>1. IsIter(h, f, T) /\ s \in SUBSET T
      BY <1>3
    <3> QED
      BY <3>1, IterValue
  <2> QED
    BY <1>3, <1>5, <2>3, <2>4, <2>5
<1> QED
  BY <1>4, <1>5

\* There is a solution on every finite set.
LEMMA IterExists ==
  ASSUME NEW f, NEW S, IsFiniteSet(S)
  PROVE  \E g : IsIter(g, f, S)
<1> DEFINE Solution(T) == CHOOSE g : IsIter(g, f, T)
           B == {T \in SUBSET S : ~ \E g : IsIter(g, f, T)}
<1> SUFFICES ASSUME B # {} PROVE FALSE
  OBVIOUS
<1>1. PICK T \in B : \A U \in B : U \subseteq T => U = T
  <2>1. B \in SUBSET SUBSET S
    OBVIOUS
  <2> HIDE DEF B
  <2> QED
    BY <2>1, SmallestSubset
<1>2. ASSUME NEW s \in SUBSET T, s # T
      PROVE  IsIter(Solution(s), f, s)
  <2>1. \E g : IsIter(g, f, s)
    BY <1>1, <1>2
  <2> QED
    BY <2>1
<1> HIDE DEF Solution
<1>3. ASSUME NEW s \in SUBSET T, s # T, NEW u \in SUBSET s
      PROVE  Solution(s)[u] = Solution(u)[u]
  <2>1. IsIter(Solution(s), f, s) /\ IsIter(Solution(u), f, u) /\ IsFiniteSet(s)
    BY <1>2, <1>3, FS_Subset
  <2> QED
    BY <2>1, IterUnique
<1> DEFINE Value(s) == IF s = {} THEN 0
                       ELSE f[First(s)] + Solution(s \ {First(s)})[s \ {First(s)}]
           h == [s \in SUBSET T |-> Value(s)]
<1>4. ASSUME NEW s \in SUBSET T, s # T
      PROVE  h[s] = Solution(s)[s]
  <2>1. IsIter(Solution(s), f, s)
    BY <1>2, <1>4
  <2>2. Solution(s)[s] =
          IF s = {} THEN 0 ELSE f[First(s)] + Solution(s)[s \ {First(s)}]
    BY <2>1, IterValue
  <2>3. s \ {First(s)} \in SUBSET s
    OBVIOUS
  <2>4. Solution(s)[s \ {First(s)}] = Solution(s \ {First(s)})[s \ {First(s)}]
    BY <1>3, <1>4, <2>3
  <2> QED
    BY <2>2, <2>4
<1>5. ASSUME NEW s \in SUBSET T, s # {}
      PROVE  h[s] = f[First(s)] + h[s \ {First(s)}]
  <2>1. First(s) \in s
    BY <1>5, FirstIn
  <2>2. s \ {First(s)} \in SUBSET T /\ s \ {First(s)} # T
    BY <2>1
  <2>3. h[s \ {First(s)}] = Solution(s \ {First(s)})[s \ {First(s)}]
    BY <1>4, <2>2
  <2>4. h[s] = f[First(s)] + Solution(s \ {First(s)})[s \ {First(s)}]
    BY <1>5
  <2> QED
    BY <2>3, <2>4
<1>6. {} \in SUBSET T => h[{}] = 0
  OBVIOUS
<1>7. IsIter(h, f, T)
  <2>1. \A s \in SUBSET T :
          h[s] = IF s = {} THEN 0 ELSE f[First(s)] + h[s \ {First(s)}]
    BY <1>5, <1>6
  <2>2. h = [s \in SUBSET T |-> h[s]]
    OBVIOUS
  <2> HIDE DEF h
  <2> QED
    BY <2>1, <2>2 DEF IsIter
<1> QED
  BY <1>1, <1>7
-----------------------------------------------------------------------------
(* The laws.                                                                *)

\* A sum of nothing.
LEMMA SumEmpty ==
  ASSUME NEW f
  PROVE  SumOver(f, {}) = 0
<1> DEFINE g == CHOOSE g : IsIter(g, f, {})
<1>1. IsIter(g, f, {})
  BY FS_EmptySet, IterExists
<1>2. {} \in SUBSET {}
  OBVIOUS
<1> HIDE DEF g
<1>3. g[{}] = 0
  BY <1>1, <1>2, IterValue
<1> QED
  BY <1>3, SumIsIter DEF g

\* What the recursion does.
LEMMA SumFirst ==
  ASSUME NEW f, NEW S, IsFiniteSet(S), S # {}
  PROVE  SumOver(f, S) = f[First(S)] + SumOver(f, S \ {First(S)})
<1> DEFINE T == S \ {First(S)}
           g == CHOOSE k : IsIter(k, f, S)
           h == CHOOSE k : IsIter(k, f, T)
<1>1. T \in SUBSET S /\ IsFiniteSet(T)
  BY FS_Subset
<1>2. IsIter(g, f, S) /\ IsIter(h, f, T)
  <2>1. (\E k : IsIter(k, f, S)) /\ (\E k : IsIter(k, f, T))
    BY <1>1, IterExists
  <2> QED
    BY <2>1
<1>3. SumOver(f, S) = g[S] /\ SumOver(f, T) = h[T]
  BY SumIsIter
<1> HIDE DEF g, h
<1>4. g[T] = h[T]
  <2> HIDE DEF T
  <2> QED
    BY <1>1, <1>2, IterUnique
<1>5. g[S] = IF S = {} THEN 0 ELSE f[First(S)] + g[T]
  <2>1. S \in SUBSET S
    OBVIOUS
  <2> QED
    BY <1>2, <2>1, IterValue
<1> QED
  BY <1>3, <1>4, <1>5

\* Induction over a finite set: if B, a property of the subsets of S, holds of the empty
\* one and of every one of which it holds when some element is taken out, it holds of S.
LEMMA SetInduction ==
  ASSUME NEW S, IsFiniteSet(S), NEW B \in SUBSET SUBSET S, {} \in B,
         \A T \in SUBSET S : (T # {} /\ \A U \in SUBSET T : U # T => U \in B) => T \in B
  PROVE  S \in B
<1> DEFINE C == (SUBSET S) \ B
<1> SUFFICES ASSUME C # {} PROVE FALSE
  OBVIOUS
<1>1. PICK T \in C : \A U \in C : U \subseteq T => U = T
  <2>1. C \in SUBSET SUBSET S
    OBVIOUS
  <2> HIDE DEF C
  <2> QED
    BY <2>1, SmallestSubset
<1>2. \A U \in SUBSET T : U # T => U \in B
  BY <1>1
<1> QED
  BY <1>1, <1>2

\* A sum of integers is an integer.
LEMMA SumInt ==
  ASSUME NEW f, NEW S, IsFiniteSet(S), \A x \in S : f[x] \in Int
  PROVE  SumOver(f, S) \in Int
<1> DEFINE B == {T \in SUBSET S : SumOver(f, T) \in Int}
<1>1. {} \in B
  BY SumEmpty
<1>2. ASSUME NEW T \in SUBSET S, T # {}, \A U \in SUBSET T : U # T => U \in B
      PROVE  T \in B
  <2>1. First(T) \in T /\ IsFiniteSet(T)
    BY <1>2, FirstIn, FS_Subset
  <2>2. T \ {First(T)} \in B
    BY <1>2, <2>1
  <2>3. SumOver(f, T) = f[First(T)] + SumOver(f, T \ {First(T)})
    BY <1>2, <2>1, SumFirst
  <2> QED
    BY <2>1, <2>2, <2>3
<1>3. S \in B
  <2>1. B \in SUBSET SUBSET S
    OBVIOUS
  <2> HIDE DEF B
  <2> QED
    BY <1>1, <1>2, <2>1, SetInduction
<1> QED
  BY <1>3

\* Any element may be taken out of a sum.
LEMMA SumRemove ==
  ASSUME NEW f, NEW S, IsFiniteSet(S), \A x \in S : f[x] \in Int, NEW y \in S
  PROVE  /\ SumOver(f, S) \in Int /\ SumOver(f, S \ {y}) \in Int
         /\ SumOver(f, S) = f[y] + SumOver(f, S \ {y})
<1> DEFINE Out(T, x) == SumOver(f, T) = f[x] + SumOver(f, T \ {x})
           B == {T \in SUBSET S : \A x \in T : Out(T, x)}
<1>0. \A T \in SUBSET S : IsFiniteSet(T) /\ SumOver(f, T) \in Int
  BY FS_Subset, SumInt
<1>1. {} \in B
  OBVIOUS
<1>2. ASSUME NEW T \in SUBSET S, T # {}, \A U \in SUBSET T : U # T => U \in B
      PROVE  T \in B
  <2> DEFINE a == First(T)
  <2>1. a \in T
    BY <1>2, FirstIn
  <2>2. Out(T, a)
    BY <1>0, <1>2, SumFirst
  <2>3. ASSUME NEW b \in T, b # a
        PROVE  Out(T, b)
    <3>1. T \ {a} \in B /\ T \ {b} \in B /\ b \in T \ {a} /\ a \in T \ {b}
      BY <1>2, <2>1, <2>3
    <3>2. Out(T \ {a}, b) /\ Out(T \ {b}, a)
      BY <3>1
    <3>3. (T \ {a}) \ {b} = (T \ {b}) \ {a}
      OBVIOUS
    <3>4. /\ SumOver(f, (T \ {a}) \ {b}) \in Int
          /\ f[a] \in Int /\ f[b] \in Int
      BY <1>0, <2>1
    <3>5. SumOver(f, T \ {a}) = f[b] + SumOver(f, (T \ {a}) \ {b})
      BY <3>2
    <3>6. SumOver(f, T \ {b}) = f[a] + SumOver(f, (T \ {a}) \ {b})
      BY <3>2, <3>3
    <3>7. SumOver(f, T) = f[a] + SumOver(f, T \ {a})
      BY <2>2
    <3> HIDE DEF a
    <3> QED
      BY <3>4, <3>5, <3>6, <3>7
  <2> QED
    BY <2>2, <2>3
<1>3. S \in B
  <2>1. B \in SUBSET SUBSET S
    OBVIOUS
  <2> HIDE DEF B
  <2> QED
    BY <1>1, <1>2, <2>1, SetInduction
<1> QED
  BY <1>0, <1>3

\* A new element is added to a sum.
LEMMA SumAdd ==
  ASSUME NEW f, NEW S, IsFiniteSet(S), NEW y, y \notin S,
         \A x \in S \cup {y} : f[x] \in Int
  PROVE  /\ SumOver(f, S) \in Int /\ SumOver(f, S \cup {y}) \in Int
         /\ SumOver(f, S \cup {y}) = SumOver(f, S) + f[y]
<1>1. IsFiniteSet(S \cup {y}) /\ y \in S \cup {y} /\ (S \cup {y}) \ {y} = S
  BY FS_AddElement
<1> DEFINE T == S \cup {y}
<1>2. /\ SumOver(f, T) \in Int /\ SumOver(f, T \ {y}) \in Int
      /\ SumOver(f, T) = f[y] + SumOver(f, T \ {y})
  <2>1. IsFiniteSet(T) /\ y \in T /\ \A x \in T : f[x] \in Int
    BY <1>1
  <2> HIDE DEF T
  <2> QED
    BY <2>1, SumRemove
<1>3. T \ {y} = S /\ f[y] \in Int
  BY <1>1
<1>4. /\ SumOver(f, T) \in Int /\ SumOver(f, S) \in Int
      /\ SumOver(f, T) = f[y] + SumOver(f, S)
  BY <1>2, <1>3
<1> HIDE DEF T
<1>5. /\ SumOver(f, S) \in Int /\ SumOver(f, T) \in Int
      /\ SumOver(f, T) = SumOver(f, S) + f[y]
  BY <1>3, <1>4
<1> QED
  BY <1>5 DEF T

\* Sums of equal amounts are equal.
LEMMA SumEqual ==
  ASSUME NEW f, NEW g, NEW S, IsFiniteSet(S), \A x \in S : f[x] = g[x]
  PROVE  SumOver(f, S) = SumOver(g, S)
<1> DEFINE B == {T \in SUBSET S : SumOver(f, T) = SumOver(g, T)}
<1>1. {} \in B
  BY SumEmpty
<1>2. ASSUME NEW T \in SUBSET S, T # {}, \A U \in SUBSET T : U # T => U \in B
      PROVE  T \in B
  <2>1. First(T) \in T /\ IsFiniteSet(T)
    BY <1>2, FirstIn, FS_Subset
  <2>2. T \ {First(T)} \in B
    BY <1>2, <2>1
  <2>3. /\ SumOver(f, T) = f[First(T)] + SumOver(f, T \ {First(T)})
        /\ SumOver(g, T) = g[First(T)] + SumOver(g, T \ {First(T)})
    BY <1>2, <2>1, SumFirst
  <2> QED
    BY <2>1, <2>2, <2>3
<1>3. S \in B
  <2>1. B \in SUBSET SUBSET S
    OBVIOUS
  <2> HIDE DEF B
  <2> QED
    BY <1>1, <1>2, <2>1, SetInduction
<1> QED
  BY <1>3

\* The sum of sums.
LEMMA SumPlus ==
  ASSUME NEW f, NEW g, NEW h, NEW S, IsFiniteSet(S),
         \A x \in S : f[x] \in Int /\ g[x] \in Int /\ h[x] = f[x] + g[x]
  PROVE  /\ SumOver(f, S) \in Int /\ SumOver(g, S) \in Int
         /\ SumOver(h, S) = SumOver(f, S) + SumOver(g, S)
<1> DEFINE B == {T \in SUBSET S : SumOver(h, T) = SumOver(f, T) + SumOver(g, T)}
<1>0. \A T \in SUBSET S :
        IsFiniteSet(T) /\ SumOver(f, T) \in Int /\ SumOver(g, T) \in Int
  BY FS_Subset, SumInt
<1>1. {} \in B
  BY SumEmpty
<1>2. ASSUME NEW T \in SUBSET S, T # {}, \A U \in SUBSET T : U # T => U \in B
      PROVE  T \in B
  <2> DEFINE a == First(T)
             R == T \ {a}
  <2>1. a \in T /\ IsFiniteSet(T)
    BY <1>2, FirstIn, FS_Subset
  <2>2. R \in B
    BY <1>2, <2>1
  <2>3. /\ SumOver(f, T) = f[a] + SumOver(f, R)
        /\ SumOver(g, T) = g[a] + SumOver(g, R)
        /\ SumOver(h, T) = h[a] + SumOver(h, R)
    BY <1>2, <2>1, SumFirst
  <2>4. /\ f[a] \in Int /\ g[a] \in Int /\ h[a] = f[a] + g[a]
        /\ SumOver(f, R) \in Int /\ SumOver(g, R) \in Int
        /\ SumOver(h, R) = SumOver(f, R) + SumOver(g, R)
    BY <1>0, <2>1, <2>2
  <2> HIDE DEF a, R
  <2>5. SumOver(h, T) = SumOver(f, T) + SumOver(g, T)
    BY <2>3, <2>4
  <2> QED
    BY <2>5
<1>3. S \in B
  <2>1. B \in SUBSET SUBSET S
    OBVIOUS
  <2> HIDE DEF B
  <2> QED
    BY <1>1, <1>2, <2>1, SetInduction
<1> QED
  BY <1>0, <1>3

\* Sums of zeros, and of amounts that are not negative.
LEMMA SumNat ==
  ASSUME NEW f, NEW S, IsFiniteSet(S), \A x \in S : f[x] \in Nat
  PROVE  SumOver(f, S) \in Nat
<1> DEFINE B == {T \in SUBSET S : SumOver(f, T) \in Nat}
<1>1. {} \in B
  BY SumEmpty
<1>2. ASSUME NEW T \in SUBSET S, T # {}, \A U \in SUBSET T : U # T => U \in B
      PROVE  T \in B
  <2>1. First(T) \in T /\ IsFiniteSet(T)
    BY <1>2, FirstIn, FS_Subset
  <2>2. T \ {First(T)} \in B
    BY <1>2, <2>1
  <2>3. SumOver(f, T) = f[First(T)] + SumOver(f, T \ {First(T)})
    BY <1>2, <2>1, SumFirst
  <2> QED
    BY <2>1, <2>2, <2>3
<1>3. S \in B
  <2>1. B \in SUBSET SUBSET S
    OBVIOUS
  <2> HIDE DEF B
  <2> QED
    BY <1>1, <1>2, <2>1, SetInduction
<1> QED
  BY <1>3

\* A sum of nothing but zeros.
LEMMA SumZero ==
  ASSUME NEW f, NEW S, IsFiniteSet(S), \A x \in S : f[x] = 0
  PROVE  SumOver(f, S) = 0
<1> DEFINE B == {T \in SUBSET S : SumOver(f, T) = 0}
<1>1. {} \in B
  BY SumEmpty
<1>2. ASSUME NEW T \in SUBSET S, T # {}, \A U \in SUBSET T : U # T => U \in B
      PROVE  T \in B
  <2>1. First(T) \in T /\ IsFiniteSet(T)
    BY <1>2, FirstIn, FS_Subset
  <2>2. T \ {First(T)} \in B
    BY <1>2, <2>1
  <2>3. SumOver(f, T) = f[First(T)] + SumOver(f, T \ {First(T)})
    BY <1>2, <2>1, SumFirst
  <2> QED
    BY <2>1, <2>2, <2>3
<1>3. S \in B
  <2>1. B \in SUBSET SUBSET S
    OBVIOUS
  <2> HIDE DEF B
  <2> QED
    BY <1>1, <1>2, <2>1, SetInduction
<1> QED
  BY <1>3

\* Larger amounts, larger sums.
LEMMA SumAtMost ==
  ASSUME NEW f, NEW g, NEW S, IsFiniteSet(S),
         \A x \in S : f[x] \in Int /\ g[x] \in Int /\ f[x] <= g[x]
  PROVE  /\ SumOver(f, S) \in Int /\ SumOver(g, S) \in Int
         /\ SumOver(f, S) <= SumOver(g, S)
<1> DEFINE d == [x \in S |-> g[x] - f[x]]
<1>1. \A x \in S : f[x] \in Int /\ d[x] \in Int /\ d[x] \in Nat /\ g[x] = f[x] + d[x]
  OBVIOUS
<1> HIDE DEF d
<1>2. SumOver(f, S) \in Int /\ SumOver(g, S) = SumOver(f, S) + SumOver(d, S)
  BY <1>1, SumPlus
<1>3. SumOver(d, S) \in Nat
  BY <1>1, SumNat
<1> QED
  BY <1>2, <1>3

\* Amounts that are not negative are at most their sum.
LEMMA PartAtMostSum ==
  ASSUME NEW f, NEW S, IsFiniteSet(S), \A x \in S : f[x] \in Nat, NEW y \in S
  PROVE  SumOver(f, S) \in Nat /\ f[y] <= SumOver(f, S)
<1>1. SumOver(f, S) \in Nat /\ SumOver(f, S) = f[y] + SumOver(f, S \ {y})
  BY SumNat, SumRemove
<1>2. SumOver(f, S \ {y}) \in Nat
  <2>1. IsFiniteSet(S \ {y})
    BY FS_Subset
  <2> QED
    BY <2>1, SumNat
<1> QED
  BY <1>1, <1>2

\* One amount changes.
LEMMA SumChange ==
  ASSUME NEW f, NEW g, NEW S, IsFiniteSet(S), NEW y \in S,
         \A x \in S : f[x] \in Int /\ g[x] \in Int, \A x \in S \ {y} : f[x] = g[x]
  PROVE  /\ SumOver(f, S) \in Int /\ SumOver(g, S) \in Int
         /\ SumOver(g, S) = SumOver(f, S) - f[y] + g[y]
<1>1. IsFiniteSet(S \ {y})
  BY FS_Subset
<1>2. SumOver(f, S \ {y}) = SumOver(g, S \ {y})
  BY <1>1, SumEqual
<1>3. /\ SumOver(f, S) \in Int /\ SumOver(f, S \ {y}) \in Int
      /\ SumOver(f, S) = f[y] + SumOver(f, S \ {y})
      /\ SumOver(g, S) \in Int
      /\ SumOver(g, S) = g[y] + SumOver(g, S \ {y})
  BY SumRemove
<1> QED
  BY <1>2, <1>3
\* The sum when one more term joins and the others stay what they were.
LEMMA SumGrows ==
  ASSUME NEW f, NEW g, NEW S, IsFiniteSet(S), NEW y, y \notin S,
         \A x \in S : f[x] \in Int /\ g[x] = f[x], g[y] \in Int
  PROVE  /\ SumOver(f, S) \in Int
         /\ SumOver(g, S \cup {y}) = SumOver(f, S) + g[y]
<1>1. SumOver(f, S) = SumOver(g, S)
  BY SumEqual
<1>2. \A x \in S \cup {y} : g[x] \in Int
  OBVIOUS
<1> QED
  BY <1>1, <1>2, SumAdd
\* A sum is shared out between two parts of its terms.
LEMMA SumSplit ==
  ASSUME NEW f, NEW S, IsFiniteSet(S), \A x \in S : f[x] \in Int,
         NEW U \in SUBSET S, NEW V, V = S \ U
  PROVE  SumOver(f, S) = SumOver(f, U) + SumOver(f, V)
<1> DEFINE B == {W \in SUBSET S : SumOver(f, W) = SumOver(f, W \cap U) + SumOver(f, W \ U)}
<1>0. \A W \in SUBSET S : IsFiniteSet(W) /\ SumOver(f, W) \in Int
  BY FS_Subset, SumInt
<1>1. {} \in B
  <2>1. {} \cap U = {} /\ {} \ U = {}
    OBVIOUS
  <2> QED
    BY <2>1, SumEmpty
<1>2. ASSUME NEW W \in SUBSET S, W # {}, \A X \in SUBSET W : X # W => X \in B
      PROVE  W \in B
  <2>1. PICK y \in W : TRUE
    BY <1>2
  <2>2. W \ {y} \in B
    BY <1>2, <2>1
  <2>3. /\ SumOver(f, W \ {y}) \in Int /\ f[y] \in Int
        /\ SumOver(f, W) = f[y] + SumOver(f, W \ {y})
    BY <1>0, <2>1, SumRemove
  <2>4. CASE y \in U
    <3>1. /\ y \in W \cap U /\ (W \ {y}) \cap U = (W \cap U) \ {y} /\ (W \ {y}) \ U = W \ U
          /\ W \cap U \in SUBSET S /\ W \ U \in SUBSET S
      BY <2>1, <2>4
    <3>2. SumOver(f, W \cap U) = f[y] + SumOver(f, (W \cap U) \ {y})
      <4>1. IsFiniteSet(W \cap U) /\ \A x \in W \cap U : f[x] \in Int
        BY <1>0, <3>1
      <4> QED
        BY <3>1, <4>1, SumRemove
    <3>3. /\ SumOver(f, W \ {y}) = SumOver(f, (W \cap U) \ {y}) + SumOver(f, W \ U)
          /\ SumOver(f, (W \cap U) \ {y}) \in Int /\ SumOver(f, W \ U) \in Int
      BY <1>0, <2>2, <3>1
    <3>4. SumOver(f, W) = SumOver(f, W \cap U) + SumOver(f, W \ U)
      BY <2>3, <3>2, <3>3
    <3> QED
      BY <3>4
  <2>5. CASE y \notin U
    <3>1. /\ y \in W \ U /\ (W \ {y}) \ U = (W \ U) \ {y} /\ (W \ {y}) \cap U = W \cap U
          /\ W \cap U \in SUBSET S /\ W \ U \in SUBSET S
      BY <2>1, <2>5
    <3>2. SumOver(f, W \ U) = f[y] + SumOver(f, (W \ U) \ {y})
      <4>1. IsFiniteSet(W \ U) /\ \A x \in W \ U : f[x] \in Int
        BY <1>0, <3>1
      <4> QED
        BY <3>1, <4>1, SumRemove
    <3>3. /\ SumOver(f, W \ {y}) = SumOver(f, W \cap U) + SumOver(f, (W \ U) \ {y})
          /\ SumOver(f, (W \ U) \ {y}) \in Int /\ SumOver(f, W \cap U) \in Int
      BY <1>0, <2>2, <3>1
    <3>4. SumOver(f, W) = SumOver(f, W \cap U) + SumOver(f, W \ U)
      BY <2>3, <3>2, <3>3
    <3> QED
      BY <3>4
  <2> QED
    BY <2>4, <2>5
<1>3. S \in B
  <2>1. B \in SUBSET SUBSET S
    OBVIOUS
  <2> HIDE DEF B
  <2> QED
    BY <1>1, <1>2, <2>1, SetInduction
<1>4. /\ U = S \cap U /\ V = S \ U
      /\ S \cap U \in SUBSET S /\ S \ U \in SUBSET S
  OBVIOUS
<1> QED
  BY <1>0, <1>3, <1>4

\* Terms that are zero add nothing.
LEMMA SumExtra ==
  ASSUME NEW f, NEW S, IsFiniteSet(S), \A x \in S : f[x] \in Int,
         NEW T \in SUBSET S, \A x \in S \ T : f[x] = 0
  PROVE  SumOver(f, S) = SumOver(f, T)
<1>1. IsFiniteSet(S \ T)
  BY FS_Subset
<1>2. SumOver(f, S \ T) = 0
  BY <1>1, SumZero
<1>3. SumOver(f, S) = SumOver(f, T) + SumOver(f, S \ T)
  BY SumSplit
<1>4. SumOver(f, T) \in Int
  BY SumInt, FS_Subset
<1> QED
  BY <1>2, <1>3, <1>4

\* Terms that are grouped, and the groups added, add up to the same.
Grouping(f, S, G, T, g) ==
  /\ \A x \in S : g[x] \in T
  /\ \A t \in T : G[t] = SumOver(f, {x \in S : g[x] = t})

LEMMA SumGroup ==
  ASSUME NEW f, NEW S, IsFiniteSet(S), \A x \in S : f[x] \in Int,
         NEW T, IsFiniteSet(T), NEW g, NEW G, Grouping(f, S, G, T, g)
  PROVE  /\ \A t \in T : G[t] \in Int
         /\ SumOver(G, T) = SumOver(f, S)
<1> DEFINE Part(U, t) == {x \in U : g[x] = t}
           H(U) == [t \in T |-> SumOver(f, Part(U, t))]
           B == {U \in SUBSET S : SumOver(H(U), T) = SumOver(f, U)}
<1>0. \A U \in SUBSET S : /\ IsFiniteSet(U) /\ SumOver(f, U) \in Int
                          /\ \A t \in T : H(U)[t] \in Int /\ H(U)[t] = SumOver(f, Part(U, t))
  <2>1. \A U \in SUBSET S : IsFiniteSet(U) /\ SumOver(f, U) \in Int
    BY FS_Subset, SumInt
  <2>2. \A U \in SUBSET S : \A t \in T : Part(U, t) \in SUBSET S
    OBVIOUS
  <2> QED
    BY <2>1, <2>2
<1>1. {} \in B
  <2>1. \A t \in T : H({})[t] = 0
    <3>1. \A t \in T : Part({}, t) = {}
      OBVIOUS
    <3> QED
      BY <3>1, SumEmpty
  <2>2. SumOver(H({}), T) = 0
    <3> HIDE DEF H
    <3> QED
      BY <2>1, SumZero
  <2> QED
    BY <2>2, SumEmpty
<1>2. ASSUME NEW U \in SUBSET S, U # {}, \A W \in SUBSET U : W # U => W \in B
      PROVE  U \in B
  <2>1. PICK y \in U : TRUE
    BY <1>2
  <2> DEFINE V == U \ {y}
             p == g[y]
  <2>2. V \in SUBSET S /\ V \in SUBSET U /\ V \in B /\ p \in T
    BY <1>2, <2>1 DEF Grouping
  <2>3. SumOver(f, U) = f[y] + SumOver(f, V) /\ f[y] \in Int /\ SumOver(f, V) \in Int
    BY <1>0, <2>1, SumRemove
  <2>4. \A t \in T \ {p} : H(U)[t] = H(V)[t]
    <3>1. \A t \in T \ {p} : Part(U, t) = Part(V, t)
      OBVIOUS
    <3> QED
      BY <3>1
  <2>5. H(U)[p] = H(V)[p] + f[y]
    <3>1. /\ Part(V, p) = Part(U, p) \ {y} /\ y \in Part(U, p) /\ Part(U, p) \in SUBSET S
      BY <2>1
    <3>2. /\ SumOver(f, Part(U, p)) = f[y] + SumOver(f, Part(U, p) \ {y})
          /\ SumOver(f, Part(U, p) \ {y}) \in Int
      <4> DEFINE W == Part(U, p)
      <4>1. IsFiniteSet(W) /\ (\A x \in W : f[x] \in Int) /\ y \in W
        BY <1>0, <3>1
      <4> HIDE DEF Part, p, W
      <4>2. SumOver(f, W) = f[y] + SumOver(f, W \ {y})
        BY <4>1, SumRemove
      <4>3. SumOver(f, W \ {y}) \in Int
        BY <4>1, SumRemove
      <4> QED
        BY <4>2, <4>3 DEF W
    <3>3. H(U)[p] = SumOver(f, Part(U, p)) /\ H(V)[p] = SumOver(f, Part(V, p))
      BY <1>0, <2>2
    <3> HIDE DEF H, Part, p, V
    <3> QED
      BY <2>3, <3>1, <3>2, <3>3
  <2>6. /\ SumOver(H(V), T) \in Int
        /\ SumOver(H(U), T) = SumOver(H(V), T) - H(V)[p] + H(U)[p]
    <3>1. \A t \in T : H(V)[t] \in Int /\ H(U)[t] \in Int
      BY <1>0, <2>2
    <3> HIDE DEF H, V, p
    <3> QED
      BY <2>2, <2>4, <3>1, SumChange
  <2>7. SumOver(H(V), T) = SumOver(f, V)
    BY <2>2
  <2>8. SumOver(H(U), T) = SumOver(f, U)
    <3>1. H(V)[p] \in Int /\ H(U)[p] \in Int
      BY <1>0, <2>2
    <3> HIDE DEF H, V, p
    <3> QED
      BY <2>3, <2>5, <2>6, <2>7, <3>1
  <2> QED
    BY <2>8
<1>3. S \in B
  <2>1. B \in SUBSET SUBSET S
    OBVIOUS
  <2> HIDE DEF B
  <2> QED
    BY <1>1, <1>2, <2>1, SetInduction
<1>4. \A t \in T : G[t] = H(S)[t]
  BY DEF Grouping
<1>5. SumOver(G, T) = SumOver(H(S), T)
  <2> HIDE DEF H
  <2> QED
    BY <1>4, SumEqual
<1>6. \A t \in T : G[t] \in Int
  BY <1>0, <1>4
<1>7. SumOver(H(S), T) = SumOver(f, S)
  BY <1>3
<1> QED
  BY <1>5, <1>6, <1>7

\* A sum of equal terms.
LEMMA SumConst ==
  ASSUME NEW f, NEW S, IsFiniteSet(S), NEW a \in Int, \A x \in S : f[x] = a
  PROVE  SumOver(f, S) = a * Cardinality(S)
<1> DEFINE B == {U \in SUBSET S : SumOver(f, U) = a * Cardinality(U)}
<1>0. \A U \in SUBSET S : IsFiniteSet(U) /\ Cardinality(U) \in Nat
  BY FS_Subset, FS_CardinalityType
<1>1. {} \in B
  BY SumEmpty, FS_EmptySet
<1>2. ASSUME NEW U \in SUBSET S, U # {}, \A V \in SUBSET U : V # U => V \in B
      PROVE  U \in B
  <2>1. PICK y \in U : TRUE
    BY <1>2
  <2>2. U \ {y} \in B /\ U \ {y} \in SUBSET S
    BY <1>2, <2>1
  <2>3. SumOver(f, U) = f[y] + SumOver(f, U \ {y})
    BY <1>0, <2>1, SumRemove
  <2>4. Cardinality(U \ {y}) = Cardinality(U) - 1
    BY <1>0, <2>1, FS_RemoveElement
  <2>5. SumOver(f, U \ {y}) = a * Cardinality(U \ {y}) /\ f[y] = a
    BY <2>1, <2>2
  <2>6. \A n \in Nat : a + a * (n - 1) = a * n
    OBVIOUS
  <2> QED
    BY <1>0, <2>3, <2>4, <2>5, <2>6
<1>3. S \in B
  <2>1. B \in SUBSET SUBSET S
    OBVIOUS
  <2> HIDE DEF B
  <2> QED
    BY <1>1, <1>2, <2>1, SetInduction
<1> QED
  BY <1>3

\* The sum of differences.
LEMMA SumMinus ==
  ASSUME NEW f, NEW g, NEW h, NEW S, IsFiniteSet(S),
         \A x \in S : f[x] \in Int /\ g[x] \in Int /\ h[x] = f[x] - g[x]
  PROVE  SumOver(h, S) = SumOver(f, S) - SumOver(g, S)
<1>1. \A x \in S : h[x] \in Int /\ g[x] \in Int /\ f[x] = h[x] + g[x]
  OBVIOUS
<1>2. SumOver(h, S) \in Int /\ SumOver(g, S) \in Int
  BY <1>1, SumInt
<1>3. SumOver(f, S) = SumOver(h, S) + SumOver(g, S)
  <2>1. ASSUME NEW a, NEW b, NEW c, IsFiniteSet(S),
               \A x \in S : b[x] \in Int /\ c[x] \in Int /\ a[x] = b[x] + c[x]
        PROVE  SumOver(a, S) = SumOver(b, S) + SumOver(c, S)
    BY <2>1, SumPlus
  <2> QED
    BY <1>1, <2>1
<1> QED
  BY <1>2, <1>3
-----------------------------------------------------------------------------
(* The portfolio.                                                           *)

\* A set of numbers that holds 0, and every number whose predecessor it holds, up to n.
LEMMA CountTo ==
  ASSUME NEW n \in Nat, NEW B \in SUBSET Nat, 0 \in B,
         \A i \in 1..n : i - 1 \in B => i \in B
  PROVE  0..n \subseteq B
<1> DEFINE C == (0..n) \ B
           R == OpToRel(<, Nat)
<1> SUFFICES ASSUME C # {} PROVE FALSE
  OBVIOUS
<1>0. C \subseteq Nat
  OBVIOUS
<1>1. IsWellFoundedOn(R, Nat)
  BY NatLessThanWellFounded
<1>2. PICK i \in C : \A j \in C : ~ (<<j, i>> \in R)
  <2> HIDE DEF C, R
  <2> QED
    BY <1>0, <1>1, WFMin
<1>3. R = {ss \in Nat \X Nat : ss[1] < ss[2]}
  BY DEF OpToRel
<1>4. i \in 0..n /\ i \notin B /\ i \in 1..n /\ i - 1 \in Nat
  OBVIOUS
<1>5. i - 1 \notin C
  <2>1. <<i - 1, i>> \in R
    <3>1. i \in Nat /\ i - 1 \in Nat /\ i - 1 < i
      BY <1>4
    <3> HIDE DEF R
    <3> QED
      BY <1>3, <3>1
  <2> QED
    BY <1>2, <2>1
<1> QED
  BY <1>4, <1>5

-----------------------------------------------------------------------------
(* The cascade.                                                             *)

\* The equation of the money left, up to instalment n.
IsLeft(g, owed, amount, n) ==
  g = [i \in 0..n |-> IF i = 0 THEN amount ELSE g[i - 1] - Lesser(owed[i], g[i - 1])]

LEMMA LeftExists ==
  ASSUME NEW owed, NEW amount, NEW n \in Nat
  PROVE  \E g : IsLeft(g, owed, amount, n)
<1> DEFINE B == {k \in Nat : \E g : IsLeft(g, owed, amount, k)}
<1>1. 0 \in B
  <2>1. IsLeft([i \in 0..0 |-> amount], owed, amount, 0)
    BY DEF IsLeft
  <2> QED
    BY <2>1
<1>2. ASSUME NEW i \in 1..n, i - 1 \in B
      PROVE  i \in B
  <2>1. PICK g : IsLeft(g, owed, amount, i - 1)
    BY <1>2
  <2> DEFINE h == [k \in 0..i |-> IF k = i THEN g[i - 1] - Lesser(owed[i], g[i - 1])
                                  ELSE g[k]]
  <2>2. ASSUME NEW k \in 0..i
        PROVE  h[k] = IF k = 0 THEN amount ELSE h[k - 1] - Lesser(owed[k], h[k - 1])
    <3>1. CASE k = i
      <4>1. k # 0 /\ k - 1 \in 0..i /\ k - 1 # i
        BY <3>1
      <4> QED
        BY <3>1, <4>1
    <3>2. CASE k # i
      <4>1. k \in 0..(i - 1)
        BY <3>2
      <4>2. g[k] = IF k = 0 THEN amount ELSE g[k - 1] - Lesser(owed[k], g[k - 1])
        BY <2>1, <4>1 DEF IsLeft
      <4>3. h[k] = g[k]
        BY <3>2
      <4>4. k # 0 => k - 1 \in 0..i /\ k - 1 # i
        BY <4>1
      <4> QED
        BY <4>2, <4>3, <4>4
    <3> QED
      BY <3>1, <3>2
  <2>3. h = [k \in 0..i |-> h[k]]
    OBVIOUS
  <2> HIDE DEF h
  <2>4. IsLeft(h, owed, amount, i)
    BY <2>2, <2>3 DEF IsLeft
  <2> QED
    BY <2>4
<1>3. 0..n \subseteq B
  <2>1. B \in SUBSET Nat
    OBVIOUS
  <2> HIDE DEF B
  <2> QED
    BY <1>1, <1>2, <2>1, CountTo
<1> QED
  BY <1>3

\* What is left after an instalment, from what was left before it.
LEMMA LeftValue ==
  ASSUME NEW n \in Nat, NEW due, DOMAIN due = 1..n, NEW paid, NEW amount
  PROVE  LET left == LeftAfter(due, paid, amount) IN
         /\ left[0] = amount
         /\ \A i \in 1..n :
              left[i] = left[i - 1] - Lesser(Remaining(due, paid)[i], left[i - 1])
<1> DEFINE owed == Remaining(due, paid)
           left == LeftAfter(due, paid, amount)
<1>1. {0} \cup DOMAIN due = 0..n
  OBVIOUS
<1>2. left = CHOOSE g : IsLeft(g, owed, amount, n)
  BY <1>1, Zenon DEF LeftAfter, IsLeft
<1> HIDE DEF left, owed
<1>3. IsLeft(left, owed, amount, n)
  BY <1>2, LeftExists
<1>4. /\ left[0] = amount
      /\ \A i \in 1..n : left[i] = left[i - 1] - Lesser(owed[i], left[i - 1])
  BY <1>3 DEF IsLeft
<1> QED
  BY <1>4 DEF left, owed

\* The money left never grows, and is never owed.
LEMMA LeftFacts ==
  ASSUME NEW n \in Nat, NEW due \in [1..n -> Nat], NEW paid \in [1..n -> Nat],
         \A i \in 1..n : paid[i] <= due[i], NEW amount \in Nat
  PROVE  LET left == LeftAfter(due, paid, amount)
             a == Cascade(due, paid, amount) IN
         /\ left[0] = amount
         /\ \A i \in 0..n : left[i] \in Nat
         /\ a \in [1..n -> Nat]
         /\ \A i \in 1..n : /\ a[i] = Lesser(due[i] - paid[i], left[i - 1])
                            /\ left[i] = left[i - 1] - a[i]
                            /\ paid[i] + a[i] <= due[i]
<1> DEFINE left == LeftAfter(due, paid, amount)
           owed == Remaining(due, paid)
           a == Cascade(due, paid, amount)
           B == {k \in 0..n : left[k] \in Nat}
<1>1. /\ left[0] = amount
      /\ \A i \in 1..n : left[i] = left[i - 1] - Lesser(owed[i], left[i - 1])
  BY LeftValue
<1>2. \A i \in 1..n : owed[i] = due[i] - paid[i] /\ owed[i] \in Nat
  BY DEF Remaining
<1>3. \A i \in 0..n : left[i] \in Nat
  <2>1. 0 \in B
    BY <1>1
  <2>2. ASSUME NEW i \in 1..n, i - 1 \in B
        PROVE  i \in B
    BY <1>1, <1>2, <2>2 DEF Lesser
  <2>3. B \in SUBSET Nat
    OBVIOUS
  <2>4. 0..n \subseteq B
    <3> HIDE DEF B
    <3> QED
      BY <2>1, <2>2, <2>3, CountTo
  <2> QED
    BY <2>4
<1>4. a = [i \in 1..n |-> Lesser(owed[i], left[i - 1])]
  BY DEF Cascade
<1> HIDE DEF left, owed, a
<1>5. ASSUME NEW i \in 1..n
      PROVE  /\ a[i] \in Nat /\ a[i] = Lesser(due[i] - paid[i], left[i - 1])
             /\ left[i] = left[i - 1] - a[i] /\ paid[i] + a[i] <= due[i]
  <2>1. left[i - 1] \in Nat
    BY <1>3
  <2> QED
    BY <1>1, <1>2, <1>4, <2>1 DEF Lesser
<1>6. a \in [1..n -> Nat]
  BY <1>4, <1>5
<1> QED
  BY <1>1, <1>3, <1>5, <1>6 DEF left, a

\* The oldest instalment first: an instalment gets money only if every older one is full.
LEMMA CascadeOldestFirst ==
  ASSUME NEW n \in Nat, NEW due \in [1..n -> Nat], NEW paid \in [1..n -> Nat],
         \A i \in 1..n : paid[i] <= due[i], NEW amount \in Nat,
         NEW j \in 0..n, LeftAfter(due, paid, amount)[j] > 0
  PROVE  \A i \in 1..j : paid[i] + Cascade(due, paid, amount)[i] = due[i]
<1> DEFINE left == LeftAfter(due, paid, amount)
           a == Cascade(due, paid, amount)
           B == {k \in 0..n : left[k] > 0 => \A i \in 1..k : paid[i] + a[i] = due[i]}
<1>1. /\ left[0] = amount
      /\ \A i \in 0..n : left[i] \in Nat
      /\ a \in [1..n -> Nat]
      /\ \A i \in 1..n : /\ a[i] = Lesser(due[i] - paid[i], left[i - 1])
                         /\ left[i] = left[i - 1] - a[i]
                         /\ paid[i] + a[i] <= due[i]
  BY LeftFacts, Zenon
<1> HIDE DEF left, a
<1>2. 0 \in B
  OBVIOUS
<1>3. ASSUME NEW k \in 1..n, k - 1 \in B
      PROVE  k \in B
  <2> SUFFICES ASSUME left[k] > 0, NEW i \in 1..k
               PROVE  paid[i] + a[i] = due[i]
    OBVIOUS
  <2>1. left[k - 1] \in Nat /\ a[k] = Lesser(due[k] - paid[k], left[k - 1])
        /\ left[k] = left[k - 1] - a[k] /\ a[k] \in Nat /\ due[k] \in Nat /\ paid[k] \in Nat
    BY <1>1
  <2>2. left[k - 1] > 0 /\ a[k] = due[k] - paid[k]
    BY <2>1 DEF Lesser
  <2>3. CASE i = k
    BY <2>1, <2>2, <2>3
  <2>4. CASE i # k
    <3>1. i \in 1..(k - 1)
      BY <2>4
    <3> QED
      BY <1>3, <2>2, <3>1
  <2> QED
    BY <2>3, <2>4
<1>4. 0..n \subseteq B
  <2>1. B \in SUBSET Nat
    OBVIOUS
  <2> HIDE DEF B
  <2> QED
    BY <1>2, <1>3, <2>1, CountTo
<1> QED
  BY <1>4 DEF left, a

\* The part of a plan up to an instalment, and its sum.
LEMMA UpToNext ==
  ASSUME NEW n \in Nat, NEW a \in [1..n -> Int], NEW i \in 1..n
  PROVE  /\ SumOver(a, 1..(i - 1)) \in Int /\ SumOver(a, 1..i) \in Int
         /\ SumOver(a, 1..i) = SumOver(a, 1..(i - 1)) + a[i]
<1>1. 1..i = (1..(i - 1)) \cup {i} /\ i \notin 1..(i - 1) /\ IsFiniteSet(1..(i - 1))
  BY FS_Interval
<1>2. \A x \in (1..(i - 1)) \cup {i} : a[x] \in Int
  OBVIOUS
<1>3. /\ SumOver(a, 1..(i - 1)) \in Int
      /\ SumOver(a, (1..(i - 1)) \cup {i}) \in Int
      /\ SumOver(a, (1..(i - 1)) \cup {i}) = SumOver(a, 1..(i - 1)) + a[i]
  BY <1>1, <1>2, SumAdd
<1> QED
  BY <1>1, <1>3

\* What the instalments took is what is not left.
LEMMA CascadeSum ==
  ASSUME NEW n \in Nat, NEW due \in [1..n -> Nat], NEW paid \in [1..n -> Nat],
         \A i \in 1..n : paid[i] <= due[i], NEW amount \in Nat
  PROVE  Total(Cascade(due, paid, amount)) = amount - LeftAfter(due, paid, amount)[n]
<1> DEFINE left == LeftAfter(due, paid, amount)
           a == Cascade(due, paid, amount)
           B == {k \in 0..n : SumOver(a, 1..k) = amount - left[k]}
<1>1. /\ left[0] = amount
      /\ \A i \in 0..n : left[i] \in Nat
      /\ a \in [1..n -> Nat]
      /\ \A i \in 1..n : /\ a[i] = Lesser(due[i] - paid[i], left[i - 1])
                         /\ left[i] = left[i - 1] - a[i]
                         /\ paid[i] + a[i] <= due[i]
  BY LeftFacts, Zenon
<1> HIDE DEF left, a
<1>2. 0 \in B
  <2>1. 1..0 = {}
    OBVIOUS
  <2> QED
    BY <1>1, <2>1, SumEmpty
<1>3. ASSUME NEW k \in 1..n, k - 1 \in B
      PROVE  k \in B
  <2>1. a \in [1..n -> Int]
    BY <1>1
  <2>2. SumOver(a, 1..k) = SumOver(a, 1..(k - 1)) + a[k]
    BY <2>1, UpToNext
  <2>3. /\ left[k - 1] \in Nat /\ a[k] \in Nat /\ left[k] = left[k - 1] - a[k]
        /\ k \in 0..n
    BY <1>1
  <2>4. SumOver(a, 1..(k - 1)) = amount - left[k - 1]
    BY <1>3
  <2> QED
    BY <2>2, <2>3, <2>4
<1>4. 0..n \subseteq B
  <2>1. B \in SUBSET Nat
    OBVIOUS
  <2> HIDE DEF B
  <2> QED
    BY <1>2, <1>3, <2>1, CountTo
<1>5. n \in B /\ DOMAIN a = 1..n
  BY <1>1, <1>4
<1> QED
  BY <1>5 DEF Total, left, a

\* A cascade computed on a plan as it was earlier is the cascade on the plan as it is, if
\* what it takes still fits: a stale snapshot that passes the bounded increments is as
\* good as a fresh one (applyAllocationsTx).
LEMMA CascadeStale ==
  ASSUME NEW n \in Nat, NEW due \in [1..n -> Nat], NEW seen \in [1..n -> Nat],
         NEW paid \in [1..n -> Nat], NEW amount \in Nat,
         \A i \in 1..n : seen[i] <= paid[i] /\ paid[i] <= due[i],
         \A i \in 1..n : paid[i] + Cascade(due, seen, amount)[i] <= due[i]
  PROVE  Cascade(due, paid, amount) = Cascade(due, seen, amount)
<1> DEFINE ls == LeftAfter(due, seen, amount)
           a == Cascade(due, seen, amount)
           lp == LeftAfter(due, paid, amount)
           b == Cascade(due, paid, amount)
           B == {k \in 0..n : ls[k] = lp[k]}
<1>0. \A i \in 1..n : seen[i] <= due[i]
  OBVIOUS
<1>1. /\ ls[0] = amount
      /\ \A i \in 0..n : ls[i] \in Nat
      /\ a \in [1..n -> Nat]
      /\ \A i \in 1..n : /\ a[i] = Lesser(due[i] - seen[i], ls[i - 1])
                         /\ ls[i] = ls[i - 1] - a[i]
                         /\ seen[i] + a[i] <= due[i]
  BY <1>0, LeftFacts, Zenon
<1>2. /\ lp[0] = amount
      /\ \A i \in 0..n : lp[i] \in Nat
      /\ b \in [1..n -> Nat]
      /\ \A i \in 1..n : /\ b[i] = Lesser(due[i] - paid[i], lp[i - 1])
                         /\ lp[i] = lp[i - 1] - b[i]
                         /\ paid[i] + b[i] <= due[i]
  <2>1. \A i \in 1..n : paid[i] <= due[i]
    OBVIOUS
  <2> QED
    BY <2>1, LeftFacts, Zenon
<1>3. \A i \in 1..n : paid[i] + a[i] <= due[i]
  OBVIOUS
<1> HIDE DEF ls, a, lp, b
<1>4. ASSUME NEW k \in 1..n, ls[k - 1] = lp[k - 1]
      PROVE  a[k] = b[k]
  <2>1. /\ ls[k - 1] \in Nat /\ seen[k] \in Nat /\ paid[k] \in Nat /\ due[k] \in Nat
        /\ seen[k] <= paid[k]
    BY <1>1
  <2>2. /\ a[k] = Lesser(due[k] - seen[k], ls[k - 1])
        /\ b[k] = Lesser(due[k] - paid[k], ls[k - 1])
        /\ paid[k] + a[k] <= due[k]
    BY <1>1, <1>2, <1>3, <1>4
  <2> QED
    BY <2>1, <2>2 DEF Lesser
<1>5. 0 \in B
  BY <1>1, <1>2
<1>6. ASSUME NEW k \in 1..n, k - 1 \in B
      PROVE  k \in B
  BY <1>1, <1>2, <1>4, <1>6
<1>7. 0..n \subseteq B
  <2>1. B \in SUBSET Nat
    OBVIOUS
  <2> HIDE DEF B
  <2> QED
    BY <1>5, <1>6, <2>1, CountTo
<1>8. \A k \in 1..n : a[k] = b[k]
  <2>1. \A k \in 1..n : k - 1 \in 0..n
    OBVIOUS
  <2> QED
    BY <1>4, <1>7, <2>1
<1> QED
  BY <1>1, <1>2, <1>8 DEF a, b

\* Taking from two amounts in turn is taking from their sum.
LEMMA LesserTwice ==
  ASSUME NEW d \in Nat, NEW x \in Nat, NEW y \in Nat
  PROVE  /\ Lesser(d, x + y) = Lesser(d, x) + Lesser(d - Lesser(d, x), y)
         /\ Lesser(d, x) \in Nat /\ Lesser(d - Lesser(d, x), y) \in Nat
<1>1. CASE d <= x
  <2>1. Lesser(d, x) = d /\ Lesser(d, x + y) = d /\ Lesser(0, y) = 0
    BY <1>1 DEF Lesser
  <2> QED
    BY <2>1
<1>2. CASE ~ (d <= x)
  <2>1. Lesser(d, x) = x
    BY <1>2 DEF Lesser
  <2>2. Lesser(d, x + y) = x + Lesser(d - x, y) /\ Lesser(d - x, y) \in Nat
    BY <1>2 DEF Lesser
  <2> QED
    BY <2>1, <2>2
<1> QED
  BY <1>1, <1>2

\* Two payments in a row leave what one payment of both amounts leaves.
LEMMA CascadeTwice ==
  ASSUME NEW n \in Nat, NEW due \in [1..n -> Nat], NEW none \in [1..n -> Nat],
         \A i \in 1..n : none[i] = 0, NEW x \in Nat, NEW y \in Nat
  PROVE  \A i \in 1..n :
           Cascade(due, none, x + y)[i]
             = Cascade(due, none, x)[i] + Cascade(due, Cascade(due, none, x), y)[i]
<1> DEFINE paid == Cascade(due, none, x)
           lx == LeftAfter(due, none, x)
           ly == LeftAfter(due, paid, y)
           lz == LeftAfter(due, none, x + y)
           a == Cascade(due, none, x)
           b == Cascade(due, paid, y)
           c == Cascade(due, none, x + y)
           B == {k \in 0..n : lz[k] = lx[k] + ly[k]}
<1>0. \A i \in 1..n : none[i] <= due[i]
  OBVIOUS
<1>1. /\ lx[0] = x
      /\ \A i \in 0..n : lx[i] \in Nat
      /\ a \in [1..n -> Nat]
      /\ \A i \in 1..n : /\ a[i] = Lesser(due[i] - none[i], lx[i - 1])
                         /\ lx[i] = lx[i - 1] - a[i]
                         /\ none[i] + a[i] <= due[i]
  BY <1>0, LeftFacts, Zenon
<1>pa. paid = a
  OBVIOUS
<1> HIDE DEF paid
<1>2. paid \in [1..n -> Nat] /\ \A i \in 1..n : paid[i] <= due[i]
  <2> HIDE DEF a
  <2>1. \A i \in 1..n : a[i] \in Nat /\ none[i] = 0 /\ none[i] + a[i] <= due[i]
    BY <1>1
  <2>2. \A i \in 1..n : due[i] \in Nat
    OBVIOUS
  <2>3. \A i \in 1..n : a[i] <= due[i]
    BY <2>1, <2>2
  <2> QED
    BY <1>1, <1>pa, <2>3
<1>3. /\ ly[0] = y
      /\ \A i \in 0..n : ly[i] \in Nat
      /\ b \in [1..n -> Nat]
      /\ \A i \in 1..n : /\ b[i] = Lesser(due[i] - paid[i], ly[i - 1])
                         /\ ly[i] = ly[i - 1] - b[i]
                         /\ paid[i] + b[i] <= due[i]
  BY <1>2, LeftFacts, Zenon
<1>xy. x + y \in Nat
  OBVIOUS
<1>4. /\ lz[0] = x + y
      /\ \A i \in 0..n : lz[i] \in Nat
      /\ c \in [1..n -> Nat]
      /\ \A i \in 1..n : /\ c[i] = Lesser(due[i] - none[i], lz[i - 1])
                         /\ lz[i] = lz[i - 1] - c[i]
                         /\ none[i] + c[i] <= due[i]
  BY <1>0, <1>xy, LeftFacts, Zenon
<1> HIDE DEF lx, ly, lz, a, b, c
<1>5. ASSUME NEW k \in 1..n, lz[k - 1] = lx[k - 1] + ly[k - 1]
      PROVE  c[k] = paid[k] + b[k] /\ lz[k] = lx[k] + ly[k]
  <2> DEFINE d == due[k]
             u == lx[k - 1]
             v == ly[k - 1]
  <2>1. d \in Nat /\ u \in Nat /\ v \in Nat /\ none[k] = 0
    BY <1>1, <1>3
  <2>2. paid[k] = Lesser(d, u) /\ lx[k] = u - paid[k]
    BY <1>1, <1>pa, <2>1
  <2>3. b[k] = Lesser(d - paid[k], v) /\ ly[k] = v - b[k]
    BY <1>3
  <2>4. c[k] = Lesser(d, u + v) /\ lz[k] = (u + v) - c[k]
    <3>1. due[k] - none[k] = d
      BY <2>1
    <3>2. lz[k - 1] = u + v
      BY <1>5
    <3>3. c[k] = Lesser(due[k] - none[k], lz[k - 1]) /\ lz[k] = lz[k - 1] - c[k]
      BY <1>4
    <3> HIDE DEF d, u, v
    <3> QED
      BY <3>1, <3>2, <3>3
  <2> HIDE DEF d, u, v
  <2>5. c[k] = paid[k] + b[k] /\ paid[k] \in Nat /\ b[k] \in Nat
    BY <2>1, <2>2, <2>3, <2>4, LesserTwice
  <2>6. lx[k] + ly[k] = (u - paid[k]) + (v - b[k]) /\ lz[k] = (u + v) - (paid[k] + b[k])
    BY <2>2, <2>3, <2>4, <2>5
  <2>7. (u - paid[k]) + (v - b[k]) = (u + v) - (paid[k] + b[k])
    BY <2>1, <2>5
  <2> QED
    BY <2>5, <2>6, <2>7
<1>6. 0 \in B
  BY <1>1, <1>3, <1>4
<1>7. ASSUME NEW k \in 1..n, k - 1 \in B
      PROVE  k \in B
  BY <1>5, <1>7
<1>8. 0..n \subseteq B
  <2>1. B \in SUBSET Nat
    OBVIOUS
  <2> HIDE DEF B
  <2> QED
    BY <1>6, <1>7, <2>1, CountTo
<1>9. \A k \in 1..n : c[k] = paid[k] + b[k]
  <2>1. \A k \in 1..n : k - 1 \in 0..n
    OBVIOUS
  <2> QED
    BY <1>5, <1>8, <2>1
<1> QED
  BY <1>9 DEF b, c, paid

\* The balance of a plan is zero exactly when every instalment is full.
LEMMA BalanceZero ==
  ASSUME NEW n \in Nat, NEW due \in [1..n -> Nat], NEW paid \in [1..n -> Nat],
         \A i \in 1..n : paid[i] <= due[i]
  PROVE  PortfolioBalance(due, paid) = 0 <=> \A i \in 1..n : paid[i] = due[i]
<1> DEFINE owed == Remaining(due, paid)
<1>1. /\ DOMAIN owed = 1..n /\ IsFiniteSet(1..n)
      /\ \A i \in 1..n : owed[i] = due[i] - paid[i] /\ owed[i] \in Nat
  <2>1. IsFiniteSet(1..n)
    BY FS_Interval
  <2> QED
    BY <2>1 DEF Remaining
<1> HIDE DEF owed
<1>2. (\A i \in 1..n : paid[i] = due[i]) => SumOver(owed, 1..n) = 0
  <2> SUFFICES ASSUME \A i \in 1..n : paid[i] = due[i]
               PROVE  SumOver(owed, 1..n) = 0
    OBVIOUS
  <2>1. \A i \in 1..n : owed[i] = 0
    BY <1>1
  <2> QED
    BY <1>1, <2>1, SumZero
<1>3. \A i \in 1..n : owed[i] <= SumOver(owed, 1..n)
  BY <1>1, PartAtMostSum
<1>4. SumOver(owed, 1..n) = 0 => \A i \in 1..n : paid[i] = due[i]
  BY <1>1, <1>3
<1> QED
  BY <1>1, <1>2, <1>4 DEF PortfolioBalance, Total, owed
-----------------------------------------------------------------------------
(* The capital part of each allocation.                                     *)

\* The floor of the proportional capital moves with the paid amount.
LEMMA RecoveredFacts ==
  ASSUME NEW P \in Nat, NEW T \in Nat, T > 0, NEW x \in Nat, NEW a \in Nat, P <= T
  PROVE  /\ PrincipalRecovered(P, T, x) \in Nat
         /\ PrincipalRecovered(P, T, x) <= PrincipalRecovered(P, T, x + a)
         /\ PrincipalRecovered(P, T, x + a) <= PrincipalRecovered(P, T, x) + a
<1> DEFINE y == x * P
           z == a * P
           q == y \div T
           r == (y + z) \div T
<1>1. y \in Nat /\ z \in Nat
  OBVIOUS
<1>2. z <= a * T
  OBVIOUS
<1>3. (x + a) * P = y + z
  OBVIOUS
<1>t. a * T \in Nat
  OBVIOUS
<1> HIDE DEF y, z
<1>4. q \in Nat /\ r \in Nat
  BY <1>1
<1>5. q * T <= y /\ y < (q + 1) * T
  BY <1>1
<1>6. r * T <= y + z /\ y + z < (r + 1) * T
  BY <1>1
<1> HIDE DEF q, r
<1>7. q <= r
  <2> SUFFICES ASSUME r + 1 <= q PROVE FALSE
    BY <1>4
  <2>1. (r + 1) * T <= q * T
    BY <1>4
  <2>2. (r + 1) * T \in Int /\ q * T \in Int
    BY <1>4
  <2> QED
    BY <1>1, <1>5, <1>6, <2>1, <2>2
<1>8. r <= q + a
  <2> SUFFICES ASSUME q + a + 1 <= r PROVE FALSE
    BY <1>4
  <2>1. (q + a + 1) * T <= r * T
    BY <1>4
  <2>2. (q + a + 1) * T = (q + 1) * T + a * T
    BY <1>4
  <2>3. (q + 1) * T \in Int /\ r * T \in Int
    BY <1>4
  <2> QED
    BY <1>1, <1>2, <1>t, <1>5, <1>6, <2>1, <2>2, <2>3
<1>9. /\ PrincipalRecovered(P, T, x) = q
      /\ PrincipalRecovered(P, T, x + a) = r
  BY <1>3 DEF PrincipalRecovered, q, r, y
<1> QED
  BY <1>4, <1>7, <1>8, <1>9

LEMMA RecoveredWhole ==
  ASSUME NEW P \in Nat, NEW T \in Nat, T > 0
  PROVE  PrincipalRecovered(P, T, T) = P /\ PrincipalRecovered(P, T, 0) = 0
<1>1. (T * P) \div T = P
  <2> DEFINE q == (T * P) \div T
             m == T * P
  <2>1. m \in Nat /\ m = P * T
    OBVIOUS
  <2> HIDE DEF m
  <2>2. q \in Int /\ q * T <= m /\ m < (q + 1) * T
    BY <2>1 DEF m
  <2> HIDE DEF q
  <2>3. ~ (q + 1 <= P)
    <3> SUFFICES ASSUME q + 1 <= P PROVE FALSE
      OBVIOUS
    <3>1. (q + 1) * T <= P * T
      BY <2>2
    <3>2. (q + 1) * T \in Int /\ P * T \in Int
      BY <2>2
    <3> QED
      BY <2>1, <2>2, <3>1, <3>2
  <2>4. ~ (P + 1 <= q)
    <3> SUFFICES ASSUME P + 1 <= q PROVE FALSE
      OBVIOUS
    <3>1. (P + 1) * T <= q * T
      BY <2>2
    <3>2. (P + 1) * T = P * T + T /\ P * T \in Int /\ q * T \in Int
      BY <2>2
    <3> QED
      BY <2>1, <2>2, <3>1, <3>2
  <2> QED
    BY <2>2, <2>3, <2>4 DEF q
<1>2. (0 * P) \div T = 0
  <2>1. 0 * P = 0
    OBVIOUS
  <2>2. 0 \div T = 0
    OBVIOUS
  <2> QED
    BY <2>1, <2>2
<1> QED
  BY <1>1, <1>2 DEF PrincipalRecovered

\* The money paid before an allocation, and with it, grows by that allocation.
LEMMA PaidUpToFacts ==
  ASSUME NEW n \in Nat, NEW a \in [1..n -> Nat], NEW x \in Nat
  PROVE  /\ PaidUpTo(x, a, 0) = x
         /\ PaidUpTo(x, a, n) = x + Total(a)
         /\ \A i \in 0..n : PaidUpTo(x, a, i) \in Nat
         /\ \A i \in 1..n : PaidUpTo(x, a, i) = PaidUpTo(x, a, i - 1) + a[i]
<1>1. \A i \in 0..n : {j \in DOMAIN a : j <= i} = 1..i
  OBVIOUS
<1>2. \A i \in 0..n : PaidUpTo(x, a, i) = x + SumOver(a, 1..i)
  BY <1>1 DEF PaidUpTo
<1>3. \A i \in 0..n : SumOver(a, 1..i) \in Nat
  <2> TAKE i \in 0..n
  <2>1. IsFiniteSet(1..i)
    BY FS_Interval
  <2>2. \A j \in 1..i : a[j] \in Nat
    OBVIOUS
  <2> QED
    BY <2>1, <2>2, SumNat
<1>4. SumOver(a, 1..0) = 0
  <2>1. 1..0 = {}
    OBVIOUS
  <2> QED
    BY <2>1, SumEmpty
<1>5. ASSUME NEW i \in 1..n
      PROVE  SumOver(a, 1..i) = SumOver(a, 1..(i - 1)) + a[i]
  BY UpToNext
<1>6. ASSUME NEW i \in 1..n
      PROVE  PaidUpTo(x, a, i) = PaidUpTo(x, a, i - 1) + a[i]
  <2>1. i \in 0..n /\ i - 1 \in 0..n /\ a[i] \in Nat
    OBVIOUS
  <2> QED
    BY <1>2, <1>3, <1>5, <2>1
<1>7. Total(a) = SumOver(a, 1..n)
  BY DEF Total
<1> QED
  BY <1>2, <1>3, <1>4, <1>6, <1>7

\* The capital parts are non-negative, never more than their allocation, and
\* add up to the difference of the recovered capital: no rounding is left over.
LEMMA SplitFacts ==
  ASSUME NEW n \in Nat, NEW a \in [1..n -> Nat], NEW x \in Nat,
         NEW P \in Nat, NEW T \in Nat, T > 0, P <= T
  PROVE  LET s == SplitPrincipal(P, T, x, a) IN
         /\ s \in [1..n -> Nat]
         /\ \A i \in 1..n : s[i] <= a[i]
         /\ Total(s) = PrincipalRecovered(P, T, x + Total(a)) - PrincipalRecovered(P, T, x)
<1> DEFINE s == SplitPrincipal(P, T, x, a)
           up(i) == PaidUpTo(x, a, i)
           rec(i) == PrincipalRecovered(P, T, up(i))
           B == {k \in 0..n : SumOver(s, 1..k) = rec(k) - rec(0)}
<1>1. /\ up(0) = x
      /\ up(n) = x + Total(a)
      /\ \A i \in 0..n : up(i) \in Nat
      /\ \A i \in 1..n : up(i) = up(i - 1) + a[i]
  BY PaidUpToFacts
<1>2. DOMAIN s = 1..n /\ \A i \in 1..n : s[i] = rec(i) - rec(i - 1)
  BY DEF SplitPrincipal
<1> HIDE DEF s, up
<1>3. \A i \in 0..n : rec(i) \in Nat
  BY <1>1, RecoveredFacts
<1>4. \A i \in 1..n : s[i] \in Nat /\ s[i] <= a[i]
  <2> TAKE i \in 1..n
  <2>1. /\ i - 1 \in 0..n /\ i \in 0..n /\ a[i] \in Nat
        /\ up(i - 1) \in Nat /\ up(i) = up(i - 1) + a[i]
    BY <1>1
  <2>2. rec(i - 1) <= rec(i) /\ rec(i) <= rec(i - 1) + a[i]
    BY <2>1, RecoveredFacts
  <2> HIDE DEF rec
  <2> QED
    BY <1>2, <1>3, <2>1, <2>2
<1> HIDE DEF rec
<1>5. 0 \in B
  <2>1. 1..0 = {} /\ 0 \in 0..n
    OBVIOUS
  <2> QED
    BY <1>3, <2>1, SumEmpty
<1>6. s \in [1..n -> Nat]
  <2>1. s = [i \in 1..n |-> s[i]]
    <3>1. s = [i \in 1..n |-> PrincipalRecovered(P, T, PaidUpTo(x, a, i))
                                 - PrincipalRecovered(P, T, PaidUpTo(x, a, i - 1))]
      BY DEF s, SplitPrincipal
    <3> QED
      BY <3>1
  <2> QED
    BY <1>4, <2>1
<1>7. ASSUME NEW k \in 1..n, k - 1 \in B
      PROVE  k \in B
  <2>1. SumOver(s, 1..k) = SumOver(s, 1..(k - 1)) + s[k]
    <3>1. s \in [1..n -> Int]
      BY <1>6
    <3> QED
      BY <3>1, UpToNext
  <2>2. k - 1 \in 0..n /\ k \in 0..n
    OBVIOUS
  <2> QED
    BY <1>2, <1>3, <1>7, <2>1, <2>2
<1>8. 0..n \subseteq B
  <2>1. B \in SUBSET Nat
    OBVIOUS
  <2> HIDE DEF B
  <2> QED
    BY <1>5, <1>7, <2>1, CountTo
<1>9. Total(s) = rec(n) - rec(0)
  <2>1. SumOver(s, 1..n) = rec(n) - rec(0)
    BY <1>8
  <2> QED
    BY <1>2, <2>1 DEF Total
<1> QED
  BY <1>1, <1>4, <1>6, <1>9 DEF s, rec

\* Nothing to hand out, nothing handed out.
LEMMA CascadeOfNothing ==
  ASSUME NEW n \in Nat, NEW due \in [1..n -> Nat], NEW paid \in [1..n -> Nat],
         \A i \in 1..n : paid[i] <= due[i]
  PROVE  Cascade(due, paid, 0) = [i \in 1..n |-> 0]
<1> DEFINE a == Cascade(due, paid, 0)
           left == LeftAfter(due, paid, 0)
<1>0. 0 \in Nat
  OBVIOUS
<1>1. /\ left[0] = 0
      /\ \A i \in 0..n : left[i] \in Nat
      /\ a \in [1..n -> Nat]
      /\ \A i \in 1..n : /\ a[i] = Lesser(due[i] - paid[i], left[i - 1])
                         /\ left[i] = left[i - 1] - a[i]
                         /\ paid[i] + a[i] <= due[i]
  BY <1>0, LeftFacts, Zenon
<1>2. Total(a) = 0 - left[n]
  BY <1>0, CascadeSum, Zenon
<1> HIDE DEF a, left
<1>3. IsFiniteSet(1..n) /\ \A i \in 1..n : a[i] \in Nat
  <2>1. IsFiniteSet(1..n)
    BY FS_Interval
  <2> QED
    BY <1>1, <2>1
<1>4. Total(a) = SumOver(a, 1..n)
  BY <1>1 DEF Total
<1>5. \A i \in 1..n : SumOver(a, 1..n) \in Nat /\ a[i] <= SumOver(a, 1..n)
  BY <1>3, PartAtMostSum
<1>6. left[n] \in Nat
  BY <1>1
<1>7. \A i \in 1..n : a[i] = 0
  BY <1>2, <1>3, <1>4, <1>5, <1>6
<1> QED
  BY <1>1, <1>7 DEF a

=============================================================================

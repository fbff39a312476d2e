-------------------------------- MODULE Sums --------------------------------
(***************************************************************************)
(* The sum of a function over a finite set, as the invariants about money  *)
(* write it (MapThenSumSet of FiniteSetsExt): what happens to it when an   *)
(* element comes, goes or changes its value.                               *)
(*                                                                         *)
(* MapThenSumSet picks the elements one by one with CHOOSE, in a function  *)
(* that is defined recursively on the subsets of the set.  That this       *)
(* function exists, and that the order of the picks does not matter, is    *)
(* proved by looking at a smallest set that would tell otherwise.          *)
(***************************************************************************)
EXTENDS Integers, FiniteSetsExt, FiniteSetTheorems, WellFoundedInduction, TLAPS

Total(g, S) == MapThenSumSet(LAMBDA x : g[x], S)

Picked(s) == CHOOSE x \in s : TRUE
Rest(s) == s \ {Picked(s)}

\* What a sum over s is, iter being the sums over smaller sets.
SumStep(g, iter, s) == IF s = {} THEN 0 ELSE g[Picked(s)] + iter[Rest(s)]

\* iter holds the sum over every subset of S.
IsSums(g, S, iter) == iter = [s \in SUBSET S |-> SumStep(g, iter, s)]

-----------------------------------------------------------------------------
\* Every set of natural numbers that has an element has a smallest one.
LEMMA LeastNumber ==
    ASSUME NEW S, S \subseteq Nat, S # {}
    PROVE  \E k \in S : \A j \in S : k <= j
  <1> DEFINE R == OpToRel(<, Nat)
  <1>1. PICK k \in S : \A j \in S : ~(<<j, k>> \in R)
    <2>1. IsWellFoundedOn(R, Nat)
      BY NatLessThanWellFounded
    <2> HIDE DEF R
    <2> QED
      BY <2>1, WFMin
  <1>2. \A j \in S : j < k => <<j, k>> \in R
    BY DEF OpToRel
  <1> HIDE DEF R
  <1>3. \A j \in S : ~(j < k)
    BY <1>1, <1>2
  <1> QED
    BY <1>3

\* Of the finite sets in F one has the fewest elements.
LEMMA SmallestSet ==
    ASSUME NEW F, F # {}, \A s \in F : IsFiniteSet(s)
    PROVE  \E s \in F : \A t \in F : Cardinality(s) <= Cardinality(t)
  <1> DEFINE N == {Cardinality(s) : s \in F}
  <1>1. N \subseteq Nat /\ N # {}
    BY FS_CardinalityType
  <1>2. PICK k \in N : \A j \in N : k <= j
    <2> HIDE DEF N
    <2> QED
      BY <1>1, LeastNumber
  <1> QED
    BY <1>2

\* A set without one of its elements.
LEMMA OneFewer ==
    ASSUME NEW s, IsFiniteSet(s), NEW x \in s
    PROVE  /\ IsFiniteSet(s \ {x})
           /\ Cardinality(s \ {x}) = Cardinality(s) - 1
           /\ Cardinality(s) \in Nat /\ Cardinality(s \ {x}) \in Nat
           /\ Cardinality(s \ {x}) < Cardinality(s)
  <1>1. IsFiniteSet(s \ {x}) /\ Cardinality(s \ {x}) = Cardinality(s) - 1
    BY FS_RemoveElement
  <1>2. Cardinality(s) \in Nat /\ Cardinality(s \ {x}) \in Nat
    BY <1>1, FS_CardinalityType
  <1> QED
    BY <1>1, <1>2

LEMMA RestIsSmaller ==
    ASSUME NEW s, IsFiniteSet(s), s # {}
    PROVE  /\ Picked(s) \in s /\ Rest(s) \subseteq s
           /\ IsFiniteSet(Rest(s))
           /\ Cardinality(Rest(s)) < Cardinality(s)
           /\ Cardinality(s) \in Nat /\ Cardinality(Rest(s)) \in Nat
  <1>1. Picked(s) \in s
    BY DEF Picked
  <1> QED
    BY <1>1, OneFewer DEF Rest

-----------------------------------------------------------------------------
(* The recursive definition *)

\* Sums up to a number of elements can be written down, and then for one more.
LEMMA SumsExist ==
    ASSUME NEW g, NEW S, IsFiniteSet(S)
    PROVE  \E iter : IsSums(g, S, iter)
  <1> DEFINE Up(n, f) == \A s \in SUBSET S : Cardinality(s) <= n => f[s] = SumStep(g, f, s)
             Bad == {n \in Nat : ~ \E f : f = [s \in SUBSET S |-> f[s]] /\ Up(n, f)}
  <1>0. \A s \in SUBSET S : IsFiniteSet(s) /\ Cardinality(s) \in Nat
                            /\ Cardinality(s) <= Cardinality(S)
    BY FS_Subset, FS_CardinalityType
  <1>1. Bad = {}
    <2> SUFFICES ASSUME Bad # {}
                 PROVE  FALSE
      OBVIOUS
    <2>1. Bad \subseteq Nat
      OBVIOUS
    <2>2. PICK n \in Bad : \A j \in Bad : n <= j
      <3> HIDE DEF Bad
      <3> QED
        BY <2>1, LeastNumber
    <2>3. PICK f : \A m \in Nat : m < n => Up(m, f)
      <3>1. CASE n = 0
        BY <3>1
      <3>2. CASE n # 0
        <4>1. n - 1 \in Nat /\ n - 1 \notin Bad
          <5>1. n \in Nat /\ n - 1 \in Nat /\ ~(n <= n - 1)
            BY <2>1, <3>2
          <5> HIDE DEF Bad
          <5> QED
            BY <2>2, <5>1
        <4>2. PICK f : Up(n - 1, f)
          BY <4>1
        <4>3. \A m \in Nat : m < n => m <= n - 1
          BY <3>2
        <4>4. \A m \in Nat : m < n => Up(m, f)
          BY <1>0, <4>1, <4>2, <4>3
        <4> QED
          BY <4>4
      <3> QED
        BY <3>1, <3>2
    <2> DEFINE h == [s \in SUBSET S |-> SumStep(g, f, s)]
    <2>4. ASSUME NEW s \in SUBSET S, Cardinality(s) <= n
          PROVE  h[s] = SumStep(g, h, s)
      <3>1. CASE s = {}
        BY <3>1 DEF SumStep
      <3>2. CASE s # {}
        <4>1. Rest(s) \in SUBSET S /\ Cardinality(Rest(s)) \in Nat /\ Cardinality(Rest(s)) < n
          BY <1>0, <2>4, <3>2, RestIsSmaller
        <4>2. f[Rest(s)] = SumStep(g, f, Rest(s))
          BY <2>3, <4>1
        <4>3. h[Rest(s)] = f[Rest(s)]
          BY <4>1, <4>2
        <4>4. h[s] = g[Picked(s)] + f[Rest(s)]
          BY <3>2 DEF SumStep
        <4> HIDE DEF h
        <4> QED
          BY <3>2, <4>3, <4>4 DEF SumStep
      <3> QED
        BY <3>1, <3>2
    <2>5. h = [s \in SUBSET S |-> h[s]]
      OBVIOUS
    <2> HIDE DEF h
    <2> QED
      BY <2>2, <2>4, <2>5
  <1>2. Cardinality(S) \notin Bad /\ Cardinality(S) \in Nat
    BY <1>1, FS_CardinalityType
  <1>3. PICK f : f = [s \in SUBSET S |-> f[s]] /\ Up(Cardinality(S), f)
    BY <1>2
  <1>4. \A s \in SUBSET S : f[s] = SumStep(g, f, s)
    BY <1>0, <1>3
  <1>5. f = [s \in SUBSET S |-> SumStep(g, f, s)]
    BY <1>3, <1>4
  <1> QED
    BY <1>5 DEF IsSums

\* Two tables of sums agree wherever both speak, if the values they add are the same.
LEMMA SumsAgree ==
    ASSUME NEW g, NEW h, NEW S, NEW T, IsFiniteSet(S), S \subseteq T,
           \A x \in S : g[x] = h[x],
           NEW a, IsSums(g, S, a), NEW b, IsSums(h, T, b)
    PROVE  \A s \in SUBSET S : a[s] = b[s]
  <1> DEFINE Bad == {s \in SUBSET S : a[s] # b[s]}
  <1> SUFFICES ASSUME Bad # {}
               PROVE  FALSE
    OBVIOUS
  <1>1. \A s \in Bad : IsFiniteSet(s)
    BY FS_Subset
  <1>2. PICK s \in Bad : \A t \in Bad : Cardinality(s) <= Cardinality(t)
    <2> HIDE DEF Bad
    <2> QED
      BY <1>1, SmallestSet
  <1>3. a[s] = SumStep(g, a, s) /\ b[s] = SumStep(h, b, s)
    BY DEF IsSums
  <1>4. s # {}
    BY <1>3 DEF SumStep
  <1>5. Picked(s) \in S /\ Rest(s) \in SUBSET S
    BY <1>1, <1>4, RestIsSmaller
  <1>6. Rest(s) \notin Bad
    BY <1>1, <1>2, <1>4, RestIsSmaller
  <1>7. a[Rest(s)] = b[Rest(s)]
    BY <1>5, <1>6
  <1>8. a[s] = b[s]
    BY <1>3, <1>4, <1>5, <1>7 DEF SumStep
  <1> QED
    BY <1>8

\* MapThenSumSet looks its result up in such a table.
LEMMA TotalIsTheSum ==
    ASSUME NEW g, NEW S, IsFiniteSet(S)
    PROVE  \E iter : IsSums(g, S, iter) /\ Total(g, S) = iter[S]
  <1>1. Total(g, S) = (CHOOSE iter : IsSums(g, S, iter))[S]
    BY DEF Total, MapThenSumSet, MapThenFoldSet, IsSums, SumStep, Picked, Rest
  <1> QED
    BY <1>1, SumsExist

\* A sum depends on the values of the elements alone.
LEMMA TotalSame ==
    ASSUME NEW g, NEW h, NEW S, IsFiniteSet(S), \A x \in S : g[x] = h[x]
    PROVE  Total(g, S) = Total(h, S)
  <1>1. PICK a : IsSums(g, S, a) /\ Total(g, S) = a[S]
    BY TotalIsTheSum
  <1>2. PICK b : IsSums(h, S, b) /\ Total(h, S) = b[S]
    BY TotalIsTheSum
  <1>3. \A s \in SUBSET S : a[s] = b[s]
    BY <1>1, <1>2, SumsAgree
  <1> QED
    BY <1>1, <1>2, <1>3

LEMMA TotalOfNone == \A g : Total(g, {}) = 0
  <1> SUFFICES ASSUME NEW g
               PROVE  Total(g, {}) = 0
    OBVIOUS
  <1>1. PICK a : IsSums(g, {}, a) /\ Total(g, {}) = a[{}]
    BY TotalIsTheSum, FS_EmptySet
  <1> QED
    BY <1>1 DEF IsSums, SumStep

LEMMA TotalUnfolds ==
    ASSUME NEW g, NEW S, IsFiniteSet(S), S # {}
    PROVE  Total(g, S) = g[Picked(S)] + Total(g, Rest(S))
  <1>1. PICK a : IsSums(g, S, a) /\ Total(g, S) = a[S]
    BY TotalIsTheSum
  <1>2. Rest(S) \subseteq S /\ IsFiniteSet(Rest(S))
    BY RestIsSmaller
  <1>3. PICK b : IsSums(g, Rest(S), b) /\ Total(g, Rest(S)) = b[Rest(S)]
    BY <1>2, TotalIsTheSum
  <1>4. \A s \in SUBSET Rest(S) : b[s] = a[s]
    BY <1>1, <1>2, <1>3, SumsAgree
  <1>5. a[S] = SumStep(g, a, S)
    BY <1>1 DEF IsSums
  <1> QED
    BY <1>1, <1>3, <1>4, <1>5 DEF SumStep

-----------------------------------------------------------------------------
(* What the invariants need *)

LEMMA TotalIsInt ==
    ASSUME NEW g, NEW S, IsFiniteSet(S), \A x \in S : g[x] \in Int
    PROVE  Total(g, S) \in Int
  <1> DEFINE Bad == {s \in SUBSET S : Total(g, s) \notin Int}
  <1> SUFFICES ASSUME Bad # {}
               PROVE  FALSE
    OBVIOUS
  <1>1. \A s \in Bad : IsFiniteSet(s)
    BY FS_Subset
  <1>2. PICK s \in Bad : \A t \in Bad : Cardinality(s) <= Cardinality(t)
    <2> HIDE DEF Bad
    <2> QED
      BY <1>1, SmallestSet
  <1>3. s # {} /\ IsFiniteSet(s)
    BY <1>1, TotalOfNone
  <1>4. Picked(s) \in S /\ Rest(s) \in SUBSET S /\ Rest(s) \notin Bad
    BY <1>2, <1>3, RestIsSmaller
  <1>5. Total(g, s) = g[Picked(s)] + Total(g, Rest(s))
    BY <1>3, TotalUnfolds
  <1> QED
    BY <1>4, <1>5

\* Any element can be taken out first.
LEMMA TotalWithout ==
    ASSUME NEW g, NEW S, IsFiniteSet(S), \A x \in S : g[x] \in Int, NEW x \in S
    PROVE  Total(g, S) = g[x] + Total(g, S \ {x})
  <1> DEFINE Bad == {s \in SUBSET S : \E y \in s : Total(g, s) # g[y] + Total(g, s \ {y})}
  <1> SUFFICES ASSUME Bad # {}
               PROVE  FALSE
    OBVIOUS
  <1>0. \A s \in SUBSET S : IsFiniteSet(s) /\ Total(g, s) \in Int
    BY FS_Subset, TotalIsInt
  <1>1. PICK s \in Bad : \A t \in Bad : Cardinality(s) <= Cardinality(t)
    <2>1. \A s \in Bad : IsFiniteSet(s)
      BY <1>0
    <2> HIDE DEF Bad
    <2> QED
      BY <2>1, SmallestSet
  <1>2. PICK y \in s : Total(g, s) # g[y] + Total(g, s \ {y})
    OBVIOUS
  <1>3. IsFiniteSet(s) /\ s # {} /\ y \in S
    BY <1>0
  <1> DEFINE c == Picked(s)
  <1>4. c \in s /\ c \in S
    BY <1>3, RestIsSmaller
  <1>5. Total(g, s) = g[c] + Total(g, s \ {c})
    BY <1>3, TotalUnfolds DEF Rest
  <1>6. y # c
    BY <1>2, <1>5
  <1> HIDE DEF c
  <1>7. s \ {c} \notin Bad /\ s \ {y} \notin Bad
    <2>1. /\ Cardinality(s) \in Nat
          /\ Cardinality(s \ {c}) \in Nat /\ Cardinality(s \ {c}) < Cardinality(s)
          /\ Cardinality(s \ {y}) \in Nat /\ Cardinality(s \ {y}) < Cardinality(s)
      BY <1>2, <1>3, <1>4, OneFewer
    <2> HIDE DEF Bad
    <2> QED
      BY <1>1, <2>1
  <1>8. Total(g, s \ {c}) = g[y] + Total(g, (s \ {c}) \ {y})
    BY <1>2, <1>4, <1>6, <1>7
  <1>9. Total(g, s \ {y}) = g[c] + Total(g, (s \ {y}) \ {c})
    BY <1>2, <1>4, <1>6, <1>7
  <1>10. (s \ {c}) \ {y} = (s \ {y}) \ {c}
    OBVIOUS
  <1>11. g[y] \in Int /\ g[c] \in Int /\ Total(g, (s \ {c}) \ {y}) \in Int
    BY <1>0, <1>3, <1>4
  <1>12. Total(g, s) = g[y] + Total(g, s \ {y})
    <2> DEFINE u == Total(g, (s \ {c}) \ {y})
    <2>1. Total(g, s) = g[c] + (g[y] + u) /\ Total(g, s \ {y}) = g[c] + u
      BY <1>5, <1>8, <1>9, <1>10
    <2> HIDE DEF u
    <2> QED
      BY <1>11, <2>1 DEF u
  <1> QED
    BY <1>2, <1>12

\* An element comes, the values of the others being the same.
LEMMA TotalWithOneMore ==
    ASSUME NEW g, NEW h, NEW S, IsFiniteSet(S), NEW x, x \notin S,
           \A y \in S : g[y] \in Int /\ h[y] = g[y], h[x] \in Int
    PROVE  Total(h, S \cup {x}) = h[x] + Total(g, S)
  <1>1. IsFiniteSet(S \cup {x}) /\ (S \cup {x}) \ {x} = S
    BY FS_AddElement
  <1>2. \A y \in S \cup {x} : h[y] \in Int
    OBVIOUS
  <1>3. Total(h, S \cup {x}) = h[x] + Total(h, (S \cup {x}) \ {x})
    BY <1>1, <1>2, TotalWithout
  <1> QED
    BY <1>1, <1>3, TotalSame

\* One value changes.
LEMMA TotalWithChange ==
    ASSUME NEW g, NEW h, NEW S, IsFiniteSet(S), NEW x \in S,
           \A y \in S : g[y] \in Int /\ h[y] \in Int, \A y \in S \ {x} : h[y] = g[y]
    PROVE  Total(h, S) = Total(g, S) + h[x] - g[x]
  <1>1. IsFiniteSet(S \ {x})
    BY FS_RemoveElement
  <1>2. Total(g, S) = g[x] + Total(g, S \ {x}) /\ Total(h, S) = h[x] + Total(h, S \ {x})
    BY TotalWithout
  <1>3. Total(h, S \ {x}) = Total(g, S \ {x})
    BY <1>1, TotalSame
  <1>4. Total(g, S \ {x}) \in Int
    BY <1>1, TotalIsInt
  <1> QED
    BY <1>2, <1>3, <1>4

LEMMA TotalIsNat ==
    ASSUME NEW g, NEW S, IsFiniteSet(S), \A x \in S : g[x] \in Nat
    PROVE  Total(g, S) \in Nat
  <1> DEFINE Bad == {s \in SUBSET S : Total(g, s) \notin Nat}
  <1> SUFFICES ASSUME Bad # {}
               PROVE  FALSE
    OBVIOUS
  <1>1. \A s \in Bad : IsFiniteSet(s)
    BY FS_Subset
  <1>2. PICK s \in Bad : \A t \in Bad : Cardinality(s) <= Cardinality(t)
    <2> HIDE DEF Bad
    <2> QED
      BY <1>1, SmallestSet
  <1>3. s # {} /\ IsFiniteSet(s)
    BY <1>1, TotalOfNone
  <1>4. Picked(s) \in S /\ Rest(s) \in SUBSET S /\ Rest(s) \notin Bad
    BY <1>2, <1>3, RestIsSmaller
  <1>5. Total(g, s) = g[Picked(s)] + Total(g, Rest(s))
    BY <1>3, TotalUnfolds
  <1> QED
    BY <1>4, <1>5

\* No term of a sum of natural numbers is more than the sum.
LEMMA TotalCovers ==
    ASSUME NEW g, NEW S, IsFiniteSet(S), \A x \in S : g[x] \in Nat, NEW x \in S
    PROVE  g[x] <= Total(g, S)
  <1>1. Total(g, S) = g[x] + Total(g, S \ {x})
    BY TotalWithout
  <1>2. IsFiniteSet(S \ {x})
    BY FS_RemoveElement
  <1>3. Total(g, S \ {x}) \in Nat
    BY <1>2, TotalIsNat
  <1> QED
    BY <1>1, <1>3
=============================================================================

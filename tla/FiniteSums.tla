------------------------------ MODULE FiniteSums ------------------------------
(***************************************************************************)
(* The sum of an integer function over a finite set, as the community      *)
(* modules define it (Functions!SumFunctionOnSet): what the proofs about   *)
(* stock need to know of it.                                               *)
(*                                                                         *)
(* The definition folds the set in an unspecified order, so each fact is   *)
(* an induction on the size of a set.  It is carried out as the absence of *)
(* a least counterexample, which needs no theorem with an operator for a   *)
(* parameter.                                                              *)
(***************************************************************************)
EXTENDS Integers, FiniteSets, Functions, FiniteSetTheorems, TLAPS

\* The element that a fold of T takes first.
First(T) == CHOOSE x \in T : TRUE

\* One step of the fold: the sum over T, given in g the sums over smaller sets.
Unfold(g, f, T) == IF T = {} THEN 0 ELSE f[First(T)] + g[T \ {First(T)}]

\* g holds the sums of f over the subsets of S, and over those of at most n
\* elements.
SumsOver(g, f, S) == g = [T \in SUBSET S |-> Unfold(g, f, T)]

SumsUpTo(g, f, S, n) ==
  \A T \in SUBSET S : Cardinality(T) <= n => g[T] = Unfold(g, f, T)

-----------------------------------------------------------------------------
(* Induction on the size of a finite set.                                   *)

LessThan == {p \in Nat \X Nat : p[1] < p[2]}

\* A nonempty set of numbers has a least one.
LEMMA LeastNumber ==
  ASSUME NEW N, N \subseteq Nat, N # {}
  PROVE  \E n \in N : \A m \in N : n <= m
<1>1. IsWellFoundedOn(LessThan, Nat)
  BY NatLessThanWellFounded DEF OpToRel, LessThan
<1>2. PICK n \in N : \A m \in N : <<m, n>> \notin LessThan
  BY <1>1, WFMin
<1>3. ASSUME NEW m \in N PROVE n <= m
  <2>1. <<m, n>> \notin LessThan /\ m \in Nat /\ n \in Nat
    BY <1>2
  <2> QED
    BY <2>1 DEF LessThan
<1> QED
  BY <1>3

\* The first element of a nonempty set is in it.
LEMMA FirstIn == ASSUME NEW T, T # {} PROVE First(T) \in T
BY DEF First

\* Removing an element makes a subset of a finite set one smaller.
LEMMA OneSmaller ==
  ASSUME NEW S, IsFiniteSet(S), NEW T \in SUBSET S, NEW x \in T
  PROVE  /\ IsFiniteSet(T) /\ IsFiniteSet(T \ {x}) /\ T \ {x} \in SUBSET S
         /\ Cardinality(T) \in Nat /\ Cardinality(T \ {x}) \in Nat
         /\ Cardinality(T \ {x}) = Cardinality(T) - 1
<1>1. IsFiniteSet(T)
  BY FS_Subset
<1> QED
  BY <1>1, FS_RemoveElement, FS_CardinalityType

-----------------------------------------------------------------------------
(* The function that the fold defines by recursion exists.                  *)

\* The sums over the sets of up to n elements exist, for every n.
LEMMA SumsUpToExist ==
  ASSUME NEW S, IsFiniteSet(S), NEW f, NEW k \in Nat
  PROVE  \E g : SumsUpTo(g, f, S, k)
<1> DEFINE Bad == {n \in Nat : ~ \E g : SumsUpTo(g, f, S, n)}
<1>1. SUFFICES ASSUME Bad # {} PROVE FALSE
  OBVIOUS
<1>2. PICK n \in Bad : \A m \in Bad : n <= m
  BY <1>1, LeastNumber
<1>3. n \in Nat /\ ~ \E g : SumsUpTo(g, f, S, n)
  OBVIOUS
<1>4. n # 0
  <2> DEFINE zero == [T \in SUBSET S |-> 0]
  <2>1. ASSUME NEW T \in SUBSET S, Cardinality(T) <= 0 PROVE T = {}
    BY <2>1, FS_Subset, FS_EmptySet, FS_CardinalityType
  <2>2. SumsUpTo(zero, f, S, 0)
    BY <2>1 DEF SumsUpTo, Unfold
  <2> QED
    BY <2>2, <1>3
<1>5. n - 1 \in Nat /\ n - 1 \notin Bad
  BY <1>2, <1>3, <1>4
<1>6. PICK g : SumsUpTo(g, f, S, n - 1)
  BY <1>5
<1> DEFINE next == [T \in SUBSET S |-> Unfold(g, f, T)]
<1>7. ASSUME NEW T \in SUBSET S, Cardinality(T) <= n
      PROVE  next[T] = Unfold(next, f, T)
  <2>1. CASE T = {}
    BY <2>1 DEF Unfold
  <2>2. CASE T # {}
    <3>1. First(T) \in T
      BY <2>2, FirstIn
    <3>2. T \ {First(T)} \in SUBSET S /\ Cardinality(T \ {First(T)}) <= n - 1
      <4> HIDE DEF Bad, next
      <4>1. /\ T \ {First(T)} \in SUBSET S /\ Cardinality(T) \in Nat
            /\ Cardinality(T \ {First(T)}) = Cardinality(T) - 1
        BY <3>1, OneSmaller, Zenon
      <4> QED
        BY <1>3, <1>7, <4>1
    <3>3. next[T \ {First(T)}] = g[T \ {First(T)}]
      BY <1>6, <3>2 DEF SumsUpTo
    <3> QED
      BY <2>2, <3>3 DEF Unfold
  <2> QED
    BY <2>1, <2>2
<1> HIDE DEF next
<1>8. SumsUpTo(next, f, S, n)
  BY <1>7 DEF SumsUpTo
<1> QED
  BY <1>8, <1>3

\* The sums over all subsets of a finite set exist.
LEMMA SumsExist ==
  ASSUME NEW S, IsFiniteSet(S), NEW f
  PROVE  \E g : SumsOver(g, f, S)
<1>1. Cardinality(S) \in Nat
  BY FS_CardinalityType
<1>2. PICK g : SumsUpTo(g, f, S, Cardinality(S))
  BY <1>1, SumsUpToExist
<1>3. \A T \in SUBSET S : g[T] = Unfold(g, f, T)
  BY <1>2, FS_Subset DEF SumsUpTo
<1> DEFINE sums == [T \in SUBSET S |-> g[T]]
<1>4. ASSUME NEW T \in SUBSET S PROVE sums[T] = Unfold(sums, f, T)
  <2>1. T \ {First(T)} \in SUBSET S
    OBVIOUS
  <2> QED
    BY <1>3, <2>1 DEF Unfold
<1>5. sums = [T \in SUBSET S |-> Unfold(sums, f, T)]
  BY <1>4
<1> HIDE DEF sums
<1>6. SumsOver(sums, f, S)
  BY <1>5 DEF SumsOver
<1> QED
  BY <1>6

\* SumFunctionOnSet reads the sum over S off that function.
LEMMA SumUnfolds ==
  ASSUME NEW f, NEW S
  PROVE  SumFunctionOnSet(f, S) = (CHOOSE g : SumsOver(g, f, S))[S]
BY Zenon DEF SumFunctionOnSet, FoldFunctionOnSet, MapThenFoldSet, SumsOver, Unfold, First

\* Two such functions agree on every set on which the summands agree.
LEMMA SumsAgree ==
  ASSUME NEW S, IsFiniteSet(S), NEW f, NEW g, SumsOver(g, f, S),
         NEW U, IsFiniteSet(U), NEW e, NEW h, SumsOver(h, e, U),
         NEW V \in SUBSET S, V \in SUBSET U, \A x \in V : f[x] = e[x]
  PROVE  g[V] = h[V]
<1> DEFINE Differ(T) == g[T] # h[T]
           Bad == {n \in Nat : \E T \in SUBSET V : Cardinality(T) = n /\ Differ(T)}
<1>1. \A T \in SUBSET S : g[T] = Unfold(g, f, T)
  BY DEF SumsOver
<1>2. \A T \in SUBSET U : h[T] = Unfold(h, e, T)
  BY DEF SumsOver
<1>3. IsFiniteSet(V) /\ Cardinality(V) \in Nat
  BY FS_Subset, FS_CardinalityType
<1>4. SUFFICES ASSUME Bad # {} PROVE FALSE
  BY <1>3
<1>5. PICK n \in Bad : \A m \in Bad : n <= m
  BY <1>4, LeastNumber
<1>6. PICK T \in SUBSET V : Cardinality(T) = n /\ Differ(T)
  OBVIOUS
<1>7. T # {}
  BY <1>1, <1>2, <1>6 DEF Unfold
<1>8. First(T) \in T
  BY <1>7, FirstIn
<1>9. /\ T \ {First(T)} \in SUBSET V /\ Cardinality(T \ {First(T)}) \in Nat
      /\ Cardinality(T \ {First(T)}) = Cardinality(T) - 1
  BY <1>3, <1>8, OneSmaller
<1>10. ~ Differ(T \ {First(T)})
  BY <1>5, <1>6, <1>9
<1>11. g[T] = f[First(T)] + g[T \ {First(T)}]
  BY <1>1, <1>7 DEF Unfold
<1>12. h[T] = e[First(T)] + h[T \ {First(T)}]
  BY <1>2, <1>7 DEF Unfold
<1> QED
  BY <1>6, <1>8, <1>10, <1>11, <1>12

-----------------------------------------------------------------------------
(* The facts about sums.                                                    *)

\* The sum over no elements is zero.
THEOREM SumOfNone == ASSUME NEW f PROVE SumFunctionOnSet(f, {}) = 0
<1>1. PICK g : g = (CHOOSE h : SumsOver(h, f, {}))
  OBVIOUS
<1>2. SumsOver(g, f, {})
  BY <1>1, SumsExist, FS_EmptySet
<1>3. g[{}] = Unfold(g, f, {})
  BY <1>2 DEF SumsOver
<1> QED
  BY <1>1, <1>3, SumUnfolds DEF Unfold

\* The sum depends on the summands over the set only.
THEOREM SumOfEqual ==
  ASSUME NEW S, IsFiniteSet(S), NEW f, NEW e, \A x \in S : f[x] = e[x]
  PROVE  SumFunctionOnSet(f, S) = SumFunctionOnSet(e, S)
<1>1. PICK g : g = (CHOOSE h : SumsOver(h, f, S))
  OBVIOUS
<1>2. PICK d : d = (CHOOSE h : SumsOver(h, e, S))
  OBVIOUS
<1>3. SumsOver(g, f, S) /\ SumsOver(d, e, S)
  BY <1>1, <1>2, SumsExist
<1>4. g[S] = d[S]
  BY <1>3, SumsAgree
<1> QED
  BY <1>1, <1>2, <1>4, SumUnfolds

\* A sum is one summand and the sum over the rest: the fold's own choice first.
LEMMA SumStep ==
  ASSUME NEW S, IsFiniteSet(S), NEW f, S # {}
  PROVE  SumFunctionOnSet(f, S) = f[First(S)] + SumFunctionOnSet(f, S \ {First(S)})
<1> DEFINE R == S \ {First(S)}
<1>1. PICK g : g = (CHOOSE h : SumsOver(h, f, S))
  OBVIOUS
<1>2. PICK d : d = (CHOOSE h : SumsOver(h, f, R))
  OBVIOUS
<1>3. IsFiniteSet(R) /\ R \in SUBSET S
  BY FS_Subset
<1>4. SumsOver(g, f, S) /\ SumsOver(d, f, R)
  BY <1>1, <1>2, <1>3, SumsExist
<1>5. g[R] = d[R]
  BY <1>3, <1>4, SumsAgree
<1>6. g[S] = f[First(S)] + g[R]
  BY <1>4 DEF SumsOver, Unfold
<1> QED
  BY <1>1, <1>2, <1>5, <1>6, SumUnfolds

\* The sum of integers is one.
THEOREM SumIsInt ==
  ASSUME NEW S, IsFiniteSet(S), NEW f, \A x \in S : f[x] \in Int
  PROVE  SumFunctionOnSet(f, S) \in Int
<1> DEFINE Odd(T) == SumFunctionOnSet(f, T) \notin Int
           Bad == {n \in Nat : \E T \in SUBSET S : Cardinality(T) = n /\ Odd(T)}
<1>1. SUFFICES ASSUME Bad # {} PROVE FALSE
  BY FS_CardinalityType
<1>2. PICK n \in Bad : \A m \in Bad : n <= m
  BY <1>1, LeastNumber
<1>3. PICK T \in SUBSET S : Cardinality(T) = n /\ Odd(T)
  OBVIOUS
<1>4. T # {}
  BY <1>3, SumOfNone
<1>5. First(T) \in T
  BY <1>4, FirstIn
<1>6. /\ IsFiniteSet(T) /\ T \ {First(T)} \in SUBSET S
      /\ Cardinality(T \ {First(T)}) \in Nat
      /\ Cardinality(T \ {First(T)}) = Cardinality(T) - 1
  <2> HIDE DEF Bad
  <2> QED
    BY <1>5, OneSmaller, Zenon
<1>7. ~ Odd(T \ {First(T)})
  BY <1>2, <1>3, <1>6
<1>8. SumFunctionOnSet(f, T) = f[First(T)] + SumFunctionOnSet(f, T \ {First(T)})
  BY <1>4, <1>6, SumStep
<1>9. f[First(T)] \in Int
  BY <1>5
<1> QED
  BY <1>3, <1>7, <1>8, <1>9

\* Any summand may be taken out first: the order of the fold does not matter.
THEOREM SumWithout ==
  ASSUME NEW S, IsFiniteSet(S), NEW f, \A x \in S : f[x] \in Int, NEW y \in S
  PROVE  SumFunctionOnSet(f, S) = f[y] + SumFunctionOnSet(f, S \ {y})
<1> DEFINE Sum(T) == SumFunctionOnSet(f, T)
           Splits(T, x) == Sum(T) = f[x] + Sum(T \ {x})
           Bad == {n \in Nat : \E T \in SUBSET S :
                                 Cardinality(T) = n /\ \E x \in T : ~ Splits(T, x)}
<1>1. SUFFICES ASSUME Bad # {} PROVE FALSE
  BY FS_CardinalityType
<1>2. PICK n \in Bad : \A m \in Bad : n <= m
  BY <1>1, LeastNumber
<1>3. PICK T \in SUBSET S : Cardinality(T) = n /\ \E x \in T : ~ Splits(T, x)
  OBVIOUS
<1>4. PICK x \in T : ~ Splits(T, x)
  BY <1>3
<1>5. PICK c : c = First(T) /\ c \in T
  BY <1>4, FirstIn
<1>6. IsFiniteSet(T) /\ T # {}
  BY <1>4, FS_Subset
<1>7. Splits(T, c)
  BY <1>5, <1>6, SumStep
<1>8. x # c
  BY <1>4, <1>7
<1>9. ASSUME NEW a \in T, NEW b \in T, a # b PROVE Splits(T \ {a}, b)
  <2>1. /\ T \ {a} \in SUBSET S /\ Cardinality(T \ {a}) \in Nat
        /\ Cardinality(T) \in Nat /\ Cardinality(T \ {a}) = Cardinality(T) - 1
    BY OneSmaller
  <2>2. Cardinality(T \ {a}) \notin Bad
    <3>1. n \in Nat /\ Cardinality(T \ {a}) < n
      BY <1>3, <2>1
    <3> HIDE DEF Bad
    <3> QED
      BY <1>2, <2>1, <3>1
  <2>3. b \in T \ {a}
    BY <1>9
  <2> QED
    BY <2>1, <2>2, <2>3
<1>10. Splits(T \ {c}, x) /\ Splits(T \ {x}, c)
  BY <1>5, <1>8, <1>9
<1>11. (T \ {c}) \ {x} = (T \ {x}) \ {c} /\ IsFiniteSet((T \ {c}) \ {x})
  BY <1>6, FS_Subset
<1>12. Sum((T \ {c}) \ {x}) \in Int /\ f[x] \in Int /\ f[c] \in Int
  BY <1>4, <1>5, <1>11, SumIsInt
<1>13. /\ Sum(T) = f[c] + Sum(T \ {c}) /\ Sum(T \ {c}) = f[x] + Sum((T \ {c}) \ {x})
       /\ Sum(T \ {x}) = f[c] + Sum((T \ {c}) \ {x})
  BY <1>7, <1>10, <1>11
<1>14. Sum(T) # f[x] + Sum(T \ {x})
  BY <1>4
<1> HIDE DEF Sum, Bad
<1> QED
  BY <1>12, <1>13, <1>14

\* One element more adds its summand.
THEOREM SumWith ==
  ASSUME NEW S, IsFiniteSet(S), NEW y, y \notin S, NEW f, NEW e,
         \A x \in S \cup {y} : f[x] \in Int, \A x \in S : f[x] = e[x]
  PROVE  SumFunctionOnSet(f, S \cup {y}) = f[y] + SumFunctionOnSet(e, S)
<1>1. IsFiniteSet(S \cup {y}) /\ y \in S \cup {y} /\ (S \cup {y}) \ {y} = S
  BY FS_AddElement
<1>2. SumFunctionOnSet(f, S \cup {y}) = f[y] + SumFunctionOnSet(f, (S \cup {y}) \ {y})
  BY <1>1, SumWithout, Zenon
<1>3. SumFunctionOnSet(f, S) = SumFunctionOnSet(e, S)
  BY SumOfEqual
<1> QED
  BY <1>1, <1>2, <1>3
===============================================================================

---------------------------- MODULE SumTheorems ----------------------------
(***************************************************************************)
(* Sums over finite sets.  The community modules define them by a fold;    *)
(* here are the laws a proof needs: what a sum is with and without one     *)
(* element, that it depends on the values only, how it grows, and how the  *)
(* elements of a set are counted class by class; at the end, what division *)
(* by a period does.                                                       *)
(*                                                                         *)
(* The theorems on induction the library has take the predicate as an      *)
(* operator.  Here an induction looks at the set of counterexamples and    *)
(* takes a smallest one (LeastNumber, SmallestSubset).                     *)
(***************************************************************************)
EXTENDS Integers, FiniteSets, FiniteSetsExt, FiniteSetTheorems, WellFoundedInduction, TLAPS

\* A set of natural numbers that is not empty has a least element.
LEMMA LeastNumber ==
  ASSUME NEW T \in SUBSET Nat, T # {}
  PROVE  \E n \in T : \A m \in T : n <= m
<1>1. PICK R : R = {ss \in Nat \X Nat : ss[1] < ss[2]}
  OBVIOUS
<1>2. IsWellFoundedOn(R, Nat)
  BY <1>1, NatLessThanWellFounded DEF OpToRel
<1>3. PICK n \in T : \A m \in T : <<m, n>> \notin R
  BY <1>2, WFMin
<1>4. n \in Nat /\ \A m \in T : m \in Nat /\ ~ (m < n)
  BY <1>1, <1>3
<1> QED BY <1>4

\* Among the subsets of a finite set that have some fault one is minimal.
LEMMA SmallestSubset ==
  ASSUME NEW S, IsFiniteSet(S), NEW Bad, Bad \subseteq SUBSET S, Bad # {}
  PROVE  \E T \in Bad : \A U \in Bad : U \subseteq T => U = T
<1>1. IsWellFoundedOn(StrictSubsetOrdering(S), SUBSET S)
  BY FS_StrictSubsetOrderingWellFounded, FS_FiniteSubsetsOfFinite
<1>2. PICK T \in Bad : \A U \in Bad : <<U, T>> \notin StrictSubsetOrdering(S)
  BY <1>1, WFMin
<1> QED BY <1>2 DEF StrictSubsetOrdering

\* The values of a function on a finite set are finite in number.
LEMMA FiniteImage ==
  ASSUME NEW S, IsFiniteSet(S), NEW f
  PROVE  /\ IsFiniteSet({f[x] : x \in S})
         /\ Cardinality({f[x] : x \in S}) <= Cardinality(S)
<1> DEFINE T == {f[x] : x \in S}
           g == [x \in S |-> f[x]]
<1>1. g \in Surjection(S, T)
  BY DEF Surjection
<1> QED BY <1>1, FS_Surjection

-----------------------------------------------------------------------------
(* The recursive function behind a sum *)

\* The element taken out first, one step of the recursion, and its solutions.
Picked(s) == CHOOSE x \in s : TRUE

SumStep(f, g, s) == IF s = {} THEN 0 ELSE f[Picked(s)] + g[s \ {Picked(s)}]

IsSummer(g, f, S) == g = [s \in SUBSET S |-> SumStep(f, g, s)]

\* The element a sum takes first is one of the set.
LEMMA PickedIn == ASSUME NEW s, s # {} PROVE Picked(s) \in s
BY DEF Picked

\* On a finite set the recursion behind a sum has a solution.
LEMMA SummerExists ==
  ASSUME NEW f, NEW S, IsFiniteSet(S)
  PROVE  \E g : IsSummer(g, f, S)
<1> DEFINE Upto(n) == {s \in SUBSET S : Cardinality(s) <= n}
           Good(n) == \E g : g = [s \in Upto(n) |-> SumStep(f, g, s)]
           Bad == {n \in Nat : ~Good(n)}
<1>0. \A s \in SUBSET S : IsFiniteSet(s) /\ Cardinality(s) \in Nat
  BY FS_Subset, FS_CardinalityType
<1>1. Good(0)
  <2>1. Upto(0) = {{}}
    BY <1>0, FS_EmptySet
  <2>2. PICK g : g = [s \in Upto(0) |-> 0]
    OBVIOUS
  <2>3. g = [s \in Upto(0) |-> SumStep(f, g, s)]
    BY <2>1, <2>2 DEF SumStep
  <2> QED BY <2>3
<1>2. ASSUME NEW n \in Nat, Good(n) PROVE Good(n + 1)
  <2>1. PICK g : g = [s \in Upto(n) |-> SumStep(f, g, s)]
    BY <1>2
  <2>2. PICK h : h = [s \in Upto(n + 1) |-> SumStep(f, g, s)]
    OBVIOUS
  <2>3. ASSUME NEW s \in Upto(n + 1) PROVE SumStep(f, g, s) = SumStep(f, h, s)
    <3>1. CASE s = {}
      BY <3>1 DEF SumStep
    <3>2. CASE s # {}
      <4>1. Picked(s) \in s
        BY <3>2, PickedIn
      <4>2. Cardinality(s \ {Picked(s)}) = Cardinality(s) - 1
        BY <4>1, <1>0, FS_RemoveElement
      <4>3. s \ {Picked(s)} \in Upto(n) /\ s \ {Picked(s)} \in Upto(n + 1)
        BY <4>2, <1>0
      <4>4. g[s \ {Picked(s)}] = h[s \ {Picked(s)}]
        BY <4>3, <2>1, <2>2
      <4> QED BY <4>4 DEF SumStep
    <3> QED BY <3>1, <3>2
  <2>4. h = [s \in Upto(n + 1) |-> SumStep(f, h, s)]
    BY <2>2, <2>3
  <2> QED BY <2>4
<1>3. \A n \in Nat : Good(n)
  <2> HIDE DEF Good
  <2> SUFFICES ASSUME Bad # {} PROVE FALSE
    OBVIOUS
  <2>1. PICK n \in Bad : \A m \in Bad : n <= m
    BY LeastNumber
  <2>2. n \in Nat /\ n # 0
    BY <1>1
  <2>3. Good(n - 1)
    BY <2>1, <2>2
  <2> QED BY <1>2, <2>2, <2>3
<1>4. Upto(Cardinality(S)) = SUBSET S
  BY <1>0, FS_Subset
<1>5. Good(Cardinality(S))
  BY <1>0, <1>3
<1> QED BY <1>4, <1>5 DEF IsSummer

\* Two solutions, one on a smaller set, agree on the sets both are defined on.
LEMMA SummersAgree ==
  ASSUME NEW f, NEW S, IsFiniteSet(S), NEW T, T \subseteq S, NEW g, NEW h,
         IsSummer(g, f, S), IsSummer(h, f, T)
  PROVE  \A s \in SUBSET T : g[s] = h[s]
<1> DEFINE Bad == {s \in SUBSET T : g[s] # h[s]}
<1> SUFFICES ASSUME Bad # {} PROVE FALSE
  OBVIOUS
<1>1. IsFiniteSet(T)
  BY FS_Subset
<1>2. PICK s \in Bad : \A u \in Bad : u \subseteq s => u = s
  <2>1. Bad \subseteq SUBSET T
    OBVIOUS
  <2> HIDE DEF Bad
  <2> QED BY <1>1, <2>1, SmallestSubset
<1>3. g[s] = SumStep(f, g, s) /\ h[s] = SumStep(f, h, s)
  BY DEF IsSummer
<1>4. s # {}
  BY <1>3 DEF SumStep
<1>5. Picked(s) \in s
  BY <1>4, PickedIn
<1>6. g[s \ {Picked(s)}] = h[s \ {Picked(s)}]
  BY <1>2, <1>5
<1> QED BY <1>3, <1>4, <1>6 DEF SumStep

\* The sum of the library is the value of a solution.
LEMMA SumIsSummer ==
  ASSUME NEW f, NEW S, IsFiniteSet(S)
  PROVE  \E g : IsSummer(g, f, S) /\ SumFunctionOnSet(f, S) = g[S]
<1> DEFINE g == CHOOSE iter : iter = [s \in SUBSET S |->
                  IF s = {} THEN 0 ELSE f[CHOOSE x \in s : TRUE] + iter[s \ {CHOOSE x \in s : TRUE}]]
<1>1. SumFunctionOnSet(f, S) = g[S]
  BY DEF SumFunctionOnSet, FoldFunctionOnSet, MapThenFoldSet
<1>2. \E iter : iter = [s \in SUBSET S |->
                  IF s = {} THEN 0 ELSE f[CHOOSE x \in s : TRUE] + iter[s \ {CHOOSE x \in s : TRUE}]]
  <2>1. PICK iter : IsSummer(iter, f, S)
    BY SummerExists
  <2>2. iter = [s \in SUBSET S |->
                  IF s = {} THEN 0 ELSE f[CHOOSE x \in s : TRUE] + iter[s \ {CHOOSE x \in s : TRUE}]]
    BY <2>1 DEF IsSummer, SumStep, Picked
  <2> QED BY <2>2, Zenon
<1>3. g = [s \in SUBSET S |->
                  IF s = {} THEN 0 ELSE f[CHOOSE x \in s : TRUE] + g[s \ {CHOOSE x \in s : TRUE}]]
  BY <1>2
<1> HIDE DEF g
<1>4. IsSummer(g, f, S)
  BY <1>3 DEF IsSummer, SumStep, Picked
<1> QED BY <1>1, <1>4

\* So the sum is the picked term and the sum of the rest.
LEMMA SumUnfolds ==
  ASSUME NEW f, NEW S, IsFiniteSet(S)
  PROVE  /\ SumFunctionOnSet(f, {}) = 0
         /\ S # {} => Picked(S) \in S /\ SumFunctionOnSet(f, S) = f[Picked(S)] + SumFunctionOnSet(f, S \ {Picked(S)})
<1>1. ASSUME NEW T, IsFiniteSet(T), T = {} PROVE SumFunctionOnSet(f, T) = 0
  <2>1. PICK g : IsSummer(g, f, T) /\ SumFunctionOnSet(f, T) = g[T]
    BY <1>1, SumIsSummer
  <2> QED BY <1>1, <2>1 DEF IsSummer, SumStep
<1>2. ASSUME S # {}
      PROVE  Picked(S) \in S /\ SumFunctionOnSet(f, S) = f[Picked(S)] + SumFunctionOnSet(f, S \ {Picked(S)})
  <2>1. Picked(S) \in S
    BY <1>2, PickedIn
  <2>2. PICK T : T = S \ {Picked(S)}
    OBVIOUS
  <2>3. IsFiniteSet(T) /\ T \subseteq S
    BY <2>2, FS_RemoveElement
  <2>4. PICK g : IsSummer(g, f, S) /\ SumFunctionOnSet(f, S) = g[S]
    BY SumIsSummer
  <2>5. PICK h : IsSummer(h, f, T) /\ SumFunctionOnSet(f, T) = h[T]
    BY <2>3, SumIsSummer
  <2>6. g[T] = h[T]
    BY <2>3, <2>4, <2>5, SummersAgree
  <2>7. g[S] = SumStep(f, g, S)
    BY <2>4 DEF IsSummer
  <2> QED BY <1>2, <2>1, <2>2, <2>4, <2>5, <2>6, <2>7 DEF SumStep
<1> QED BY <1>1, <1>2, FS_EmptySet

-----------------------------------------------------------------------------
(* The laws of sums *)

\* A sum of integers is one, and so for the naturals.
LEMMA SumType ==
  ASSUME NEW N \in {Int, Nat}, NEW S, IsFiniteSet(S), NEW f, \A x \in S : f[x] \in N
  PROVE  SumFunctionOnSet(f, S) \in N
<1> DEFINE Bad == {T \in SUBSET S : SumFunctionOnSet(f, T) \notin N}
<1> SUFFICES ASSUME Bad # {} PROVE FALSE
  OBVIOUS
<1>1. PICK T \in Bad : \A U \in Bad : U \subseteq T => U = T
  <2>1. Bad \subseteq SUBSET S
    OBVIOUS
  <2> HIDE DEF Bad
  <2> QED BY <2>1, SmallestSubset
<1>2. IsFiniteSet(T)
  BY FS_Subset
<1>0. 0 \in N
  OBVIOUS
<1>3. T # {}
  BY <1>0, <1>2, SumUnfolds
<1>4. Picked(T) \in T /\ SumFunctionOnSet(f, T) = f[Picked(T)] + SumFunctionOnSet(f, T \ {Picked(T)})
  BY <1>2, <1>3, SumUnfolds
<1>5. SumFunctionOnSet(f, T \ {Picked(T)}) \in N
  BY <1>1, <1>4
<1>6. f[Picked(T)] \in N
  BY <1>4
<1>7. \A a, b \in N : a + b \in N
  OBVIOUS
<1> QED BY <1>4, <1>5, <1>6, <1>7

\* Only the values on the set matter.
LEMMA SumDependsOnValues ==
  ASSUME NEW S, IsFiniteSet(S), NEW f, NEW g, \A x \in S : f[x] = g[x]
  PROVE  SumFunctionOnSet(f, S) = SumFunctionOnSet(g, S)
<1> DEFINE Bad == {T \in SUBSET S : SumFunctionOnSet(f, T) # SumFunctionOnSet(g, T)}
<1> SUFFICES ASSUME Bad # {} PROVE FALSE
  OBVIOUS
<1>1. PICK T \in Bad : \A U \in Bad : U \subseteq T => U = T
  <2>1. Bad \subseteq SUBSET S
    OBVIOUS
  <2> HIDE DEF Bad
  <2> QED BY <2>1, SmallestSubset
<1>2. IsFiniteSet(T)
  BY FS_Subset
<1>3. T # {}
  BY <1>2, SumUnfolds
<1>4. /\ Picked(T) \in T
      /\ SumFunctionOnSet(f, T) = f[Picked(T)] + SumFunctionOnSet(f, T \ {Picked(T)})
      /\ SumFunctionOnSet(g, T) = g[Picked(T)] + SumFunctionOnSet(g, T \ {Picked(T)})
  BY <1>2, <1>3, SumUnfolds
<1>5. SumFunctionOnSet(f, T \ {Picked(T)}) = SumFunctionOnSet(g, T \ {Picked(T)})
  BY <1>1, <1>4
<1> QED BY <1>4, <1>5

\* Any element may be taken out.
LEMMA SumRemove ==
  ASSUME NEW S, IsFiniteSet(S), NEW f, \A x \in S : f[x] \in Int, NEW x \in S
  PROVE  SumFunctionOnSet(f, S) = f[x] + SumFunctionOnSet(f, S \ {x})
<1> DEFINE Bad == {T \in SUBSET S : \E y \in T : SumFunctionOnSet(f, T) # f[y] + SumFunctionOnSet(f, T \ {y})}
<1> SUFFICES ASSUME Bad # {} PROVE FALSE
  OBVIOUS
<1>1. PICK T \in Bad : \A U \in Bad : U \subseteq T => U = T
  <2>1. Bad \subseteq SUBSET S
    OBVIOUS
  <2> HIDE DEF Bad
  <2> QED BY <2>1, SmallestSubset
<1>2. PICK y \in T : SumFunctionOnSet(f, T) # f[y] + SumFunctionOnSet(f, T \ {y})
  OBVIOUS
<1>3. PICK z : z = Picked(T)
  OBVIOUS
<1>4. \A U \in SUBSET S : IsFiniteSet(U) /\ SumFunctionOnSet(f, U) \in Int
  <2>1. ASSUME NEW U \in SUBSET S PROVE IsFiniteSet(U) /\ SumFunctionOnSet(f, U) \in Int
    <3>1. IsFiniteSet(U)
      BY FS_Subset
    <3>2. \A u \in U : f[u] \in Int
      OBVIOUS
    <3> QED BY <3>1, <3>2, SumType
  <2> QED BY <2>1
<1>5. z \in T /\ SumFunctionOnSet(f, T) = f[z] + SumFunctionOnSet(f, T \ {z})
  BY <1>3, <1>4, SumUnfolds
<1>6. y # z
  BY <1>2, <1>5
<1>7. SumFunctionOnSet(f, T \ {z}) = f[y] + SumFunctionOnSet(f, (T \ {z}) \ {y})
  <2>1. T \ {z} \notin Bad /\ T \ {z} \in SUBSET S
    BY <1>1, <1>5
  <2>2. y \in T \ {z}
    BY <1>2, <1>6
  <2> QED BY <2>1, <2>2
<1>8. SumFunctionOnSet(f, T \ {y}) = f[z] + SumFunctionOnSet(f, (T \ {y}) \ {z})
  <2>1. T \ {y} \notin Bad /\ T \ {y} \in SUBSET S
    BY <1>1, <1>2
  <2>2. z \in T \ {y}
    BY <1>5, <1>6
  <2> QED BY <2>1, <2>2
<1>9. (T \ {z}) \ {y} = (T \ {y}) \ {z}
  OBVIOUS
<1>10. f[y] \in Int /\ f[z] \in Int /\ SumFunctionOnSet(f, (T \ {y}) \ {z}) \in Int
  BY <1>2, <1>4, <1>5
<1>11. SumFunctionOnSet(f, T) = f[z] + (f[y] + SumFunctionOnSet(f, (T \ {y}) \ {z}))
  BY <1>5, <1>7, <1>9
<1>12. SumFunctionOnSet(f, T) # f[y] + (f[z] + SumFunctionOnSet(f, (T \ {y}) \ {z}))
  BY <1>2, <1>8
<1> DEFINE rest == SumFunctionOnSet(f, (T \ {y}) \ {z})
<1>13. f[z] + (f[y] + rest) = f[y] + (f[z] + rest)
  <2>1. f[y] \in Int /\ f[z] \in Int /\ rest \in Int
    BY <1>10
  <2> HIDE DEF rest
  <2> QED BY ONLY <2>1
<1> QED BY <1>11, <1>12, <1>13

\* The same of every subset at once.
LEMMA SumsAreIntegers ==
  ASSUME NEW S, IsFiniteSet(S), NEW f, \A x \in S : f[x] \in Int
  PROVE  \A T \in SUBSET S : IsFiniteSet(T) /\ SumFunctionOnSet(f, T) \in Int
<1> TAKE T \in SUBSET S
<1>1. IsFiniteSet(T)
  BY FS_Subset
<1>2. \A x \in T : f[x] \in Int
  OBVIOUS
<1> QED BY <1>1, <1>2, SumType

\* One element more adds its term.
LEMMA SumAdd ==
  ASSUME NEW S, IsFiniteSet(S), NEW x, x \notin S, NEW f, \A y \in S \cup {x} : f[y] \in Int
  PROVE  SumFunctionOnSet(f, S \cup {x}) = f[x] + SumFunctionOnSet(f, S)
<1>1. PICK T : T = S \cup {x}
  OBVIOUS
<1>2. IsFiniteSet(T) /\ x \in T /\ T \ {x} = S /\ \A y \in T : f[y] \in Int
  BY <1>1, FS_AddElement
<1> QED BY <1>1, <1>2, SumRemove

\* A sum over two sets apart is the sum of their sums.
LEMMA SumUnion ==
  ASSUME NEW S, IsFiniteSet(S), NEW T, IsFiniteSet(T), S \cap T = {},
         NEW f, \A x \in S \cup T : f[x] \in Int
  PROVE  SumFunctionOnSet(f, S \cup T) = SumFunctionOnSet(f, S) + SumFunctionOnSet(f, T)
<1> DEFINE Bad == {U \in SUBSET T : SumFunctionOnSet(f, S \cup U) # SumFunctionOnSet(f, S) + SumFunctionOnSet(f, U)}
<1> SUFFICES ASSUME Bad # {} PROVE FALSE
  OBVIOUS
<1>1. PICK U \in Bad : \A V \in Bad : V \subseteq U => V = U
  <2>1. Bad \subseteq SUBSET T
    OBVIOUS
  <2> HIDE DEF Bad
  <2> QED BY <2>1, SmallestSubset
<1>2. IsFiniteSet(S \cup T)
  BY FS_Union
<1>3. \A V \in SUBSET (S \cup T) : IsFiniteSet(V) /\ SumFunctionOnSet(f, V) \in Int
  BY <1>2, SumsAreIntegers
<1>4. U # {}
  <2> SUFFICES ASSUME U = {} PROVE FALSE
    OBVIOUS
  <2>1. S \cup U = S /\ SumFunctionOnSet(f, U) = 0
    BY SumUnfolds
  <2>2. SumFunctionOnSet(f, S) \in Int
    BY <1>3
  <2> QED BY <2>1, <2>2
<1>5. PICK x : x \in U
  BY <1>4
<1>6. PICK V : V = U \ {x}
  OBVIOUS
<1>7. V \in SUBSET T /\ V \notin Bad
  BY <1>1, <1>5, <1>6
<1>8. SumFunctionOnSet(f, S \cup V) = SumFunctionOnSet(f, S) + SumFunctionOnSet(f, V)
  BY <1>7
<1>9. SumFunctionOnSet(f, U) = f[x] + SumFunctionOnSet(f, V)
  BY <1>3, <1>5, <1>6, SumRemove
<1>10. PICK W : W = S \cup U
  OBVIOUS
<1>11. W \ {x} = S \cup V /\ x \in W /\ W \subseteq S \cup T
  BY <1>5, <1>6, <1>10
<1>12. IsFiniteSet(W) /\ \A y \in W : f[y] \in Int
  BY <1>3, <1>11
<1>13. SumFunctionOnSet(f, W) = f[x] + SumFunctionOnSet(f, S \cup V)
  BY <1>11, <1>12, SumRemove
<1>14. f[x] \in Int /\ SumFunctionOnSet(f, S) \in Int /\ SumFunctionOnSet(f, V) \in Int
  BY <1>3, <1>5, <1>7
<1> QED BY <1>8, <1>9, <1>10, <1>13, <1>14

\* Terms that are zero do not count.
LEMMA SumOfZeros ==
  ASSUME NEW S, IsFiniteSet(S), NEW f, \A x \in S : f[x] = 0
  PROVE  SumFunctionOnSet(f, S) = 0
<1> DEFINE Bad == {T \in SUBSET S : SumFunctionOnSet(f, T) # 0}
<1> SUFFICES ASSUME Bad # {} PROVE FALSE
  OBVIOUS
<1>1. PICK T \in Bad : \A U \in Bad : U \subseteq T => U = T
  <2>1. Bad \subseteq SUBSET S
    OBVIOUS
  <2> HIDE DEF Bad
  <2> QED BY <2>1, SmallestSubset
<1>2. IsFiniteSet(T)
  BY FS_Subset
<1>3. T # {}
  BY <1>2, SumUnfolds
<1>4. Picked(T) \in T /\ SumFunctionOnSet(f, T) = f[Picked(T)] + SumFunctionOnSet(f, T \ {Picked(T)})
  BY <1>2, <1>3, SumUnfolds
<1>5. SumFunctionOnSet(f, T \ {Picked(T)}) = 0
  BY <1>1, <1>4
<1> QED BY <1>4, <1>5

\* Elements whose term is zero may be left out.
LEMMA SumSkipsZeros ==
  ASSUME NEW S, IsFiniteSet(S), NEW T, T \subseteq S,
         NEW f, \A x \in S : f[x] \in Int, \A x \in S \ T : f[x] = 0
  PROVE  SumFunctionOnSet(f, S) = SumFunctionOnSet(f, T)
<1>1. PICK U : U = S \ T
  OBVIOUS
<1>2. IsFiniteSet(T) /\ IsFiniteSet(U) /\ T \cap U = {} /\ T \cup U = S
  BY <1>1, FS_Subset
<1>3. SumFunctionOnSet(f, T \cup U) = SumFunctionOnSet(f, T) + SumFunctionOnSet(f, U)
  BY <1>2, SumUnion
<1>4. SumFunctionOnSet(f, U) = 0
  BY <1>1, <1>2, SumOfZeros
<1>5. SumFunctionOnSet(f, T) \in Int
  BY <1>2, SumsAreIntegers
<1>6. SumFunctionOnSet(f, S) = SumFunctionOnSet(f, T) + SumFunctionOnSet(f, U)
  BY <1>2, <1>3, Zenon
<1> QED BY <1>4, <1>5, <1>6

\* A larger term makes a larger sum.
LEMMA SumMonotone ==
  ASSUME NEW S, IsFiniteSet(S), NEW f, NEW g,
         \A x \in S : f[x] \in Int /\ g[x] \in Int /\ f[x] <= g[x]
  PROVE  SumFunctionOnSet(f, S) <= SumFunctionOnSet(g, S)
<1> DEFINE Bad == {T \in SUBSET S : ~(SumFunctionOnSet(f, T) <= SumFunctionOnSet(g, T))}
<1> SUFFICES ASSUME Bad # {} PROVE FALSE
  OBVIOUS
<1>1. PICK T \in Bad : \A U \in Bad : U \subseteq T => U = T
  <2>1. Bad \subseteq SUBSET S
    OBVIOUS
  <2> HIDE DEF Bad
  <2> QED BY <2>1, SmallestSubset
<1>2. IsFiniteSet(T)
  BY FS_Subset
<1>3. T # {}
  <2> SUFFICES ASSUME T = {} PROVE FALSE
    OBVIOUS
  <2>1. SumFunctionOnSet(f, T) = 0 /\ SumFunctionOnSet(g, T) = 0
    BY SumUnfolds
  <2>2. ~(SumFunctionOnSet(f, T) <= SumFunctionOnSet(g, T))
    OBVIOUS
  <2> QED BY <2>1, <2>2
<1>4. /\ Picked(T) \in T
      /\ SumFunctionOnSet(f, T) = f[Picked(T)] + SumFunctionOnSet(f, T \ {Picked(T)})
      /\ SumFunctionOnSet(g, T) = g[Picked(T)] + SumFunctionOnSet(g, T \ {Picked(T)})
  BY <1>2, <1>3, SumUnfolds
<1>5. SumFunctionOnSet(f, T \ {Picked(T)}) <= SumFunctionOnSet(g, T \ {Picked(T)})
  BY <1>1, <1>4
<1>6. /\ SumFunctionOnSet(f, T \ {Picked(T)}) \in Int
      /\ SumFunctionOnSet(g, T \ {Picked(T)}) \in Int
  BY SumsAreIntegers
<1> QED BY <1>4, <1>5, <1>6

\* Two sums over one set add up term by term.
LEMMA SumPointwise ==
  ASSUME NEW S, IsFiniteSet(S), NEW f, NEW g, NEW h,
         \A x \in S : f[x] \in Int /\ g[x] \in Int /\ h[x] = f[x] + g[x]
  PROVE  SumFunctionOnSet(f, S) + SumFunctionOnSet(g, S) = SumFunctionOnSet(h, S)
<1> DEFINE Bad == {T \in SUBSET S : SumFunctionOnSet(f, T) + SumFunctionOnSet(g, T) # SumFunctionOnSet(h, T)}
<1> SUFFICES ASSUME Bad # {} PROVE FALSE
  OBVIOUS
<1>1. PICK T \in Bad : \A U \in Bad : U \subseteq T => U = T
  <2>1. Bad \subseteq SUBSET S
    OBVIOUS
  <2> HIDE DEF Bad
  <2> QED BY <2>1, SmallestSubset
<1>2. IsFiniteSet(T)
  BY FS_Subset
<1>3. T # {}
  <2> SUFFICES ASSUME T = {} PROVE FALSE
    OBVIOUS
  <2>1. SumFunctionOnSet(f, T) = 0 /\ SumFunctionOnSet(g, T) = 0 /\ SumFunctionOnSet(h, T) = 0
    BY SumUnfolds
  <2>2. SumFunctionOnSet(f, T) + SumFunctionOnSet(g, T) # SumFunctionOnSet(h, T)
    OBVIOUS
  <2> QED BY <2>1, <2>2
<1>4. /\ Picked(T) \in T
      /\ SumFunctionOnSet(f, T) = f[Picked(T)] + SumFunctionOnSet(f, T \ {Picked(T)})
      /\ SumFunctionOnSet(g, T) = g[Picked(T)] + SumFunctionOnSet(g, T \ {Picked(T)})
      /\ SumFunctionOnSet(h, T) = h[Picked(T)] + SumFunctionOnSet(h, T \ {Picked(T)})
  BY <1>2, <1>3, SumUnfolds
<1>5. SumFunctionOnSet(f, T \ {Picked(T)}) + SumFunctionOnSet(g, T \ {Picked(T)})
        = SumFunctionOnSet(h, T \ {Picked(T)})
  BY <1>1, <1>4
<1>6. /\ SumFunctionOnSet(f, T \ {Picked(T)}) \in Int
      /\ SumFunctionOnSet(g, T \ {Picked(T)}) \in Int
  BY SumsAreIntegers
<1> QED BY <1>4, <1>5, <1>6

\* No term of a sum of naturals is larger than the sum.
LEMMA SumBoundsTerms ==
  ASSUME NEW S, IsFiniteSet(S), NEW f, \A x \in S : f[x] \in Nat, NEW x \in S
  PROVE  f[x] <= SumFunctionOnSet(f, S)
<1>1. SumFunctionOnSet(f, S) = f[x] + SumFunctionOnSet(f, S \ {x})
  BY SumRemove
<1>2. SumFunctionOnSet(f, S \ {x}) \in Nat
  <2>1. IsFiniteSet(S \ {x})
    BY FS_RemoveElement
  <2> QED BY <2>1, SumType
<1> QED BY <1>1, <1>2

\* The sum after one term has changed.
LEMMA SumChange ==
  ASSUME NEW S, IsFiniteSet(S), NEW f, NEW g, NEW x \in S,
         \A y \in S : f[y] \in Int /\ g[y] \in Int,
         \A y \in S \ {x} : g[y] = f[y]
  PROVE  SumFunctionOnSet(g, S) = SumFunctionOnSet(f, S) - f[x] + g[x]
<1>1. SumFunctionOnSet(f, S) = f[x] + SumFunctionOnSet(f, S \ {x})
  BY SumRemove
<1>2. SumFunctionOnSet(g, S) = g[x] + SumFunctionOnSet(g, S \ {x})
  BY SumRemove
<1>3. IsFiniteSet(S \ {x})
  BY FS_RemoveElement
<1>4. SumFunctionOnSet(f, S \ {x}) = SumFunctionOnSet(g, S \ {x})
  BY <1>3, SumDependsOnValues
<1>5. SumFunctionOnSet(f, S \ {x}) \in Int
  BY SumsAreIntegers
<1> QED BY <1>1, <1>2, <1>4, <1>5

-----------------------------------------------------------------------------
(* Counting *)

\* Two sets apart are counted one by one.
LEMMA CountUnion ==
  ASSUME NEW A, IsFiniteSet(A), NEW B, IsFiniteSet(B), A \cap B = {}
  PROVE  Cardinality(A \cup B) = Cardinality(A) + Cardinality(B)
<1>1. Cardinality(A \cup B) = Cardinality(A) + Cardinality(B) - Cardinality(A \cap B)
  BY FS_Union
<1>2. Cardinality(A \cap B) = 0
  BY FS_EmptySet
<1> QED BY <1>1, <1>2, FS_CardinalityType

\* A set is counted class by class.
LEMMA CountByClass ==
  ASSUME NEW S, IsFiniteSet(S), NEW K, IsFiniteSet(K), NEW class \in [S -> K], NEW f,
         \A k \in K : f[k] = Cardinality({e \in S : class[e] = k})
  PROVE  SumFunctionOnSet(f, K) = Cardinality(S)
<1> DEFINE In(T) == {e \in S : class[e] \in T}
           Bad == {T \in SUBSET K : SumFunctionOnSet(f, T) # Cardinality(In(T))}
<1> SUFFICES ASSUME Bad # {} PROVE FALSE
  <2>1. In(K) = S
    OBVIOUS
  <2> QED BY <2>1
<1>1. PICK T \in Bad : \A U \in Bad : U \subseteq T => U = T
  <2>1. Bad \subseteq SUBSET K
    OBVIOUS
  <2> HIDE DEF Bad
  <2> QED BY <2>1, SmallestSubset
<1>2. \A U \in SUBSET S : IsFiniteSet(U) /\ Cardinality(U) \in Nat
  BY FS_Subset, FS_CardinalityType
<1>3. \A k \in K : f[k] \in Int
  <2>1. ASSUME NEW k \in K PROVE f[k] \in Int
    <3>1. PICK B : B = {e \in S : class[e] = k}
      OBVIOUS
    <3>2. B \in SUBSET S /\ f[k] = Cardinality(B)
      BY <3>1
    <3> QED BY <1>2, <3>2
  <2> QED BY <2>1
<1>4. T # {}
  BY SumUnfolds, FS_EmptySet
<1>5. PICK k : k \in T
  BY <1>4
<1>6. PICK U : U = T \ {k}
  OBVIOUS
<1>7. U \in SUBSET K /\ U \notin Bad
  BY <1>1, <1>5, <1>6
<1>8. SumFunctionOnSet(f, U) = Cardinality(In(U))
  BY <1>7
<1>9. IsFiniteSet(T) /\ \A y \in T : f[y] \in Int
  BY <1>3, SumsAreIntegers
<1>10. SumFunctionOnSet(f, T) = f[k] + SumFunctionOnSet(f, U)
  BY <1>5, <1>6, <1>9, SumRemove
<1>11. PICK A, B : A = In(U) /\ B = {e \in S : class[e] = k}
  OBVIOUS
<1>12. A \cap B = {} /\ A \cup B = In(T) /\ A \in SUBSET S /\ B \in SUBSET S
  BY <1>5, <1>6, <1>11
<1>13. Cardinality(A \cup B) = Cardinality(A) + Cardinality(B)
  BY <1>2, <1>12, CountUnion
<1>14. f[k] = Cardinality(B)
  BY <1>5, <1>11
<1>15. Cardinality(In(T)) = Cardinality(A) + Cardinality(B)
  BY <1>12, <1>13, Zenon
<1>16. SumFunctionOnSet(f, U) = Cardinality(A)
  BY <1>8, <1>11, Zenon
<1>17. Cardinality(A) \in Nat /\ Cardinality(B) \in Nat
  BY <1>2, <1>12
<1>18. SumFunctionOnSet(f, T) # Cardinality(In(T))
  OBVIOUS
<1> QED BY <1>10, <1>14, <1>15, <1>16, <1>17, <1>18

\* The terms above zero are no more than the sum says ...
LEMMA SumCoversPositive ==
  ASSUME NEW S, IsFiniteSet(S), NEW f, \A x \in S : f[x] \in Nat
  PROVE  Cardinality({x \in S : f[x] > 0}) <= SumFunctionOnSet(f, S)
<1> DEFINE Pos(T) == {x \in T : f[x] > 0}
           Bad == {T \in SUBSET S : ~(Cardinality(Pos(T)) <= SumFunctionOnSet(f, T))}
<1> SUFFICES ASSUME Bad # {} PROVE FALSE
  OBVIOUS
<1>1. PICK T \in Bad : \A U \in Bad : U \subseteq T => U = T
  <2>1. Bad \subseteq SUBSET S
    OBVIOUS
  <2> HIDE DEF Bad
  <2> QED BY <2>1, SmallestSubset
<1>2. \A U \in SUBSET S : IsFiniteSet(U) /\ Cardinality(U) \in Nat
  BY FS_Subset, FS_CardinalityType
<1>3. IsFiniteSet(T) /\ \A x \in T : f[x] \in Nat
  BY <1>2
<1>4. T # {}
  <2> SUFFICES ASSUME T = {} PROVE FALSE
    OBVIOUS
  <2>1. Pos(T) = {} /\ SumFunctionOnSet(f, T) = 0
    BY SumUnfolds
  <2> QED BY <2>1, FS_EmptySet
<1>5. PICK x : x \in T
  BY <1>4
<1>6. PICK U : U = T \ {x}
  OBVIOUS
<1>7. U \in SUBSET S /\ U \notin Bad
  BY <1>1, <1>5, <1>6
<1>8. PICK A, B : A = Pos(T) /\ B = Pos(U)
  OBVIOUS
<1>9. Cardinality(B) <= SumFunctionOnSet(f, U) /\ ~(Cardinality(A) <= SumFunctionOnSet(f, T))
  BY <1>7, <1>8
<1>10. SumFunctionOnSet(f, T) = f[x] + SumFunctionOnSet(f, U)
  BY <1>3, <1>5, <1>6, SumRemove
<1>11. SumFunctionOnSet(f, U) \in Int
  BY <1>7, SumsAreIntegers
<1>12. A = (IF f[x] > 0 THEN B \cup {x} ELSE B) /\ x \notin B /\ A \in SUBSET S /\ B \in SUBSET S
  BY <1>3, <1>5, <1>6, <1>8
<1>13. f[x] \in Nat /\ IsFiniteSet(B) /\ Cardinality(A) \in Nat /\ Cardinality(B) \in Nat
  BY <1>2, <1>3, <1>5, <1>12
<1>14. Cardinality(B \cup {x}) = Cardinality(B) + 1
  BY <1>12, <1>13, FS_AddElement
<1>15. CASE f[x] > 0
  BY <1>9, <1>10, <1>11, <1>12, <1>13, <1>14, <1>15
<1>16. CASE ~(f[x] > 0)
  BY <1>9, <1>10, <1>11, <1>12, <1>13, <1>16
<1> QED BY <1>15, <1>16

\* ... and just as many when no term is more than one.
LEMMA SumOfOnes ==
  ASSUME NEW S, IsFiniteSet(S), NEW f, \A x \in S : f[x] \in Nat /\ f[x] <= 1
  PROVE  Cardinality({x \in S : f[x] > 0}) = SumFunctionOnSet(f, S)
<1>1. PICK A, B : A = {x \in S : f[x] > 0} /\ B = S \ A
  OBVIOUS
<1>2. A \subseteq S /\ B \subseteq S /\ IsFiniteSet(A) /\ IsFiniteSet(B) /\ A \cap B = {}
  BY <1>1, FS_Subset
<1>3. PICK g : g = [x \in S |-> 1 - f[x]]
  OBVIOUS
<1>4. \A x \in S : f[x] \in Int /\ g[x] \in Int /\ g[x] \in Nat
  BY <1>3
<1>5. {x \in S : g[x] > 0} = B
  BY <1>1, <1>3
<1>6. Cardinality(A) <= SumFunctionOnSet(f, S)
  BY <1>1, SumCoversPositive
<1>7. Cardinality(B) <= SumFunctionOnSet(g, S)
  BY <1>4, <1>5, SumCoversPositive
<1>8. SumFunctionOnSet(f, S) + SumFunctionOnSet(g, S) = Cardinality(S)
  <2>1. PICK one : one = [x \in S |-> 1]
    OBVIOUS
  <2>2. SumFunctionOnSet(f, S) + SumFunctionOnSet(g, S) = SumFunctionOnSet(one, S)
    BY <1>3, <1>4, <2>1, SumPointwise
  <2>3. PICK class : class = [x \in S |-> x]
    OBVIOUS
  <2>4. \A x \in S : one[x] = Cardinality({e \in S : class[e] = x})
    <3> TAKE x \in S
    <3>1. {e \in S : class[e] = x} = {x}
      BY <2>3
    <3> QED BY <2>1, <3>1, FS_Singleton
  <2>5. class \in [S -> S]
    BY <2>3
  <2>6. SumFunctionOnSet(one, S) = Cardinality(S)
    BY <2>4, <2>5, CountByClass
  <2> QED BY <2>2, <2>6
<1>9. Cardinality(S) = Cardinality(A) + Cardinality(B)
  <2>1. A \cup B = S
    BY <1>1
  <2> QED BY <1>2, <2>1, CountUnion
<1>10. /\ Cardinality(A) \in Nat /\ Cardinality(B) \in Nat
       /\ SumFunctionOnSet(f, S) \in Int /\ SumFunctionOnSet(g, S) \in Int
  BY <1>2, <1>4, FS_CardinalityType, SumsAreIntegers
<1>11. Cardinality(A) = SumFunctionOnSet(f, S)
  BY <1>6, <1>7, <1>8, <1>9, <1>10
<1> QED BY <1>1, <1>11
-----------------------------------------------------------------------------
(* Periods *)

\* The period a number lies in.
LEMMA QuotientFacts ==
  ASSUME NEW d \in Nat \ {0}, NEW n \in Nat
  PROVE  /\ n \div d \in Nat
         /\ d * (n \div d) <= n /\ n < d * (n \div d) + d
         /\ n % d = 0 => n = d * (n \div d)
<1>1. n \div d \in Nat
  BY Z3
<1>2. d * (n \div d) <= n /\ n < d * (n \div d) + d
  BY SMTT(30)
<1>3. n % d = 0 => n = d * (n \div d)
  BY Z3
<1> QED BY <1>1, <1>2, <1>3

\* A larger quotient is a multiple further at least.
LEMMA NextMultiple ==
  ASSUME NEW d \in Nat, NEW p \in Nat, NEW q \in Nat, p < q
  PROVE  d * p + d <= d * q /\ d * p \in Nat
<1>1. PICK k \in Nat : q = p + 1 + k
  <2>1. q - (p + 1) \in Nat /\ q = p + 1 + (q - (p + 1))
    OBVIOUS
  <2> QED BY <2>1
<1>2. d * q = d * p + d + d * k /\ d * k \in Nat /\ d * p \in Nat
  BY <1>1
<1> QED BY <1>2

\* The multiple d * q lies in period q.
LEMMA QuotientOfMultiple ==
  ASSUME NEW d \in Nat \ {0}, NEW q \in Nat
  PROVE  d * q \in Nat /\ (d * q) \div d = q
<1>1. PICK n \in Nat : n = d * q
  OBVIOUS
<1>2. PICK r \in Nat : r = n \div d
  BY QuotientFacts
<1>3. d * r <= n /\ n < d * r + d
  BY <1>2, QuotientFacts
<1>4. ~(q < r)
  BY <1>1, <1>3, NextMultiple
<1>5. ~(r < q)
  BY <1>1, <1>3, NextMultiple
<1> QED BY <1>1, <1>2, <1>4, <1>5

\* ... and leaves no rest.
LEMMA MultipleHasNoRest ==
  ASSUME NEW d \in Nat \ {0}, NEW q \in Nat
  PROVE  (d * q) % d = 0
<1>1. PICK n \in Nat : n = d * q
  OBVIOUS
<1>2. n % d = 0
  BY <1>1, Z3
<1> QED BY <1>1, <1>2
=============================================================================

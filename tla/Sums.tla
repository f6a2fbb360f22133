-------------------------------- MODULE Sums --------------------------------
(***************************************************************************)
(* The sum of a function over a finite set.  The community modules define  *)
(* it as a recursive function on the subsets; that such a function exists, *)
(* and what it is, is shown by a smallest counterexample among the         *)
(* subsets.  The proofs about wallets add up what handlers have written,   *)
(* those about reviews the stars.                                          *)
(***************************************************************************)
EXTENDS Integers, Functions, FiniteSetTheorems, WellFoundedInduction, TLAPS

\* The element that the sum of the library takes next out of T.
Taken(T) == CHOOSE x \in T : TRUE

\* g gives the sum of f over every subset of S: the recursion that SumFunction
\* unfolds to.
IsSum(f, g, S) ==
  g = [T \in SUBSET S |-> IF T = {} THEN 0 ELSE f[Taken(T)] + g[T \ {Taken(T)}]]

LEMMA SumUnfolds ==
  ASSUME NEW f, NEW S
  PROVE  SumFunctionOnSet(f, S) = (CHOOSE g : IsSum(f, g, S))[S]
BY DEF SumFunctionOnSet, FoldFunctionOnSet, MapThenFoldSet, IsSum, Taken

\* A set of subsets of a finite set has a smallest one.
LEMMA SmallestSubset ==
  ASSUME NEW S, IsFiniteSet(S), NEW Q, Q \subseteq SUBSET S, Q # {}
  PROVE  \E T \in Q : \A U \in Q : U \subseteq T => U = T
<1>1. IsWellFoundedOn(StrictSubsetOrdering(S), SUBSET S)
  BY FS_StrictSubsetOrderingWellFounded, FS_FiniteSubsetsOfFinite
<1>2. \E T \in Q : \A U \in Q : <<U, T>> \notin StrictSubsetOrdering(S)
  BY <1>1, WFMin
<1>3. QED
  BY <1>2 DEF StrictSubsetOrdering

\* The recursion, for a subset without and with an element to take.
LEMMA SumEquation ==
  ASSUME NEW f, NEW S, NEW g, IsSum(f, g, S), NEW T, T \subseteq S
  PROVE  /\ T = {} => g[T] = 0
         /\ T # {} => Taken(T) \in T /\ g[T] = f[Taken(T)] + g[T \ {Taken(T)}]
BY DEF IsSum, Taken

\* Two such functions agree where they sum the same values.
LEMMA SumsAgree ==
  ASSUME NEW C, IsFiniteSet(C), NEW A, C \subseteq A, NEW B, C \subseteq B,
         NEW e, NEW f, \A x \in C : e[x] = f[x],
         NEW g, IsSum(e, g, A), NEW h, IsSum(f, h, B)
  PROVE  g[C] = h[C]
<1> DEFINE Q == {T \in SUBSET C : g[T] # h[T]}
<1>1. SUFFICES ASSUME Q # {} PROVE FALSE
  BY FS_Subset
<1>2. PICK T \in Q : \A U \in Q : U \subseteq T => U = T
  <2>1. Q \subseteq SUBSET C
    OBVIOUS
  <2>. HIDE DEF Q
  <2>2. QED
    BY <1>1, <2>1, SmallestSubset
<1>3. T # {}
  <2>1. T \subseteq C /\ g[T] # h[T]
    BY <1>2
  <2>2. T \subseteq A /\ T \subseteq B
    BY <2>1
  <2>3. /\ T = {} => g[T] = 0
        /\ T = {} => h[T] = 0
    BY <2>2, SumEquation
  <2>4. QED
    BY <2>1, <2>3
<1>4. Taken(T) \in T /\ T \subseteq C
  BY <1>3 DEF Taken
<1>5. T \ {Taken(T)} \notin Q
  BY <1>2, <1>4
<1>6. g[T \ {Taken(T)}] = h[T \ {Taken(T)}]
  BY <1>4, <1>5
<1>7. g[T] = e[Taken(T)] + g[T \ {Taken(T)}] /\ h[T] = f[Taken(T)] + h[T \ {Taken(T)}]
  BY <1>3, <1>4, SumEquation
<1>8. QED
  BY <1>4, <1>6, <1>7

\* Every finite set has one: those of its strict subsets give it.
LEMMA SumsExist ==
  ASSUME NEW S, IsFiniteSet(S), NEW f
  PROVE  \E g : IsSum(f, g, S)
<1> DEFINE Q == {T \in SUBSET S : ~\E g : IsSum(f, g, T)}
<1>1. SUFFICES ASSUME Q # {} PROVE FALSE
  OBVIOUS
<1>2. PICK T \in Q : \A U \in Q : U \subseteq T => U = T
  <2>1. Q \subseteq SUBSET S
    OBVIOUS
  <2>. HIDE DEF Q
  <2>2. QED
    BY <1>1, <2>1, SmallestSubset
<1> DEFINE G(U) == CHOOSE g : IsSum(f, g, U)
           Rest(U) == U \ {Taken(U)}
           h == [U \in SUBSET T |-> IF U = {} THEN 0 ELSE f[Taken(U)] + G(Rest(U))[Rest(U)]]
<1>3. ASSUME NEW U, U \subseteq T, U # T PROVE IsFiniteSet(U) /\ IsSum(f, G(U), U)
  <2>1. U \notin Q /\ U \in SUBSET S
    BY <1>2, <1>3
  <2>2. \E g : IsSum(f, g, U)
    BY <2>1
  <2>3. IsFiniteSet(U)
    BY <2>1, FS_Subset
  <2>4. QED
    BY <2>2, <2>3
<1>4. ASSUME NEW U, U \subseteq T, U # T PROVE h[U] = G(U)[U]
  <2>1. CASE U = {}
    <3>1. h[U] = 0
      BY <2>1
    <3>2. G(U)[U] = 0
      BY <1>3, <1>4, <2>1, SumEquation
    <3>3. QED
      BY <3>1, <3>2
  <2>2. CASE U # {}
    <3> HIDE DEF G
    <3>1. Taken(U) \in U
      BY <2>2 DEF Taken
    <3>2. Rest(U) \subseteq T /\ Rest(U) # T /\ Rest(U) \subseteq U
      BY <1>4, <3>1
    <3>3. IsFiniteSet(Rest(U)) /\ IsSum(f, G(Rest(U)), Rest(U))
      BY <1>3, <3>2
    <3>4. IsSum(f, G(U), U)
      BY <1>3, <1>4
    <3>5. G(U)[Rest(U)] = G(Rest(U))[Rest(U)]
      BY <3>2, <3>3, <3>4, SumsAgree
    <3>6. G(U)[U] = f[Taken(U)] + G(U)[Rest(U)]
      BY <2>2, <3>4, SumEquation
    <3>7. h[U] = f[Taken(U)] + G(Rest(U))[Rest(U)]
      BY <1>4, <2>2
    <3>8. QED
      BY <3>5, <3>6, <3>7
  <2>3. QED
    BY <2>1, <2>2
<1>5. IsSum(f, h, T)
  <2>1. ASSUME NEW U, U \subseteq T, U # {} PROVE h[Rest(U)] = G(Rest(U))[Rest(U)]
    <3>1. Taken(U) \in U
      BY <2>1 DEF Taken
    <3>2. Rest(U) \subseteq T /\ Rest(U) # T
      BY <2>1, <3>1
    <3>3. QED
      BY <1>4, <3>2
  <2> HIDE DEF G
  <2>2. h = [U \in SUBSET T |-> IF U = {} THEN 0 ELSE f[Taken(U)] + h[Rest(U)]]
    BY <2>1
  <2>3. QED
    BY <2>2 DEF IsSum
<1>6. QED
  BY <1>2, <1>5

\* Hence the equation of the sum itself.
LEMMA SumStep ==
  ASSUME NEW S, IsFiniteSet(S), NEW f
  PROVE  /\ S = {} => SumFunctionOnSet(f, S) = 0
         /\ S # {} => SumFunctionOnSet(f, S)
                        = f[Taken(S)] + SumFunctionOnSet(f, S \ {Taken(S)})
<1> DEFINE G(T) == CHOOSE g : IsSum(f, g, T)
           R == S \ {Taken(S)}
<1>1. \A T : SumFunctionOnSet(f, T) = G(T)[T]
  BY SumUnfolds
<1>2. IsFiniteSet(R) /\ IsSum(f, G(S), S) /\ IsSum(f, G(R), R)
  <2>1. IsFiniteSet(R)
    BY FS_Subset
  <2>2. (\E g : IsSum(f, g, S)) /\ (\E g : IsSum(f, g, R))
    BY <2>1, SumsExist
  <2>3. QED
    BY <2>1, <2>2
<1> HIDE DEF G
<1>3. G(S)[R] = G(R)[R]
  BY <1>2, SumsAgree
<1>4. S = {} => G(S)[S] = 0
  BY <1>2, SumEquation
<1>5. S # {} => G(S)[S] = f[Taken(S)] + G(S)[R]
  BY <1>2, SumEquation
<1>6. QED
  BY <1>1, <1>3, <1>4, <1>5

\* Whichever summand is taken out first, the sum is the same.
LEMMA SumInAnyOrder ==
  ASSUME NEW S, IsFiniteSet(S), NEW f, \A x \in S : f[x] \in Int
  PROVE  \A T \in SUBSET S :
           /\ SumFunctionOnSet(f, T) \in Int
           /\ \A x \in T : SumFunctionOnSet(f, T) = SumFunctionOnSet(f, T \ {x}) + f[x]
<1> DEFINE Sum(T) == SumFunctionOnSet(f, T)
           Good(T) == Sum(T) \in Int /\ \A x \in T : Sum(T) = Sum(T \ {x}) + f[x]
           Q == {T \in SUBSET S : ~Good(T)}
<1>0. ASSUME NEW T \in SUBSET S
      PROVE  /\ T = {} => Sum(T) = 0
             /\ T # {} => Taken(T) \in T /\ Sum(T) = f[Taken(T)] + Sum(T \ {Taken(T)})
  <2>1. IsFiniteSet(T)
    BY FS_Subset
  <2>2. T # {} => Taken(T) \in T
    BY DEF Taken
  <2>3. QED
    BY <2>1, <2>2, SumStep
<1> HIDE DEF Sum
<1>1. SUFFICES ASSUME Q # {} PROVE FALSE
  BY DEF Sum
<1>2. PICK T \in Q : \A U \in Q : U \subseteq T => U = T
  <2>1. Q \subseteq SUBSET S
    OBVIOUS
  <2>. HIDE DEF Q
  <2>2. QED
    BY <1>1, <2>1, SmallestSubset
<1>3. \A U \in SUBSET T : U # T => Good(U)
  BY <1>2
<1>4. T # {}
  <2>1. T = {} => Sum(T) = 0
    BY <1>0, <1>2
  <2>2. QED
    BY <1>2, <2>1
<1> DEFINE z == Taken(T)
<1>5. z \in T /\ Sum(T) = f[z] + Sum(T \ {z}) /\ T \subseteq S
  BY <1>0, <1>2, <1>4
<1> HIDE DEF z
<1>6. Sum(T \ {z}) \in Int /\ f[z] \in Int
  BY <1>3, <1>5
<1>7. Sum(T) \in Int
  BY <1>5, <1>6
<1>8. ASSUME NEW x \in T PROVE Sum(T) = Sum(T \ {x}) + f[x]
  <2>1. CASE x = z
    BY <1>5, <1>6, <2>1
  <2>2. CASE x # z
    <3>1. (T \ {x}) \ {z} = (T \ {z}) \ {x}
      OBVIOUS
    <3>2. Sum(T \ {z}) = Sum((T \ {z}) \ {x}) + f[x]
      BY <1>3, <1>5, <2>2
    <3>3. Good(T \ {x}) /\ z \in T \ {x}
      BY <1>3, <1>5, <2>2
    <3>4. Good((T \ {x}) \ {z})
      BY <1>3, <1>5
    <3>5. f[x] \in Int
      BY <1>5
    <3>6. /\ Sum(T \ {z}) = Sum((T \ {x}) \ {z}) + f[x]
          /\ Sum(T \ {x}) = Sum((T \ {x}) \ {z}) + f[z]
          /\ Sum((T \ {x}) \ {z}) \in Int
      BY <3>1, <3>2, <3>3, <3>4
    <3>7. QED
      BY <1>5, <1>6, <3>5, <3>6
  <2>3. QED
    BY <2>1, <2>2
<1>9. QED
  BY <1>2, <1>7, <1>8

\* Only the values on the set count.
LEMMA SumOfAlike ==
  ASSUME NEW S, IsFiniteSet(S), NEW e, NEW f, \A x \in S : e[x] = f[x]
  PROVE  SumFunctionOnSet(e, S) = SumFunctionOnSet(f, S)
<1> DEFINE G(g) == CHOOSE h : IsSum(g, h, S)
<1>1. IsSum(e, G(e), S) /\ IsSum(f, G(f), S)
  <2>1. (\E g : IsSum(e, g, S)) /\ (\E g : IsSum(f, g, S))
    BY SumsExist
  <2>2. QED
    BY <2>1
<1>2. SumFunctionOnSet(e, S) = G(e)[S] /\ SumFunctionOnSet(f, S) = G(f)[S]
  BY SumUnfolds
<1> HIDE DEF G
<1>3. G(e)[S] = G(f)[S]
  BY <1>1, SumsAgree
<1>4. QED
  BY <1>2, <1>3

LEMMA SumOfNothing ==
  ASSUME NEW f, DOMAIN f = {}
  PROVE  SumFunction(f) = 0
BY FS_EmptySet, SumStep DEF SumFunction

\* One more summand adds its value.
LEMMA SumOfOneMore ==
  ASSUME NEW S, IsFiniteSet(S), NEW f \in [S -> Int],
         NEW y, y \notin S, NEW h \in [S \cup {y} -> Int], \A x \in S : h[x] = f[x]
  PROVE  /\ SumFunction(f) \in Int
         /\ SumFunction(h) = SumFunction(f) + h[y]
<1>1. PICK T : T = S \cup {y}
  OBVIOUS
<1>2. IsFiniteSet(T) /\ y \in T /\ T \ {y} = S /\ T \in SUBSET T /\ S \in SUBSET S
  BY <1>1, FS_AddElement
<1>3. (\A x \in S : f[x] \in Int) /\ (\A x \in T : h[x] \in Int)
  BY <1>1
<1>4. SumFunctionOnSet(f, S) \in Int
  BY <1>2, <1>3, SumInAnyOrder
<1>5. SumFunctionOnSet(h, T) = SumFunctionOnSet(h, S) + h[y]
  <2>1. \A x \in T : SumFunctionOnSet(h, T) = SumFunctionOnSet(h, T \ {x}) + h[x]
    BY <1>2, <1>3, SumInAnyOrder
  <2>2. QED
    BY <1>2, <2>1
<1>6. SumFunctionOnSet(h, S) = SumFunctionOnSet(f, S)
  BY SumOfAlike
<1>7. SumFunction(f) = SumFunctionOnSet(f, S) /\ SumFunction(h) = SumFunctionOnSet(h, T)
  BY <1>1 DEF SumFunction
<1>8. QED
  BY <1>4, <1>5, <1>6, <1>7

\* When one summand changes, the sum changes by as much.
LEMMA SumOfOneChanged ==
  ASSUME NEW S, IsFiniteSet(S), NEW f \in [S -> Int], NEW h \in [S -> Int],
         NEW y \in S, \A x \in S \ {y} : h[x] = f[x]
  PROVE  SumFunction(f) \in Int /\ SumFunction(h) = SumFunction(f) + (h[y] - f[y])
<1>1. PICK R : R = S \ {y} /\ IsFiniteSet(R)
  BY FS_Subset
<1>2. (\A x \in S : f[x] \in Int) /\ (\A x \in S : h[x] \in Int) /\ S \in SUBSET S
  OBVIOUS
<1>3. SumFunctionOnSet(f, R) \in Int /\ SumFunctionOnSet(f, S) = SumFunctionOnSet(f, R) + f[y]
  BY <1>1, <1>2, SumInAnyOrder
<1>4. SumFunctionOnSet(h, S) = SumFunctionOnSet(h, R) + h[y]
  BY <1>1, <1>2, SumInAnyOrder
<1>5. SumFunctionOnSet(h, R) = SumFunctionOnSet(f, R)
  BY <1>1, SumOfAlike
<1>6. SumFunction(f) = SumFunctionOnSet(f, S) /\ SumFunction(h) = SumFunctionOnSet(h, S)
  BY DEF SumFunction
<1>7. QED
  BY <1>2, <1>3, <1>4, <1>5, <1>6

\* A sum lies between as many times the least and the greatest of its summands.
LEMMA SumBetween ==
  ASSUME NEW S, IsFiniteSet(S), NEW f \in [S -> Int], NEW low \in Int, NEW high \in Int,
         \A x \in S : low <= f[x] /\ f[x] <= high
  PROVE  /\ SumFunction(f) \in Int /\ Cardinality(S) \in Nat
         /\ low * Cardinality(S) <= SumFunction(f) /\ SumFunction(f) <= high * Cardinality(S)
<1> DEFINE Sum(T) == SumFunctionOnSet(f, T)
           Good(T) == low * Cardinality(T) <= Sum(T) /\ Sum(T) <= high * Cardinality(T)
           Q == {T \in SUBSET S : ~Good(T)}
<1>0. ASSUME NEW T \in SUBSET S
      PROVE  /\ IsFiniteSet(T) /\ Cardinality(T) \in Nat /\ Sum(T) \in Int
             /\ T = {} => Sum(T) = 0 /\ Cardinality(T) = 0
             /\ \A x \in T : /\ Sum(T) = Sum(T \ {x}) + f[x]
                             /\ Cardinality(T) = Cardinality(T \ {x}) + 1
  <2>1. IsFiniteSet(T)
    BY FS_Subset
  <2>2. Cardinality(T) \in Nat
    BY <2>1, FS_CardinalityType
  <2>3. \A x \in S : f[x] \in Int
    OBVIOUS
  <2>4. Sum(T) \in Int /\ \A x \in T : Sum(T) = Sum(T \ {x}) + f[x]
    BY <2>3, SumInAnyOrder
  <2>5. T = {} => Sum(T) = 0 /\ Cardinality(T) = 0
    BY <2>1, SumStep, FS_EmptySet
  <2>6. ASSUME NEW x \in T PROVE Cardinality(T) = Cardinality(T \ {x}) + 1
    <3>1. Cardinality(T \ {x}) = Cardinality(T) - 1 /\ IsFiniteSet(T \ {x})
      BY <2>1, FS_RemoveElement
    <3>2. QED
      BY <2>2, <3>1
  <2>7. QED
    BY <2>1, <2>2, <2>4, <2>5, <2>6
<1>. HIDE DEF Sum
<1>1. Q = {}
  <2> SUFFICES ASSUME Q # {} PROVE FALSE
    OBVIOUS
  <2>1. PICK T \in Q : \A U \in Q : U \subseteq T => U = T
    <3>1. Q \subseteq SUBSET S
      OBVIOUS
    <3>. HIDE DEF Q
    <3>2. QED
      BY <3>1, SmallestSubset
  <2>2. T \in SUBSET S /\ ~Good(T)
    OBVIOUS
  <2>3. T # {}
    BY <1>0, <2>2
  <2>4. PICK x : x \in T /\ x \in S
    BY <2>2, <2>3
  <2>5. PICK U : U = T \ {x}
    OBVIOUS
  <2>6. U \in SUBSET S /\ Good(U)
    BY <2>1, <2>2, <2>4, <2>5
  <2>7. PICK m, s, c : m = Sum(U) /\ s = Sum(T) /\ c = Cardinality(U)
    OBVIOUS
  <2>8. /\ m \in Int /\ c \in Nat /\ f[x] \in Int /\ s = m + f[x] /\ Cardinality(T) = c + 1
        /\ low <= f[x] /\ f[x] <= high
    BY <1>0, <2>2, <2>4, <2>5, <2>6, <2>7
  <2>9. low * c <= m /\ m <= high * c
    BY <2>6, <2>7
  <2>10. low * (c + 1) = low * c + low /\ high * (c + 1) = high * c + high
    BY <2>8
  <2>11. Good(T)
    BY <2>7, <2>8, <2>9, <2>10
  <2>12. QED
    BY <2>2, <2>11
<1>2. SumFunction(f) = Sum(S)
  BY DEF SumFunction, Sum
<1>3. Good(S) /\ Sum(S) \in Int /\ Cardinality(S) \in Nat
  BY <1>0, <1>1
<1>4. QED
  BY <1>2, <1>3

=============================================================================

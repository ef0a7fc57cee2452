----------------------------- MODULE SumLemmas -----------------------------
(***************************************************************************)
(* Sums over finite sets, which the models compute with the folds of the   *)
(* community modules.  A fold is a function on the subsets of its set that *)
(* is chosen for an equation; the lemmas show that there is such a         *)
(* function, that it is the only one and what follows for the sum.         *)
(***************************************************************************)
EXTENDS Integers, FiniteSets, FiniteSetsExt, Functions, FiniteSetTheorems, TLAPS

-----------------------------------------------------------------------------
(* The sum as the function that is chosen.                                 *)

\* A property of sets (membership in Good) that each subset of S has if its proper
\* subsets have it, S has.
LEMMA SubsetInduction ==
  ASSUME NEW S, IsFiniteSet(S), NEW Good,
         \A T \in SUBSET S : (\A U \in SUBSET T : U # T => U \in Good) => T \in Good
  PROVE  S \in Good
<1> DEFINE Bad == {T \in SUBSET S : T \notin Good}
           R == StrictSubsetOrdering(S)
<1> SUFFICES ASSUME S \notin Good PROVE FALSE
  OBVIOUS
<1>1. Bad # {} /\ Bad \subseteq SUBSET S
  BY Zenon
<1>2. FiniteSubsetsOf(S) = SUBSET S
  BY FS_FiniteSubsetsOfFinite
<1>3. IsWellFoundedOn(R, SUBSET S)
  <2>1. IsWellFoundedOn(R, FiniteSubsetsOf(S))
    BY FS_StrictSubsetOrderingWellFounded, Zenon
  <2> HIDE DEF R
  <2> QED BY <1>2, <2>1
<1>4. PICK T \in Bad : \A U \in Bad : ~(<<U, T>> \in R)
  <2> HIDE DEF Bad, R
  <2> QED BY <1>1, <1>3, WFMin
<1>5. ASSUME NEW U \in SUBSET T, U # T PROVE U \in Good
  <2>1. <<U, T>> \in R
    BY <1>5 DEF StrictSubsetOrdering
  <2> QED BY <1>4, <2>1
<1> QED BY <1>4, <1>5

\* g is the function by which the fold over the subsets of S is defined.
Pick(s) == CHOOSE x \in s : TRUE
Sums(g, w, S) == g = [s \in SUBSET S |-> IF s = {} THEN 0
                                         ELSE w[Pick(s)] + g[s \ {Pick(s)}]]
SumOver(w, S) == (CHOOSE g : Sums(g, w, S))[S]

LEMMA SumIsSumOver ==
  ASSUME NEW w, NEW S
  PROVE  SumFunctionOnSet(w, S) = SumOver(w, S)
BY DEF SumFunctionOnSet, FoldFunctionOnSet, MapThenFoldSet, Sums, SumOver, Pick

LEMMA PickIn ==
  ASSUME NEW s, s # {}
  PROVE  Pick(s) \in s /\ s \ {Pick(s)} \in SUBSET s /\ s \ {Pick(s)} # s
<1>1. Pick(s) \in s
  BY DEF Pick
<1> QED BY <1>1

LEMMA SumsAgree ==
  ASSUME NEW w, NEW S1, NEW S2, NEW g, NEW h, Sums(g, w, S1), Sums(h, w, S2),
         NEW T, IsFiniteSet(T), T \in SUBSET S1, T \in SUBSET S2
  PROVE  g[T] = h[T]
<1> DEFINE Good == {U \in SUBSET T : g[U] = h[U]}
<1>1. ASSUME NEW U \in SUBSET T, \A V \in SUBSET U : V # U => V \in Good
      PROVE  U \in Good
  <2>1. /\ g[U] = IF U = {} THEN 0 ELSE w[Pick(U)] + g[U \ {Pick(U)}]
        /\ h[U] = IF U = {} THEN 0 ELSE w[Pick(U)] + h[U \ {Pick(U)}]
    <3>1. U \in SUBSET S1 /\ U \in SUBSET S2
      OBVIOUS
    <3> QED BY <3>1, Zenon DEF Sums
  <2>2. CASE U = {}
    BY <2>1, <2>2
  <2>3. CASE U # {}
    <3>1. U \ {Pick(U)} \in Good
      BY <1>1, <2>3, PickIn
    <3> QED BY <2>1, <2>3, <3>1
  <2> QED BY <2>2, <2>3
<1>2. T \in Good
  <2> HIDE DEF Good
  <2> QED BY <1>1, SubsetInduction
<1> QED BY <1>2

LEMMA SumsExist ==
  ASSUME NEW w, NEW S, IsFiniteSet(S)
  PROVE  \E g : Sums(g, w, S)
<1> DEFINE Good == {T \in SUBSET S : \E g : Sums(g, w, T)}
<1>1. ASSUME NEW T \in SUBSET S, \A U \in SUBSET T : U # T => U \in Good
      PROVE  T \in Good
  <2> DEFINE V(u) == SumOver(w, u)
             G == [s \in SUBSET T |-> IF s = {} THEN 0 ELSE w[Pick(s)] + V(s \ {Pick(s)})]
  <2>1. ASSUME NEW U \in SUBSET T, U # T PROVE Sums(CHOOSE g : Sums(g, w, U), w, U)
    <3>1. \E g : Sums(g, w, U)
      BY <1>1, <2>1
    <3> QED BY <3>1, Zenon
  <2>2. ASSUME NEW U \in SUBSET T, U # T PROVE G[U] = V(U)
    <3> DEFINE g == CHOOSE f : Sums(f, w, U)
               D == U \ {Pick(U)}
               h == CHOOSE f : Sums(f, w, D)
    <3>1. Sums(g, w, U)
      BY <2>1, <2>2
    <3>2. g[U] = IF U = {} THEN 0 ELSE w[Pick(U)] + g[D]
      BY <3>1, Zenon DEF Sums
    <3>3. CASE U = {}
      BY <3>2, <3>3 DEF SumOver
    <3>4. CASE U # {}
      <4>1. D \in SUBSET U /\ D \in SUBSET T /\ D # T /\ IsFiniteSet(D)
        <5>1. D \in SUBSET U /\ D # U
          BY <3>4, PickIn
        <5>2. D \in SUBSET S
          BY <5>1
        <5> QED BY <2>2, <5>1, <5>2, FS_Subset
      <4>2. Sums(h, w, D)
        BY <2>1, <4>1
      <4> HIDE DEF g, h, D
      <4>3. g[D] = h[D]
        BY <3>1, <4>1, <4>2, SumsAgree
      <4>4. V(D) = h[D] /\ V(U) = g[U]
        BY DEF SumOver, g, h
      <4> QED BY <3>2, <3>4, <4>3, <4>4 DEF D
    <3> QED BY <3>3, <3>4
  <2>3. G = [s \in SUBSET T |-> IF s = {} THEN 0 ELSE w[Pick(s)] + G[s \ {Pick(s)}]]
    <3>1. ASSUME NEW s \in SUBSET T, s # {} PROVE G[s \ {Pick(s)}] = V(s \ {Pick(s)})
      <4>1. s \ {Pick(s)} \in SUBSET T /\ s \ {Pick(s)} # T
        BY <3>1, PickIn
      <4> HIDE DEF G
      <4> QED BY <2>2, <4>1
    <3> HIDE DEF V
    <3> QED BY <3>1
  <2> HIDE DEF G
  <2>4. Sums(G, w, T)
    BY <2>3, Zenon DEF Sums
  <2> QED BY <2>4, Zenon
<1>2. S \in Good
  <2> HIDE DEF Good
  <2> QED BY <1>1, SubsetInduction
<1> QED BY <1>2

-----------------------------------------------------------------------------
(* What follows for the sum.                                               *)

\* What the fold computes.
LEMMA SumStep ==
  ASSUME NEW w, NEW S, IsFiniteSet(S)
  PROVE  SumOver(w, S) = IF S = {} THEN 0 ELSE w[Pick(S)] + SumOver(w, S \ {Pick(S)})
<1> DEFINE g == CHOOSE f : Sums(f, w, S)
           D == S \ {Pick(S)}
           h == CHOOSE f : Sums(f, w, D)
<1>1. Sums(g, w, S)
  BY SumsExist, Zenon
<1>2. g[S] = IF S = {} THEN 0 ELSE w[Pick(S)] + g[D]
  BY <1>1, Zenon DEF Sums
<1>3. D \in SUBSET S /\ IsFiniteSet(D)
  BY FS_Subset
<1>4. Sums(h, w, D)
  BY <1>3, SumsExist, Zenon
<1> HIDE DEF g, h, D
<1>5. g[D] = h[D]
  BY <1>1, <1>3, <1>4, SumsAgree
<1> QED BY <1>2, <1>5 DEF SumOver, g, h, D

\* A set that is closed under addition has the sums of its elements.
LEMMA SumIn ==
  ASSUME NEW w, NEW S, IsFiniteSet(S), NEW N, 0 \in N,
         \A a \in N : \A b \in N : a + b \in N, \A x \in S : w[x] \in N
  PROVE  SumOver(w, S) \in N
<1> DEFINE Good == {T \in SUBSET S : SumOver(w, T) \in N}
<1>1. ASSUME NEW T \in SUBSET S, \A U \in SUBSET T : U # T => U \in Good
      PROVE  T \in Good
  <2>1. SumOver(w, T) = IF T = {} THEN 0 ELSE w[Pick(T)] + SumOver(w, T \ {Pick(T)})
    BY FS_Subset, SumStep
  <2>2. CASE T = {}
    BY <2>1, <2>2
  <2>3. CASE T # {}
    <3>1. Pick(T) \in T /\ T \ {Pick(T)} \in Good
      BY <1>1, <2>3, PickIn
    <3>2. w[Pick(T)] \in N /\ SumOver(w, T \ {Pick(T)}) \in N
      BY <3>1
    <3> HIDE DEF Good
    <3>3. SumOver(w, T) \in N
      BY <2>1, <2>3, <3>2, Zenon
    <3> QED BY <3>3 DEF Good
  <2> QED BY <2>2, <2>3
<1>2. S \in Good
  <2> HIDE DEF Good
  <2> QED BY <1>1, SubsetInduction
<1> QED BY <1>2

LEMMA SumType ==
  ASSUME NEW w, NEW S, IsFiniteSet(S)
  PROVE  /\ (\A x \in S : w[x] \in Int) => SumOver(w, S) \in Int
         /\ (\A x \in S : w[x] \in Nat) => SumOver(w, S) \in Nat
         /\ (\A x \in S : w[x] = 0) => SumOver(w, S) = 0
<1>1. ASSUME \A x \in S : w[x] \in Int PROVE SumOver(w, S) \in Int
  <2>1. 0 \in Int /\ \A a \in Int : \A b \in Int : a + b \in Int
    OBVIOUS
  <2> QED BY <1>1, <2>1, SumIn
<1>2. ASSUME \A x \in S : w[x] \in Nat PROVE SumOver(w, S) \in Nat
  <2>1. 0 \in Nat /\ \A a \in Nat : \A b \in Nat : a + b \in Nat
    OBVIOUS
  <2> QED BY <1>2, <2>1, SumIn
<1>3. ASSUME \A x \in S : w[x] = 0 PROVE SumOver(w, S) = 0
  <2>1. 0 \in {0} /\ \A a \in {0} : \A b \in {0} : a + b \in {0}
    OBVIOUS
  <2>2. \A x \in S : w[x] \in {0}
    BY <1>3
  <2>3. SumOver(w, S) \in {0}
    BY ONLY <2>1, <2>2, SumIn, IsFiniteSet(S)
  <2> QED BY <2>3
<1> QED BY <1>1, <1>2, <1>3

\* The order of the numbers does not matter: any of them may be taken first.
LEMMA SumTake ==
  ASSUME NEW w, NEW S, IsFiniteSet(S), \A x \in S : w[x] \in Int
  PROVE  \A y \in S : SumOver(w, S) = w[y] + SumOver(w, S \ {y})
<1> DEFINE Good == {T \in SUBSET S : \A y \in T : SumOver(w, T) = w[y] + SumOver(w, T \ {y})}
<1>1. ASSUME NEW T \in SUBSET S, \A U \in SUBSET T : U # T => U \in Good
      PROVE  T \in Good
  <2> SUFFICES ASSUME NEW y \in T PROVE SumOver(w, T) = w[y] + SumOver(w, T \ {y})
    OBVIOUS
  <2> DEFINE x == Pick(T)
             D == T \ {x}
             E == T \ {y}
             F == D \ {y}
  <2>1. x \in T /\ w[x] \in Int /\ w[y] \in Int
    BY PickIn
  <2>2. /\ IsFiniteSet(T) /\ IsFiniteSet(F)
    BY FS_Subset
  <2>3. SumOver(w, T) = w[x] + SumOver(w, D)
    BY <2>2, SumStep
  <2>4. CASE x = y
    BY <2>3, <2>4
  <2>5. CASE x # y
    <3>1. D \in SUBSET T /\ D # T /\ y \in D
      BY <2>1, <2>5
    <3>2. E \in SUBSET T /\ E # T /\ x \in E /\ E \ {x} = F
      BY <2>1, <2>5
    <3>3. D \in Good /\ E \in Good
      BY <1>1, <3>1, <3>2, Zenon
    <3>4. SumOver(w, D) = w[y] + SumOver(w, F)
      BY <3>1, <3>3
    <3>5. SumOver(w, E) = w[x] + SumOver(w, F)
      <4>1. SumOver(w, E) = w[x] + SumOver(w, E \ {x})
        BY <3>2, <3>3
      <4> QED BY <3>2, <4>1, Zenon
    <3>6. SumOver(w, F) \in Int
      BY <2>2, SumType
    <3>7. ASSUME NEW a \in Int, NEW b \in Int, NEW c \in Int
          PROVE  a + (b + c) = b + (a + c)
      OBVIOUS
    <3> HIDE DEF x, D, E, F
    <3>8. SumOver(w, T) = w[y] + SumOver(w, E)
      <4>1. SumOver(w, T) = w[x] + (w[y] + SumOver(w, F))
        BY <2>3, <3>4, Zenon
      <4>2. w[x] + (w[y] + SumOver(w, F)) = w[y] + (w[x] + SumOver(w, F))
        BY <2>1, <3>6, <3>7, Zenon
      <4> QED BY <3>5, <4>1, <4>2, Zenon
    <3> QED BY <3>8 DEF E
  <2> QED BY <2>4, <2>5
<1>2. S \in Good
  <2> HIDE DEF Good
  <2> QED BY <1>1, SubsetInduction
<1> QED BY <1>2

\* It depends on the numbers only.
LEMMA SumSame ==
  ASSUME NEW w, NEW v, NEW S, IsFiniteSet(S), \A x \in S : w[x] = v[x]
  PROVE  SumOver(w, S) = SumOver(v, S)
<1> DEFINE Good == {T \in SUBSET S : SumOver(w, T) = SumOver(v, T)}
<1>1. ASSUME NEW T \in SUBSET S, \A U \in SUBSET T : U # T => U \in Good
      PROVE  T \in Good
  <2>1. /\ SumOver(w, T) = IF T = {} THEN 0 ELSE w[Pick(T)] + SumOver(w, T \ {Pick(T)})
        /\ SumOver(v, T) = IF T = {} THEN 0 ELSE v[Pick(T)] + SumOver(v, T \ {Pick(T)})
    BY FS_Subset, SumStep
  <2>2. CASE T # {}
    BY <1>1, <2>1, <2>2, PickIn
  <2> QED BY <2>1, <2>2
<1>2. S \in Good
  <2> HIDE DEF Good
  <2> QED BY <1>1, SubsetInduction
<1> QED BY <1>2

\* One number more, and one number that has changed.
LEMMA SumAdd ==
  ASSUME NEW w, NEW S, IsFiniteSet(S), NEW y, y \notin S,
         \A x \in S \cup {y} : w[x] \in Int
  PROVE  SumOver(w, S \cup {y}) = w[y] + SumOver(w, S)
<1>1. IsFiniteSet(S \cup {y}) /\ (S \cup {y}) \ {y} = S
  BY FS_AddElement
<1>2. SumOver(w, S \cup {y}) = w[y] + SumOver(w, (S \cup {y}) \ {y})
  BY <1>1, SumTake
<1> QED BY <1>1, <1>2, Zenon

LEMMA SumChange ==
  ASSUME NEW w, NEW v, NEW S, IsFiniteSet(S), NEW y \in S,
         \A x \in S : w[x] \in Int /\ v[x] \in Int,
         \A x \in S \ {y} : v[x] = w[x]
  PROVE  SumOver(v, S) = SumOver(w, S) - w[y] + v[y]
<1> DEFINE D == S \ {y}
<1>1. IsFiniteSet(D) /\ \A x \in D : v[x] = w[x] /\ w[x] \in Int
  BY FS_Subset
<1>2. SumOver(w, S) = w[y] + SumOver(w, D) /\ SumOver(v, S) = v[y] + SumOver(v, D)
  BY SumTake
<1> HIDE DEF D
<1>3. SumOver(v, D) = SumOver(w, D)
  BY <1>1, SumSame
<1>4. SumOver(w, D) \in Int /\ w[y] \in Int /\ v[y] \in Int
  BY <1>1, SumType
<1> QED BY <1>2, <1>3, <1>4

\* The sum of a function's values is one over its domain.
LEMMA SumOfFunction ==
  ASSUME NEW w
  PROVE  SumFunction(w) = SumOver(w, DOMAIN w)
BY SumIsSumOver DEF SumFunction
=============================================================================

----------------------------- MODULE FiniteSums -----------------------------
(***************************************************************************)
(* Sums over finite sets.  SumFunctionOnSet is a fold, defined by recursion  *)
(* over the subsets of a set.  What a sum comes to is proved by induction    *)
(* over those subsets, in the form that names the set P of those the claim   *)
(* holds of: the order by strict inclusion is well founded, so that a        *)
(* nonempty set of counterexamples has a minimal one.                        *)
(***************************************************************************)
EXTENDS Integers, FiniteSets, Functions, FiniteSetTheorems, WellFoundedInduction, TLAPS

\* A claim that holds of a subset if it holds of the smaller ones holds of them all.
LEMMA SubsetInduction ==
  ASSUME NEW S, IsFiniteSet(S), NEW P,
         \A T \in SUBSET S : (\A U \in SUBSET T : U # T => U \in P) => T \in P
  PROVE  SUBSET S \subseteq P
<1> DEFINE R == StrictSubsetOrdering(S)
           B == {T \in SUBSET S : T \notin P}
<1> SUFFICES ASSUME B # {} PROVE FALSE
  OBVIOUS
<1>1. IsWellFoundedOn(R, FiniteSubsetsOf(S))
  BY FS_StrictSubsetOrderingWellFounded
<1>2. B \subseteq FiniteSubsetsOf(S)
  BY FS_Subset DEF FiniteSubsetsOf
<1>3. PICK T \in B : \A U \in B : <<U, T>> \notin R
  <2> HIDE DEF R, B
  <2>. QED
    BY <1>1, <1>2, WFMin
<1>4. ASSUME NEW U \in SUBSET T, U # T PROVE U \in P
  <2>1. U \in SUBSET S /\ <<U, T>> \in R
    BY <1>4 DEF StrictSubsetOrdering
  <2>. QED
    BY <1>3, <2>1
<1>. QED
  BY <1>3, <1>4

PickOf(s) == CHOOSE x \in s : TRUE

\* g is the table of the sums of f over the subsets of T.
Sums(g, f, T) ==
    g = [s \in SUBSET T |->
            IF s = {} THEN 0 ELSE LET x == CHOOSE x \in s : TRUE IN f[x] + g[s \ {x}]]

\* The sum of one subset.
LEMMA SumsAt ==
  ASSUME NEW f, NEW T, NEW g, Sums(g, f, T), NEW s \in SUBSET T
  PROVE  g[s] = IF s = {} THEN 0 ELSE f[PickOf(s)] + g[s \ {PickOf(s)}]
  BY DEF Sums, PickOf

\* The sum of the whole set.
LEMMA SumsOfAll ==
  ASSUME NEW f, NEW T, NEW g, Sums(g, f, T)
  PROVE  g[T] = IF T = {} THEN 0 ELSE f[PickOf(T)] + g[T \ {PickOf(T)}]
  BY DEF Sums, PickOf

\* The chosen element is one, and without it the set is smaller.
LEMMA PickOfIn ==
  ASSUME NEW s, s # {}
  PROVE  PickOf(s) \in s /\ s \ {PickOf(s)} \in SUBSET s /\ s \ {PickOf(s)} # s
  BY DEF PickOf

\* There is one sum of a subset, whatever set it is seen as a part of.
LEMMA SumsAgree ==
  ASSUME NEW f, NEW A, NEW B, NEW g, NEW h, Sums(g, f, A), Sums(h, f, B),
         NEW S, IsFiniteSet(S), S \subseteq A, S \subseteq B
  PROVE  g[S] = h[S]
<1> DEFINE P == {T \in SUBSET S : g[T] = h[T]}
<1>1. ASSUME NEW T \in SUBSET S, \A U \in SUBSET T : U # T => U \in P
      PROVE  T \in P
  <2>1. T \in SUBSET A /\ T \in SUBSET B
    OBVIOUS
  <2>2. CASE T = {}
    BY <2>1, <2>2, SumsAt
  <2>3. CASE T # {}
    <3>1. g[T \ {PickOf(T)}] = h[T \ {PickOf(T)}]
      BY <1>1, <2>3, PickOfIn
    <3>. QED
      BY <2>1, <2>3, <3>1, SumsAt
  <2>. QED
    BY <2>2, <2>3
<1> HIDE DEF P
<1>2. SUBSET S \subseteq P
  BY <1>1, SubsetInduction
<1>. QED
  BY <1>2 DEF P

\* There is a table of sums.
LEMMA SumsExist ==
  ASSUME NEW f, NEW S, IsFiniteSet(S)
  PROVE  \E g : Sums(g, f, S)
<1> DEFINE P == {T \in SUBSET S : \E g : Sums(g, f, T)}
           It(U) == CHOOSE g : Sums(g, f, U)
<1>1. ASSUME NEW T \in SUBSET S, \A U \in SUBSET T : U # T => U \in P
      PROVE  T \in P
  <2> DEFINE G == [s \in SUBSET T |->
                      IF s = {} THEN 0
                      ELSE f[PickOf(s)] + It(s \ {PickOf(s)})[s \ {PickOf(s)}]]
  <2>1. ASSUME NEW U \in SUBSET T, U # T PROVE Sums(It(U), f, U)
    BY <1>1, <2>1
  <2> HIDE DEF It
  <2>2. ASSUME NEW u \in SUBSET T, u # T PROVE G[u] = It(u)[u]
    <3>1. Sums(It(u), f, u)
      BY <2>1, <2>2
    <3>2. CASE u = {}
      BY <3>1, <3>2, SumsAt
    <3>3. CASE u # {}
      <4> DEFINE v == u \ {PickOf(u)}
      <4>1. v \in SUBSET T /\ v \subseteq u /\ v # T /\ IsFiniteSet(v)
        BY <3>3, PickOfIn, FS_Subset
      <4>2. Sums(It(v), f, v)
        BY <2>1, <4>1
      <4>3. It(u)[v] = It(v)[v]
        BY <3>1, <4>1, <4>2, SumsAgree
      <4>4. It(u)[u] = f[PickOf(u)] + It(u)[v]
        BY <3>1, <3>3, SumsAt
      <4>5. G[u] = f[PickOf(u)] + It(v)[v]
        BY <3>3
      <4>. QED
        BY <4>3, <4>4, <4>5
    <3>. QED
      BY <3>2, <3>3
  <2>3. ASSUME NEW s \in SUBSET T, s # {}
        PROVE  G[s \ {PickOf(s)}] = It(s \ {PickOf(s)})[s \ {PickOf(s)}]
    <3>1. s \ {PickOf(s)} \in SUBSET T /\ s \ {PickOf(s)} # T
      BY <2>3, PickOfIn
    <3>. QED
      BY <2>2, <3>1
  <2>4. G = [s \in SUBSET T |->
                IF s = {} THEN 0 ELSE f[PickOf(s)] + G[s \ {PickOf(s)}]]
    <3> DEFINE H == [s \in SUBSET T |->
                        IF s = {} THEN 0 ELSE f[PickOf(s)] + G[s \ {PickOf(s)}]]
    <3>1. \A s \in SUBSET T : G[s] = H[s]
      BY <2>3
    <3>2. G = [s \in SUBSET T |-> G[s]] /\ H = [s \in SUBSET T |-> H[s]]
      OBVIOUS
    <3> HIDE DEF G, H
    <3>3. G = H
      BY <3>1, <3>2
    <3>. QED
      BY <3>3 DEF H
  <2>5. Sums(G, f, T)
    <3> HIDE DEF G
    <3>. QED
      BY <2>4 DEF Sums, PickOf
  <2>. QED
    BY <2>5
<1> HIDE DEF P
<1>2. S \in P
  BY <1>1, SubsetInduction
<1>. QED
  BY <1>2 DEF P

\* SumFunctionOnSet is an entry of such a table.
LEMMA SumUnfold ==
  ASSUME NEW f, NEW S, IsFiniteSet(S)
  PROVE  \E g : Sums(g, f, S) /\ SumFunctionOnSet(f, S) = g[S]
<1> DEFINE it == CHOOSE g : Sums(g, f, S)
<1>1. SumFunctionOnSet(f, S) = it[S]
  BY DEF SumFunctionOnSet, FoldFunctionOnSet, MapThenFoldSet, Sums
<1>2. Sums(it, f, S)
  BY SumsExist
<1>. QED
  BY <1>1, <1>2

\* A sum is the chosen element and the sum of the others.
LEMMA SumStep ==
  ASSUME NEW f, NEW S, IsFiniteSet(S)
  PROVE  SumFunctionOnSet(f, S) =
            IF S = {} THEN 0
            ELSE f[PickOf(S)] + SumFunctionOnSet(f, S \ {PickOf(S)})
<1>1. PICK g : Sums(g, f, S) /\ SumFunctionOnSet(f, S) = g[S]
  BY SumUnfold
<1>2. g[S] = IF S = {} THEN 0 ELSE f[PickOf(S)] + g[S \ {PickOf(S)}]
  BY <1>1, SumsOfAll
<1>3. ASSUME S # {} PROVE SumFunctionOnSet(f, S \ {PickOf(S)}) = g[S \ {PickOf(S)}]
  <2> DEFINE U == S \ {PickOf(S)}
  <2>1. U \subseteq S /\ IsFiniteSet(U)
    BY FS_Subset
  <2> HIDE DEF U
  <2>2. PICK h : Sums(h, f, U) /\ SumFunctionOnSet(f, U) = h[U]
    BY <2>1, SumUnfold
  <2>3. h[U] = g[U]
    BY <1>1, <2>1, <2>2, SumsAgree
  <2>. QED
    BY <2>2, <2>3 DEF U
<1>. QED
  BY <1>1, <1>2, <1>3

\* A sum of integers is one.
LEMMA SumType ==
  ASSUME NEW S, IsFiniteSet(S), NEW f, \A x \in S : f[x] \in Int
  PROVE  \A T \in SUBSET S : SumFunctionOnSet(f, T) \in Int
<1> DEFINE Sum(T) == SumFunctionOnSet(f, T)
           P == {T \in SUBSET S : Sum(T) \in Int}
<1>1. ASSUME NEW T \in SUBSET S, \A U \in SUBSET T : U # T => U \in P
      PROVE  T \in P
  <2>1. IsFiniteSet(T)
    BY FS_Subset
  <2>2. CASE T = {}
    <3>1. Sum(T) = 0
      BY <2>1, <2>2, SumStep, Zenon
    <3>. QED
      BY <3>1
  <2>3. CASE T # {}
    <3>1. Sum(T \ {PickOf(T)}) \in Int /\ f[PickOf(T)] \in Int
      BY <1>1, <2>3, PickOfIn
    <3>2. Sum(T) = f[PickOf(T)] + Sum(T \ {PickOf(T)})
      BY <2>1, <2>3, SumStep
    <3> HIDE DEF Sum
    <3>. QED
      BY <3>1, <3>2
  <2>. QED
    BY <2>2, <2>3
<1> HIDE DEF P
<1>2. SUBSET S \subseteq P
  BY <1>1, SubsetInduction
<1>. QED
  BY <1>2 DEF P

\* Functions that agree have the same sum.
LEMMA SumSame ==
  ASSUME NEW S, IsFiniteSet(S), NEW f, NEW g, \A x \in S : f[x] = g[x]
  PROVE  SumFunctionOnSet(f, S) = SumFunctionOnSet(g, S)
<1> DEFINE P == {T \in SUBSET S : SumFunctionOnSet(f, T) = SumFunctionOnSet(g, T)}
<1>1. ASSUME NEW T \in SUBSET S, \A U \in SUBSET T : U # T => U \in P
      PROVE  T \in P
  <2>1. IsFiniteSet(T)
    BY FS_Subset
  <2>2. CASE T = {}
    BY <2>1, <2>2, SumStep
  <2>3. CASE T # {}
    <3>1. /\ SumFunctionOnSet(f, T \ {PickOf(T)}) = SumFunctionOnSet(g, T \ {PickOf(T)})
          /\ f[PickOf(T)] = g[PickOf(T)]
      BY <1>1, <2>3, PickOfIn
    <3>. QED
      BY <2>1, <2>3, <3>1, SumStep
  <2>. QED
    BY <2>2, <2>3
<1> HIDE DEF P
<1>2. SUBSET S \subseteq P
  BY <1>1, SubsetInduction
<1>. QED
  BY <1>2 DEF P

\* A sum of nothing but zeros.
LEMMA SumZero ==
  ASSUME NEW S, IsFiniteSet(S), NEW f, \A x \in S : f[x] = 0
  PROVE  SumFunctionOnSet(f, S) = 0
<1> DEFINE Sum(T) == SumFunctionOnSet(f, T)
           P == {T \in SUBSET S : Sum(T) = 0}
<1>1. ASSUME NEW T \in SUBSET S, \A U \in SUBSET T : U # T => U \in P
      PROVE  T \in P
  <2>1. IsFiniteSet(T)
    BY FS_Subset
  <2>2. CASE T = {}
    BY <2>1, <2>2, SumStep, Zenon
  <2>3. CASE T # {}
    <3>1. Sum(T \ {PickOf(T)}) = 0 /\ f[PickOf(T)] = 0
      BY <1>1, <2>3, PickOfIn
    <3>2. Sum(T) = f[PickOf(T)] + Sum(T \ {PickOf(T)})
      BY <2>1, <2>3, SumStep
    <3> HIDE DEF Sum
    <3>. QED
      BY <3>1, <3>2
  <2>. QED
    BY <2>2, <2>3
<1> HIDE DEF P
<1>2. SUBSET S \subseteq P
  BY <1>1, SubsetInduction
<1>. QED
  BY <1>2 DEF P

\* Any element may be taken out first: the order of the additions does not matter.
LEMMA SumWithout ==
  ASSUME NEW S, IsFiniteSet(S), NEW f, \A x \in S : f[x] \in Int
  PROVE  \A T \in SUBSET S : \A x \in T :
            SumFunctionOnSet(f, T) = f[x] + SumFunctionOnSet(f, T \ {x})
<1> DEFINE Sum(T) == SumFunctionOnSet(f, T)
           P == {T \in SUBSET S : \A x \in T : Sum(T) = f[x] + Sum(T \ {x})}
<1>1. ASSUME NEW T \in SUBSET S, \A U \in SUBSET T : U # T => U \in P
      PROVE  T \in P
  <2> SUFFICES ASSUME NEW x \in T PROVE Sum(T) = f[x] + Sum(T \ {x})
    OBVIOUS
  <2> DEFINE c == PickOf(T)
             U == T \ {c}
             V == T \ {x}
             W == U \ {x}
  <2>1. c \in T /\ U \in SUBSET T /\ U # T /\ V \in SUBSET T /\ V # T
    BY PickOfIn
  <2>2. IsFiniteSet(T) /\ W \in SUBSET S /\ f[c] \in Int /\ f[x] \in Int
    BY <2>1, FS_Subset
  <2>3. Sum(T) = f[c] + Sum(U)
    BY <2>2, SumStep
  <2>4. CASE x = c
    BY <2>3, <2>4
  <2>5. CASE x # c
    <3>1. x \in U /\ c \in V /\ V \ {c} = W
      BY <2>1, <2>5
    <3>2. Sum(U) = f[x] + Sum(W)
      BY <1>1, <2>1, <3>1
    <3>3. Sum(V) = f[c] + Sum(W)
      BY <1>1, <2>1, <3>1
    <3>4. Sum(W) \in Int
      BY <2>2, SumType
    <3> HIDE DEF Sum, U, V, W, c
    <3>. QED
      BY <2>2, <2>3, <3>2, <3>3, <3>4 DEF V
  <2>. QED
    BY <2>4, <2>5
<1> HIDE DEF P
<1>2. SUBSET S \subseteq P
  BY <1>1, SubsetInduction
<1>. QED
  BY <1>2 DEF P

\* An element added.
LEMMA SumAdd ==
  ASSUME NEW S, IsFiniteSet(S), NEW x, x \notin S, NEW f, NEW g,
         \A y \in S : g[y] = f[y], \A y \in S : f[y] \in Int, g[x] \in Int,
         NEW T, T = S \cup {x}
  PROVE  IsFiniteSet(T) /\ SumFunctionOnSet(g, T) = SumFunctionOnSet(f, S) + g[x]
<1>1. IsFiniteSet(T) /\ T \ {x} = S
  BY FS_AddElement
<1>2. SumFunctionOnSet(g, T) = g[x] + SumFunctionOnSet(g, S)
  <2>1. \A y \in T : g[y] \in Int
    OBVIOUS
  <2>2. x \in T
    OBVIOUS
  <2>. QED
    BY <1>1, <2>1, <2>2, SumWithout
<1>3. SumFunctionOnSet(g, S) = SumFunctionOnSet(f, S)
  BY SumSame
<1>4. SumFunctionOnSet(f, S) \in Int
  BY SumType
<1>. QED
  BY <1>1, <1>2, <1>3, <1>4

\* One element changed.
LEMMA SumChange ==
  ASSUME NEW S, IsFiniteSet(S), NEW x \in S, NEW f, NEW g,
         \A y \in S : f[y] \in Int, g[x] \in Int, \A y \in S \ {x} : g[y] = f[y]
  PROVE  SumFunctionOnSet(g, S) = SumFunctionOnSet(f, S) + (g[x] - f[x])
<1> DEFINE T == S \ {x}
           t == SumFunctionOnSet(f, T)
<1>1. IsFiniteSet(T) /\ T \in SUBSET S
  BY FS_Subset
<1>2. \A y \in S : g[y] \in Int
  OBVIOUS
<1>3. SumFunctionOnSet(f, S) = f[x] + t
  BY SumWithout
<1>4. SumFunctionOnSet(g, S) = g[x] + SumFunctionOnSet(g, T)
  BY <1>2, SumWithout
<1>5. SumFunctionOnSet(g, T) = t
  BY <1>1, SumSame
<1>6. t \in Int /\ f[x] \in Int /\ g[x] \in Int
  BY <1>1, SumType
<1> HIDE DEF t, T
<1>. QED
  BY <1>3, <1>4, <1>5, <1>6

\* A sum of numbers is one, and no element is larger.
LEMMA SumCovers ==
  ASSUME NEW S, IsFiniteSet(S), NEW f, \A x \in S : f[x] \in Nat
  PROVE  /\ SumFunctionOnSet(f, S) \in Nat
         /\ \A x \in S : f[x] <= SumFunctionOnSet(f, S)
<1> DEFINE Sum(T) == SumFunctionOnSet(f, T)
           P == {T \in SUBSET S : Sum(T) \in Nat}
<1>1. ASSUME NEW T \in SUBSET S, \A U \in SUBSET T : U # T => U \in P
      PROVE  T \in P
  <2>1. IsFiniteSet(T)
    BY FS_Subset
  <2>2. CASE T = {}
    <3>1. Sum(T) = 0
      BY <2>1, <2>2, SumStep, Zenon
    <3>. QED
      BY <3>1
  <2>3. CASE T # {}
    <3>1. Sum(T \ {PickOf(T)}) \in Nat /\ f[PickOf(T)] \in Nat
      BY <1>1, <2>3, PickOfIn
    <3>2. Sum(T) = f[PickOf(T)] + Sum(T \ {PickOf(T)})
      BY <2>1, <2>3, SumStep
    <3> HIDE DEF Sum
    <3>. QED
      BY <3>1, <3>2
  <2>. QED
    BY <2>2, <2>3
<1> HIDE DEF P
<1>2. SUBSET S \subseteq P
  BY <1>1, SubsetInduction
<1>3. \A T \in SUBSET S : Sum(T) \in Nat
  BY <1>2 DEF P
<1>4. ASSUME NEW x \in S PROVE f[x] <= Sum(S)
  <2>1. Sum(S) = f[x] + Sum(S \ {x})
    BY SumWithout
  <2>2. Sum(S \ {x}) \in Nat /\ f[x] \in Nat
    BY <1>3
  <2> HIDE DEF Sum
  <2>. QED
    BY <2>1, <2>2
<1>. QED
  BY <1>3, <1>4

\* A larger function has a larger sum.
LEMMA SumGrows ==
  ASSUME NEW S, IsFiniteSet(S), NEW f, NEW g,
         \A x \in S : f[x] \in Int /\ g[x] \in Int /\ f[x] <= g[x]
  PROVE  SumFunctionOnSet(f, S) <= SumFunctionOnSet(g, S)
<1> DEFINE F(T) == SumFunctionOnSet(f, T)
           G(T) == SumFunctionOnSet(g, T)
           P == {T \in SUBSET S : F(T) <= G(T)}
<1>1. ASSUME NEW T \in SUBSET S, \A U \in SUBSET T : U # T => U \in P
      PROVE  T \in P
  <2>1. IsFiniteSet(T)
    BY FS_Subset
  <2>2. CASE T = {}
    <3>1. F(T) = 0 /\ G(T) = 0
      BY <2>1, <2>2, SumStep, Zenon
    <3>. QED
      BY <3>1
  <2>3. CASE T # {}
    <3> DEFINE c == PickOf(T)
               U == T \ {c}
    <3>1. F(U) <= G(U) /\ f[c] <= g[c] /\ f[c] \in Int /\ g[c] \in Int /\ U \in SUBSET S
      BY <1>1, <2>3, PickOfIn
    <3>2. F(T) = f[c] + F(U) /\ G(T) = g[c] + G(U)
      BY <2>1, <2>3, SumStep
    <3>3. F(U) \in Int /\ G(U) \in Int
      BY <3>1, SumType
    <3> HIDE DEF F, G, c, U
    <3>. QED
      BY <3>1, <3>2, <3>3
  <2>. QED
    BY <2>2, <2>3
<1> HIDE DEF P
<1>2. SUBSET S \subseteq P
  BY <1>1, SubsetInduction
<1>. QED
  BY <1>2 DEF P

\* The sums of two functions add up to the sum of the function that adds them.
LEMMA SumOfBoth ==
  ASSUME NEW S, IsFiniteSet(S), NEW f, NEW g, NEW h,
         \A x \in S : f[x] \in Int /\ g[x] \in Int /\ h[x] = f[x] + g[x]
  PROVE  SumFunctionOnSet(h, S) = SumFunctionOnSet(f, S) + SumFunctionOnSet(g, S)
<1> DEFINE F(T) == SumFunctionOnSet(f, T)
           G(T) == SumFunctionOnSet(g, T)
           H(T) == SumFunctionOnSet(h, T)
           P == {T \in SUBSET S : H(T) = F(T) + G(T)}
<1>1. ASSUME NEW T \in SUBSET S, \A U \in SUBSET T : U # T => U \in P
      PROVE  T \in P
  <2>1. IsFiniteSet(T)
    BY FS_Subset
  <2>2. CASE T = {}
    <3>1. F(T) = 0 /\ G(T) = 0 /\ H(T) = 0
      BY <2>1, <2>2, SumStep, Zenon
    <3>. QED
      BY <3>1
  <2>3. CASE T # {}
    <3> DEFINE c == PickOf(T)
               U == T \ {c}
    <3>1. /\ H(U) = F(U) + G(U) /\ h[c] = f[c] + g[c] /\ f[c] \in Int /\ g[c] \in Int
          /\ U \in SUBSET S
      BY <1>1, <2>3, PickOfIn
    <3>2. F(T) = f[c] + F(U) /\ G(T) = g[c] + G(U) /\ H(T) = h[c] + H(U)
      BY <2>1, <2>3, SumStep
    <3>3. F(U) \in Int /\ G(U) \in Int
      BY <3>1, SumType
    <3> HIDE DEF F, G, H, c, U
    <3>. QED
      BY <3>1, <3>2, <3>3
  <2>. QED
    BY <2>2, <2>3
<1> HIDE DEF P
<1>2. SUBSET S \subseteq P
  BY <1>1, SubsetInduction
<1>. QED
  BY <1>2 DEF P

\* A sum of elements with a bound.
LEMMA SumWithin ==
  ASSUME NEW S, IsFiniteSet(S), NEW f, NEW c \in Nat, \A x \in S : f[x] \in Int /\ f[x] <= c
  PROVE  SumFunctionOnSet(f, S) <= c * Cardinality(S)
<1> DEFINE F(T) == SumFunctionOnSet(f, T)
           P == {T \in SUBSET S : F(T) <= c * Cardinality(T)}
<1>1. ASSUME NEW T \in SUBSET S, \A U \in SUBSET T : U # T => U \in P
      PROVE  T \in P
  <2>1. IsFiniteSet(T)
    BY FS_Subset
  <2>2. CASE T = {}
    <3>1. F(T) = 0 /\ Cardinality(T) = 0
      BY <2>1, <2>2, SumStep, FS_EmptySet, Zenon
    <3> HIDE DEF F
    <3>. QED
      BY <3>1
  <2>3. CASE T # {}
    <3> DEFINE p == PickOf(T)
               U == T \ {p}
               n == Cardinality(U)
    <3>1. F(U) <= c * n /\ f[p] <= c /\ f[p] \in Int /\ U \in SUBSET S /\ p \in T
      BY <1>1, <2>3, PickOfIn
    <3>2. F(T) = f[p] + F(U)
      BY <2>1, <2>3, SumStep
    <3>3. F(U) \in Int
      BY <3>1, SumType
    <3>4. n = Cardinality(T) - 1 /\ n \in Nat /\ Cardinality(T) \in Nat
      BY <2>1, <3>1, FS_RemoveElement, FS_CardinalityType
    <3> HIDE DEF F, n, p, U
    <3>5. c * Cardinality(T) = c * n + c
      BY <3>4
    <3>. QED
      BY <3>1, <3>2, <3>3, <3>4, <3>5
  <2>. QED
    BY <2>2, <2>3
<1> HIDE DEF P
<1>2. SUBSET S \subseteq P
  BY <1>1, SubsetInduction
<1>. QED
  BY <1>2 DEF P

=============================================================================

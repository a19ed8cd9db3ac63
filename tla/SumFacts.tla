------------------------------ MODULE SumFacts ------------------------------
(***************************************************************************)
(* What is known of a sum over a finite set (SumFunctionOnSet of the       *)
(* community modules, which adds the values up in an order that CHOOSE     *)
(* fixes): that it is what its recursive definition says, that it does not *)
(* depend on the order, and what it does when a value is taken out, one    *)
(* changes, none is larger, or the values move up by one.  Checkout sums   *)
(* what a cart costs, RiderDesk the rows of a delivery, OrderDesk what the *)
(* orders of a customer earned.  And one fact about counting, for the      *)
(* bounds on rewards and rows that are as many as there are workers.       *)
(*                                                                         *)
(* Induction is stated with a set of what is good in place of a predicate: *)
(* a minimal subset that is not good would exist otherwise.                *)
(***************************************************************************)
EXTENDS Integers, Functions, FiniteSetTheorems, WellFoundedInduction, TLAPS

\* Among finite sets there is a smallest.
LEMMA MinimalSubset ==
    ASSUME NEW S, IsFiniteSet(S), NEW T, T \subseteq SUBSET S, T # {}
    PROVE  \E s \in T : \A t \in T : t \subseteq s => t = s
<1> DEFINE R == StrictSubsetOrdering(S)
<1>1. IsWellFoundedOn(R, SUBSET S)
  BY FS_StrictSubsetOrderingWellFounded, FS_FiniteSubsetsOfFinite
<1>2. PICK s \in T : \A t \in T : ~(<<t, s>> \in R)
  <2> HIDE DEF R
  <2> QED
    BY <1>1, WFMin
<1>3. ASSUME NEW t \in T, t \subseteq s, t # s PROVE FALSE
  <2>1. <<t, s>> \in (SUBSET S) \X (SUBSET S)
    OBVIOUS
  <2> QED
    BY <1>2, <1>3, <2>1 DEF StrictSubsetOrdering
<1> QED
  BY <1>3

\* A finite set is good if every set is whose smaller sets are.
LEMMA SubsetInduction ==
    ASSUME NEW S, IsFiniteSet(S), NEW Good,
           \A U \in SUBSET S : (\A V \in SUBSET U : V # U => V \in Good) => U \in Good
    PROVE  S \in Good
<1> DEFINE Bad == (SUBSET S) \ Good
<1>1. ASSUME Bad # {} PROVE FALSE
  <2>1. PICK U \in Bad : \A V \in Bad : V \subseteq U => V = U
    <3>1. Bad \subseteq SUBSET S
      OBVIOUS
    <3> HIDE DEF Bad
    <3> QED
      BY <1>1, <3>1, MinimalSubset
  <2> QED
    BY <2>1
<1> QED
  BY <1>1

\* The numbers up to n, one after the other.
LEMMA UpwardInduction ==
    ASSUME NEW n \in Nat, NEW Good, 0 \in Good,
           \A m \in 1..n : m - 1 \in Good => m \in Good
    PROVE  n \in Good
<1> DEFINE GoodSets == {U \in SUBSET (0..n) : \A m \in 0..n : U = 0..m => m \in Good}
<1>1. ASSUME NEW U \in SUBSET (0..n), \A V \in SUBSET U : V # U => V \in GoodSets
      PROVE  U \in GoodSets
  <2> SUFFICES ASSUME NEW m \in 0..n, U = 0..m PROVE m \in Good
    OBVIOUS
  <2>1. CASE m # 0
    <3>1. m \in 1..n /\ m - 1 \in 0..n
      BY <2>1
    <3>2. 0..(m - 1) \subseteq U /\ m \in U /\ m \notin 0..(m - 1)
      BY <2>1
    <3>3. 0..(m - 1) \in GoodSets
      BY <1>1, <3>2
    <3> QED
      BY <3>1, <3>3
  <2> QED
    BY <2>1
<1>2. IsFiniteSet(0..n)
  BY FS_Interval
<1>3. 0..n \in GoodSets
  <2> DEFINE S == 0..n
  <2>1. \A U \in SUBSET S : (\A V \in SUBSET U : V # U => V \in GoodSets) => U \in GoodSets
    BY <1>1
  <2>2. IsFiniteSet(S)
    BY <1>2
  <2> HIDE DEF GoodSets, S
  <2>3. S \in GoodSets
    BY <2>1, <2>2, SubsetInduction
  <2> QED
    BY <2>3 DEF S
<1> QED
  BY <1>3

-----------------------------------------------------------------------------
(* The recursive definition *)

\* The element that is added first, and what the definition says of the sums g of the
\* subsets of S.
First(s) == CHOOSE x \in s : TRUE
Unfolded(f, S, g) == [s \in SUBSET S |-> IF s = {} THEN 0 ELSE f[First(s)] + g[s \ {First(s)}]]
Iter(f, S) == CHOOSE g : g = Unfolded(f, S, g)

LEMMA FirstIsIn == ASSUME NEW s, s # {} PROVE First(s) \in s
BY DEF First

LEMMA SumIsIter == ASSUME NEW f, NEW S PROVE SumFunctionOnSet(f, S) = Iter(f, S)[S]
BY DEF SumFunctionOnSet, FoldFunctionOnSet, MapThenFoldSet, Iter, Unfolded, First

LEMMA IterFound ==
    ASSUME NEW f, NEW S, NEW g, g = Unfolded(f, S, g)
    PROVE  Iter(f, S) = Unfolded(f, S, Iter(f, S))
BY DEF Iter

LEMMA UnfoldedAt ==
    ASSUME NEW f, NEW S, NEW g, g = Unfolded(f, S, g), NEW s \in SUBSET S
    PROVE  g[s] = IF s = {} THEN 0 ELSE f[First(s)] + g[s \ {First(s)}]
BY DEF Unfolded

\* The sums of the subsets of U exist, and are the same as computed for themselves.
Agrees(f, U) == /\ Iter(f, U) = Unfolded(f, U, Iter(f, U))
                /\ \A V \in SUBSET U : Iter(f, U)[V] = Iter(f, V)[V]

\* From those of the smaller sets the sums of the subsets of T are put together.
LEMMA SmallerAgrees ==
    ASSUME NEW f, NEW T, IsFiniteSet(T), \A U \in SUBSET T : U # T => Agrees(f, U)
    PROVE  Agrees(f, T)
<1> DEFINE G(s) == Iter(f, s)[s]
           h == [s \in SUBSET T |-> IF s = {} THEN 0 ELSE f[First(s)] + G(s \ {First(s)})]
<1>1. ASSUME NEW U \in SUBSET T, U # T
      PROVE  G(U) = IF U = {} THEN 0 ELSE f[First(U)] + G(U \ {First(U)})
  <2>1. Iter(f, U) = Unfolded(f, U, Iter(f, U))
    BY <1>1 DEF Agrees
  <2>2. G(U) = IF U = {} THEN 0 ELSE f[First(U)] + Iter(f, U)[U \ {First(U)}]
    BY <2>1, UnfoldedAt
  <2>3. Iter(f, U)[U \ {First(U)}] = G(U \ {First(U)})
    BY <1>1 DEF Agrees
  <2> QED
    BY <2>2, <2>3
<1>2. h = Unfolded(f, T, h)
  <2>1. ASSUME NEW s \in SUBSET T, s # {}
        PROVE  h[s] = f[First(s)] + h[s \ {First(s)}]
    <3> DEFINE u == s \ {First(s)}
    <3>1. u \in SUBSET T /\ u # T
      BY <2>1, FirstIsIn
    <3>2. h[u] = G(u)
      <4>1. h[u] = IF u = {} THEN 0 ELSE f[First(u)] + G(u \ {First(u)})
        BY <3>1
      <4> HIDE DEF h, u, G
      <4> QED
        BY <1>1, <3>1, <4>1
    <3>3. h[s] = f[First(s)] + G(u)
      BY <2>1
    <3> QED
      BY <3>2, <3>3
  <2>2. \A s \in SUBSET T : h[s] = IF s = {} THEN 0 ELSE f[First(s)] + h[s \ {First(s)}]
    BY <2>1
  <2>3. h = [s \in SUBSET T |-> h[s]]
    OBVIOUS
  <2> HIDE DEF h
  <2>4. [s \in SUBSET T |-> h[s]]
           = [s \in SUBSET T |-> IF s = {} THEN 0 ELSE f[First(s)] + h[s \ {First(s)}]]
    BY <2>2
  <2> QED
    BY <2>3, <2>4 DEF Unfolded
<1>3. Iter(f, T) = Unfolded(f, T, Iter(f, T))
  <2> HIDE DEF h
  <2> QED
    BY <1>2, IterFound
<1>4. ASSUME NEW V \in SUBSET T PROVE Iter(f, T)[V] = G(V)
  <2> SUFFICES ASSUME V # T PROVE Iter(f, T)[V] = G(V)
    OBVIOUS
  <2> DEFINE Good == {U \in SUBSET T : U # T => Iter(f, T)[U] = G(U)}
  <2>1. ASSUME NEW U \in SUBSET V, \A W \in SUBSET U : W # U => W \in Good
        PROVE  U \in Good
    <3> DEFINE u == U \ {First(U)}
    <3>1. U \in SUBSET T
      OBVIOUS
    <3> SUFFICES ASSUME U # T PROVE Iter(f, T)[U] = G(U)
      BY <3>1
    <3>2. Iter(f, T)[U] = IF U = {} THEN 0 ELSE f[First(U)] + Iter(f, T)[u]
      BY <1>3, <3>1, UnfoldedAt
    <3>3. G(U) = IF U = {} THEN 0 ELSE f[First(U)] + G(u)
      BY <1>1, <3>1
    <3>4. CASE U # {}
      <4>1. u \in SUBSET U /\ u # U /\ u # T
        BY <3>1, <3>4, FirstIsIn
      <4>2. Iter(f, T)[u] = G(u)
        BY <2>1, <4>1
      <4> HIDE DEF u, G, Good
      <4> QED
        BY <3>2, <3>3, <3>4, <4>2
    <3> QED
      BY <3>2, <3>3, <3>4
  <2>2. IsFiniteSet(V)
    BY FS_Subset
  <2>3. V \in Good
    <3> HIDE DEF Good
    <3> QED
      BY <2>1, <2>2, SubsetInduction
  <2> QED
    BY <2>3
<1> QED
  BY <1>3, <1>4 DEF Agrees

LEMMA IterDefined == ASSUME NEW f, NEW S, IsFiniteSet(S) PROVE Agrees(f, S)
<1> DEFINE Good == {U \in SUBSET S : Agrees(f, U)}
<1>1. ASSUME NEW U \in SUBSET S, \A V \in SUBSET U : V # U => V \in Good
      PROVE  U \in Good
  <2>1. IsFiniteSet(U) /\ \A V \in SUBSET U : V # U => Agrees(f, V)
    BY <1>1, FS_Subset
  <2> QED
    BY <2>1, SmallerAgrees
<1>2. S \in Good
  <2> HIDE DEF Good
  <2> QED
    BY <1>1, SubsetInduction
<1> QED
  BY <1>2

\* A sum is what its definition says: the first value and the sum of the others.
THEOREM SumUnfolds ==
    ASSUME NEW f, NEW S, IsFiniteSet(S)
    PROVE  SumFunctionOnSet(f, S) =
             IF S = {} THEN 0 ELSE f[First(S)] + SumFunctionOnSet(f, S \ {First(S)})
<1> DEFINE s == S \ {First(S)}
<1>1. Iter(f, S) = Unfolded(f, S, Iter(f, S)) /\ Iter(f, S)[s] = Iter(f, s)[s]
  BY IterDefined DEF Agrees
<1>2. Iter(f, S)[S] = IF S = {} THEN 0 ELSE f[First(S)] + Iter(f, S)[s]
  BY <1>1, UnfoldedAt
<1> QED
  BY <1>1, <1>2, SumIsIter

-----------------------------------------------------------------------------
(* What follows from it *)

LEMMA SumOfNothing == ASSUME NEW f PROVE SumFunctionOnSet(f, {}) = 0
BY SumUnfolds, FS_EmptySet

LEMMA SumIsNat ==
    ASSUME NEW f, NEW S, IsFiniteSet(S), \A x \in S : f[x] \in Nat
    PROVE  SumFunctionOnSet(f, S) \in Nat
<1> DEFINE Good == {U \in SUBSET S : SumFunctionOnSet(f, U) \in Nat}
<1>1. ASSUME NEW U \in SUBSET S, \A V \in SUBSET U : V # U => V \in Good
      PROVE  U \in Good
  <2>1. CASE U # {}
    <3>1. First(U) \in U /\ IsFiniteSet(U)
      BY <2>1, FirstIsIn, FS_Subset
    <3>2. SumFunctionOnSet(f, U \ {First(U)}) \in Nat
      BY <1>1, <3>1
    <3> QED
      BY <2>1, <3>1, <3>2, SumUnfolds
  <2> QED
    BY <2>1, SumOfNothing
<1>2. S \in Good
  <2> HIDE DEF Good
  <2> QED
    BY <1>1, SubsetInduction
<1> QED
  BY <1>2

\* The sum is the same two functions agree on.
LEMMA SumOfSame ==
    ASSUME NEW f, NEW g, NEW S, IsFiniteSet(S), \A x \in S : f[x] = g[x]
    PROVE  SumFunctionOnSet(f, S) = SumFunctionOnSet(g, S)
<1> DEFINE Good == {U \in SUBSET S : SumFunctionOnSet(f, U) = SumFunctionOnSet(g, U)}
<1>1. ASSUME NEW U \in SUBSET S, \A V \in SUBSET U : V # U => V \in Good
      PROVE  U \in Good
  <2>1. CASE U # {}
    <3>1. First(U) \in U /\ IsFiniteSet(U)
      BY <2>1, FirstIsIn, FS_Subset
    <3>2. SumFunctionOnSet(f, U \ {First(U)}) = SumFunctionOnSet(g, U \ {First(U)})
      BY <1>1, <3>1
    <3> QED
      BY <2>1, <3>1, <3>2, SumUnfolds
  <2> QED
    BY <2>1, SumOfNothing
<1>2. S \in Good
  <2> HIDE DEF Good
  <2> QED
    BY <1>1, SubsetInduction
<1> QED
  BY <1>2

\* Any value may be taken out, not only the first: the order does not matter.
THEOREM SumTakenOut ==
    ASSUME NEW f, NEW S, IsFiniteSet(S), \A x \in S : f[x] \in Nat, NEW x \in S
    PROVE  SumFunctionOnSet(f, S) = f[x] + SumFunctionOnSet(f, S \ {x})
<1> DEFINE Sum(U) == SumFunctionOnSet(f, U)
           Good == {U \in SUBSET S : \A y \in U : Sum(U) = f[y] + Sum(U \ {y})}
<1>1. ASSUME NEW U \in SUBSET S, \A V \in SUBSET U : V # U => V \in Good
      PROVE  U \in Good
  <2> SUFFICES ASSUME NEW y \in U PROVE Sum(U) = f[y] + Sum(U \ {y})
    OBVIOUS
  <2> DEFINE c == First(U)
             rest == (U \ {c}) \ {y}
  <2>1. c \in U /\ IsFiniteSet(U)
    BY FirstIsIn, FS_Subset
  <2>2. Sum(U) = f[c] + Sum(U \ {c})
    BY <2>1, SumUnfolds
  <2>3. CASE y # c
    <3>1. Sum(U \ {c}) = f[y] + Sum(rest)
      BY <1>1, <2>1, <2>3
    <3>2. Sum(U \ {y}) = f[c] + Sum(rest)
      <4>1. rest = (U \ {y}) \ {c}
        OBVIOUS
      <4> HIDE DEF rest
      <4> QED
        BY <1>1, <2>1, <2>3, <4>1
    <3>3. Sum(rest) \in Nat /\ f[c] \in Nat /\ f[y] \in Nat
      <4>1. rest \in SUBSET S
        OBVIOUS
      <4> HIDE DEF rest
      <4> QED
        BY <2>1, <4>1, FS_Subset, SumIsNat
    <3> HIDE DEF c, rest, Sum, Good
    <3> QED
      BY <2>2, <3>1, <3>2, <3>3
  <2> QED
    BY <2>2, <2>3
<1>2. S \in Good
  <2> HIDE DEF Good
  <2> QED
    BY <1>1, SubsetInduction
<1> QED
  BY <1>2

\* One value raised by one.
LEMMA SumRaised ==
    ASSUME NEW f, NEW g, NEW S, IsFiniteSet(S), NEW x \in S, \A y \in S : f[y] \in Nat,
           \A y \in S : g[y] = IF y = x THEN f[y] + 1 ELSE f[y]
    PROVE  SumFunctionOnSet(g, S) = SumFunctionOnSet(f, S) + 1
<1> DEFINE rest == S \ {x}
<1>1. IsFiniteSet(rest)
  BY FS_Subset
<1>2. \A y \in S : g[y] \in Nat
  OBVIOUS
<1>3. SumFunctionOnSet(f, S) = f[x] + SumFunctionOnSet(f, rest)
  BY SumTakenOut
<1>4. SumFunctionOnSet(g, S) = g[x] + SumFunctionOnSet(g, rest)
  BY <1>2, SumTakenOut
<1>5. (\A y \in rest : f[y] = g[y]) /\ (\A y \in rest : f[y] \in Nat)
  OBVIOUS
<1> HIDE DEF rest
<1>6. SumFunctionOnSet(f, rest) = SumFunctionOnSet(g, rest)
  BY <1>1, <1>5, SumOfSame
<1>7. SumFunctionOnSet(f, rest) \in Nat
  BY <1>1, <1>5, SumIsNat
<1>8. g[x] = f[x] + 1 /\ f[x] \in Nat
  OBVIOUS
<1> QED
  BY <1>3, <1>4, <1>6, <1>7, <1>8

\* Another value at x, or a value at x that was not summed before.
LEMMA SumChangedAt ==
    ASSUME NEW f, NEW g, NEW S, NEW U, NEW x \in U, IsFiniteSet(S), U \ {x} = S \ {x},
           \A y \in S : f[y] \in Nat, \A y \in U : g[y] \in Nat,
           \A y \in S \ {x} : g[y] = f[y]
    PROVE  SumFunctionOnSet(g, U)
             = SumFunctionOnSet(f, S) + g[x] - (IF x \in S THEN f[x] ELSE 0)
<1> DEFINE rest == S \ {x}
           old == IF x \in S THEN f[x] ELSE 0
<1>1. IsFiniteSet(rest) /\ IsFiniteSet(U)
  <2>1. IsFiniteSet(rest)
    BY FS_Subset
  <2>2. U = rest \cup {x}
    OBVIOUS
  <2> HIDE DEF rest
  <2> QED
    BY <2>1, <2>2, FS_AddElement
<1>2. SumFunctionOnSet(g, U) = g[x] + SumFunctionOnSet(g, U \ {x})
  BY <1>1, SumTakenOut
<1>3. SumFunctionOnSet(f, S) = old + SumFunctionOnSet(f, rest)
  <2>1. CASE x \in S
    BY <2>1, SumTakenOut
  <2>2. CASE x \notin S
    <3>1. SumFunctionOnSet(f, S) \in Nat
      BY SumIsNat
    <3>2. rest = S /\ old = 0
      BY <2>2
    <3> HIDE DEF rest, old
    <3> QED
      BY <3>1, <3>2
  <2> QED
    BY <2>1, <2>2
<1>4. (\A y \in rest : g[y] = f[y]) /\ (\A y \in rest : f[y] \in Nat) /\ U \ {x} = rest
  OBVIOUS
<1>5. g[x] \in Nat /\ old \in Nat
  OBVIOUS
<1> HIDE DEF rest, old
<1>6. SumFunctionOnSet(g, rest) = SumFunctionOnSet(f, rest)
  BY <1>1, <1>4, SumOfSame
<1>7. SumFunctionOnSet(f, rest) \in Nat
  BY <1>1, <1>4, SumIsNat
<1>8. SumFunctionOnSet(g, U) = SumFunctionOnSet(f, S) + g[x] - old
  BY <1>2, <1>3, <1>4, <1>5, <1>6, <1>7
<1> QED
  BY <1>8 DEF old

\* No value is larger: the sum is not.
LEMMA SumOfNoMore ==
    ASSUME NEW f, NEW g, NEW S, IsFiniteSet(S),
           \A x \in S : f[x] \in Nat /\ g[x] \in Nat /\ g[x] <= f[x]
    PROVE  SumFunctionOnSet(g, S) <= SumFunctionOnSet(f, S)
<1> DEFINE SumF(U) == SumFunctionOnSet(f, U)
           SumG(U) == SumFunctionOnSet(g, U)
           Good == {U \in SUBSET S : SumG(U) <= SumF(U)}
<1>1. ASSUME NEW U \in SUBSET S, \A V \in SUBSET U : V # U => V \in Good
      PROVE  U \in Good
  <2>1. CASE U # {}
    <3> DEFINE y == First(U)
               rest == U \ {y}
    <3>1. y \in U /\ IsFiniteSet(U)
      BY <2>1, FirstIsIn, FS_Subset
    <3>2. SumF(U) = f[y] + SumF(rest) /\ SumG(U) = g[y] + SumG(rest)
      BY <2>1, <3>1, SumUnfolds
    <3>3. SumG(rest) <= SumF(rest)
      BY <1>1, <3>1
    <3>4. SumF(rest) \in Nat /\ SumG(rest) \in Nat
      <4>1. IsFiniteSet(rest) /\ \A x \in rest : f[x] \in Nat /\ g[x] \in Nat
        BY <3>1, FS_Subset
      <4> HIDE DEF rest
      <4> QED
        BY <4>1, SumIsNat
    <3>5. f[y] \in Nat /\ g[y] \in Nat /\ g[y] <= f[y]
      BY <3>1
    <3> HIDE DEF y, rest, SumF, SumG
    <3> QED
      BY <3>2, <3>3, <3>4, <3>5
  <2>2. CASE U = {}
    BY <2>2, SumOfNothing
  <2> QED
    BY <2>1, <2>2
<1>2. S \in Good
  <2> HIDE DEF Good
  <2> QED
    BY <1>1, SubsetInduction
<1> QED
  BY <1>2

LEMMA SumOfZeros ==
    ASSUME NEW f, NEW S, IsFiniteSet(S), \A x \in S : f[x] = 0
    PROVE  SumFunctionOnSet(f, S) = 0
<1> DEFINE Good == {U \in SUBSET S : SumFunctionOnSet(f, U) = 0}
<1>1. ASSUME NEW U \in SUBSET S, \A V \in SUBSET U : V # U => V \in Good
      PROVE  U \in Good
  <2>1. CASE U # {}
    <3>1. First(U) \in U /\ IsFiniteSet(U)
      BY <2>1, FirstIsIn, FS_Subset
    <3>2. SumFunctionOnSet(f, U \ {First(U)}) = 0
      BY <1>1, <3>1
    <3> QED
      BY <2>1, <3>1, <3>2, SumUnfolds
  <2> QED
    BY <2>1, SumOfNothing
<1>2. S \in Good
  <2> HIDE DEF Good
  <2> QED
    BY <1>1, SubsetInduction
<1> QED
  BY <1>2

\* The sum over 0..n, its last value taken out.
LEMMA SumUpTo ==
    ASSUME NEW f, NEW n \in Nat, \A a \in 0..n : f[a] \in Nat
    PROVE  SumFunctionOnSet(f, 0..n) = f[n] + SumFunctionOnSet(f, 0..(n - 1))
<1> DEFINE S == 0..n
           T == 0..(n - 1)
           last == n
<1>1. IsFiniteSet(S)
  BY FS_Interval
<1>2. last \in S /\ S \ {last} = T
  OBVIOUS
<1>3. \A a \in S : f[a] \in Nat
  OBVIOUS
<1> HIDE DEF S, T, last
<1>4. SumFunctionOnSet(f, S) = f[last] + SumFunctionOnSet(f, S \ {last})
  BY <1>1, <1>2, <1>3, SumTakenOut
<1> QED
  BY <1>2, <1>4 DEF S, T, last

\* Values moved one place up, the last of them dropped: the sum does not grow.
THEOREM SumShifted ==
    ASSUME NEW f, NEW g, NEW n \in Nat, \A a \in 0..n : f[a] \in Nat,
           g[0] = 0, \A a \in 1..n : g[a] = f[a - 1]
    PROVE  SumFunctionOnSet(g, 0..n) <= SumFunctionOnSet(f, 0..n)
<1> DEFINE SumF(m) == SumFunctionOnSet(f, 0..m)
           SumG(m) == SumFunctionOnSet(g, 0..m)
           Good == {m \in 0..n : SumG(m) = SumF(m - 1)}
<1>1. ASSUME NEW m \in 0..n
      PROVE  SumF(m) = f[m] + SumF(m - 1) /\ SumG(m) = g[m] + SumG(m - 1)
  <2>1. m \in Nat /\ \A a \in 0..m : f[a] \in Nat /\ g[a] \in Nat
    <3>1. \A a \in 0..m : f[a] \in Nat
      OBVIOUS
    <3>2. ASSUME NEW a \in 0..m, a # 0 PROVE g[a] \in Nat
      <4>1. a \in 1..n /\ a - 1 \in 0..n
        BY <3>2
      <4> QED
        BY <4>1
    <3> QED
      BY <3>1, <3>2
  <2> QED
    BY <2>1, SumUpTo
<1>2. 0 \in Good
  <2>1. 0..(0 - 1) = {} /\ 0 \in 0..n
    OBVIOUS
  <2>2. SumG(0) = g[0] + SumG(0 - 1)
    BY <1>1, <2>1
  <2>3. SumG(0 - 1) = 0 /\ SumF(0 - 1) = 0
    BY <2>1, SumOfNothing
  <2> QED
    BY <2>1, <2>2, <2>3
<1>3. ASSUME NEW m \in 1..n, m - 1 \in Good PROVE m \in Good
  <2>1. m \in 0..n /\ m - 1 \in 0..n /\ g[m] = f[m - 1]
    OBVIOUS
  <2>2. SumG(m) = g[m] + SumG(m - 1) /\ SumF(m - 1) = f[m - 1] + SumF((m - 1) - 1)
    BY <1>1, <2>1
  <2>3. SumG(m - 1) = SumF((m - 1) - 1)
    BY <1>3
  <2> HIDE DEF SumF, SumG
  <2> QED
    BY <2>1, <2>2, <2>3
<1>4. n \in Good
  <2> HIDE DEF Good
  <2> QED
    BY <1>2, <1>3, UpwardInduction
<1>5. SumF(n) = f[n] + SumF(n - 1)
  BY <1>1
<1>6. SumF(n - 1) \in Nat /\ f[n] \in Nat
  <2>1. \A a \in 0..(n - 1) : f[a] \in Nat
    OBVIOUS
  <2>2. IsFiniteSet(0..(n - 1))
    BY FS_Interval
  <2> QED
    BY <2>1, <2>2, SumIsNat
<1> QED
  BY <1>4, <1>5, <1>6

-----------------------------------------------------------------------------
(* Counting *)

\* A bound on a number and the members of S that are about to raise it holds on: the
\* members only become fewer, or one of them has raised it, or there was nothing yet.
THEOREM BoundKept ==
    ASSUME NEW S, IsFiniteSet(S), NEW n \in Nat, NEW m \in Nat, NEW P, NEW Q,
           P \subseteq S, Q \subseteq S, n + Cardinality(P) <= Cardinality(S),
           \/ m <= n /\ Q \subseteq P
           \/ m = n + 1 /\ \E w \in P : Q \subseteq P \ {w}
           \/ m = 0
    PROVE  m + Cardinality(Q) <= Cardinality(S)
<1>1. /\ IsFiniteSet(P) /\ IsFiniteSet(Q)
      /\ Cardinality(P) \in Nat /\ Cardinality(Q) \in Nat /\ Cardinality(S) \in Nat
      /\ Cardinality(Q) <= Cardinality(S)
  BY FS_Subset, FS_CardinalityType
<1>2. CASE m <= n /\ Q \subseteq P
  <2>1. Cardinality(Q) <= Cardinality(P)
    BY <1>1, <1>2, FS_Subset
  <2> QED
    BY <1>1, <1>2, <2>1
<1>3. CASE m = n + 1 /\ \E w \in P : Q \subseteq P \ {w}
  <2>1. PICK w \in P : Q \subseteq P \ {w}
    BY <1>3
  <2>2. IsFiniteSet(P \ {w}) /\ Cardinality(P \ {w}) = Cardinality(P) - 1
    BY <1>1, FS_RemoveElement
  <2>3. Cardinality(Q) <= Cardinality(P \ {w})
    BY <2>1, <2>2, FS_Subset
  <2> QED
    BY <1>1, <1>3, <2>2, <2>3
<1> QED
  BY <1>1, <1>2, <1>3
=============================================================================

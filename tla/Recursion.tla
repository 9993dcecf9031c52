----------------------------- MODULE Recursion -----------------------------
(***************************************************************************)
(* Induction over the natural numbers and recursive functions, for sets    *)
(* and functions instead of operators: the library states them for an      *)
(* operator P(_) or Def(_, _), which no installed prover can instantiate.  *)
(*                                                                         *)
(* A recursive definition f[i \in D] == e chooses a function that is a     *)
(* solution of its equation.  RecursionTheorem says that there is one, and *)
(* only one, if f is called once, on an argument of lower rank.            *)
(***************************************************************************)
EXTENDS Integers, WellFoundedInduction, TLAPS

\* Every nonempty set of natural numbers has a least one.
LEMMA LeastNumber ==
  ASSUME NEW T, T \subseteq Nat, T # {}
  PROVE  \E n \in T : \A m \in T : n <= m
<1> DEFINE R == OpToRel(<, Nat)
<1>1. IsWellFoundedOn(R, Nat)
  BY NatLessThanWellFounded
<1>2. \A m, n \in Nat : m < n => <<m, n>> \in R
  BY DEF OpToRel
<1> HIDE DEF R
<1>3. PICK n \in T : \A m \in T : ~ (<<m, n>> \in R)
  BY <1>1, WFMin
<1>4. ASSUME NEW m \in T PROVE n <= m
  <2>1. m \in Nat /\ n \in Nat
    OBVIOUS
  <2>2. ~ (<<m, n>> \in R)
    BY <1>3
  <2>3. ~ (m < n)
    BY <1>2, <2>1, <2>2
  <2> QED BY <2>1, <2>3
<1> QED BY <1>4

\* A set that holds 0, and n + 1 with every n, holds every number.
LEMMA SetInduction ==
  ASSUME NEW S, 0 \in S, \A n \in Nat : n \in S => n + 1 \in S
  PROVE  Nat \subseteq S
<1> DEFINE T == Nat \ S
<1> SUFFICES ASSUME T # {} PROVE FALSE
  OBVIOUS
<1>1. PICK n \in T : \A m \in T : n <= m
  BY LeastNumber
<1>2. n # 0 /\ n - 1 \in Nat /\ n - 1 \notin T
  BY <1>1
<1> QED BY <1>1, <1>2

-----------------------------------------------------------------------------
\* The right-hand side of a recursion that stops on last, and elsewhere makes
\* of the value at next[i] the value at i.
Unfold(f, i, last, base, next, step) ==
  IF i \in last THEN base[i] ELSE step[i][f[next[i]]]

\* The recursion on D with values in V is well founded.
WellFounded(D, V, last, base, next, step, rank, bound) ==
  /\ base \in [D -> V] /\ step \in [D -> [V -> V]]
  /\ bound \in Nat /\ rank \in [D -> 0..bound]
  /\ \A i \in D \ last : next[i] \in D /\ rank[next[i]] < rank[i]

\* f is a solution of the recursion.
Solves(f, D, last, base, next, step) ==
  \A i \in D : f[i] = Unfold(f, i, last, base, next, step)

\* Whatever unfolds like a solution, as far as its values are in V, is f.
IsOnlySolution(f, D, V, last, base, next, step) ==
  \A g : (\A i \in D : (i \notin last => g[next[i]] \in V)
                      => g[i] = Unfold(g, i, last, base, next, step))
        => \A i \in D : g[i] = f[i]

\* A well-founded recursion has a solution.
LEMMA SolutionExists ==
  ASSUME NEW D, NEW V, NEW last, NEW base, NEW next, NEW step, NEW rank, NEW bound,
         WellFounded(D, V, last, base, next, step, rank, bound)
  PROVE  \E f \in [D -> V] : \A i \in D : f[i] = Unfold(f, i, last, base, next, step)
<1> DEFINE Good(f, k) == \A i \in D : rank[i] < k => f[i] = Unfold(f, i, last, base, next, step)
           S == {k \in Nat : \E f \in [D -> V] : Good(f, k)}
<1>1. /\ base \in [D -> V] /\ step \in [D -> [V -> V]]
      /\ bound \in Nat /\ rank \in [D -> 0..bound]
      /\ \A i \in D \ last : next[i] \in D /\ rank[next[i]] < rank[i]
  BY DEF WellFounded
<1>2. 0 \in S
  <2>1. Good(base, 0)
    BY <1>1
  <2> QED BY <1>1, <2>1
<1>3. ASSUME NEW k \in Nat, k \in S PROVE k + 1 \in S
  <2>1. PICK f \in [D -> V] : Good(f, k)
    BY <1>3
  <2> DEFINE g == [i \in D |-> Unfold(f, i, last, base, next, step)]
  <2>2. g \in [D -> V]
    BY <1>1 DEF Unfold
  <2>3. ASSUME NEW i \in D, rank[i] < k + 1
        PROVE  g[i] = Unfold(g, i, last, base, next, step)
    <3>1. CASE i \in last
      BY <3>1 DEF Unfold
    <3>2. CASE i \notin last
      <4>1. next[i] \in D /\ rank[next[i]] < k
        BY <1>1, <2>3, <3>2
      <4>2. g[next[i]] = f[next[i]]
        BY <2>1, <4>1
      <4> QED BY <3>2, <4>2 DEF Unfold
    <3> QED BY <3>1, <3>2
  <2>4. Good(g, k + 1)
    BY <2>3
  <2>5. k + 1 \in Nat
    OBVIOUS
  <2> HIDE DEF g, Good
  <2> QED BY <2>2, <2>4, <2>5
<1>4. Nat \subseteq S
  <2> HIDE DEF S
  <2> QED BY <1>2, <1>3, SetInduction
<1>5. PICK f \in [D -> V] : Good(f, bound + 1)
  <2>1. bound + 1 \in S
    BY <1>1, <1>4
  <2> QED BY <2>1
<1>6. \A i \in D : f[i] = Unfold(f, i, last, base, next, step)
  BY <1>1, <1>5
<1> QED BY <1>6

\* A well-founded recursion has no second solution.
LEMMA SolutionIsUnique ==
  ASSUME NEW D, NEW V, NEW last, NEW base, NEW next, NEW step, NEW rank, NEW bound,
         WellFounded(D, V, last, base, next, step, rank, bound),
         NEW f \in [D -> V], \A i \in D : f[i] = Unfold(f, i, last, base, next, step),
         NEW g, \A i \in D : (i \notin last => g[next[i]] \in V)
                             => g[i] = Unfold(g, i, last, base, next, step)
  PROVE  \A i \in D : g[i] = f[i]
<1> DEFINE S == {k \in Nat : \A i \in D : rank[i] < k => g[i] = f[i]}
<1>1. /\ bound \in Nat /\ rank \in [D -> 0..bound]
      /\ \A i \in D \ last : next[i] \in D /\ rank[next[i]] < rank[i]
  BY DEF WellFounded
<1>2. 0 \in S
  BY <1>1
<1>3. ASSUME NEW k \in Nat, k \in S PROVE k + 1 \in S
  <2>1. ASSUME NEW i \in D, rank[i] < k + 1 PROVE g[i] = f[i]
    <3>1. CASE i \in last
      BY <3>1 DEF Unfold
    <3>2. CASE i \notin last
      <4>1. next[i] \in D /\ rank[next[i]] < k
        BY <1>1, <2>1, <3>2
      <4>2. g[next[i]] = f[next[i]] /\ f[next[i]] \in V
        BY <1>3, <4>1
      <4> QED BY <3>2, <4>2 DEF Unfold
    <3> QED BY <3>1, <3>2
  <2> QED BY <2>1
<1>4. Nat \subseteq S
  <2> HIDE DEF S
  <2> QED BY <1>2, <1>3, SetInduction
<1>5. bound + 1 \in S
  BY <1>1, <1>4
<1> QED BY <1>1, <1>5

\* The two lemmas in one.
LEMMA RecursionTheorem ==
  ASSUME NEW D, NEW V, NEW last, NEW base, NEW next, NEW step, NEW rank, NEW bound,
         WellFounded(D, V, last, base, next, step, rank, bound)
  PROVE  \E f \in [D -> V] : /\ Solves(f, D, last, base, next, step)
                            /\ IsOnlySolution(f, D, V, last, base, next, step)
<1>1. PICK f \in [D -> V] : \A i \in D : f[i] = Unfold(f, i, last, base, next, step)
  BY SolutionExists
<1>2. ASSUME NEW g, \A i \in D : (i \notin last => g[next[i]] \in V)
                                 => g[i] = Unfold(g, i, last, base, next, step)
      PROVE  \A i \in D : g[i] = f[i]
  BY <1>1, <1>2, SolutionIsUnique
<1> QED BY <1>1, <1>2 DEF Solves, IsOnlySolution

\* f is a sequence of values, each made of the one before it.
Iterates(f, n, first, step) ==
  f[0] = first /\ \A i \in 1..n : f[i] = step[i][f[i - 1]]

\* Whatever iterates alike, as far as its values are in V, is f.
IsOnlyIteration(f, V, n, first, step) ==
  \A g : (g[0] = first /\ \A i \in 1..n : g[i - 1] \in V => g[i] = step[i][g[i - 1]])
        => \A i \in 0..n : g[i] = f[i]

\* Primitive recursion up to n.
LEMMA PrimitiveRecursion ==
  ASSUME NEW V, NEW n \in Nat, NEW first \in V, NEW step \in [1..n -> [V -> V]]
  PROVE  \E f \in [0..n -> V] : Iterates(f, n, first, step) /\ IsOnlyIteration(f, V, n, first, step)
<1> DEFINE D == 0..n
           last == {0}
           base == [i \in D |-> first]
           next == [i \in D |-> i - 1]
           all == [i \in D |-> IF i = 0 THEN [v \in V |-> v] ELSE step[i]]
           rank == [i \in D |-> i]
<1>1. WellFounded(D, V, last, base, next, all, rank, n)
  BY DEF WellFounded
<1>2. \A f, i : i \in 1..n => i \in D /\ i \notin last /\ Unfold(f, i, last, base, next, all) = step[i][f[i - 1]]
  BY DEF Unfold
<1>3. \A f : 0 \in D /\ Unfold(f, 0, last, base, next, all) = first
  BY DEF Unfold
<1>4. \A i \in D : i = 0 \/ i \in 1..n
  OBVIOUS
<1>5. (\A i \in 1..n : next[i] = i - 1) /\ \A i : i \notin last <=> i # 0
  OBVIOUS
<1> HIDE DEF last, base, next, all, rank
<1>6. PICK f \in [D -> V] : /\ Solves(f, D, last, base, next, all)
                            /\ IsOnlySolution(f, D, V, last, base, next, all)
  <2> HIDE DEF D
  <2> QED BY <1>1, RecursionTheorem
<1>7. Iterates(f, n, first, step)
  BY <1>2, <1>3, <1>6 DEF Solves, Iterates
<1>8. ASSUME NEW g, g[0] = first, \A i \in 1..n : g[i - 1] \in V => g[i] = step[i][g[i - 1]]
      PROVE  \A i \in D : g[i] = f[i]
  <2>1. \A i \in D : (i \notin last => g[next[i]] \in V)
                      => g[i] = Unfold(g, i, last, base, next, all)
    BY <1>2, <1>3, <1>4, <1>5, <1>8
  <2> HIDE DEF D
  <2> QED BY <1>6, <2>1 DEF IsOnlySolution
<1>9. IsOnlyIteration(f, V, n, first, step)
  BY <1>8 DEF IsOnlyIteration
<1> QED BY <1>6, <1>7, <1>9
=============================================================================

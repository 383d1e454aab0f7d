----------------------------- MODULE FoldProofs -----------------------------
(***************************************************************************)
(* Induction in first-order form (least numbers, minimal subsets), and what*)
(* the folds of the community modules need from it: a recursion over the   *)
(* subsets of a finite set that removes one chosen element at a time has a *)
(* solution.                                                               *)
(* Operators are given as functions, so that the lemmas can be used.       *)
(***************************************************************************)
EXTENDS Naturals, FiniteSets, FiniteSetsExt, FiniteSetTheorems, TLAPS

(* A nonempty set of naturals has a least element, and Min finds it.       *)
LEMMA MinOfNats ==
  ASSUME NEW S \in SUBSET Nat, S # {}
  PROVE  /\ Min(S) \in S
         /\ \A y \in S : Min(S) <= y
<1> DEFINE R == OpToRel(<, Nat)
<1>1. IsWellFoundedOn(R, Nat)
  BY NatLessThanWellFounded
<1>2. \E x \in S : \A y \in S : ~ (<<y, x>> \in R)
  <2> HIDE DEF R
  <2> QED BY <1>1, WFMin
<1>3. PICK x \in S : \A y \in S : ~ (<<y, x>> \in R)
  BY <1>2
<1>4. \A y \in S : x <= y
  <2> SUFFICES ASSUME NEW y \in S PROVE x <= y
    OBVIOUS
  <2>1. x \in Nat /\ y \in Nat
    OBVIOUS
  <2>2. ~ (<<y, x>> \in OpToRel(<, Nat))
    BY <1>3
  <2>3. ~ (y < x)
    BY <2>1, <2>2 DEF OpToRel
  <2> QED BY <2>1, <2>3
<1>5. \E z \in S : \A y \in S : z <= y
  BY <1>4
<1> QED BY <1>5 DEF Min

(* A nonempty collection of subsets of a finite set has a minimal member.  *)
LEMMA MinimalSubset ==
  ASSUME NEW S, IsFiniteSet(S), NEW Bad \in SUBSET SUBSET S, Bad # {}
  PROVE  \E s \in Bad : \A t \in Bad : t \subseteq s => t = s
<1> DEFINE R == StrictSubsetOrdering(S)
<1>1. IsWellFoundedOn(R, SUBSET S)
  BY FS_StrictSubsetOrderingWellFounded, FS_FiniteSubsetsOfFinite
<1>2. \E s \in Bad : \A t \in Bad : ~ (<<t, s>> \in R)
  <2> HIDE DEF R
  <2> QED  BY <1>1, WFMin
<1>3. PICK s \in Bad : \A t \in Bad : ~ (<<t, s>> \in R)
  BY <1>2
<1>4. \A t \in Bad : t \subseteq s => t = s
  BY <1>3 DEF StrictSubsetOrdering
<1> QED  BY <1>4

(* g solves the recursion on the subsets of T.                             *)
Solves(g, T, V, b, ch, op) ==
  /\ g \in [SUBSET T -> V]
  /\ \A s \in SUBSET T :
       g[s] = IF s = {} THEN b ELSE op[ch[s]][g[s \ {ch[s]}]]

(* Two solutions agree where both are defined.                             *)
LEMMA SolutionsAgree ==
  ASSUME NEW S, IsFiniteSet(S), NEW V, NEW b, NEW ch, NEW op,
         \A s \in SUBSET S : s # {} => ch[s] \in s,
         NEW T \in SUBSET S, NEW U \in SUBSET S, NEW g, NEW h,
         Solves(g, T, V, b, ch, op), Solves(h, U, V, b, ch, op)
  PROVE  \A s \in SUBSET S : s \subseteq T /\ s \subseteq U => g[s] = h[s]
<1> DEFINE Bad == {s \in SUBSET S : s \subseteq T /\ s \subseteq U /\ g[s] # h[s]}
<1> SUFFICES ASSUME Bad # {} PROVE FALSE
  OBVIOUS
<1>1. PICK s \in Bad : \A t \in Bad : t \subseteq s => t = s
  <2>1. Bad \in SUBSET SUBSET S
    OBVIOUS
  <2> HIDE DEF Bad
  <2> QED  BY <2>1, MinimalSubset
<1>2. s # {}
  BY DEF Solves
<1>3. ch[s] \in s /\ s \ {ch[s]} \notin Bad
  BY <1>1, <1>2
<1>4. g[s \ {ch[s]}] = h[s \ {ch[s]}]
  BY <1>3
<1> QED  BY <1>2, <1>4 DEF Solves

(* The recursion has a solution on all subsets of a finite set.            *)
LEMMA SolutionExists ==
  ASSUME NEW S, IsFiniteSet(S), NEW V, NEW b \in V, NEW ch,
         NEW op \in [S -> [V -> V]],
         \A s \in SUBSET S : s # {} => ch[s] \in s
  PROVE  \E g : Solves(g, S, V, b, ch, op)
<1> DEFINE Sol(T, g) == Solves(g, T, V, b, ch, op)
           Bad == {T \in SUBSET S : \A g : ~ Sol(T, g)}
<1> SUFFICES ASSUME Bad # {} PROVE FALSE
  BY S \in SUBSET S
<1>1. PICK T \in Bad : \A t \in Bad : t \subseteq T => t = T
  <2>1. Bad \in SUBSET SUBSET S
    OBVIOUS
  <2> HIDE DEF Bad
  <2> QED  BY <2>1, MinimalSubset
<1>2. T # {}
  <2> SUFFICES ASSUME T = {} PROVE FALSE
    OBVIOUS
  <2> DEFINE g == [s \in SUBSET T |-> b]
  <2>1. Sol(T, g)
    BY DEF Solves
  <2> QED  BY <1>1, <2>1
<1> DEFINE G(t) == CHOOSE g : Sol(t, g)
           c == ch[T]
           new == [s \in SUBSET T |->
                     IF s = T THEN op[c][G(T \ {c})[T \ {c}]] ELSE G(s)[s]]
<1>3. ASSUME NEW t \in SUBSET T, t # T
      PROVE  Sol(t, G(t))
  <2>1. t \notin Bad /\ t \in SUBSET S
    BY <1>1, <1>3
  <2>2. \E g : Sol(t, g)
    BY <2>1
  <2> QED  BY <2>2
<1>4. c \in T
  BY <1>1, <1>2
<1>5. ASSUME NEW s \in SUBSET T, s # T
      PROVE  /\ new[s] = G(s)[s] /\ new[s] \in V
             /\ s # {} => G(s)[s \ {ch[s]}] = new[s \ {ch[s]}]
  <2>1. new[s] = G(s)[s] /\ Sol(s, G(s))
    BY <1>3, <1>5
  <2>2. G(s)[s] \in V
    BY <2>1 DEF Solves
  <2>3. ASSUME s # {} PROVE G(s)[s \ {ch[s]}] = new[s \ {ch[s]}]
    <3> DEFINE u == s \ {ch[s]}
    <3>1. u \in SUBSET T /\ u # T /\ u \subseteq s /\ u \in SUBSET S /\ s \in SUBSET S
      BY <1>1, <1>5, <2>3
    <3>2. Sol(u, G(u)) /\ new[u] = G(u)[u]
      BY <1>3, <3>1
    <3> HIDE DEF u, G, new
    <3>3. G(s)[u] = G(u)[u]
      BY <2>1, <3>1, <3>2, SolutionsAgree
    <3> QED  BY <3>2, <3>3 DEF u
  <2> QED  BY <2>1, <2>2, <2>3
<1>6. new[T] = op[c][new[T \ {c}]] /\ new[T] \in V
  <2>1. T \ {c} \in SUBSET T /\ T \ {c} # T /\ c \in S
    BY <1>1, <1>4
  <2>2. new[T] = op[c][G(T \ {c})[T \ {c}]]
    OBVIOUS
  <2>3. new[T \ {c}] = G(T \ {c})[T \ {c}] /\ new[T \ {c}] \in V
    BY <1>5, <2>1
  <2>4. op[c] \in [V -> V]
    BY <2>1
  <2> HIDE DEF new, G, c
  <2> QED  BY <2>2, <2>3, <2>4
<1>7. Sol(T, new)
  <2>1. new \in [SUBSET T -> V]
    BY <1>5, <1>6
  <2>2. ASSUME NEW s \in SUBSET T
        PROVE  new[s] = IF s = {} THEN b ELSE op[ch[s]][new[s \ {ch[s]}]]
    <3>1. CASE s = T
      BY <1>2, <1>6, <3>1
    <3>2. CASE s # T
      <4>1. Sol(s, G(s)) /\ s \in SUBSET s
        BY <1>3, <3>2
      <4>2. G(s)[s] = IF s = {} THEN b ELSE op[ch[s]][G(s)[s \ {ch[s]}]]
        BY <4>1 DEF Solves
      <4>3. /\ new[s] = G(s)[s]
            /\ s # {} => G(s)[s \ {ch[s]}] = new[s \ {ch[s]}]
        BY <1>5, <3>2
      <4> HIDE DEF new, G
      <4> QED  BY <4>2, <4>3
    <3> QED  BY <3>1, <3>2
  <2> QED  BY <2>1, <2>2 DEF Solves
<1> QED  BY <1>1, <1>7

-----------------------------------------------------------------------------
(* Sums, added up in the order of FoldSet.                                 *)

PickOne(S) == [s \in SUBSET S |-> CHOOSE u \in s : TRUE]
Adding(f, S) == [u \in S |-> [n \in Nat |-> n + f[u]]]
Sums(g, f, S) == Solves(g, S, Nat, 0, PickOne(S), Adding(f, S))
SumOf(f, S) == (CHOOSE g : Sums(g, f, S))[S]

(* The recursion of a sum, spelled out.                                    *)
AddsUp(g, f, S) ==
  /\ g \in [SUBSET S -> Nat]
  /\ g[{}] = 0
  /\ \A s \in SUBSET S : s # {} =>
       g[s] = g[s \ {CHOOSE u \in s : TRUE}] + f[CHOOSE u \in s : TRUE]

(* That is what a sum solves.                                              *)
LEMMA SumsRecursion ==
  ASSUME NEW S, NEW f \in [S -> Nat], NEW g
  PROVE  Sums(g, f, S) <=> AddsUp(g, f, S)
<1>1. \A s \in SUBSET S : s # {} => (CHOOSE u \in s : TRUE) \in s
  OBVIOUS
<1>2. ASSUME g \in [SUBSET S -> Nat], NEW s \in SUBSET S, s # {}
      PROVE  Adding(f, S)[PickOne(S)[s]][g[s \ {PickOne(S)[s]}]] =
               g[s \ {CHOOSE u \in s : TRUE}] + f[CHOOSE u \in s : TRUE]
  <2> DEFINE u == CHOOSE u \in s : TRUE
  <2>1. PickOne(S)[s] = u /\ u \in S
    BY <1>1, <1>2 DEF PickOne
  <2>2. g[s \ {u}] \in Nat
    BY <1>2
  <2> HIDE DEF u
  <2>3. Adding(f, S)[u][g[s \ {u}]] = g[s \ {u}] + f[u]
    BY <2>1, <2>2 DEF Adding
  <2> QED  BY <2>1, <2>3 DEF u
<1> QED  BY <1>2, Zenon DEF Sums, Solves, AddsUp

(* There is exactly one sum, and it is SumOf.                              *)
LEMMA SumExists ==
  ASSUME NEW S, IsFiniteSet(S), NEW f \in [S -> Nat]
  PROVE  /\ \E g : Sums(g, f, S)
         /\ \A g : Sums(g, f, S) => g[S] = SumOf(f, S)
<1>1. \A s \in SUBSET S : s # {} => PickOne(S)[s] \in s
  BY DEF PickOne
<1>2. Adding(f, S) \in [S -> [Nat -> Nat]]
  BY DEF Adding
<1>3. \E g : Sums(g, f, S)
  BY <1>1, <1>2, SolutionExists DEF Sums
<1>4. Sums(CHOOSE g : Sums(g, f, S), f, S)
  BY <1>3
<1>5. ASSUME NEW g, Sums(g, f, S)
      PROVE  g[S] = SumOf(f, S)
  <2> DEFINE h == CHOOSE h : Sums(h, f, S)
  <2>1. Sums(h, f, S)
    BY <1>4
  <2> HIDE DEF h
  <2>2. g[S] = h[S]
    BY <1>1, <1>5, <2>1, SolutionsAgree DEF Sums
  <2> QED  BY <2>2 DEF SumOf, h
<1> QED  BY <1>3, <1>5

(* A sum is a natural number, 0 exactly if all it adds up is.              *)
LEMMA SumPositive ==
  ASSUME NEW S, IsFiniteSet(S), NEW f \in [S -> Nat]
  PROVE  /\ SumOf(f, S) \in Nat
         /\ SumOf(f, S) > 0 <=> \E u \in S : f[u] > 0
<1>1. PICK g : Sums(g, f, S)
  BY SumExists
<1>2. AddsUp(g, f, S)
  BY <1>1, SumsRecursion
<1> USE DEF AddsUp
<1> DEFINE Bad == {s \in SUBSET S : ~ (g[s] > 0 <=> \E u \in s : f[u] > 0)}
<1>3. Bad = {}
  <2> SUFFICES ASSUME Bad # {} PROVE FALSE
    OBVIOUS
  <2>1. PICK s \in Bad : \A t \in Bad : t \subseteq s => t = s
    <3>1. Bad \in SUBSET SUBSET S
      OBVIOUS
    <3> HIDE DEF Bad
    <3> QED  BY <3>1, MinimalSubset
  <2>2. s # {} /\ s \in SUBSET S /\ ~ (g[s] > 0 <=> \E v \in s : f[v] > 0)
    <3>1. s \in SUBSET S /\ ~ (g[s] > 0 <=> \E v \in s : f[v] > 0)
      OBVIOUS
    <3>2. g[{}] = 0
      BY <1>2
    <3> HIDE DEF Bad, AddsUp
    <3> QED  BY <3>1, <3>2
  <2> DEFINE u == CHOOSE u \in s : TRUE
  <2>3. u \in s /\ g[s] = g[s \ {u}] + f[u]
    BY <1>2, <2>2
  <2> HIDE DEF u
  <2>4. s \ {u} \in SUBSET S /\ s \ {u} \notin Bad
    BY <2>1, <2>2, <2>3
  <2>5. g[s \ {u}] \in Nat /\ f[u] \in Nat
    BY <1>2, <2>2, <2>3, <2>4
  <2>6. g[s \ {u}] > 0 <=> \E v \in s \ {u} : f[v] > 0
    BY <2>4
  <2> QED  BY <2>2, <2>3, <2>5, <2>6
<1>4. g[S] = SumOf(f, S)
  BY <1>1, SumExists
<1>5. S \notin Bad /\ S \in SUBSET S
  BY <1>3
<1> QED  BY <1>2, <1>4, <1>5

(* Changing one summand changes the sum by as much.                        *)
LEMMA SumUpdate ==
  ASSUME NEW S, IsFiniteSet(S), NEW f \in [S -> Nat], NEW c \in S, NEW n \in Nat
  PROVE  SumOf([f EXCEPT ![c] = n], S) + f[c] = SumOf(f, S) + n
<1> DEFINE e == [f EXCEPT ![c] = n]
<1>1. e \in [S -> Nat] /\ e[c] = n /\ \A u \in S \ {c} : e[u] = f[u]
  OBVIOUS
<1> HIDE DEF e
<1>2. PICK g : Sums(g, f, S)
  BY SumExists
<1>3. PICK h : Sums(h, e, S)
  BY <1>1, SumExists
<1>4. AddsUp(g, f, S)
  BY <1>2, SumsRecursion
<1>5. AddsUp(h, e, S)
  BY <1>1, <1>3, SumsRecursion
<1> USE DEF AddsUp
<1> DEFINE Right(s) == IF c \in s THEN h[s] + f[c] = g[s] + n ELSE h[s] = g[s]
           Bad == {s \in SUBSET S : ~ Right(s)}
<1>6. Bad = {}
  <2> SUFFICES ASSUME Bad # {} PROVE FALSE
    OBVIOUS
  <2>1. PICK s \in Bad : \A t \in Bad : t \subseteq s => t = s
    <3>1. Bad \in SUBSET SUBSET S
      OBVIOUS
    <3> HIDE DEF Bad
    <3> QED  BY <3>1, MinimalSubset
  <2>2. s # {} /\ s \in SUBSET S /\ ~ Right(s)
    BY <1>4, <1>5
  <2> DEFINE u == CHOOSE u \in s : TRUE
  <2>3. u \in s /\ g[s] = g[s \ {u}] + f[u] /\ h[s] = h[s \ {u}] + e[u]
    BY <1>4, <1>5, <2>2
  <2> HIDE DEF u
  <2>4. s \ {u} \in SUBSET S /\ Right(s \ {u})
    BY <2>1, <2>2, <2>3
  <2>5. /\ g[s \ {u}] \in Nat /\ h[s \ {u}] \in Nat
        /\ f[u] \in Nat /\ e[u] \in Nat /\ f[c] \in Nat
    BY <1>1, <1>4, <1>5, <2>2, <2>3, <2>4
  <2>6. CASE u = c
    BY <1>1, <2>2, <2>3, <2>4, <2>5, <2>6
  <2>7. CASE u # c
    BY <1>1, <2>2, <2>3, <2>4, <2>5, <2>7
  <2> QED  BY <2>6, <2>7
<1>7. Right(S)
  BY <1>6, S \in SUBSET S
<1>8. g[S] = SumOf(f, S) /\ h[S] = SumOf(e, S)
  BY <1>1, <1>2, <1>3, SumExists
<1> QED  BY <1>7, <1>8 DEF e

(* Larger summands, larger sum.                                            *)
LEMMA SumMonotone ==
  ASSUME NEW S, IsFiniteSet(S), NEW f \in [S -> Nat], NEW e \in [S -> Nat],
         \A u \in S : f[u] <= e[u]
  PROVE  SumOf(f, S) <= SumOf(e, S)
<1>1. PICK g : Sums(g, f, S)
  BY SumExists
<1>2. PICK h : Sums(h, e, S)
  BY SumExists
<1>3. AddsUp(g, f, S)
  BY <1>1, SumsRecursion
<1>4. AddsUp(h, e, S)
  BY <1>2, SumsRecursion
<1> USE DEF AddsUp
<1> DEFINE Bad == {s \in SUBSET S : ~ (g[s] <= h[s])}
<1>5. Bad = {}
  <2> SUFFICES ASSUME Bad # {} PROVE FALSE
    OBVIOUS
  <2>1. PICK s \in Bad : \A t \in Bad : t \subseteq s => t = s
    <3>1. Bad \in SUBSET SUBSET S
      OBVIOUS
    <3> HIDE DEF Bad
    <3> QED  BY <3>1, MinimalSubset
  <2>2. s # {} /\ s \in SUBSET S /\ ~ (g[s] <= h[s])
    <3>1. s \in SUBSET S /\ ~ (g[s] <= h[s])
      OBVIOUS
    <3>2. g[{}] = 0 /\ h[{}] = 0
      BY <1>3, <1>4
    <3> HIDE DEF Bad, AddsUp
    <3>3. ASSUME s = {} PROVE g[s] <= h[s]
      BY <3>2, <3>3
    <3> QED  BY <3>1, <3>3
  <2> DEFINE u == CHOOSE u \in s : TRUE
  <2>3. u \in s /\ g[s] = g[s \ {u}] + f[u] /\ h[s] = h[s \ {u}] + e[u]
    BY <1>3, <1>4, <2>2
  <2> HIDE DEF u
  <2>4. s \ {u} \in SUBSET S /\ g[s \ {u}] <= h[s \ {u}]
    BY <2>1, <2>2, <2>3
  <2>5. /\ g[s \ {u}] \in Nat /\ h[s \ {u}] \in Nat
        /\ f[u] \in Nat /\ e[u] \in Nat /\ f[u] <= e[u]
    BY <1>3, <1>4, <2>2, <2>3, <2>4
  <2> QED  BY <2>2, <2>3, <2>4, <2>5
<1>6. g[S] <= h[S]
  BY <1>5, S \in SUBSET S
<1>7. g[S] = SumOf(f, S) /\ h[S] = SumOf(e, S)
  BY <1>1, <1>2, SumExists
<1> QED  BY <1>6, <1>7

-----------------------------------------------------------------------------
(* Images and counting.                                                    *)

(* The image of a finite set is finite.                                    *)
LEMMA ImageFinite ==
  ASSUME NEW S, IsFiniteSet(S), NEW f
  PROVE  IsFiniteSet({f[x] : x \in S})
<1> DEFINE T == {f[x] : x \in S}
           g == [x \in S |-> f[x]]
<1>1. g \in Surjection(S, T)
  BY DEF Surjection
<1> HIDE DEF T, g
<1>2. IsFiniteSet(T)
  BY <1>1, FS_Surjection
<1> QED  BY <1>2 DEF T

(* A list of n distinct members of T, none of which is x in T, leaves room *)
(* for x: n is less than the size of T.                                    *)
LEMMA RoomForOne ==
  ASSUME NEW T, IsFiniteSet(T), NEW x \in T, NEW n \in Nat,
         NEW g \in [1..n -> T],
         \A i, j \in 1..n : g[i] = g[j] => i = j,
         \A i \in 1..n : g[i] # x
  PROVE  n < Cardinality(T)
<1>1. IsFiniteSet(T \ {x}) /\ Cardinality(T \ {x}) = Cardinality(T) - 1
  BY FS_RemoveElement
<1>2. g \in Injection(1..n, T \ {x})
  BY DEF Injection, IsInjective
<1>3. Cardinality(1..n) <= Cardinality(T \ {x})
  BY <1>1, <1>2, FS_Injection
<1>4. Cardinality(1..n) = n
  BY FS_Interval
<1>5. Cardinality(T) \in Nat
  BY FS_CardinalityType
<1> QED  BY <1>1, <1>3, <1>4, <1>5

=============================================================================

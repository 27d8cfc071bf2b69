----------------------------- MODULE CollectionProofs -----------------------------
(***************************************************************************)
(* Induction and recursion for the proofs, and what they show of sums,     *)
(* folds and lists.                                                        *)
(*                                                                         *)
(* The library's theorems of induction take a predicate or a definition as *)
(* an operator, and the provers at hand cannot choose an operator.  Here a *)
(* predicate is the set of what satisfies it and the step of a recursion   *)
(* is a function, so that they can be cited like any other fact.  Some     *)
(* hypotheses have names only to keep a quantifier in them together.       *)
(***************************************************************************)
EXTENDS Integers, Collections, FiniteSetTheorems, WellFoundedInduction, SequenceTheorems, TLAPS

(* A nonempty set of naturals has a least element.                           *)
LEMMA LeastNatural ==
  ASSUME NEW S \in SUBSET Nat, S # {}
  PROVE  \E m \in S : \A j \in S : m <= j
<1>1. PICK R : R = {p \in Nat \X Nat : p[1] < p[2]}
  OBVIOUS
<1>2. IsWellFoundedOn(R, Nat)
  BY <1>1, NatLessThanWellFounded DEF OpToRel
<1>3. PICK m \in S : \A j \in S : <<j, m>> \notin R
  BY <1>2, WFMin
<1>4. \A j \in S : ~(j < m)
  BY <1>1, <1>3
<1>5. QED
  BY <1>4

(* What holds of zero, and of each natural after one it holds of, holds of   *)
(* every natural.                                                            *)
LEMMA NaturalInduction ==
  ASSUME NEW P, 0 \in P, \A n \in Nat : n \in P => n + 1 \in P
  PROVE  Nat \subseteq P
<1> SUFFICES ASSUME Nat \ P # {} PROVE FALSE
  OBVIOUS
<1>1. PICK m \in Nat \ P : \A j \in Nat \ P : m <= j
  BY LeastNatural
<1>2. m - 1 \in Nat /\ m - 1 \notin Nat \ P
  BY <1>1
<1>3. QED
  BY <1>2

(* What holds of a subset whenever it holds of all smaller ones holds of     *)
(* every subset of a finite set.                                             *)
LEMMA SubsetInduction ==
  ASSUME NEW S, IsFiniteSet(S), NEW P,
         \A T \in SUBSET S : (\A U \in SUBSET T : U # T => U \in P) => T \in P
  PROVE  SUBSET S \subseteq P
<1> SUFFICES ASSUME (SUBSET S) \ P # {} PROVE FALSE
  OBVIOUS
<1>1. IsWellFoundedOn(StrictSubsetOrdering(S), SUBSET S)
  <2>1. FiniteSubsetsOf(S) = SUBSET S
    BY FS_FiniteSubsetsOfFinite
  <2>2. IsWellFoundedOn(StrictSubsetOrdering(S), FiniteSubsetsOf(S))
    BY FS_StrictSubsetOrderingWellFounded
  <2>3. QED
    BY <2>1, <2>2
<1>2. PICK T \in (SUBSET S) \ P : \A U \in (SUBSET S) \ P : <<U, T>> \notin StrictSubsetOrdering(S)
  <2>1. PICK B : B = (SUBSET S) \ P
    OBVIOUS
  <2>2. PICK T \in B : \A U \in B : <<U, T>> \notin StrictSubsetOrdering(S)
    BY <1>1, <2>1, WFMin
  <2>3. QED
    BY <2>1, <2>2
<1>3. \A U \in SUBSET T : U # T => U \in P
  BY <1>2 DEF StrictSubsetOrdering
<1>4. QED
  BY <1>2, <1>3

-----------------------------------------------------------------------------
(* c picks an element of each nonempty subset of S.                          *)
Picks(c, S) == \A T \in SUBSET S : T # {} => c[T] \in T

(* A step takes values of V to values of V.                                  *)
Stays(step, S, V) == \A x \in S, v \in V : step[x][v] \in V

(* g folds the subsets of S: it takes out of each the element that c picks.  *)
Folds(g, S, base, c, step) ==
  \A T \in SUBSET S : g[T] = IF T = {} THEN base ELSE step[c[T]][g[T \ {c[T]}]]

(* The folds of a set and of a subset agree on the subset.                   *)
LEMMA FoldsAgree ==
  ASSUME NEW S, IsFiniteSet(S), NEW base, NEW step, NEW c,
         Picks(c, S),
         NEW g, Folds(g, S, base, c, step),
         NEW R \in SUBSET S, NEW h, Folds(h, R, base, c, step)
  PROVE  \A T \in SUBSET R : g[T] = h[T]
<1> DEFINE P == {T \in SUBSET R : g[T] = h[T]}
<1>1. ASSUME NEW T \in SUBSET R, \A U \in SUBSET T : U # T => U \in P
      PROVE  T \in P
  <2>1. CASE T = {}
    BY <2>1 DEF Folds
  <2>2. CASE T # {}
    <3>1. c[T] \in T /\ T \in SUBSET S
      BY <2>2 DEF Picks
    <3>2. T \ {c[T]} \in SUBSET T /\ T \ {c[T]} # T
      BY <3>1
    <3>3. g[T \ {c[T]}] = h[T \ {c[T]}]
      BY <1>1, <3>2
    <3>4. QED
      BY <2>2, <3>1, <3>3 DEF Folds
  <2>3. QED
    BY <2>1, <2>2
<1>2. IsFiniteSet(R)
  BY FS_Subset
<1>t. \A T \in SUBSET R : (\A U \in SUBSET T : U # T => U \in P) => T \in P
  BY <1>1
<1> HIDE DEF P
<1>3. SUBSET R \subseteq P
  BY <1>t, <1>2, SubsetInduction
<1>4. QED
  BY <1>3 DEF P

(* A finite set can be folded: this is what makes the recursive definition   *)
(* of MapThenFoldSet define something.                                       *)
LEMMA FoldExists ==
  ASSUME NEW S, IsFiniteSet(S), NEW V, NEW base \in V, NEW step, NEW c,
         Picks(c, S),
         Stays(step, S, V)
  PROVE  \E f \in [SUBSET S -> V] : Folds(f, S, base, c, step)
<1> DEFINE P == {T \in SUBSET S : \E g \in [SUBSET T -> V] : Folds(g, T, base, c, step)}
<1> DEFINE Of(T) == CHOOSE g \in [SUBSET T -> V] : Folds(g, T, base, c, step)
<1>1. \A T \in P : Of(T) \in [SUBSET T -> V] /\ Folds(Of(T), T, base, c, step)
  OBVIOUS
<1> HIDE DEF Of
<1>v. \A T \in P : Of(T)[T] \in V
  BY <1>1
<1>2. ASSUME NEW T \in SUBSET S, \A U \in SUBSET T : U # T => U \in P
      PROVE  T \in P
  <2> DEFINE last == IF T = {} THEN base ELSE step[c[T]][Of(T \ {c[T]})[T \ {c[T]}]]
  <2> DEFINE g == [U \in SUBSET T |-> IF U = T THEN last ELSE Of(U)[U]]
  <2>1. last \in V
    <3>1. CASE T = {}
      BY <3>1
    <3>2. CASE T # {}
      <4>1. c[T] \in T
        BY <3>2 DEF Picks
      <4>2. T \ {c[T]} \in P
        BY <4>1, <1>2
      <4>3. Of(T \ {c[T]})[T \ {c[T]}] \in V
        BY <4>2, <1>v
      <4>4. QED
        BY <3>2, <4>1, <4>3 DEF Stays
    <3>3. QED
      BY <3>1, <3>2
  <2>2. g \in [SUBSET T -> V]
    BY <2>1, <1>v, <1>2
  <2>3. ASSUME NEW U \in SUBSET T
        PROVE  g[U] = IF U = {} THEN base ELSE step[c[U]][g[U \ {c[U]}]]
    <3>1. CASE U = T
      <4>1. T # {} => c[T] \in T
        BY DEF Picks
      <4>2. QED
        BY <3>1, <4>1
    <3>2. CASE U # T
      <4>1. U \in P /\ g[U] = Of(U)[U]
        BY <3>2, <1>2
      <4>2. CASE U = {}
        BY <4>1, <4>2, <1>1 DEF Folds
      <4>3. CASE U # {}
        <5> PICK W : W = U \ {c[U]}
          OBVIOUS
        <5>1. c[U] \in U /\ W \in SUBSET U /\ W \in SUBSET T /\ W # T /\ W # U
          BY <4>3, <3>2 DEF Picks
        <5>2. W \in P /\ g[W] = Of(W)[W]
          BY <5>1, <1>2
        <5>3. Of(U)[U] = step[c[U]][Of(U)[W]]
          BY <4>1, <4>3, <1>1 DEF Folds
        <5>4. Of(U)[W] = Of(W)[W]
          <6>1. Folds(Of(U), U, base, c, step) /\ Folds(Of(W), W, base, c, step)
            BY <4>1, <5>2, <1>1
          <6>2. IsFiniteSet(U) /\ Picks(c, U)
            BY FS_Subset DEF Picks
          <6>3. W \in SUBSET U /\ W \in SUBSET W
            BY <5>1
          <6>4. QED
            BY <6>1, <6>2, <6>3, FoldsAgree
        <5>5. QED
          BY <4>1, <4>3, <5>2, <5>3, <5>4
      <4>4. QED
        BY <4>2, <4>3
    <3>3. QED
      BY <3>1, <3>2
  <2> HIDE DEF g
  <2>4. Folds(g, T, base, c, step)
    BY <2>3 DEF Folds
  <2>5. QED
    BY <2>2, <2>4
<1> HIDE DEF P
<1>3. SUBSET S \subseteq P
  BY <1>2, SubsetInduction
<1>4. QED
  BY <1>3 DEF P

-----------------------------------------------------------------------------
Sum(t, S) == MapThenSumSet(LAMBDA x : t[x], S)
One(T) == CHOOSE x \in T : TRUE
Sums(f, t, S) == f = [T \in SUBSET S |-> IF T = {} THEN 0 ELSE t[One(T)] + f[T \ {One(T)}]]

LEMMA SumsExist ==
  ASSUME NEW S, IsFiniteSet(S), NEW t, \A x \in S : t[x] \in Nat
  PROVE  \E f \in [SUBSET S -> Nat] : Sums(f, t, S) /\ Sum(t, S) = f[S]
<1> DEFINE Body(f) == [T \in SUBSET S |-> IF T = {} THEN 0 ELSE t[CHOOSE x \in T : TRUE] + f[T \ {CHOOSE x \in T : TRUE}]]
<1> DEFINE all == CHOOSE f : f = Body(f)
<1>1. Sum(t, S) = all[S]
  BY DEF Sum, MapThenSumSet, MapThenFoldSet
<1> DEFINE c == [T \in SUBSET S |-> One(T)]
<1> DEFINE step == [x \in S |-> [v \in Nat |-> t[x] + v]]
<1>2. Picks(c, S)
  BY DEF Picks, One
<1>3. Stays(step, S, Nat)
  BY DEF Stays
<1> HIDE DEF c, step
<1>4. PICK f \in [SUBSET S -> Nat] : Folds(f, S, 0, c, step)
  BY <1>2, <1>3, FoldExists
<1>5. ASSUME NEW T \in SUBSET S, T # {}
      PROVE  step[c[T]][f[T \ {c[T]}]] = t[One(T)] + f[T \ {One(T)}]
  <2>1. c[T] = One(T) /\ One(T) \in T
    BY <1>5 DEF c, One
  <2>2. f[T \ {One(T)}] \in Nat
    BY <1>4
  <2>3. QED
    BY <2>1, <2>2 DEF step
<1>6. Sums(f, t, S)
  BY <1>4, <1>5 DEF Sums, Folds
<1>7. f = Body(f)
  BY <1>6 DEF Sums, One
<1>8. all = Body(all)
  BY <1>7
<1> HIDE DEF all
<1>9. Sums(all, t, S)
  BY <1>8 DEF Sums, One
<1>10. ASSUME NEW T \in SUBSET S, \A U \in SUBSET T : U # T => U \in {V \in SUBSET S : all[V] = f[V]}
       PROVE  T \in {V \in SUBSET S : all[V] = f[V]}
  <2>1. CASE T = {}
    BY <2>1, <1>6, <1>9 DEF Sums
  <2>2. CASE T # {}
    <3>1. One(T) \in T
      BY <2>2 DEF One
    <3>2. all[T \ {One(T)}] = f[T \ {One(T)}]
      BY <3>1, <1>10
    <3>3. QED
      BY <2>2, <3>2, <1>6, <1>9 DEF Sums
  <2>3. QED
    BY <2>1, <2>2
<1> DEFINE P == {U \in SUBSET S : all[U] = f[U]}
<1>11. \A T \in SUBSET S : (\A U \in SUBSET T : U # T => U \in P) => T \in P
  BY <1>10
<1> HIDE DEF P
<1>12. SUBSET S \subseteq P
  BY <1>11, SubsetInduction
<1>13. QED
  BY <1>1, <1>6, <1>12 DEF P

LEMMA SumsAgree ==
  ASSUME NEW S, NEW R, IsFiniteSet(R), R \subseteq S, NEW t,
         NEW f, Sums(f, t, S), NEW g, Sums(g, t, R)
  PROVE  \A T \in SUBSET R : g[T] = f[T]
<1> DEFINE P == {T \in SUBSET R : g[T] = f[T]}
<1>1. ASSUME NEW T \in SUBSET R, \A U \in SUBSET T : U # T => U \in P
      PROVE  T \in P
  <2>1. CASE T = {}
    BY <2>1 DEF Sums
  <2>2. CASE T # {}
    <3> PICK U : U = T \ {One(T)}
      OBVIOUS
    <3>1. One(T) \in T
      BY <2>2 DEF One
    <3>2. g[U] = f[U]
      BY <3>1, <1>1
    <3>3. g[T] = t[One(T)] + g[U] /\ f[T] = t[One(T)] + f[U]
      BY <2>2 DEF Sums
    <3>4. QED
      BY <3>2, <3>3
  <2>3. QED
    BY <2>1, <2>2
<1>2. \A T \in SUBSET R : (\A U \in SUBSET T : U # T => U \in P) => T \in P
  BY <1>1
<1> HIDE DEF P
<1>3. SUBSET R \subseteq P
  BY <1>2, SubsetInduction
<1>4. QED
  BY <1>3 DEF P

(* The sums of a set are those of its subsets.                               *)
LEMMA SumOfSubset ==
  ASSUME NEW S, IsFiniteSet(S), NEW t, \A x \in S : t[x] \in Nat,
         NEW f \in [SUBSET S -> Nat], Sums(f, t, S), NEW R \in SUBSET S
  PROVE  Sum(t, R) = f[R]
<1>1. IsFiniteSet(R) /\ R \subseteq S /\ \A x \in R : t[x] \in Nat
  BY FS_Subset
<1>2. PICK g \in [SUBSET R -> Nat] : Sums(g, t, R) /\ Sum(t, R) = g[R]
  BY <1>1, SumsExist
<1>3. \A T \in SUBSET R : g[T] = f[T]
  BY <1>1, <1>2, SumsAgree
<1>4. QED
  BY <1>2, <1>3

LEMMA SumIsNatural ==
  ASSUME NEW S, IsFiniteSet(S), NEW t, \A x \in S : t[x] \in Nat
  PROVE  Sum(t, S) \in Nat
<1>1. PICK f \in [SUBSET S -> Nat] : Sums(f, t, S) /\ Sum(t, S) = f[S]
  BY SumsExist
<1>2. QED
  BY <1>1

(* A sum over nothing.                                                       *)
LEMMA SumOfNothing ==
  ASSUME NEW t
  PROVE  Sum(t, {}) = 0
<1>1. IsFiniteSet({})
  BY FS_EmptySet
<1>2. PICK S : S = {}
  OBVIOUS
<1>3. IsFiniteSet(S) /\ \A x \in S : t[x] \in Nat
  BY <1>1, <1>2
<1>4. PICK f \in [SUBSET S -> Nat] : Sums(f, t, S) /\ Sum(t, S) = f[S]
  BY <1>3, SumsExist
<1>5. f[S] = 0
  BY <1>2, <1>4 DEF Sums
<1>6. QED
  BY <1>2, <1>4, <1>5

(* Any element can be taken out.                                             *)
LEMMA SumWithout ==
  ASSUME NEW S, IsFiniteSet(S), NEW t, \A x \in S : t[x] \in Nat, NEW x \in S
  PROVE  Sum(t, S) = t[x] + Sum(t, S \ {x})
<1>1. PICK f \in [SUBSET S -> Nat] : Sums(f, t, S) /\ Sum(t, S) = f[S]
  BY SumsExist
<1> DEFINE P == {T \in SUBSET S : \A y \in T : f[T] = t[y] + f[T \ {y}]}
<1>2. ASSUME NEW T \in SUBSET S, \A U \in SUBSET T : U # T => U \in P
      PROVE  T \in P
  <2> SUFFICES ASSUME NEW y \in T PROVE f[T] = t[y] + f[T \ {y}]
    OBVIOUS
  <2>0. PICK z : z = One(T)
    OBVIOUS
  <2>1. z \in T
    BY <2>0 DEF One
  <2>2. f[T] = t[z] + f[T \ {z}]
    BY <1>1, <2>0, <2>1 DEF Sums
  <2>3. CASE y = z
    BY <2>2, <2>3
  <2>4. CASE y # z
    <3>0. PICK W : W = (T \ {y}) \ {z}
      OBVIOUS
    <3>1. W = (T \ {z}) \ {y} /\ W \in SUBSET S
      BY <3>0
    <3>2. T \ {y} \in P /\ z \in T \ {y}
      BY <1>2, <2>1, <2>4
    <3>3. T \ {z} \in P /\ y \in T \ {z}
      BY <1>2, <2>1, <2>4
    <3>4. f[T \ {y}] = t[z] + f[W]
      BY <3>0, <3>2
    <3>5. f[T \ {z}] = t[y] + f[W]
      BY <3>1, <3>3
    <3>6. t[y] \in Nat /\ t[z] \in Nat /\ f[W] \in Nat
      BY <2>1, <3>1
    <3>7. QED
      BY <2>2, <3>4, <3>5, <3>6
  <2>5. QED
    BY <2>3, <2>4
<1>3. \A T \in SUBSET S : (\A U \in SUBSET T : U # T => U \in P) => T \in P
  BY <1>2
<1> HIDE DEF P
<1>4. SUBSET S \subseteq P
  BY <1>3, SubsetInduction
<1>5. f[S] = t[x] + f[S \ {x}]
  BY <1>4 DEF P
<1>6. PICK R : R = S \ {x}
  OBVIOUS
<1>r. R \in SUBSET S
  BY <1>6
<1>s. Sums(f, t, S)
  BY <1>1
<1>7. Sum(t, R) = f[R]
  BY <1>r, <1>s, SumOfSubset
<1>8. QED
  BY <1>1, <1>5, <1>6, <1>7

(* It is a sum of what the set's elements have.                              *)
LEMMA SumAgrees ==
  ASSUME NEW S, IsFiniteSet(S), NEW t, NEW u, \A x \in S : t[x] \in Nat /\ t[x] = u[x]
  PROVE  Sum(t, S) = Sum(u, S)
<1>0. \A x \in S : u[x] \in Nat
  OBVIOUS
<1>1. PICK f \in [SUBSET S -> Nat] : Sums(f, t, S) /\ Sum(t, S) = f[S]
  BY SumsExist
<1>2. PICK g \in [SUBSET S -> Nat] : Sums(g, u, S) /\ Sum(u, S) = g[S]
  BY <1>0, SumsExist
<1> DEFINE P == {T \in SUBSET S : f[T] = g[T]}
<1>3. ASSUME NEW T \in SUBSET S, \A U \in SUBSET T : U # T => U \in P
      PROVE  T \in P
  <2>1. CASE T = {}
    BY <2>1, <1>1, <1>2 DEF Sums
  <2>2. CASE T # {}
    <3> PICK U : U = T \ {One(T)}
      OBVIOUS
    <3>1. One(T) \in T
      BY <2>2 DEF One
    <3>2. f[U] = g[U]
      BY <3>1, <1>3
    <3>3. f[T] = t[One(T)] + f[U]
      BY <2>2, <1>1 DEF Sums
    <3>4. g[T] = u[One(T)] + g[U]
      BY <2>2, <1>2 DEF Sums
    <3>5. t[One(T)] = u[One(T)]
      BY <3>1
    <3>6. QED
      BY <3>2, <3>3, <3>4, <3>5
  <2>3. QED
    BY <2>1, <2>2
<1>4. \A T \in SUBSET S : (\A U \in SUBSET T : U # T => U \in P) => T \in P
  BY <1>3
<1> HIDE DEF P
<1>5. SUBSET S \subseteq P
  BY <1>4, SubsetInduction
<1>6. QED
  BY <1>1, <1>2, <1>5 DEF P

(* A sum has no less in a larger set.                                        *)
LEMMA SumOfMore ==
  ASSUME NEW R, IsFiniteSet(R), NEW t, \A x \in R : t[x] \in Nat, NEW S \in SUBSET R
  PROVE  Sum(t, S) \in Nat /\ Sum(t, R) \in Nat /\ Sum(t, S) <= Sum(t, R)
<1> DEFINE P == {T \in SUBSET R : Sum(t, S \cup T) >= Sum(t, S)}
<1>0. ASSUME NEW T \in SUBSET R PROVE IsFiniteSet(T) /\ Sum(t, T) \in Nat
  <2>1. IsFiniteSet(T) /\ \A x \in T : t[x] \in Nat
    BY FS_Subset
  <2>2. QED
    BY <2>1, SumIsNatural
<1>1. ASSUME NEW T \in SUBSET R, \A U \in SUBSET T : U # T => U \in P
      PROVE  T \in P
  <2>1. CASE T \subseteq S
    <3>1. S \cup T = S
      BY <2>1
    <3>2. Sum(t, S \cup T) = Sum(t, S)
      BY <3>1
    <3>3. QED
      BY <1>0, <3>2
  <2>2. CASE ~(T \subseteq S)
    <3>1. PICK x \in T : x \notin S
      BY <2>2
    <3>2. T \ {x} \in P
      BY <1>1
    <3>3. PICK U \in SUBSET R : U = S \cup T
      OBVIOUS
    <3>4. x \in U /\ U \ {x} = S \cup (T \ {x})
      BY <3>1, <3>3
    <3>5. Sum(t, U) = t[x] + Sum(t, U \ {x})
      BY <1>0, <3>4, SumWithout
    <3>6. Sum(t, U \ {x}) >= Sum(t, S)
      BY <3>2, <3>4
    <3>7. Sum(t, U) \in Nat /\ Sum(t, U \ {x}) \in Nat /\ Sum(t, S) \in Nat /\ t[x] \in Nat
      BY <1>0
    <3>8. Sum(t, U) >= Sum(t, S)
      BY <3>5, <3>6, <3>7
    <3>9. QED
      BY <3>3, <3>8
  <2>3. QED
    BY <2>1, <2>2
<1>2. SUBSET R \subseteq P
  <2> HIDE DEF P
  <2>1. QED
    BY <1>1, SubsetInduction
<1>3. R \in P /\ S \cup R = R
  BY <1>2
<1>4. QED
  BY <1>0, <1>3

-----------------------------------------------------------------------------
(* The greatest element of a nonempty set of positions.                      *)
LEMMA MaxOfPositions ==
  ASSUME NEW n \in Nat, NEW T \in SUBSET (1 .. n), T # {}
  PROVE  Max(T) \in T /\ \A y \in T : Max(T) >= y
<1> DEFINE S == {n - x : x \in T}
<1>1. S \in SUBSET Nat /\ S # {}
  <2>1. \A x \in T : x \in 1 .. n
    OBVIOUS
  <2>2. \A x \in T : n - x \in Nat
    BY <2>1
  <2>3. QED
    BY <2>2
<1>2. PICK m \in S : \A j \in S : m <= j
  BY <1>1, LeastNatural
<1>3. PICK x \in T : m = n - x
  BY <1>2
<1>4. \A y \in T : x >= y
  <2> TAKE y \in T
  <2>1. m <= n - y
    BY <1>2
  <2>2. QED
    BY <1>3, <2>1
<1>5. QED
  BY <1>3, <1>4 DEF Max

(* D is the set of the first n positions; said so that it keeps its name.    *)
ArePositions(D, n) == D = 1 .. n

(* p goes from base step by step over n positions, in V.                     *)
GoesBy(p, n, V, base, step) ==
  /\ p \in [0 .. n -> V]
  /\ p[0] = base
  /\ \A k \in 1 .. n : p[k] = step[k][p[k - 1]]

(* f folds the sets of positions of D, in V: it takes the last one out.      *)
IsLeftFold(f, n, D, V, base, step) ==
  /\ n \in Nat /\ ArePositions(D, n)
  /\ base \in V /\ Stays(step, D, V)
  /\ f \in [SUBSET D -> V]
  /\ \A T \in SUBSET D : f[T] = IF T = {} THEN base ELSE step[Max(T)][f[T \ {Max(T)}]]

LEMMA LeftFoldExists ==
  ASSUME NEW n \in Nat, NEW D, ArePositions(D, n),
         NEW V, NEW base \in V, NEW step, Stays(step, D, V)
  PROVE  \E f : IsLeftFold(f, n, D, V, base, step)
<1> DEFINE c == [T \in SUBSET D |-> Max(T)]
<1>1. Picks(c, D)
  BY MaxOfPositions DEF Picks, ArePositions
<1>2. IsFiniteSet(D)
  BY FS_Interval DEF ArePositions
<1>c. \A T \in SUBSET D : c[T] = Max(T)
  OBVIOUS
<1> HIDE DEF c
<1>3. PICK f \in [SUBSET D -> V] : Folds(f, D, base, c, step)
  BY <1>1, <1>2, FoldExists
<1>4. \A T \in SUBSET D : f[T] = IF T = {} THEN base ELSE step[Max(T)][f[T \ {Max(T)}]]
  BY <1>3, <1>c DEF Folds
<1>5. QED
  BY <1>3, <1>4 DEF IsLeftFold

(* It goes over the positions from left to right.                            *)
LEMMA FoldGoesLeft ==
  ASSUME NEW n, NEW D, NEW V, NEW base, NEW step, NEW f, IsLeftFold(f, n, D, V, base, step)
  PROVE  \E p : GoesBy(p, n, V, base, step) /\ p[n] = f[D]
<1> USE DEF IsLeftFold
<1> DEFINE p == [k \in 0 .. n |-> f[1 .. k]]
<1>0. \A k \in 0 .. n : 1 .. k \in SUBSET D
  BY DEF ArePositions
<1>1. p \in [0 .. n -> V]
  BY <1>0
<1>2. p[0] = base
  <2>1. 1 .. 0 = {} /\ 0 \in 0 .. n
    OBVIOUS
  <2>2. f[{}] = base
    OBVIOUS
  <2>3. QED
    BY <2>1, <2>2
<1>3. ASSUME NEW k \in 1 .. n PROVE p[k] = step[k][p[k - 1]]
  <2> PICK K : K = 1 .. k
    OBVIOUS
  <2>1. k \in 0 .. n /\ k - 1 \in 0 .. n /\ k \in K
    OBVIOUS
  <2>2. K \in SUBSET D /\ K # {}
    BY <1>0, <2>1
  <2>3. Max(K) \in K /\ \A y \in K : Max(K) >= y
    BY <2>2, MaxOfPositions DEF ArePositions
  <2>4. Max(K) = k
    BY <2>1, <2>3
  <2>6. K \ {k} = 1 .. (k - 1)
    OBVIOUS
  <2>7. f[K] = step[Max(K)][f[K \ {Max(K)}]]
    BY <2>2
  <2>8. QED
    BY <2>1, <2>4, <2>6, <2>7
<1>5. p[n] = f[D]
  BY DEF ArePositions
<1> HIDE DEF p
<1>4. GoesBy(p, n, V, base, step)
  BY <1>1, <1>2, <1>3 DEF GoesBy
<1>6. QED
  BY <1>4, <1>5

(* all agrees with f after one more position, whenever it did before.        *)
Follows(all, f, D) ==
  /\ all[{}] = f[{}]
  /\ \A T \in SUBSET D : T # {} /\ all[T \ {Max(T)}] = f[T \ {Max(T)}] => all[T] = f[T]

(* What agrees with it after one more position, whenever it did before,      *)
(* agrees with it after all of them.                                         *)
LEMMA LeftFoldAgrees ==
  ASSUME NEW n, NEW D, NEW V, NEW base, NEW step, NEW f, IsLeftFold(f, n, D, V, base, step),
         NEW all, Follows(all, f, D)
  PROVE  all[D] = f[D]
<1> DEFINE P == {T \in SUBSET D : all[T] = f[T]}
<1>1. n \in Nat /\ ArePositions(D, n)
  BY DEF IsLeftFold
<1>2. \A T \in SUBSET D : T # {} => Max(T) \in T
  BY <1>1, MaxOfPositions DEF ArePositions
<1>3. \A T \in SUBSET D : (\A U \in SUBSET T : U # T => U \in P) => T \in P
  BY <1>1, <1>2 DEF Follows
<1> HIDE DEF P
<1>4. IsFiniteSet(D)
  BY <1>1, FS_Interval DEF ArePositions
<1>5. SUBSET D \subseteq P
  BY <1>3, <1>4, SubsetInduction
<1>6. QED
  BY <1>5 DEF P

-----------------------------------------------------------------------------
(* What is chosen of s, position by position.                                *)
ChoosesOf(p, X, s, kept) ==
  /\ p \in [0 .. Len(s) -> Seq(X)]
  /\ p[0] = << >>
  /\ \A k \in 1 .. Len(s) : p[k] = IF s[k] \in kept THEN Append(p[k - 1], s[k]) ELSE p[k - 1]

LEMMA ChosenByPosition ==
  ASSUME NEW X, NEW s \in Seq(X), NEW kept
  PROVE  \E p : ChoosesOf(p, X, s, kept) /\ p[Len(s)] = Chosen(s, kept)
<1> DEFINE n == Len(s)
<1> DEFINE Body(f) == [T \in SUBSET DOMAIN s |->
                         IF T = {} THEN << >>
                         ELSE IF s[Max(T)] \in kept THEN Append(f[T \ {Max(T)}], s[Max(T)])
                              ELSE f[T \ {Max(T)}]]
<1> DEFINE all == CHOOSE f : f = Body(f)
<1>1. Chosen(s, kept) = all[DOMAIN s]
  BY DEF Chosen, FoldLeft, MapThenFoldSet
<1>d. PICK D : D = DOMAIN s
  OBVIOUS
<1>2. D = DOMAIN s /\ D = 1 .. n /\ n \in Nat
  BY <1>d
<1> DEFINE step == [x \in D |-> [v \in Seq(X) |-> IF s[x] \in kept THEN Append(v, s[x]) ELSE v]]
<1>3. Stays(step, D, Seq(X))
  BY <1>2 DEF Stays
<1>s. \A x \in D, v \in Seq(X) : step[x][v] = IF s[x] \in kept THEN Append(v, s[x]) ELSE v
  OBVIOUS
<1>4. << >> \in Seq(X) /\ ArePositions(D, n)
  BY <1>2 DEF ArePositions
<1> HIDE DEF step, n
<1>5. PICK f : IsLeftFold(f, n, D, Seq(X), << >>, step)
  BY <1>2, <1>3, <1>4, LeftFoldExists
<1>6. PICK p : GoesBy(p, n, Seq(X), << >>, step) /\ p[n] = f[D]
  BY <1>5, FoldGoesLeft
<1>7. \A T \in SUBSET D : T # {} => Max(T) \in T
  BY <1>2, MaxOfPositions
<1>f. f \in [SUBSET D -> Seq(X)] /\ f[{}] = << >>
  BY <1>5 DEF IsLeftFold
<1>8. ASSUME NEW T \in SUBSET D, T # {}
      PROVE  f[T] = IF s[Max(T)] \in kept THEN Append(f[T \ {Max(T)}], s[Max(T)])
                    ELSE f[T \ {Max(T)}]
  <2>1. f[T] = step[Max(T)][f[T \ {Max(T)}]]
    BY <1>5, <1>8 DEF IsLeftFold
  <2>2. Max(T) \in D /\ f[T \ {Max(T)}] \in Seq(X)
    BY <1>f, <1>7, <1>8
  <2>3. QED
    BY <2>1, <2>2, <1>s
<1>9. f = Body(f)
  BY <1>2, <1>f, <1>8
<1>10. all = Body(all)
  BY <1>9
<1> HIDE DEF all
<1>11. all[{}] = << >>
  BY <1>10
<1>12. ASSUME NEW T \in SUBSET D, T # {}, all[T \ {Max(T)}] = f[T \ {Max(T)}]
       PROVE  all[T] = f[T]
  <2>1. all[T] = IF s[Max(T)] \in kept THEN Append(all[T \ {Max(T)}], s[Max(T)])
                 ELSE all[T \ {Max(T)}]
    BY <1>2, <1>10, <1>12
  <2>2. QED
    BY <1>8, <1>12, <2>1
<1>13. all[D] = f[D]
  <2>1. Follows(all, f, D)
    BY <1>f, <1>11, <1>12 DEF Follows
  <2>2. QED
    BY <1>5, <2>1, LeftFoldAgrees
<1>15. ChoosesOf(p, X, s, kept)
  <2>1. ASSUME NEW k \in 1 .. n
        PROVE  p[k] = IF s[k] \in kept THEN Append(p[k - 1], s[k]) ELSE p[k - 1]
    <3>1. p[k] = step[k][p[k - 1]]
      BY <1>6 DEF GoesBy
    <3>2. p[k - 1] \in Seq(X) /\ k \in D
      BY <1>2, <1>6 DEF GoesBy
    <3>3. QED
      BY <3>1, <3>2, <1>s
  <2>2. QED
    BY <1>6, <2>1 DEF ChoosesOf, GoesBy, n
<1>16. QED
  BY <1>1, <1>2, <1>6, <1>13, <1>15 DEF n

LEMMA SetOfAppend ==
  ASSUME NEW X, NEW q \in Seq(X), NEW x \in X
  PROVE  ToSet(Append(q, x)) = ToSet(q) \cup {x}
<1> DEFINE r == Append(q, x)
<1>1. r \in Seq(X) /\ Len(q) \in Nat /\ Len(r) = Len(q) + 1
  OBVIOUS
<1>2. DOMAIN r = 1 .. Len(q) + 1 /\ DOMAIN q = 1 .. Len(q)
  OBVIOUS
<1>3. r[Len(q) + 1] = x /\ \A i \in 1 .. Len(q) : r[i] = q[i]
  OBVIOUS
<1>4. 1 .. Len(q) + 1 = (1 .. Len(q)) \cup {Len(q) + 1}
  BY <1>1
<1> HIDE DEF r
<1>5. {r[i] : i \in DOMAIN r} = {q[i] : i \in DOMAIN q} \cup {x}
  BY <1>2, <1>3, <1>4
<1>6. QED
  BY <1>5 DEF ToSet, r

LEMMA ChosenIsSequence ==
  ASSUME NEW X, NEW s \in Seq(X), NEW kept
  PROVE  Chosen(s, kept) \in Seq(X)
<1>1. PICK p : ChoosesOf(p, X, s, kept) /\ p[Len(s)] = Chosen(s, kept)
  BY ChosenByPosition
<1>2. Len(s) \in 0 .. Len(s)
  OBVIOUS
<1>3. QED
  BY <1>1, <1>2 DEF ChoosesOf

LEMMA ChosenAreKept ==
  ASSUME NEW X, NEW s \in Seq(X), NEW kept
  PROVE  ToSet(Chosen(s, kept)) = ToSet(s) \cap kept
<1>1. PICK p : ChoosesOf(p, X, s, kept) /\ p[Len(s)] = Chosen(s, kept)
  BY ChosenByPosition
<1> DEFINE chosen(k) == {x \in kept : \E i \in 1 .. k : x = s[i]}
<1> DEFINE P == {k \in Nat : k <= Len(s) => ToSet(p[k]) = chosen(k)}
<1>2. 0 \in P
  BY <1>1 DEF ChoosesOf, ToSet
<1>3. ASSUME NEW k \in Nat, k \in P PROVE k + 1 \in P
  <2> SUFFICES ASSUME k + 1 <= Len(s) PROVE ToSet(p[k + 1]) = chosen(k + 1)
    OBVIOUS
  <2>1. k \in 0 .. Len(s) /\ k + 1 \in 1 .. Len(s) /\ k + 1 - 1 = k
    OBVIOUS
  <2>2. p[k] \in Seq(X) /\ s[k + 1] \in X
    BY <1>1, <2>1 DEF ChoosesOf
  <2>3. ToSet(p[k]) = chosen(k)
    BY <1>3, <2>1
  <2>4. p[k + 1] = IF s[k + 1] \in kept THEN Append(p[k], s[k + 1]) ELSE p[k]
    BY <1>1, <2>1 DEF ChoosesOf
  <2>5. chosen(k + 1) = IF s[k + 1] \in kept THEN chosen(k) \cup {s[k + 1]} ELSE chosen(k)
    <3>1. 1 .. (k + 1) = (1 .. k) \cup {k + 1}
      OBVIOUS
    <3>2. QED
      BY <3>1
  <2>6. ToSet(Append(p[k], s[k + 1])) = ToSet(p[k]) \cup {s[k + 1]}
    BY <2>2, SetOfAppend
  <2> HIDE DEF chosen, P
  <2>7. QED
    BY <2>3, <2>4, <2>5, <2>6
<1>4. \A k \in Nat : k \in P => k + 1 \in P
  BY <1>3
<1> HIDE DEF P
<1>5. Nat \subseteq P
  BY <1>2, <1>4, NaturalInduction
<1>6. ToSet(Chosen(s, kept)) = chosen(Len(s))
  BY <1>1, <1>5 DEF P
<1>7. chosen(Len(s)) = ToSet(s) \cap kept
  BY DEF ToSet
<1>8. QED
  BY <1>6, <1>7

-----------------------------------------------------------------------------
(* A list of which all is chosen.                                            *)
LEMMA ChosenAll ==
  ASSUME NEW X, NEW s \in Seq(X), NEW kept, \A i \in 1 .. Len(s) : s[i] \in kept
  PROVE  Chosen(s, kept) = s
<1>1. PICK p : ChoosesOf(p, X, s, kept) /\ p[Len(s)] = Chosen(s, kept)
  BY ChosenByPosition
<1>2. Len(s) \in Nat /\ p \in [0 .. Len(s) -> Seq(X)] /\ p[0] = << >>
  BY <1>1 DEF ChoosesOf
<1> DEFINE P == {k \in Nat : k <= Len(s) => Len(p[k]) = k /\ \A i \in 1 .. k : p[k][i] = s[i]}
<1>3. 0 \in P
  BY <1>2
<1>4. ASSUME NEW k \in Nat, k \in P PROVE k + 1 \in P
  <2> SUFFICES ASSUME k + 1 <= Len(s)
               PROVE  Len(p[k + 1]) = k + 1 /\ \A i \in 1 .. k + 1 : p[k + 1][i] = s[i]
    OBVIOUS
  <2>1. k + 1 \in 1 .. Len(s) /\ k \in 0 .. Len(s) /\ k + 1 - 1 = k
    BY <1>2
  <2>2. PICK q \in Seq(X) : q = p[k]
    BY <1>2, <2>1
  <2>6. s[k + 1] \in X /\ s[k + 1] \in kept
    BY <2>1
  <2>7. p[k + 1] = IF s[k + 1] \in kept THEN Append(p[k], s[k + 1]) ELSE p[k]
    BY <1>1, <2>1 DEF ChoosesOf
  <2>3. p[k + 1] = Append(q, s[k + 1])
    BY <2>2, <2>6, <2>7
  <2>4. Len(q) = k /\ \A i \in 1 .. k : q[i] = s[i]
    BY <1>2, <2>1, <2>2, <1>4
  <2>5. QED
    BY <2>2, <2>3, <2>4, <2>6
<1>5. Nat \subseteq P
  <2> HIDE DEF P
  <2>1. QED
    BY <1>3, <1>4, NaturalInduction
<1>6. Len(s) \in P
  BY <1>2, <1>5
<1>7. p[Len(s)] \in Seq(X) /\ Len(p[Len(s)]) = Len(s) /\ \A i \in 1 .. Len(s) : p[Len(s)][i] = s[i]
  BY <1>2, <1>6
<1>8. p[Len(s)] = s
  BY <1>7, SeqEqual
<1>9. QED
  BY <1>1, <1>8

(* One of which nothing is.                                                  *)
LEMMA ChosenNone ==
  ASSUME NEW X, NEW s \in Seq(X), NEW kept, \A i \in 1 .. Len(s) : s[i] \notin kept
  PROVE  Chosen(s, kept) = << >>
<1>1. PICK p : ChoosesOf(p, X, s, kept) /\ p[Len(s)] = Chosen(s, kept)
  BY ChosenByPosition
<1>2. Len(s) \in Nat /\ p[0] = << >>
  BY <1>1 DEF ChoosesOf
<1> DEFINE P == {k \in Nat : k <= Len(s) => p[k] = << >>}
<1>3. 0 \in P
  BY <1>2
<1>4. ASSUME NEW k \in Nat, k \in P PROVE k + 1 \in P
  <2> SUFFICES ASSUME k + 1 <= Len(s) PROVE p[k + 1] = << >>
    OBVIOUS
  <2>1. k + 1 \in 1 .. Len(s) /\ k <= Len(s) /\ k + 1 - 1 = k
    BY <1>2
  <2>2. QED
    BY <1>1, <1>4, <2>1 DEF ChoosesOf
<1>5. Nat \subseteq P
  <2> HIDE DEF P
  <2>1. QED
    BY <1>3, <1>4, NaturalInduction
<1>6. QED
  BY <1>1, <1>2, <1>5

(* Two choices that make no difference to s.                                 *)
LEMMA ChosenAgrees ==
  ASSUME NEW X, NEW s \in Seq(X), NEW kept, NEW other,
         \A i \in 1 .. Len(s) : s[i] \in kept <=> s[i] \in other
  PROVE  Chosen(s, kept) = Chosen(s, other)
<1>1. PICK p : ChoosesOf(p, X, s, kept) /\ p[Len(s)] = Chosen(s, kept)
  BY ChosenByPosition
<1>2. PICK q : ChoosesOf(q, X, s, other) /\ q[Len(s)] = Chosen(s, other)
  BY ChosenByPosition
<1>0. Len(s) \in Nat
  OBVIOUS
<1> DEFINE P == {k \in Nat : k <= Len(s) => p[k] = q[k]}
<1>3. 0 \in P
  BY <1>1, <1>2 DEF ChoosesOf
<1>4. ASSUME NEW k \in Nat, k \in P PROVE k + 1 \in P
  <2> SUFFICES ASSUME k + 1 <= Len(s) PROVE p[k + 1] = q[k + 1]
    OBVIOUS
  <2>1. k + 1 \in 1 .. Len(s) /\ k <= Len(s) /\ k + 1 - 1 = k
    BY <1>0
  <2>2. p[k + 1] = IF s[k + 1] \in kept THEN Append(p[k], s[k + 1]) ELSE p[k]
    BY <1>1, <2>1 DEF ChoosesOf
  <2>3. q[k + 1] = IF s[k + 1] \in other THEN Append(q[k], s[k + 1]) ELSE q[k]
    BY <1>2, <2>1 DEF ChoosesOf
  <2>4. QED
    BY <1>4, <2>1, <2>2, <2>3
<1>5. Nat \subseteq P
  <2> HIDE DEF P
  <2>1. QED
    BY <1>3, <1>4, NaturalInduction
<1>6. QED
  BY <1>0, <1>1, <1>2, <1>5

(* Appending to two lists is appending to the second.                        *)
IsAppended(a, b, x) == Append(a \o b, x) = a \o Append(b, x)

LEMMA AppendToBoth ==
  ASSUME NEW X, NEW a \in Seq(X), NEW b \in Seq(X), NEW x \in X
  PROVE  IsAppended(a, b, x)
<1>1. Append(a \o b, x) \in Seq(X) /\ a \o Append(b, x) \in Seq(X)
  OBVIOUS
<1>2. Len(a) \in Nat /\ Len(b) \in Nat
  OBVIOUS
<1>3. Len(Append(a \o b, x)) = Len(a) + Len(b) + 1 /\ Len(a \o Append(b, x)) = Len(a) + Len(b) + 1
  OBVIOUS
<1>4. ASSUME NEW i \in 1 .. Len(a) + Len(b) + 1
      PROVE  Append(a \o b, x)[i] = (a \o Append(b, x))[i]
  <2>1. CASE i <= Len(a)
    BY <1>2, <2>1
  <2>2. CASE i > Len(a) /\ i <= Len(a) + Len(b)
    BY <1>2, <2>2
  <2>3. CASE i = Len(a) + Len(b) + 1
    BY <1>2, <2>3
  <2>4. QED
    BY <1>2, <2>1, <2>2, <2>3
<1>5. QED
  BY <1>1, <1>3, <1>4, SeqEqual DEF IsAppended

(* What is chosen of two lists, one after the other.                         *)
LEMMA ChosenOfBoth ==
  ASSUME NEW X, NEW a \in Seq(X), NEW b \in Seq(X), NEW kept
  PROVE  Chosen(a \o b, kept) = Chosen(a, kept) \o Chosen(b, kept)
<1>0. a \o b \in Seq(X)
  OBVIOUS
<1>1. PICK s \in Seq(X) : s = a \o b
  BY <1>0
<1>2. PICK m \in Nat : m = Len(a)
  OBVIOUS
<1>3. PICK n \in Nat : n = Len(b)
  OBVIOUS
<1>4. /\ Len(s) = m + n
      /\ \A k \in 1 .. m : s[k] = a[k]
      /\ \A k \in 1 .. n : s[m + k] = b[k]
  BY <1>1, <1>2, <1>3
<1>5. PICK p : ChoosesOf(p, X, s, kept) /\ p[m + n] = Chosen(s, kept)
  BY <1>4, ChosenByPosition
<1>6. PICK q : ChoosesOf(q, X, a, kept) /\ q[m] = Chosen(a, kept)
  BY <1>2, ChosenByPosition
<1>7. PICK r : ChoosesOf(r, X, b, kept) /\ r[n] = Chosen(b, kept)
  BY <1>3, ChosenByPosition
<1>8. /\ p[0] = << >>
      /\ \A k \in 1 .. m + n : p[k] = IF s[k] \in kept THEN Append(p[k - 1], s[k]) ELSE p[k - 1]
  BY <1>4, <1>5 DEF ChoosesOf
<1>9. /\ q[0] = << >> /\ q[m] \in Seq(X)
      /\ \A k \in 1 .. m : q[k] = IF a[k] \in kept THEN Append(q[k - 1], a[k]) ELSE q[k - 1]
  BY <1>2, <1>6 DEF ChoosesOf
<1>10. /\ r \in [0 .. n -> Seq(X)] /\ r[0] = << >>
       /\ \A k \in 1 .. n : r[k] = IF b[k] \in kept THEN Append(r[k - 1], b[k]) ELSE r[k - 1]
  BY <1>3, <1>7 DEF ChoosesOf
<1> DEFINE P == {k \in Nat : k <= m => p[k] = q[k]}
<1>11. 0 \in P
  BY <1>8, <1>9
<1>12. ASSUME NEW k \in Nat, k \in P PROVE k + 1 \in P
  <2> SUFFICES ASSUME k + 1 <= m PROVE p[k + 1] = q[k + 1]
    OBVIOUS
  <2>1. k + 1 \in 1 .. m /\ k + 1 \in 1 .. m + n /\ k <= m /\ k + 1 - 1 = k
    OBVIOUS
  <2>2. p[k + 1] = IF s[k + 1] \in kept THEN Append(p[k], s[k + 1]) ELSE p[k]
    BY <1>8, <2>1
  <2>3. q[k + 1] = IF a[k + 1] \in kept THEN Append(q[k], a[k + 1]) ELSE q[k]
    BY <1>9, <2>1
  <2>4. s[k + 1] = a[k + 1]
    BY <1>4, <2>1
  <2>5. QED
    BY <1>12, <2>1, <2>2, <2>3, <2>4
<1>13. Nat \subseteq P
  <2> HIDE DEF P
  <2>1. QED
    BY <1>11, <1>12, NaturalInduction
<1>14. p[m] = q[m]
  BY <1>13
<1> HIDE DEF P
<1>20. PICK u \in Seq(X) : u = q[m]
  BY <1>9
<1>21. PICK at : at = [k \in Nat |-> p[m + k]]
  OBVIOUS
<1> DEFINE Q == {k \in Nat : k <= n => at[k] = u \o r[k]}
<1>15. 0 \in Q
  <2>1. u \o << >> = u
    BY ConcatEmptySeq
  <2>2. at[0] = u
    BY <1>14, <1>20, <1>21
  <2>3. QED
    BY <2>1, <2>2, <1>10
<1>16. ASSUME NEW k \in Nat, k \in Q PROVE k + 1 \in Q
  <2> SUFFICES ASSUME k + 1 <= n PROVE at[k + 1] = u \o r[k + 1]
    OBVIOUS
  <2>1. /\ k + 1 \in 1 .. n /\ k \in 0 .. n /\ k <= n /\ k + 1 - 1 = k
        /\ m + (k + 1) \in 1 .. m + n /\ m + (k + 1) - 1 = m + k
    OBVIOUS
  <2>2. at[k + 1] = IF s[m + (k + 1)] \in kept THEN Append(at[k], s[m + (k + 1)]) ELSE at[k]
    BY <1>8, <1>21, <2>1
  <2>3. r[k + 1] = IF b[k + 1] \in kept THEN Append(r[k], b[k + 1]) ELSE r[k]
    BY <1>10, <2>1
  <2>4. s[m + (k + 1)] = b[k + 1] /\ b[k + 1] \in X
    BY <1>3, <1>4, <2>1
  <2>5. at[k] = u \o r[k] /\ r[k] \in Seq(X)
    BY <1>10, <1>16, <2>1
  <2>8. PICK v \in Seq(X) : v = r[k]
    BY <2>5
  <2>9. PICK x \in X : x = b[k + 1]
    BY <2>4
  <2>10. Append(u \o v, x) = u \o Append(v, x)
    <3>1. IsAppended(u, v, x)
      BY AppendToBoth
    <3>2. QED
      BY <3>1 DEF IsAppended
  <2>6. Append(u \o r[k], b[k + 1]) = u \o Append(r[k], b[k + 1])
    BY <2>8, <2>9, <2>10
  <2>7. QED
    BY <2>2, <2>3, <2>4, <2>5, <2>6
<1>17. Nat \subseteq Q
  <2> HIDE DEF Q
  <2>1. QED
    BY <1>15, <1>16, NaturalInduction
<1>22. at[n] = u \o r[n]
  BY <1>17
<1>18. p[m + n] = q[m] \o r[n]
  BY <1>20, <1>21, <1>22
<1>19. QED
  BY <1>1, <1>5, <1>6, <1>7, <1>18

(* Two lists, one after the other.                                           *)
IsJoined(d, a, b) ==
  /\ Len(d) = Len(a) + Len(b)
  /\ \A i \in 1 .. Len(a) : d[i] = a[i]
  /\ \A i \in Len(a) + 1 .. Len(a) + Len(b) : d[i] = b[i - Len(a)]

LEMMA Joined ==
  ASSUME NEW X, NEW a \in Seq(X), NEW b \in Seq(X)
  PROVE  a \o b \in Seq(X) /\ IsJoined(a \o b, a, b)
<1>1. a \o b \in Seq(X) /\ Len(a \o b) = Len(a) + Len(b)
  BY ConcatProperties
<1>2. Len(a) \in Nat /\ Len(b) \in Nat
  OBVIOUS
<1>3. \A i \in 1 .. Len(a) + Len(b) : (a \o b)[i] = IF i <= Len(a) THEN a[i] ELSE b[i - Len(a)]
  BY ConcatProperties
<1>4. QED
  BY <1>1, <1>2, <1>3 DEF IsJoined

(* A list from one place on, which may be behind its end.                    *)
After(s, k) == SubSeq(s, k + 1, Len(s))

LEMMA RestOf ==
  ASSUME NEW X, NEW s \in Seq(X), NEW k \in Nat
  PROVE  /\ After(s, k) \in Seq(X)
         /\ Len(After(s, k)) = IF k < Len(s) THEN Len(s) - k ELSE 0
         /\ \A i \in 1 .. Len(s) - k : After(s, k)[i] = s[k + i]
<1>1. Len(s) \in Nat
  OBVIOUS
<1>2. \A i \in k + 1 .. Len(s) : s[i] \in X
  OBVIOUS
<1>3. /\ SubSeq(s, k + 1, Len(s)) \in Seq(X)
      /\ Len(SubSeq(s, k + 1, Len(s))) = IF k + 1 <= Len(s) THEN Len(s) - (k + 1) + 1 ELSE 0
      /\ \A i \in 1 .. Len(s) - (k + 1) + 1 : SubSeq(s, k + 1, Len(s))[i] = s[k + 1 + i - 1]
  BY <1>1, <1>2, SubSeqProperties
<1>4. QED
  BY <1>1, <1>3 DEF After

-----------------------------------------------------------------------------
(* What is left of a list, and the order of the rest.                        *)
LEMMA RemovedAt ==
  ASSUME NEW X, NEW s \in Seq(X), NEW i \in 1 .. Len(s)
  PROVE  /\ RemoveAt(s, i) \in Seq(X)
         /\ Len(RemoveAt(s, i)) = Len(s) - 1
         /\ \A j \in 1 .. Len(s) - 1 : RemoveAt(s, i)[j] = IF j < i THEN s[j] ELSE s[j + 1]
<1> DEFINE a == SubSeq(s, 1, i - 1)
<1> DEFINE b == SubSeq(s, i + 1, Len(s))
<1>1. Len(s) \in Nat
  OBVIOUS
<1>2. a \in Seq(X) /\ Len(a) = i - 1 /\ \A j \in 1 .. i - 1 : a[j] = s[j]
  OBVIOUS
<1>3. b \in Seq(X) /\ Len(b) = Len(s) - i /\ \A j \in 1 .. Len(s) - i : b[j] = s[j + i]
  OBVIOUS
<1>4. RemoveAt(s, i) = a \o b
  BY DEF RemoveAt
<1> HIDE DEF a, b
<1>5. a \o b \in Seq(X) /\ Len(a \o b) = Len(s) - 1
  <2>1. a \in Seq(X) /\ b \in Seq(X)
    BY <1>2, <1>3
  <2>2. Len(a \o b) = Len(a) + Len(b)
    BY <2>1
  <2>3. Len(a \o b) = Len(s) - 1
    BY <1>1, <1>2, <1>3, <2>2
  <2>4. QED
    BY <2>1, <2>3
<1>6. ASSUME NEW j \in 1 .. Len(s) - 1
      PROVE  (a \o b)[j] = IF j < i THEN s[j] ELSE s[j + 1]
  <2>1. CASE j < i
    BY <1>1, <1>2, <1>3, <2>1
  <2>2. CASE ~(j < i)
    <3>1. (a \o b)[j] = b[j - (i - 1)]
      BY <1>1, <1>2, <1>3, <2>2
    <3>2. j - (i - 1) \in 1 .. Len(s) - i
      BY <1>1, <2>2
    <3>3. b[j - (i - 1)] = s[j - (i - 1) + i]
      BY <1>3, <3>2
    <3>4. j - (i - 1) + i = j + 1
      BY <1>1
    <3>5. QED
      BY <2>2, <3>1, <3>3, <3>4
  <2>3. QED
    BY <2>1, <2>2
<1>7. QED
  BY <1>4, <1>5, <1>6

(* No two entries of s are the same.                                         *)
Distinct(s) == \A j, k \in 1 .. Len(s) : s[j] = s[k] => j = k

(* Removing the first of what is there once.                                 *)
LEMMA RemovedFirst ==
  ASSUME NEW X, NEW s \in Seq(X), NEW i \in 1 .. Len(s),
         Distinct(s)
  PROVE  RemoveFirst(s, s[i]) = RemoveAt(s, i)
<1>1. {j \in 1 .. Len(s) : s[j] = s[i]} = {i}
  BY DEF Distinct
<1>2. Min({i}) = i
  BY DEF Min
<1>3. SelectInSeq(s, LAMBDA v : v = s[i]) = i
  BY <1>1, <1>2 DEF SelectInSeq
<1>4. QED
  BY <1>3 DEF RemoveFirst

(* t is s with its i-th element moved to the end.                            *)
IsMoved(t, s, i, X) ==
  /\ t \in Seq(X)
  /\ Len(t) = Len(s)
  /\ \A j \in 1 .. Len(s) :
       t[j] = IF j < i THEN s[j] ELSE IF j < Len(s) THEN s[j + 1] ELSE s[i]

(* A key that was used before is used again: it comes last.                  *)
LEMMA UsedAgain ==
  ASSUME NEW X, NEW s \in Seq(X), NEW i \in 1 .. Len(s), Distinct(s)
  PROVE  /\ IsMoved(Append(RemoveFirst(s, s[i]), s[i]), s, i, X)
         /\ Distinct(Append(RemoveFirst(s, s[i]), s[i]))
<1> DEFINE t == Append(RemoveFirst(s, s[i]), s[i])
<1> PICK r : r = RemoveAt(s, i)
  OBVIOUS
<1>0. Len(s) \in Nat /\ i \in Nat /\ s[i] \in X
  OBVIOUS
<1>1. /\ r \in Seq(X) /\ Len(r) = Len(s) - 1
      /\ \A j \in 1 .. Len(s) - 1 : r[j] = IF j < i THEN s[j] ELSE s[j + 1]
  BY RemovedAt
<1>2. t = Append(r, s[i])
  BY RemovedFirst
<1> HIDE DEF t
<1>3. t \in Seq(X) /\ Len(t) = Len(s)
  BY <1>0, <1>1, <1>2
<1>4. ASSUME NEW j \in 1 .. Len(s)
      PROVE  t[j] = IF j < i THEN s[j] ELSE IF j < Len(s) THEN s[j + 1] ELSE s[i]
  <2>1. CASE j < Len(s)
    <3>1. j \in 1 .. Len(r) /\ j \in 1 .. Len(s) - 1
      BY <1>0, <1>1, <2>1
    <3>2. t[j] = r[j]
      BY <1>1, <1>2, <3>1
    <3>3. QED
      BY <1>1, <2>1, <3>1, <3>2
  <2>2. CASE ~(j < Len(s))
    <3>1. j = Len(r) + 1 /\ ~(j < i)
      BY <1>0, <1>1, <2>2
    <3>2. t[j] = s[i]
      BY <1>1, <1>2, <3>1
    <3>3. QED
      BY <2>2, <3>1, <3>2
  <2>3. QED
    BY <2>1, <2>2
<1>5. ASSUME NEW j \in 1 .. Len(s), NEW k \in 1 .. Len(s), t[j] = t[k]
      PROVE  j = k
  <2> DEFINE from(x) == IF x < i THEN x ELSE IF x < Len(s) THEN x + 1 ELSE i
  <2>1. \A x \in 1 .. Len(s) : t[x] = s[from(x)] /\ from(x) \in 1 .. Len(s)
    BY <1>0, <1>4
  <2>2. from(j) = from(k)
    BY <1>5, <2>1 DEF Distinct
  <2>3. QED
    BY <1>0, <2>2
<1>6. QED
  BY <1>3, <1>4, <1>5 DEF IsMoved, Distinct, t

IsNew(key, s) == \A j \in 1 .. Len(s) : s[j] # key

(* t is s with the key after it.                                             *)
IsAdded(t, s, key, X) ==
  /\ t \in Seq(X)
  /\ Len(t) = Len(s) + 1
  /\ \A j \in 1 .. Len(s) : t[j] = s[j]
  /\ t[Len(s) + 1] = key

(* A key that is used for the first time comes last as well.                 *)
LEMMA UsedFirst ==
  ASSUME NEW X, NEW s \in Seq(X), NEW key \in X, Distinct(s), IsNew(key, s)
  PROVE  /\ IsAdded(Append(RemoveFirst(s, key), key), s, key, X)
         /\ Distinct(Append(RemoveFirst(s, key), key))
<1> DEFINE t == Append(RemoveFirst(s, key), key)
<1>1. t = Append(s, key)
  BY DEF RemoveFirst, IsNew
<1> HIDE DEF t
<1>2. /\ t \in Seq(X) /\ Len(t) = Len(s) + 1 /\ t[Len(s) + 1] = key
      /\ \A j \in 1 .. Len(s) : t[j] = s[j]
  BY <1>1
<1>3. Len(s) \in Nat
  OBVIOUS
<1>4. \A j \in 1 .. Len(t) : j \in 1 .. Len(s) \/ j = Len(s) + 1
  BY <1>2, <1>3
<1>5. QED
  BY <1>2, <1>4 DEF IsAdded, IsNew, Distinct, t
=============================================================================

---------------------------- MODULE FoldTheorems ----------------------------
(***************************************************************************)
(* Induction for the proofs of this project, and what the folds of the     *)
(* community modules compute.  The principles speak of sets of numbers and *)
(* of sets of subsets instead of predicates, so that a proof can cite them *)
(* as first-order facts: to show P for every n, cite the principle for     *)
(* {n \in Nat : P}.                                                        *)
(***************************************************************************)
EXTENDS Integers, FiniteSets, FiniteSetsExt, FiniteSetTheorems, TLAPS

-----------------------------------------------------------------------------
(* Induction *)

\* A nonempty set of natural numbers has a least element.
LEMMA LeastElement ==
    ASSUME NEW T \in SUBSET Nat, T # {}
    PROVE  \E n \in T : \A m \in T : n <= m
<1> DEFINE R == {ss \in Nat \X Nat : ss[1] < ss[2]}
<1>1. IsWellFoundedOn(R, Nat)
    BY NatLessThanWellFounded DEF OpToRel
<1>2. T \subseteq Nat
    OBVIOUS
<1> HIDE DEF R
<1>3. PICK n \in T : \A m \in T : ~(<<m, n>> \in R)
    BY <1>1, <1>2, WFMin, Zenon
<1>4. ASSUME NEW m \in T PROVE n <= m
    <2>1. <<m, n>> \in Nat \X Nat /\ <<m, n>>[1] = m /\ <<m, n>>[2] = n
        OBVIOUS
    <2>2. ~(m < n)
        BY <2>1, <1>3 DEF R
    <2> QED
        BY <2>2
<1> QED
    BY <1>4

\* Induction over the natural numbers.
LEMMA NatSetInduction ==
    ASSUME NEW Q \in SUBSET Nat, 0 \in Q, \A n \in Q : n + 1 \in Q
    PROVE  Q = Nat
<1> SUFFICES ASSUME Nat \ Q # {} PROVE FALSE
    OBVIOUS
<1>1. Nat \ Q \in SUBSET Nat
    OBVIOUS
<1>2. PICK n \in Nat \ Q : \A m \in Nat \ Q : n <= m
    BY <1>1, LeastElement
<1>3. n - 1 \in Q
    BY <1>2
<1> QED
    BY <1>3

\* A set of subsets of S that has a subset if it has all that lack one of its
\* elements.
Inductive(Q, S) ==
    /\ Q \in SUBSET SUBSET S
    /\ \A s \in SUBSET S : (\A x \in s : s \ {x} \in Q) => s \in Q

\* Induction over the subsets of a finite set.
LEMMA SubsetInduction ==
    ASSUME NEW S, IsFiniteSet(S), NEW Q, Inductive(Q, S)
    PROVE  Q = SUBSET S
<1> DEFINE Small(n) == \A s \in SUBSET S : Cardinality(s) = n => s \in Q
           N == {n \in Nat : Small(n)}
<1>1. N = Nat
    <2>1. 0 \in N
        <3>1. {} \in Q
            BY DEF Inductive
        <3>2. \A s \in SUBSET S : Cardinality(s) = 0 => s = {}
            BY FS_EmptySet, FS_Subset
        <3> QED
            BY <3>1, <3>2
    <2>2. ASSUME NEW n \in N PROVE n + 1 \in N
        <3> SUFFICES ASSUME NEW s \in SUBSET S, Cardinality(s) = n + 1
                     PROVE  s \in Q
            OBVIOUS
        <3>1. IsFiniteSet(s)
            BY FS_Subset
        <3>2. ASSUME NEW x \in s PROVE s \ {x} \in Q
            <4>1. Cardinality(s \ {x}) = Cardinality(s) - 1
                BY <3>1, FS_RemoveElement, Zenon
            <4> QED
                BY <4>1, n \in Nat
        <3> QED
            BY <3>2 DEF Inductive
    <2>3. N \in SUBSET Nat
        OBVIOUS
    <2> HIDE DEF N
    <2> QED
        BY <2>1, <2>2, <2>3, NatSetInduction
<1>2. ASSUME NEW s \in SUBSET S PROVE s \in Q
    <2>1. Cardinality(s) \in Nat
        BY FS_Subset, FS_CardinalityType
    <2> QED
        BY <2>1, <1>1
<1> QED
    BY <1>2 DEF Inductive
-----------------------------------------------------------------------------
(* Folds *)

\* g folds the subsets of S: it takes the elements off with c and combines them
\* with step, from base on.
IsFold(g, S, base, c, step) ==
    \A s \in SUBSET S : g[s] = IF s = {} THEN base ELSE step[c[s]][g[s \ {c[s]}]]

Chooses(c, S) == \A s \in SUBSET S : s # {} => c[s] \in s
StepsIn(step, S, V) == \A x \in S : \A v \in V : step[x][v] \in V

\* A fold over a finite set is defined, and its values are those of the steps.
LEMMA FoldExists ==
    ASSUME NEW S, IsFiniteSet(S), NEW V, NEW base \in V,
           NEW c, Chooses(c, S), NEW step, StepsIn(step, S, V)
    PROVE  \E g \in [SUBSET S -> V] : IsFold(g, S, base, c, step)
<1> DEFINE Step(g, s) == IF s = {} THEN base ELSE step[c[s]][g[s \ {c[s]}]]
           Upto(n) == \E g \in [SUBSET S -> V] : \A s \in SUBSET S :
                          Cardinality(s) <= n => g[s] = Step(g, s)
           N == {n \in Nat : Upto(n)}
<1> USE DEF Chooses, StepsIn
<1>1. \A s \in SUBSET S : Cardinality(s) \in Nat /\ Cardinality(s) <= Cardinality(S)
    BY FS_Subset, FS_CardinalityType
<1>2. \A s \in SUBSET S : s # {} => Cardinality(s \ {c[s]}) = Cardinality(s) - 1
    BY FS_Subset, FS_RemoveElement
<1>3. \A g \in [SUBSET S -> V], s \in SUBSET S : Step(g, s) \in V
    OBVIOUS
<1>4. N = Nat
    <2>1. 0 \in N
        <3> DEFINE g0 == [s \in SUBSET S |-> base]
        <3>1. g0 \in [SUBSET S -> V]
            OBVIOUS
        <3>2. ASSUME NEW s \in SUBSET S, Cardinality(s) <= 0 PROVE s = {}
            BY <3>2, <1>1, FS_Subset, FS_EmptySet
        <3>3. \A s \in SUBSET S : Cardinality(s) <= 0 => g0[s] = Step(g0, s)
            BY <3>2
        <3>4. Upto(0)
            BY <3>1, <3>3
        <3> QED
            BY <3>4
    <2>2. ASSUME NEW n \in N PROVE n + 1 \in N
        <3>1. PICK g \in [SUBSET S -> V] : \A s \in SUBSET S :
                      Cardinality(s) <= n => g[s] = Step(g, s)
            OBVIOUS
        <3> DEFINE h == [s \in SUBSET S |-> IF Cardinality(s) <= n THEN g[s] ELSE Step(g, s)]
        <3>2. h \in [SUBSET S -> V]
            BY <1>3
        <3>3. ASSUME NEW s \in SUBSET S, Cardinality(s) <= n + 1
              PROVE  h[s] = Step(h, s)
            <4>1. CASE s = {}
                BY <4>1, <3>1
            <4>2. CASE s # {}
                <5> DEFINE r == s \ {c[s]}
                <5>1. r \in SUBSET S /\ Cardinality(r) <= n
                    BY <4>2, <3>3, <1>1, <1>2, n \in Nat
                <5>2. h[r] = g[r]
                    BY <5>1
                <5>3. Step(h, s) = Step(g, s)
                    BY <4>2, <5>2
                <5>4. h[s] = Step(g, s)
                    BY <3>1
                <5> QED
                    BY <5>3, <5>4
            <4> QED
                BY <4>1, <4>2
        <3> HIDE DEF h
        <3>4. Upto(n + 1)
            BY <3>2, <3>3
        <3>5. n + 1 \in Nat
            BY n \in Nat
        <3> QED
            BY <3>4, <3>5
    <2>3. N \in SUBSET Nat
        OBVIOUS
    <2> HIDE DEF N
    <2> QED
        BY <2>1, <2>2, <2>3, NatSetInduction
<1>5. Upto(Cardinality(S))
    BY <1>4, FS_CardinalityType
<1> QED
    BY <1>5, <1>1 DEF IsFold
-----------------------------------------------------------------------------
(* Sums *)

SumOver(w, S) == MapThenSumSet(LAMBDA x : w[x], S)

Pick(s) == CHOOSE x \in s : TRUE

IntValued(w, S) == \A x \in S : w[x] \in Int

IsSum(g, w, S) ==
    /\ g \in [SUBSET S -> Int]
    /\ g[{}] = 0
    /\ \A s \in SUBSET S : s # {} => g[s] = w[Pick(s)] + g[s \ {Pick(s)}]

\* The sum over S is the value at S of a function that is 0 for the empty set
\* and takes one element off any other.
LEMMA SumUnfold ==
    ASSUME NEW S, IsFiniteSet(S), NEW w, IntValued(w, S)
    PROVE  \E g : SumOver(w, S) = g[S] /\ IsSum(g, w, S)
<1> DEFINE Eqn(g) == g = [s \in SUBSET S |-> IF s = {} THEN 0 ELSE w[Pick(s)] + g[s \ {Pick(s)}]]
           c == [s \in SUBSET S |-> Pick(s)]
           step == [x \in S |-> [v \in Int |-> w[x] + v]]
<1>1. \A s \in SUBSET S : s # {} => Pick(s) \in s
    BY DEF Pick
<1>2. \E g \in [SUBSET S -> Int] : Eqn(g)
    <2>1. PICK g \in [SUBSET S -> Int] : IsFold(g, S, 0, c, step)
        <3>1. Chooses(c, S)
            BY <1>1 DEF Chooses
        <3>2. StepsIn(step, S, Int)
            BY DEF StepsIn, IntValued
        <3>3. 0 \in Int
            OBVIOUS
        <3> HIDE DEF c, step
        <3> QED
            BY <3>1, <3>2, <3>3, FoldExists
    <2>2. ASSUME NEW s \in SUBSET S, s # {}
          PROVE  step[c[s]][g[s \ {c[s]}]] = w[Pick(s)] + g[s \ {Pick(s)}]
        BY <1>1, <2>2
    <2>3. Eqn(g)
        BY <2>1, <2>2 DEF IsFold
    <2> QED
        BY <2>3
<1> DEFINE iter == CHOOSE g : Eqn(g)
<1>3. SumOver(w, S) = iter[S]
    BY DEF SumOver, MapThenSumSet, MapThenFoldSet, Pick
<1>4. Eqn(iter)
    BY <1>2, Zenon
<1> HIDE DEF iter
<1>5. iter[{}] = 0
    BY <1>4
<1>6. \A s \in SUBSET S : s # {} => iter[s] = w[Pick(s)] + iter[s \ {Pick(s)}]
    BY <1>4
<1>7. iter \in [SUBSET S -> Int]
    <2> DEFINE Q == {s \in SUBSET S : iter[s] \in Int}
    <2>1. ASSUME NEW s \in SUBSET S, \A x \in s : s \ {x} \in Q PROVE s \in Q
        <3>1. CASE s = {}
            BY <3>1, <1>5
        <3>2. CASE s # {}
            <4>1. iter[s \ {Pick(s)}] \in Int
                BY <3>2, <2>1, <1>1
            <4>2. w[Pick(s)] \in Int
                BY <3>2, <1>1 DEF IntValued
            <4> QED
                BY <4>1, <4>2, <3>2, <1>6
        <3> QED
            BY <3>1, <3>2
    <2>2. Inductive(Q, S)
        BY <2>1 DEF Inductive
    <2> HIDE DEF Q
    <2>3. Q = SUBSET S
        BY <2>2, SubsetInduction
    <2> QED
        BY <2>3, <1>4 DEF Q
<1> QED
    BY <1>3, <1>5, <1>6, <1>7 DEF IsSum

\* The sum over the empty set.
LEMMA SumEmpty == ASSUME NEW w PROVE SumOver(w, {}) = 0
BY SumUnfold, FS_EmptySet DEF IsSum, IntValued

\* Sums of integers are integers, and an element may be taken off: the one
\* the definition picks.
LEMMA SumPick ==
    ASSUME NEW S, IsFiniteSet(S), NEW w, IntValued(w, S)
    PROVE  /\ SumOver(w, S) \in Int
           /\ S # {} => SumOver(w, S) = w[Pick(S)] + SumOver(w, S \ {Pick(S)})
<1>1. PICK g : SumOver(w, S) = g[S] /\ IsSum(g, w, S)
    BY SumUnfold
<1>2. ASSUME NEW T \in SUBSET S PROVE SumOver(w, T) = g[T]
    <2>1. IsFiniteSet(T)
        BY FS_Subset
    <2>2. IntValued(w, T)
        BY DEF IntValued
    <2>3. PICK h : SumOver(w, T) = h[T] /\ IsSum(h, w, T)
        BY <2>1, <2>2, SumUnfold
    <2> DEFINE Q == {s \in SUBSET T : g[s] = h[s]}
    <2>4. ASSUME NEW s \in SUBSET T, \A x \in s : s \ {x} \in Q PROVE s \in Q
        <3>1. s # {} => Pick(s) \in s
            BY DEF Pick
        <3>2. s \in SUBSET S
            OBVIOUS
        <3> QED
            BY <3>1, <3>2, <2>4, <1>1, <2>3 DEF IsSum
    <2>5. Inductive(Q, T)
        BY <2>4 DEF Inductive
    <2> HIDE DEF Q
    <2>6. Q = SUBSET T
        BY <2>1, <2>5, SubsetInduction
    <2> QED
        BY <2>3, <2>6 DEF Q
<1> QED
    BY <1>1, <1>2 DEF IsSum
\* Any element may be taken off a sum.
LEMMA SumRemove ==
    ASSUME NEW S, IsFiniteSet(S), NEW w, IntValued(w, S), NEW a \in S
    PROVE  SumOver(w, S) = w[a] + SumOver(w, S \ {a})
<1> DEFINE Q == {s \in SUBSET S : \A x \in s : SumOver(w, s) = w[x] + SumOver(w, s \ {x})}
<1>1. ASSUME NEW s \in SUBSET S
      PROVE  /\ SumOver(w, s) \in Int
             /\ s # {} => SumOver(w, s) = w[Pick(s)] + SumOver(w, s \ {Pick(s)})
    <2>1. IsFiniteSet(s)
        BY FS_Subset
    <2>2. IntValued(w, s)
        BY DEF IntValued
    <2> QED
        BY <2>1, <2>2, SumPick
<1>2. ASSUME NEW s \in SUBSET S, \A y \in s : s \ {y} \in Q, NEW x \in s
      PROVE  SumOver(w, s) = w[x] + SumOver(w, s \ {x})
    <2> DEFINE y == Pick(s)
    <2>1. y \in s
        BY DEF Pick
    <2>2. SumOver(w, s) = w[y] + SumOver(w, s \ {y})
        BY <1>1
    <2> HIDE DEF y
    <2>3. CASE x = y
        BY <2>2, <2>3
    <2>4. CASE x # y
        <3> DEFINE r == (s \ {x}) \ {y}
        <3>1. SumOver(w, s \ {y}) = w[x] + SumOver(w, (s \ {y}) \ {x})
            BY <1>2, <2>1, <2>4
        <3>2. SumOver(w, s \ {x}) = w[y] + SumOver(w, r)
            BY <1>2, <2>1, <2>4
        <3>3. (s \ {y}) \ {x} = r /\ r \in SUBSET S
            OBVIOUS
        <3>4. SumOver(w, r) \in Int
            BY <1>1, <3>3
        <3>5. w[x] \in Int /\ w[y] \in Int
            BY <2>1 DEF IntValued
        <3> HIDE DEF r
        <3>6. SumOver(w, s) = w[y] + (w[x] + SumOver(w, r))
            BY <2>2, <3>1, <3>3
        <3> QED
            BY <3>2, <3>4, <3>5, <3>6
    <2> QED
        BY <2>3, <2>4
<1>3. Inductive(Q, S)
    BY <1>2 DEF Inductive
<1> HIDE DEF Q
<1>4. Q = SUBSET S
    BY <1>3, SubsetInduction
<1> QED
    BY <1>4 DEF Q

\* A sum over more elements, none of them negative, each at least as large, is
\* at least as large.
LEMMA SumMonotone ==
    ASSUME NEW T, IsFiniteSet(T), NEW S \in SUBSET T, NEW w, NEW v,
           IntValued(w, S), IntValued(v, T),
           \A x \in T : 0 <= v[x], \A x \in S : w[x] <= v[x]
    PROVE  SumOver(w, S) <= SumOver(v, T)
<1> DEFINE Q == {t \in SUBSET T : SumOver(w, t \intersect S) <= SumOver(v, t)}
<1>1. ASSUME NEW t \in SUBSET T
      PROVE  IsFiniteSet(t) /\ IntValued(v, t) /\ SumOver(v, t) \in Int
    <2>1. IsFiniteSet(t) /\ IntValued(v, t)
        BY FS_Subset DEF IntValued
    <2> QED
        BY <2>1, SumPick
<1>2. ASSUME NEW t \in SUBSET S
      PROVE  IsFiniteSet(t) /\ IntValued(w, t) /\ SumOver(w, t) \in Int
    <2>1. t \in SUBSET T /\ IntValued(w, t)
        BY DEF IntValued
    <2> QED
        BY <2>1, <1>1, SumPick
<1>3. ASSUME NEW t \in SUBSET T, \A x \in t : t \ {x} \in Q PROVE t \in Q
    <2>1. CASE t = {}
        <3>1. t \intersect S = {}
            BY <2>1
        <3> QED
            BY <2>1, <3>1, SumEmpty
    <2>2. CASE t # {}
        <3>1. PICK x \in t : TRUE
            BY <2>2
        <3> DEFINE r == t \ {x}
        <3>2. SumOver(v, t) = v[x] + SumOver(v, r)
            BY <1>1, SumRemove
        <3>3. SumOver(w, r \intersect S) <= SumOver(v, r)
            BY <1>3
        <3>4. r \in SUBSET T /\ r \intersect S \in SUBSET S /\ t \intersect S \in SUBSET S
            OBVIOUS
        <3>5. v[x] \in Int /\ 0 <= v[x]
            BY DEF IntValued
        <3>6. CASE x \in S
            <4>1. SumOver(w, t \intersect S) = w[x] + SumOver(w, (t \intersect S) \ {x})
                BY <3>4, <3>6, <1>2, SumRemove
            <4>2. (t \intersect S) \ {x} = r \intersect S
                OBVIOUS
            <4> HIDE DEF r
            <4>3. w[x] \in Int /\ w[x] <= v[x]
                BY <3>6 DEF IntValued
            <4>4. SumOver(w, r \intersect S) \in Int /\ SumOver(v, r) \in Int
                BY <3>4, <1>1, <1>2
            <4>5. SumOver(w, t \intersect S) = w[x] + SumOver(w, r \intersect S)
                BY <4>1, <4>2
            <4>6. SumOver(w, t \intersect S) <= SumOver(v, t)
                BY <4>3, <4>4, <4>5, <3>2, <3>3, <3>5
            <4> QED
                BY <4>6
        <3>7. CASE x \notin S
            <4>1. t \intersect S = r \intersect S
                BY <3>7
            <4> HIDE DEF r
            <4>2. SumOver(w, r \intersect S) \in Int /\ SumOver(v, r) \in Int
                BY <3>4, <1>1, <1>2
            <4> QED
                BY <4>1, <4>2, <3>2, <3>3, <3>5
        <3> QED
            BY <3>6, <3>7
    <2> QED
        BY <2>1, <2>2
<1>4. Inductive(Q, T)
    BY <1>3 DEF Inductive
<1> HIDE DEF Q
<1>5. Q = SUBSET T
    BY <1>4, SubsetInduction
<1>6. T \in SUBSET T /\ T \intersect S = S
    OBVIOUS
<1> QED
    BY <1>5, <1>6 DEF Q
\* A sum depends on the values of its elements only.
LEMMA SumEqual ==
    ASSUME NEW S, IsFiniteSet(S), NEW w, NEW v, IntValued(w, S), IntValued(v, S),
           \A x \in S : w[x] = v[x]
    PROVE  SumOver(w, S) = SumOver(v, S)
<1> DEFINE Q == {s \in SUBSET S : SumOver(w, s) = SumOver(v, s)}
<1>1. ASSUME NEW s \in SUBSET S, \A x \in s : s \ {x} \in Q PROVE s \in Q
    <2>1. CASE s = {}
        BY <2>1, SumEmpty
    <2>2. CASE s # {}
        <3>1. PICK x \in s : TRUE
            BY <2>2
        <3>2. IsFiniteSet(s) /\ IntValued(w, s) /\ IntValued(v, s)
            BY FS_Subset DEF IntValued
        <3>3. SumOver(w, s) = w[x] + SumOver(w, s \ {x})
            BY <3>2, SumRemove
        <3>4. SumOver(v, s) = v[x] + SumOver(v, s \ {x})
            BY <3>2, SumRemove
        <3>5. SumOver(w, s \ {x}) = SumOver(v, s \ {x}) /\ w[x] = v[x]
            BY <1>1
        <3> QED
            BY <3>3, <3>4, <3>5
    <2> QED
        BY <2>1, <2>2
<1>2. Inductive(Q, S)
    BY <1>1 DEF Inductive
<1> HIDE DEF Q
<1>3. Q = SUBSET S
    BY <1>2, SubsetInduction
<1> QED
    BY <1>3 DEF Q

\* One element more by one: the sum grows by one at most.
LEMMA SumBump ==
    ASSUME NEW S, IsFiniteSet(S), NEW w, NEW v, IntValued(w, S), IntValued(v, S),
           NEW a, v[a] = w[a] + 1, \A x \in S : x # a => v[x] = w[x]
    PROVE  SumOver(v, S) <= SumOver(w, S) + 1
<1>1. SumOver(w, S) \in Int /\ SumOver(v, S) \in Int
    BY SumPick
<1>2. CASE a \notin S
    <2>1. \A x \in S : w[x] = v[x]
        BY <1>2
    <2>2. SumOver(w, S) = SumOver(v, S)
        BY <2>1, SumEqual
    <2> QED
        BY <1>1, <2>2
<1>3. CASE a \in S
    <2> DEFINE r == S \ {a}
    <2>1. SumOver(w, S) = w[a] + SumOver(w, r) /\ SumOver(v, S) = v[a] + SumOver(v, r)
        BY <1>3, SumRemove
    <2>2. IsFiniteSet(r) /\ IntValued(w, r) /\ IntValued(v, r) /\ \A x \in r : w[x] = v[x]
        BY FS_RemoveElement DEF IntValued
    <2> HIDE DEF r
    <2>3. SumOver(w, r) = SumOver(v, r) /\ SumOver(w, r) \in Int
        BY <2>2, SumEqual, SumPick
    <2>4. w[a] \in Int /\ v[a] \in Int
        BY <1>3 DEF IntValued
    <2> QED
        BY <2>1, <2>3, <2>4
<1> QED
    BY <1>2, <1>3

-----------------------------------------------------------------------------
(* Folds over sequences, which take the elements off at the end *)

\* The indices of a sequence are finitely many.
LEMMA FiniteIndices == ASSUME NEW n \in Nat PROVE IsFiniteSet(1..n)
<1>1. 1..n \in SUBSET Nat /\ \A i \in 1..n : i <= n
    OBVIOUS
<1> QED
    BY <1>1, FS_BoundedSetOfNaturals

\* A nonempty set of indices has a largest one.
LEMMA MaxOfIndices ==
    ASSUME NEW n \in Nat, NEW s \in SUBSET (1..n), s # {}
    PROVE  Max(s) \in s /\ \A y \in s : Max(s) >= y
<1> DEFINE T == {n - x : x \in s}
<1>1. T \in SUBSET Nat /\ T # {}
    <2>1. \A x \in s : x \in 1..n
        OBVIOUS
    <2>2. \A x \in 1..n : n - x \in Nat
        OBVIOUS
    <2>3. \A x \in s : n - x \in Nat
        BY <2>1, <2>2
    <2> QED
        BY <2>3
<1>2. PICK k \in T : \A m \in T : k <= m
    BY <1>1, LeastElement
<1>3. PICK x \in s : k = n - x
    OBVIOUS
<1>4. ASSUME NEW y \in s PROVE x >= y
    <2>1. n - y \in T
        OBVIOUS
    <2>2. n - x <= n - y
        BY <2>1, <1>2, <1>3
    <2> QED
        BY <2>2
<1>5. \E z \in s : \A y \in s : z >= y
    BY <1>4
<1> QED
    BY <1>5 DEF Max

\* The largest index of a prefix, and the prefix without it.
LEMMA MaxOfPrefix ==
    ASSUME NEW k \in Nat, k # 0
    PROVE  Max(1..k) = k /\ (1..k) \ {k} = 1..(k - 1)
<1>1. 1..k \in SUBSET (1..k) /\ 1..k # {} /\ k \in 1..k
    OBVIOUS
<1>2. Max(1..k) \in 1..k /\ Max(1..k) >= k
    BY <1>1, MaxOfIndices
<1> QED
    BY <1>2

-----------------------------------------------------------------------------
(* Sorting *)

Ascending(s) == \A i, k \in DOMAIN s : i < k => s[i] < s[k]

\* A finite set of natural numbers can be listed in ascending order.
LEMMA SortedEnumeration ==
    ASSUME NEW S \in SUBSET Nat, IsFiniteSet(S)
    PROVE  \E s \in [1..Cardinality(S) -> S] : Ascending(s)
<1> DEFINE Q == {t \in SUBSET S : \E s \in [1..Cardinality(t) -> t] : Ascending(s)}
<1>1. ASSUME NEW t \in SUBSET S, \A x \in t : t \ {x} \in Q PROVE t \in Q
    <2>0. IsFiniteSet(t)
        BY FS_Subset
    <2>1. CASE t = {}
        <3>1. Cardinality(t) = 0
            BY <2>1, FS_EmptySet
        <3>2. [i \in 1..0 |-> 0] \in [1..0 -> t] /\ Ascending([i \in 1..0 |-> 0])
            BY DEF Ascending
        <3> QED
            BY <3>1, <3>2
    <2>2. CASE t # {}
        <3>1. PICK m \in t : \A y \in t : m <= y
            BY <2>2, t \in SUBSET Nat, LeastElement
        <3> DEFINE n == Cardinality(t)
        <3>2. n \in Nat /\ Cardinality(t \ {m}) = n - 1
            BY <2>0, FS_RemoveElement, FS_CardinalityType
        <3>3. n - 1 \in Nat
            BY <2>0, <3>2, FS_Subset, FS_CardinalityType
        <3>4. PICK r \in [1..(n - 1) -> t \ {m}] : Ascending(r)
            BY <1>1, <3>2
        <3> HIDE DEF n
        <3> DEFINE s == [i \in 1..n |-> IF i = 1 THEN m ELSE r[i - 1]]
        <3>5. \A i \in 1..(n - 1) : r[i] \in t /\ r[i] # m /\ r[i] \in Nat /\ m < r[i] /\ m \in Nat
            <4> SUFFICES ASSUME NEW i \in 1..(n - 1)
                         PROVE  r[i] \in t /\ r[i] # m /\ r[i] \in Nat /\ m < r[i] /\ m \in Nat
                OBVIOUS
            <4>1. r[i] \in t /\ r[i] # m
                OBVIOUS
            <4>2. r[i] \in Nat /\ m \in Nat /\ m <= r[i]
                BY <4>1, <3>1, S \in SUBSET Nat
            <4> QED
                BY <4>1, <4>2
        <3>6. s \in [1..n -> t]
            BY <3>1, <3>2, <3>5
        <3>7. Ascending(s)
            <4> SUFFICES ASSUME NEW i \in 1..n, NEW k \in 1..n, i < k PROVE s[i] < s[k]
                BY DEF Ascending
            <4>1. CASE i = 1
                BY <4>1, <3>2, <3>5
            <4>2. CASE i # 1
                <5>1. i - 1 \in 1..(n - 1) /\ k - 1 \in 1..(n - 1) /\ i - 1 < k - 1 /\ k # 1
                    BY <4>2, <3>2
                <5>2. r[i - 1] < r[k - 1]
                    BY <5>1, <3>4 DEF Ascending
                <5> QED
                    BY <5>1, <5>2, <4>2
            <4> QED
                BY <4>1, <4>2
        <3> QED
            BY <3>6, <3>7 DEF n
    <2> QED
        BY <2>1, <2>2
<1>2. Inductive(Q, S)
    <2>1. Q \in SUBSET SUBSET S
        OBVIOUS
    <2> HIDE DEF Q
    <2> QED
        BY <1>1, <2>1 DEF Inductive
<1> HIDE DEF Q
<1>3. Q = SUBSET S
    BY <1>2, SubsetInduction
<1>4. S \in Q
    BY <1>3
<1> QED
    BY <1>4 DEF Q

\* Such a list holds every element of the set.
LEMMA AscendingIsOnto ==
    ASSUME NEW S \in SUBSET Nat, IsFiniteSet(S), NEW s \in [1..Cardinality(S) -> S], Ascending(s)
    PROVE  \A x \in S : \E i \in 1..Cardinality(S) : s[i] = x
<1> DEFINE n == Cardinality(S)
<1>1. n \in Nat
    BY FS_CardinalityType
<1>2. ASSUME NEW i \in 1..n, NEW k \in 1..n, s[i] = s[k] PROVE i = k
    <2>1. DOMAIN s = 1..n /\ s[i] \in Nat /\ s[k] \in Nat
        OBVIOUS
    <2>2. ~(i < k) /\ ~(k < i)
        BY <2>1, <1>2 DEF Ascending
    <2> HIDE DEF n
    <2> QED
        BY <1>1, <2>2
<1>3. s \in Injection(1..n, S)
    BY <1>2 DEF Injection, IsInjective
<1>4. Cardinality(1..n) = n
    BY <1>1, FS_Interval
<1>5. s \in Surjection(1..n, S)
    BY <1>3, <1>4, FS_Injection
<1> QED
    BY <1>5 DEF Surjection
=============================================================================

------------------------------- MODULE FoldLemmas -------------------------------
(***************************************************************************)
(* The lemmas that the proofs of several components rest on.               *)
(*                                                                         *)
(* What the folds of the community modules compute over a finite set: the  *)
(* sums of ContextAssembly and RetrievalMetrics, the compression of        *)
(* contexts, the lists without repetitions of Evaluation.  Such a fold     *)
(* unfolds to the choice of a function that satisfies a recursion over the *)
(* subsets of the set.  There is one (RecursiveExists) and only one        *)
(* (RecursiveUnique); both follow by a minimal counterexample, since the   *)
(* prover cannot instantiate induction with a predicate.                   *)
(*                                                                         *)
(* What the folds over a sequence compute, which is what the loops of      *)
(* Chunking are: from the left a fold is the last of a chain of values,    *)
(* one for each element, and so is a fold from the right.                  *)
(*                                                                         *)
(* The parts of a sequence, and the sequence that a sequence of sequences  *)
(* flattens to, and what of a sequence is kept.  That a finite set can be  *)
(* gone through in order (OrderExists).                                    *)
(***************************************************************************)
EXTENDS Integers, Sequences, SequencesExt, FiniteSetsExt, FiniteSetTheorems,
        SequenceTheorems, WellFoundedInduction, TLAPS

\* g is defined by recursion on the subsets of S: an element is chosen, and combined with
\* what the rest gives.
Recursive(g, S, pick, op, base) ==
    g = [s \in SUBSET S |-> IF s = {} THEN base ELSE op[<<pick[s], g[s \ {pick[s]}]>>]]

\* pick names an element of every set.
Picks(pick, S) == \A s \in SUBSET S : s # {} => pick[s] \in s

\* A nonempty set of naturals has a least element.
LEMMA LeastElement ==
    ASSUME NEW T \in SUBSET Nat, T # {}
    PROVE  \E n \in T : \A m \in T : n <= m
<1>1. \E n \in T : \A m \in T : ~ (<<m, n>> \in OpToRel(<, Nat))
  BY WFMin, NatLessThanWellFounded
<1>2. PICK n \in T : \A m \in T : ~ (<<m, n>> \in OpToRel(<, Nat))
  BY <1>1
<1>3. \A m \in T : ~ (m < n)
  BY <1>2 DEF OpToRel
<1> QED BY <1>3

\* What holds of 0, and of every number up to n if it holds of the one before.
LEMMA UptoInduction ==
    ASSUME NEW n \in Nat, NEW Good, 0 \in Good, \A i \in 1..n : i - 1 \in Good => i \in Good
    PROVE  0..n \subseteq Good
<1> DEFINE wrong == {i \in 0..n : i \notin Good}
<1>1. ASSUME wrong # {} PROVE FALSE
  <2>1. wrong \subseteq Nat
    OBVIOUS
  <2>2. PICK i \in wrong : \A j \in wrong : i <= j
    BY <1>1, <2>1, LeastElement
  <2>3. i \in 1..n /\ i - 1 \in 0..n /\ i - 1 \notin wrong
    BY <2>2
  <2> QED BY <2>2, <2>3
<1> QED BY <1>1

\* A nonempty set of naturals has a minimum.
LEMMA MinOf ==
    ASSUME NEW T \in SUBSET Nat, T # {}
    PROVE  Min(T) \in T /\ \A x \in T : Min(T) <= x
<1>1. \E n \in T : \A m \in T : n <= m
  BY LeastElement
<1> QED BY <1>1 DEF Min

\* A part of 1..n has a maximum.
LEMMA MaxOf ==
    ASSUME NEW n \in Nat, NEW T \in SUBSET (1..n), T # {}
    PROVE  Max(T) \in T /\ \A x \in T : x <= Max(T)
<1> DEFINE above == {i \in Nat : \A x \in T : x <= i}
<1>1. n \in above
  OBVIOUS
<1>2. PICK m \in above : \A i \in above : m <= i
  BY <1>1, LeastElement
<1>3. m \in T
  <2> SUFFICES ASSUME m \notin T PROVE FALSE
    OBVIOUS
  <2>1. \A x \in T : x <= m - 1 /\ m - 1 \in Nat
    BY <1>2
  <2>2. m - 1 \in above
    BY <2>1
  <2> QED BY <1>2, <2>2
<1>4. \E x \in T : \A y \in T : x >= y
  BY <1>2, <1>3
<1>5. \A x, y \in T : x >= y <=> y <= x
  OBVIOUS
<1> QED BY <1>4, <1>5 DEF Max

\* A property of sets that the empty set has, and every set that has it without one of its
\* elements, is one of every finite set.
LEMMA SizeInduction ==
    ASSUME NEW S, IsFiniteSet(S), NEW Good, {} \in Good,
           \A T \in SUBSET S : T # {} /\ (\A U \in SUBSET T : U # T => U \in Good) => T \in Good
    PROVE  SUBSET S \subseteq Good
<1> DEFINE wrong == {n \in Nat : \E T \in SUBSET S : Cardinality(T) = n /\ T \notin Good}
<1>1. ASSUME wrong # {} PROVE FALSE
  <2>1. PICK n \in wrong : \A m \in wrong : n <= m
    BY <1>1, LeastElement
  <2>2. PICK T \in SUBSET S : Cardinality(T) = n /\ T \notin Good
    BY <2>1
  <2>3. IsFiniteSet(T)
    BY FS_Subset
  <2>4. ASSUME NEW U \in SUBSET T, U # T PROVE U \in Good
    <3>1. Cardinality(U) \in Nat /\ Cardinality(U) < n /\ U \in SUBSET S
      BY <2>2, <2>3, <2>4, FS_Subset, FS_CardinalityType
    <3> QED BY <2>1, <3>1
  <2> QED BY <2>2, <2>4
<1> QED BY <1>1, FS_Subset, FS_CardinalityType

\* A finite set that is ordered has a last element.
LEMMA LastOfOrder ==
    ASSUME NEW S, IsFiniteSet(S), NEW R,
           \A x, y \in S : x # y => <<x, y>> \in R \/ <<y, x>> \in R,
           \A x, y, z \in S : <<x, y>> \in R /\ <<y, z>> \in R => <<x, z>> \in R
    PROVE  \A T \in SUBSET S : T # {} => \E x \in T : \A y \in T \ {x} : <<y, x>> \in R
<1> DEFINE Good == {T \in SUBSET S : T # {} => \E x \in T : \A y \in T \ {x} : <<y, x>> \in R}
<1>1. ASSUME NEW T \in SUBSET S, T # {}, \A U \in SUBSET T : U # T => U \in Good
      PROVE  T \in Good
  <2>1. PICK z \in T : TRUE
    BY <1>1
  <2>2. CASE T \ {z} = {}
    BY <2>1, <2>2
  <2>3. CASE T \ {z} # {}
    <3>1. T \ {z} \in SUBSET T /\ T \ {z} # T
      BY <2>1
    <3>2. T \ {z} \in Good
      BY ONLY <1>1, <3>1
    <3>3. PICK x \in T \ {z} : \A y \in (T \ {z}) \ {x} : <<y, x>> \in R
      BY <3>2, <2>3
    <3>4. CASE <<z, x>> \in R
      BY <3>3, <3>4
    <3>5. CASE <<x, z>> \in R
      <4>1. \A y \in T \ {z} : <<y, z>> \in R
        BY <2>1, <3>3, <3>5
      <4> QED BY <2>1, <4>1
    <3> QED BY <2>1, <3>3, <3>4, <3>5
  <2> QED BY <2>2, <2>3
<1>2. {} \in Good
  OBVIOUS
<1> HIDE DEF Good
<1>3. SUBSET S \subseteq Good
  BY <1>1, <1>2, SizeInduction
<1> QED BY <1>3 DEF Good

\* f goes through T, each of its elements once, in the order R.
Orders(f, n, T, R) ==
    /\ f \in [1..n -> T]
    /\ \A i, j \in 1..n : i < j => <<f[i], f[j]>> \in R
    /\ \A i, j \in 1..n : f[i] = f[j] => i = j
    /\ \A t \in T : \E i \in 1..n : f[i] = t

\* A finite set that is ordered can be gone through in that order.
LEMMA OrderExists ==
    ASSUME NEW S, IsFiniteSet(S), NEW R,
           \A x, y \in S : x # y => <<x, y>> \in R \/ <<y, x>> \in R,
           \A x, y, z \in S : <<x, y>> \in R /\ <<y, z>> \in R => <<x, z>> \in R
    PROVE  \E f : Orders(f, Cardinality(S), S, R)
<1> DEFINE Good == {T \in SUBSET S : \E f : Orders(f, Cardinality(T), T, R)}
<1>1. {} \in Good
  <2>1. Cardinality({}) = 0
    BY FS_EmptySet
  <2>2. Orders(<<>>, 0, {}, R)
    BY DEF Orders
  <2> QED BY <2>1, <2>2
<1>2. ASSUME NEW T \in SUBSET S, T # {}, \A U \in SUBSET T : U # T => U \in Good
      PROVE  T \in Good
  <2>1. PICK x \in T : \A y \in T \ {x} : <<y, x>> \in R
    BY <1>2, LastOfOrder
  <2>2. PICK U : U = T \ {x}
    OBVIOUS
  <2>3. IsFiniteSet(T) /\ IsFiniteSet(U) /\ U \in SUBSET T /\ U # T
    BY <2>2, FS_Subset
  <2>4. PICK m, n : m \in Nat /\ n \in Nat /\ m = Cardinality(U) /\ n = Cardinality(T) /\ n = m + 1
    BY <2>2, <2>3, FS_RemoveElement, FS_CardinalityType
  <2>5. PICK f : Orders(f, m, U, R)
    BY <1>2, <2>3, <2>4
  <2>6. f \in [1..m -> U]
    BY <2>5 DEF Orders
  <2>7. PICK g : g = [i \in 1..n |-> IF i = n THEN x ELSE f[i]]
    OBVIOUS
  <2>8. \A i \in 1..n : i # n => i \in 1..m /\ g[i] = f[i] /\ f[i] \in U
    BY <2>4, <2>6, <2>7
  <2>9. n \in 1..n /\ g[n] = x /\ \A i \in 1..m : i \in 1..n /\ i # n
    BY <2>4, <2>7
  <2>10. g \in [1..n -> T]
    <3>1. \A i \in 1..n : g[i] \in T
      BY <2>2, <2>8, <2>9
    <3> QED BY <2>7, <3>1
  <2>11. ASSUME NEW i \in 1..n, NEW j \in 1..n, i < j PROVE <<g[i], g[j]>> \in R
    <3>1. i # n /\ i \in 1..m /\ g[i] = f[i] /\ f[i] \in U
      BY <2>4, <2>8, <2>11
    <3>2. CASE j = n
      BY <2>1, <2>2, <2>9, <3>1, <3>2
    <3>3. CASE j # n
      <4>1. j \in 1..m /\ g[j] = f[j]
        BY <2>8, <3>3
      <4> QED BY <2>5, <2>11, <3>1, <4>1 DEF Orders
    <3> QED BY <3>2, <3>3
  <2>12. ASSUME NEW i \in 1..n, NEW j \in 1..n, g[i] = g[j] PROVE i = j
    <3>1. CASE i = n \/ j = n
      BY <2>2, <2>8, <2>9, <2>12, <3>1
    <3>2. CASE i # n /\ j # n
      <4>1. i \in 1..m /\ j \in 1..m /\ f[i] = f[j]
        BY <2>8, <2>12, <3>2
      <4> QED BY <2>5, <4>1 DEF Orders
    <3> QED BY <3>1, <3>2
  <2>13. ASSUME NEW t \in T PROVE \E i \in 1..n : g[i] = t
    <3>1. CASE t = x
      BY <2>9, <3>1
    <3>2. CASE t # x
      <4>1. t \in U
        BY <2>2, <3>2
      <4>2. PICK i \in 1..m : f[i] = t
        BY <2>5, <4>1 DEF Orders
      <4> QED BY <2>8, <2>9, <4>2
    <3> QED BY <3>1, <3>2
  <2>14. Orders(g, n, T, R)
    BY <2>10, <2>11, <2>12, <2>13 DEF Orders
  <2> QED BY <2>4, <2>14
<1> HIDE DEF Good
<1>3. S \in Good
  <2>1. SUBSET S \subseteq Good
    BY <1>1, <1>2, SizeInduction
  <2> QED BY <2>1
<1> QED BY <1>3 DEF Good

\* The same, said of what h is known to compute: whatever h gives for a set is what op makes of
\* what it gives for the rest, when that is in V.
Computes(h, S, pick, op, base, V) ==
    /\ h[{}] = base
    /\ \A s \in SUBSET S :
          s # {} /\ h[s \ {pick[s]}] \in V => h[s] = op[<<pick[s], h[s \ {pick[s]}]>>]

\* g is defined by the recursion, on a finite set.
Solves(g, S, pick, op, base, V) ==
    IsFiniteSet(S) /\ Picks(pick, S) /\ g \in [SUBSET S -> V] /\ Recursive(g, S, pick, op, base)

\* There is at most one such function: whatever computes it, agrees.
LEMMA RecursiveUnique ==
    \A S, pick, op, base, V, g, h :
        Solves(g, S, pick, op, base, V) /\ Computes(h, S, pick, op, base, V)
            => \A s \in SUBSET S : h[s] = g[s]
<1> SUFFICES ASSUME NEW S, IsFiniteSet(S), NEW pick, Picks(pick, S), NEW V, NEW op, NEW base,
                    NEW g \in [SUBSET S -> V], Recursive(g, S, pick, op, base),
                    NEW h, Computes(h, S, pick, op, base, V)
             PROVE  \A s \in SUBSET S : h[s] = g[s]
  BY DEF Solves
<1> DEFINE Good == {s \in SUBSET S : h[s] = g[s]}
<1>1. {} \in Good
  BY DEF Recursive, Computes
<1>2. ASSUME NEW s \in SUBSET S, s # {}, \A t \in SUBSET s : t # s => t \in Good
      PROVE  s \in Good
  <2>1. pick[s] \in s
    BY <1>2 DEF Picks
  <2>2. h[s \ {pick[s]}] = g[s \ {pick[s]}] /\ g[s \ {pick[s]}] \in V
    BY <1>2, <2>1
  <2> QED BY <1>2, <2>2 DEF Recursive, Computes
<1> HIDE DEF Good
<1>3. SUBSET S \subseteq Good
  BY <1>1, <1>2, SizeInduction
<1> QED BY <1>3 DEF Good

\* And there is one.
LEMMA RecursiveExists ==
    ASSUME NEW S, IsFiniteSet(S), NEW pick, Picks(pick, S), NEW V, NEW base \in V,
           NEW op \in [S \X V -> V]
    PROVE  \E g \in [SUBSET S -> V] : Recursive(g, S, pick, op, base)
<1> DEFINE Upto(n) == {s \in SUBSET S : Cardinality(s) <= n}
           Unfolds(g, n) == \A s \in Upto(n) :
                              g[s] = IF s = {} THEN base ELSE op[<<pick[s], g[s \ {pick[s]}]>>]
           unsolved == {n \in Nat : ~ \E g \in [Upto(n) -> V] : Unfolds(g, n)}
<1>0. \A s \in SUBSET S : IsFiniteSet(s) /\ Cardinality(s) \in Nat /\ Cardinality(s) <= Cardinality(S)
  BY FS_Subset, FS_CardinalityType
<1>1. ASSUME NEW n \in Nat, NEW s \in Upto(n + 1), s # {}
      PROVE  pick[s] \in s /\ s \ {pick[s]} \in Upto(n) /\ s \ {pick[s]} \in SUBSET S
  <2>1. pick[s] \in s
    BY <1>1 DEF Picks
  <2>2. Cardinality(s \ {pick[s]}) = Cardinality(s) - 1
    BY <1>0, <2>1, FS_RemoveElement
  <2> QED BY <1>0, <2>1, <2>2
<1>2. 0 \notin unsolved
  <2> DEFINE g == [s \in Upto(0) |-> base]
  <2>1. \A s \in Upto(0) : s = {}
    BY <1>0, FS_EmptySet
  <2>2. g \in [Upto(0) -> V]
    OBVIOUS
  <2>3. Unfolds(g, 0)
    BY <2>1
  <2> QED BY <2>2, <2>3
<1>3. ASSUME NEW n \in Nat, n \notin unsolved PROVE n + 1 \notin unsolved
  <2>1. PICK g \in [Upto(n) -> V] : Unfolds(g, n)
    BY <1>3
  <2> DEFINE h == [s \in Upto(n + 1) |-> IF s = {} THEN base ELSE op[<<pick[s], g[s \ {pick[s]}]>>]]
  <2>2. h \in [Upto(n + 1) -> V]
    BY <1>1
  <2>3. ASSUME NEW s \in Upto(n) PROVE s \in Upto(n + 1) /\ h[s] = g[s]
    <3>1. s \in Upto(n + 1)
      BY <1>0
    <3> QED BY <2>1, <3>1
  <2>4. Unfolds(h, n + 1)
    <3> SUFFICES ASSUME NEW s \in Upto(n + 1)
                 PROVE  h[s] = IF s = {} THEN base ELSE op[<<pick[s], h[s \ {pick[s]}]>>]
      OBVIOUS
    <3>1. s # {} => h[s \ {pick[s]}] = g[s \ {pick[s]}]
      BY <1>1, <2>3
    <3> HIDE DEF Upto
    <3> QED BY <3>1
  <2> HIDE DEF h, Upto, Unfolds
  <2> QED BY <2>2, <2>4
<1>4. unsolved = {}
  <2> SUFFICES ASSUME unsolved # {} PROVE FALSE
    OBVIOUS
  <2>1. PICK n \in unsolved : \A m \in unsolved : n <= m
    BY LeastElement
  <2> HIDE DEF unsolved
  <2>2. n \in Nat /\ n # 0
    BY <1>2, <2>1 DEF unsolved
  <2>3. n - 1 \in Nat /\ n - 1 \notin unsolved
    BY <2>1, <2>2
  <2>4. (n - 1) + 1 \notin unsolved
    BY <1>3, <2>3
  <2> QED BY <2>1, <2>2, <2>4
<1>5. PICK g \in [Upto(Cardinality(S)) -> V] : Unfolds(g, Cardinality(S))
  BY <1>0, <1>4
<1>6. Upto(Cardinality(S)) = SUBSET S
  BY <1>0
<1>7. Recursive(g, S, pick, op, base)
  <2> HIDE DEF Upto
  <2> QED BY <1>5, <1>6 DEF Recursive
<1> QED BY <1>5, <1>6, <1>7

\* The recursion of FoldLeft takes the last position off.
LastOf(n) == [s \in SUBSET (1..n) |-> Max(s)]

\* Whatever is folded over a sequence of n elements, there is a function that does it.
LEMMA FoldExists ==
    ASSUME NEW n \in Nat, NEW V, NEW base \in V, NEW op \in [(1..n) \X V -> V]
    PROVE  \E g \in [SUBSET (1..n) -> V] : Recursive(g, 1..n, LastOf(n), op, base)
<1>1. Picks(LastOf(n), 1..n)
  BY MaxOf DEF Picks, LastOf
<1>2. IsFiniteSet(1..n)
  BY FS_Interval
<1> QED BY <1>1, <1>2, RecursiveExists

\* The last one of the first i positions is i.
LEMMA LastOne ==
    ASSUME NEW n \in Nat, NEW i \in 1..n
    PROVE  Max(1..i) = i /\ (1..i) \ {i} = 1..(i - 1) /\ 1..i # {} /\ 1..i \in SUBSET (1..n)
<1>1. 1..i \in SUBSET (1..n) /\ 1..i # {}
  OBVIOUS
<1>2. Max(1..i) \in 1..i /\ \A x \in 1..i : x <= Max(1..i)
  BY <1>1, MaxOf
<1> QED BY <1>1, <1>2

-----------------------------------------------------------------------------
(* Sums.                                                                   *)

\* The recursion of MapThenSumSet: any element is taken, and f of it is added.
Arbitrary(S) == [s \in SUBSET S |-> CHOOSE x \in s : TRUE]
Adds(f, S)   == [p \in S \X Nat |-> f[p[1]] + p[2]]

\* What MapThenSumSet unfolds to.
Sums(h, f, S) ==
    h = [s \in SUBSET S |-> IF s = {} THEN 0
                            ELSE LET x == CHOOSE x \in s : TRUE IN f[x] + h[s \ {x}]]

\* The sum of the numbers f gives for S.
Total(f, S) == MapThenSumSet(LAMBDA x : f[x], S)

\* What CHOOSE takes of a nonempty set is in it.
LEMMA ArbitraryPicks ==
    \A S : /\ Picks(Arbitrary(S), S)
           /\ \A s \in SUBSET S : Arbitrary(S)[s] = CHOOSE x \in s : TRUE
<1> SUFFICES ASSUME NEW S, NEW s \in SUBSET S, s # {}
             PROVE  Arbitrary(S)[s] \in s
  BY DEF Picks, Arbitrary
<1> QED BY DEF Arbitrary

\* A sum is an instance of the recursion.
LEMMA SumsCompute ==
    ASSUME NEW S, NEW f, \A x \in S : f[x] \in Nat, NEW h, Sums(h, f, S)
    PROVE  Computes(h, S, Arbitrary(S), Adds(f, S), 0, Nat)
<1>1. ASSUME NEW s \in SUBSET S, s # {}, h[s \ {Arbitrary(S)[s]}] \in Nat
      PROVE  h[s] = Adds(f, S)[<<Arbitrary(S)[s], h[s \ {Arbitrary(S)[s]}]>>]
  <2>1. Arbitrary(S)[s] \in S /\ Arbitrary(S)[s] = CHOOSE x \in s : TRUE
    BY <1>1, ArbitraryPicks DEF Picks
  <2>2. h[s] = f[Arbitrary(S)[s]] + h[s \ {Arbitrary(S)[s]}]
    BY <1>1, <2>1 DEF Sums
  <2> QED BY <1>1, <2>1, <2>2 DEF Adds
<1>2. h[{}] = 0
  BY DEF Sums
<1> QED BY <1>1, <1>2 DEF Computes

\* Finitely many numbers.
Summable(f, S) == IsFiniteSet(S) /\ \A x \in S : f[x] \in Nat

\* g gives the sums of all parts of S, and nothing else does.
TheSum(g, f, S) ==
    /\ g \in [SUBSET S -> Nat]
    /\ Sums(g, f, S)
    /\ \A h : Sums(h, f, S) => \A s \in SUBSET S : h[s] = g[s]

\* Finitely many numbers have a sum.
LEMMA SumsExist ==
    \A f, S : Summable(f, S) => \E g : TheSum(g, f, S)
<1> SUFFICES ASSUME NEW S, IsFiniteSet(S), NEW f, \A x \in S : f[x] \in Nat
             PROVE  \E g : TheSum(g, f, S)
  BY DEF Summable
<1>1. Adds(f, S) \in [S \X Nat -> Nat] /\ Picks(Arbitrary(S), S)
  BY ArbitraryPicks DEF Adds
<1>2. PICK g \in [SUBSET S -> Nat] : Recursive(g, S, Arbitrary(S), Adds(f, S), 0)
  BY <1>1, RecursiveExists
<1>3. Sums(g, f, S)
  <2> DEFINE g2 == [s \in SUBSET S |-> IF s = {} THEN 0
                         ELSE LET x == CHOOSE x \in s : TRUE IN f[x] + g[s \ {x}]]
  <2>1. ASSUME NEW s \in SUBSET S PROVE g[s] = g2[s]
    <3>1. s # {} => Arbitrary(S)[s] \in s /\ Arbitrary(S)[s] = CHOOSE x \in s : TRUE
      BY ArbitraryPicks DEF Picks
    <3>2. CASE s = {}
      BY <1>2, <3>2 DEF Recursive
    <3>3. CASE s # {}
      <4>1. g[s] = Adds(f, S)[<<Arbitrary(S)[s], g[s \ {Arbitrary(S)[s]}]>>]
        BY <1>2, <3>3 DEF Recursive
      <4> QED BY <3>1, <3>3, <4>1 DEF Adds
    <3> QED BY <3>2, <3>3
  <2>2. g = [s \in SUBSET S |-> g[s]] /\ g2 = [s \in SUBSET S |-> g2[s]]
    OBVIOUS
  <2> HIDE DEF g2
  <2>3. g = g2
    BY <2>1, <2>2
  <2> QED BY <2>3 DEF g2, Sums
<1>4. ASSUME NEW h, Sums(h, f, S) PROVE \A s \in SUBSET S : h[s] = g[s]
  <2>1. Computes(h, S, Arbitrary(S), Adds(f, S), 0, Nat)
    BY <1>4, SumsCompute
  <2>2. Solves(g, S, Arbitrary(S), Adds(f, S), 0, Nat)
    BY <1>1, <1>2 DEF Solves
  <2> QED BY <2>1, <2>2, RecursiveUnique
<1> QED BY <1>2, <1>3, <1>4 DEF TheSum

\* It is what the fold of the library chooses.
LEMMA TotalSums ==
    ASSUME NEW S, NEW f, Summable(f, S), NEW h, Sums(h, f, S)
    PROVE  Total(f, S) = h[S] /\ h[S] \in Nat
<1> DEFINE iter == CHOOSE k : Sums(k, f, S)
<1>1. Sums(iter, f, S)
  OBVIOUS
<1>2. Total(f, S) = iter[S]
  BY DEF Total, MapThenSumSet, MapThenFoldSet, Sums
<1>3. PICK g : TheSum(g, f, S)
  BY ONLY Summable(f, S), SumsExist
<1> HIDE DEF iter
<1>4. iter[S] = g[S] /\ h[S] = g[S]
  BY <1>1, <1>3 DEF TheSum
<1>5. h[S] \in Nat
  BY <1>3, <1>4 DEF TheSum
<1> QED BY <1>2, <1>4, <1>5

\* A sum of a part of S is part of the recursion for S.
LEMMA TotalPart ==
    ASSUME NEW S, NEW f, Summable(f, S), NEW h, Sums(h, f, S), NEW T \in SUBSET S
    PROVE  Total(f, T) = h[T]
<1> DEFINE k == [s \in SUBSET T |-> h[s]]
           a == [s \in SUBSET T |-> IF s = {} THEN 0
                         ELSE LET x == CHOOSE x \in s : TRUE IN f[x] + k[s \ {x}]]
<1>1. Summable(f, T)
  BY FS_Subset DEF Summable
<1>2. \A s \in SUBSET T : k[s] = a[s]
  BY DEF Sums
<1>3. k = [s \in SUBSET T |-> k[s]] /\ a = [s \in SUBSET T |-> a[s]]
  OBVIOUS
<1>4. (Sums(k, f, T) <=> k = a) /\ k[T] = h[T]
  BY DEF Sums
<1> HIDE DEF a, k
<1> QED BY <1>1, <1>2, <1>3, <1>4, TotalSums

\* An element of a set is counted in its sum, whichever it is.
LEMMA TotalTake ==
    ASSUME NEW S, NEW f, Summable(f, S)
    PROVE  /\ Total(f, {}) = 0
           /\ \A T \in SUBSET S : Total(f, T) \in Nat
           /\ \A T \in SUBSET S : \A x \in T : Total(f, T) = f[x] + Total(f, T \ {x})
<1>1. PICK g \in [SUBSET S -> Nat] : Sums(g, f, S)
  BY SumsExist DEF TheSum
<1>2. \A T \in SUBSET S : Total(f, T) = g[T]
  BY <1>1, TotalPart
<1>3. IsFiniteSet(S) /\ \A x \in S : f[x] \in Nat
  BY DEF Summable
<1> DEFINE Good == {T \in SUBSET S : \A x \in T : g[T] = f[x] + g[T \ {x}]}
<1>4. {} \in Good
  OBVIOUS
<1>5. ASSUME NEW T \in SUBSET S, T # {}, \A U \in SUBSET T : U # T => U \in Good
      PROVE  T \in Good
  <2> SUFFICES ASSUME NEW x \in T PROVE g[T] = f[x] + g[T \ {x}]
    OBVIOUS
  <2>1. PICK y : y = CHOOSE z \in T : TRUE
    OBVIOUS
  <2>2. y \in T /\ g[T] = f[y] + g[T \ {y}]
    BY <1>1, <2>1 DEF Sums
  <2>3. CASE x # y
    <3>1. PICK R : R = (T \ {x}) \ {y}
      OBVIOUS
    <3>2. (T \ {y}) \ {x} = R /\ R \in SUBSET S
      BY <3>1
    <3>3. g[T \ {y}] = f[x] + g[R] /\ g[T \ {x}] = f[y] + g[R]
      BY <1>5, <2>2, <2>3, <3>1, <3>2
    <3>4. f[x] \in Nat /\ f[y] \in Nat /\ g[R] \in Nat
      BY <1>3, <2>2, <3>2
    <3>5. f[y] + (f[x] + g[R]) = f[x] + (f[y] + g[R])
      BY ONLY <3>4
    <3> QED BY ONLY <2>2, <3>3, <3>5
  <2> QED BY <2>2, <2>3
<1> HIDE DEF Good
<1>6. SUBSET S \subseteq Good
  BY <1>3, <1>4, <1>5, SizeInduction
<1>7. g[{}] = 0
  BY <1>1 DEF Sums
<1> QED BY <1>2, <1>6, <1>7 DEF Good

\* Equal numbers have equal sums.
LEMMA TotalAgree ==
    ASSUME NEW S, NEW f, NEW g, Summable(f, S), \A x \in S : f[x] = g[x]
    PROVE  Total(f, S) = Total(g, S)
<1>1. Summable(g, S)
  BY DEF Summable
<1> DEFINE Good == {T \in SUBSET S : Total(f, T) = Total(g, T)}
<1>2. {} \in Good
  BY <1>1, TotalTake
<1>3. ASSUME NEW T \in SUBSET S, T # {}, \A U \in SUBSET T : U # T => U \in Good
      PROVE  T \in Good
  <2>1. PICK x \in T : TRUE
    BY <1>3
  <2>2. Total(f, T \ {x}) = Total(g, T \ {x})
    BY <1>3
  <2>3. /\ Total(f, T) = f[x] + Total(f, T \ {x})
        /\ Total(g, T) = g[x] + Total(g, T \ {x})
    BY <1>1, TotalTake
  <2> QED BY <2>2, <2>3
<1> HIDE DEF Good
<1>4. SUBSET S \subseteq Good
  BY <1>2, <1>3, SizeInduction DEF Summable
<1> QED BY <1>4 DEF Good

\* A part is not more than the whole.
LEMMA TotalOfPart ==
    ASSUME NEW S, NEW f, Summable(f, S), NEW T \in SUBSET S
    PROVE  Total(f, T) <= Total(f, S)
<1> DEFINE Good == {U \in SUBSET S : Total(f, S \ U) <= Total(f, S)}
<1>0. \A U \in SUBSET S : Total(f, U) \in Nat
  BY TotalTake
<1>1. {} \in Good
  BY <1>0
<1>2. ASSUME NEW U \in SUBSET S, U # {}, \A V \in SUBSET U : V # U => V \in Good
      PROVE  U \in Good
  <2>1. PICK x \in U : TRUE
    BY <1>2
  <2>2. PICK R : R = S \ (U \ {x})
    OBVIOUS
  <2>3. R \in SUBSET S /\ x \in R /\ R \ {x} = S \ U
    BY <2>2
  <2>4. Total(f, R) <= Total(f, S)
    BY <1>2, <2>2
  <2>5. Total(f, R) = f[x] + Total(f, S \ U) /\ f[x] \in Nat
    BY <2>3, TotalTake DEF Summable
  <2>6. Total(f, R) \in Nat /\ Total(f, S) \in Nat /\ Total(f, S \ U) \in Nat
    BY <1>0, <2>3
  <2> QED BY <2>4, <2>5, <2>6
<1> HIDE DEF Good
<1>3. SUBSET S \subseteq Good
  BY <1>1, <1>2, SizeInduction DEF Summable
<1>4. S \ (S \ T) = T
  OBVIOUS
<1> QED BY <1>3, <1>4 DEF Good

\* A proper part of positive numbers sums up to less.
LEMMA TotalOfProper ==
    ASSUME NEW S, NEW f, Summable(f, S), \A x \in S : f[x] # 0, NEW T \in SUBSET S, T # S
    PROVE  Total(f, T) < Total(f, S)
<1>1. PICK x \in S : x \notin T
  OBVIOUS
<1>2. PICK R : R = S \ {x}
  OBVIOUS
<1>3. R \in SUBSET S /\ T \in SUBSET R /\ Summable(f, R)
  BY <1>1, <1>2, FS_Subset DEF Summable
<1>4. Total(f, T) <= Total(f, R)
  BY <1>3, TotalOfPart
<1>5. Total(f, S) = f[x] + Total(f, R) /\ f[x] \in Nat /\ f[x] # 0
  BY <1>1, <1>2, TotalTake DEF Summable
<1>6. Total(f, T) \in Nat /\ Total(f, R) \in Nat
  BY <1>3, TotalTake
<1> QED BY <1>4, <1>5, <1>6

-----------------------------------------------------------------------------
(* Folds over sequences, one element after the other.                      *)

\* g takes the last position off.
Unfolds(g, n, op, base) ==
    /\ g[{}] = base
    /\ \A s \in SUBSET (1..n) : s # {} =>
          /\ Max(s) \in s /\ s \ {Max(s)} \in SUBSET (1..n)
          /\ g[s] = op[<<Max(s), g[s \ {Max(s)}]>>]

\* FoldExists, with the position that is taken off.
LEMMA FoldUnfolds ==
    ASSUME NEW n \in Nat, NEW V, NEW base \in V, NEW op \in [(1..n) \X V -> V]
    PROVE  \E g \in [SUBSET (1..n) -> V] : Unfolds(g, n, op, base)
<1>1. PICK g \in [SUBSET (1..n) -> V] : Recursive(g, 1..n, LastOf(n), op, base)
  BY FoldExists
<1>2. g[{}] = base
  BY <1>1 DEF Recursive
<1>3. ASSUME NEW s \in SUBSET (1..n), s # {}
      PROVE  /\ Max(s) \in s /\ s \ {Max(s)} \in SUBSET (1..n)
             /\ g[s] = op[<<Max(s), g[s \ {Max(s)}]>>]
  <2>1. PICK x : x = Max(s)
    OBVIOUS
  <2>2. x \in s /\ s \ {x} \in SUBSET (1..n) /\ LastOf(n)[s] = x
    BY <1>3, <2>1, MaxOf DEF LastOf
  <2>3. g[s] = op[<<x, g[s \ {x}]>>]
    BY <1>1, <1>3, <2>2 DEF Recursive
  <2> QED BY <2>1, <2>2, <2>3
<1> QED BY <1>2, <1>3 DEF Unfolds

\* A chain of values, one for each position.
Chain(d, n, op, base) == d[0] = base /\ \A i \in 1..n : d[i] = op[<<i, d[i - 1]>>]

EndsWith(d, n, last) == d[n] = last

\* h takes the last position off, as long as what it computes is in V.
Follows(h, n, op, base, V) ==
    /\ h[{}] = base
    /\ \A s \in SUBSET (1..n) : s # {} /\ h[s \ {Max(s)}] \in V =>
                                    h[s] = op[<<Max(s), h[s \ {Max(s)}]>>]

\* What is folded is the last of a chain of values.
LEMMA FoldChain ==
    ASSUME NEW n \in Nat, NEW V, NEW base \in V, NEW op \in [(1..n) \X V -> V],
           NEW h, Follows(h, n, op, base, V)
    PROVE  \E d \in [0..n -> V] : Chain(d, n, op, base) /\ EndsWith(d, n, h[1..n])
<1>1. PICK d : d = [i \in 0..n |-> h[1..i]]
  OBVIOUS
<1>2. d[0] = base
  <2>1. 1..0 = {}
    OBVIOUS
  <2> QED BY <1>1, <2>1 DEF Follows
<1>3. ASSUME NEW i \in 1..n, d[i - 1] \in V PROVE d[i] = op[<<i, d[i - 1]>>] /\ d[i] \in V
  <2>1. Max(1..i) = i /\ (1..i) \ {i} = 1..(i - 1) /\ 1..i # {} /\ 1..i \in SUBSET (1..n)
    BY LastOne
  <2>2. i \in 0..n /\ i - 1 \in 0..n /\ d[i] = h[1..i] /\ d[i - 1] = h[1..(i - 1)]
    BY <1>1
  <2>3. d[i] = op[<<i, d[i - 1]>>]
    BY <1>3, <2>1, <2>2 DEF Follows
  <2>4. <<i, d[i - 1]>> \in (1..n) \X V
    BY <1>3
  <2> QED BY <2>3, <2>4
<1>4. PICK typed : typed = {i \in 0..n : d[i] \in V}
  OBVIOUS
<1>5. 0..n \subseteq typed
  <2>1. 0 \in typed
    BY <1>2, <1>4
  <2>2. ASSUME NEW i \in 1..n, i - 1 \in typed PROVE i \in typed
    <3>1. d[i - 1] \in V /\ i \in 0..n
      BY <1>4, <2>2
    <3>2. d[i] \in V
      BY <1>3, <3>1
    <3> QED BY ONLY <1>4, <3>1, <3>2
  <2>3. \A i \in 1..n : i - 1 \in typed => i \in typed
    BY <2>2
  <2> QED BY ONLY n \in Nat, <2>1, <2>3, UptoInduction
<1>6. d \in [0..n -> V]
  BY <1>1, <1>4, <1>5
<1>7. ASSUME NEW i \in 1..n PROVE d[i] = op[<<i, d[i - 1]>>]
  <2>1. i - 1 \in 0..n
    OBVIOUS
  <2>2. d[i - 1] \in V
    BY <1>6, <2>1
  <2> QED BY <1>3, <2>2
<1>8. d[n] = h[1..n]
  BY <1>1
<1> QED BY <1>2, <1>6, <1>7, <1>8 DEF Chain, EndsWith

\* There is such a chain for any step.
LEMMA ChainExists ==
    ASSUME NEW n \in Nat, NEW V, NEW base \in V, NEW op \in [(1..n) \X V -> V]
    PROVE  \E d \in [0..n -> V] : Chain(d, n, op, base)
<1>1. PICK g \in [SUBSET (1..n) -> V] : Unfolds(g, n, op, base)
  BY FoldUnfolds
<1>2. Follows(g, n, op, base, V)
  BY <1>1 DEF Unfolds, Follows
<1> QED BY <1>2, FoldChain

\* What holds at the beginning of a chain, and is kept by its steps, holds at its end.
LEMMA ChainKeeps ==
    ASSUME NEW n \in Nat, NEW V, NEW d \in [0..n -> V], NEW Good, d[0] \in Good,
           \A i \in 1..n : d[i - 1] \in Good => d[i] \in Good
    PROVE  \A i \in 0..n : d[i] \in Good
<1>1. PICK at : at = {i \in 0..n : d[i] \in Good}
  OBVIOUS
<1>2. 0 \in at
  BY <1>1
<1>3. ASSUME NEW i \in 1..n, i - 1 \in at PROVE i \in at
  BY <1>1, <1>3
<1>4. \A i \in 1..n : i - 1 \in at => i \in at
  BY <1>3
<1>5. 0..n \subseteq at
  BY ONLY n \in Nat, <1>2, <1>4, UptoInduction
<1> QED BY <1>1, <1>5

\* FlattenSeq goes through the sequences one by one.
Joins(d, ss, S) ==
    /\ d \in [0..Len(ss) -> Seq(S)] /\ d[0] = <<>>
    /\ \A i \in 1..Len(ss) : d[i] = d[i - 1] \o ss[i]

LEMMA FlattenSteps ==
    ASSUME NEW S, NEW ss \in Seq(Seq(S))
    PROVE  \E d : Joins(d, ss, S) /\ FlattenSeq(ss) = d[Len(ss)]
<1>1. PICK n \in Nat : n = Len(ss) /\ DOMAIN ss = 1..n
  BY LenProperties
<1>2. PICK op : op = [p \in (1..n) \X Seq(S) |-> p[2] \o ss[p[1]]]
  OBVIOUS
<1>0. \A i \in 1..n : ss[i] \in Seq(S)
  BY <1>1
<1>3. op \in [(1..n) \X Seq(S) -> Seq(S)]
  BY <1>0, <1>2
<1>4. PICK d \in [0..n -> Seq(S)] : Chain(d, n, op, <<>>)
  <2>1. <<>> \in Seq(S)
    OBVIOUS
  <2> QED BY ONLY <1>3, <2>1, n \in Nat, ChainExists
<1>5. ASSUME NEW i \in 1..n PROVE d[i] = d[i - 1] \o ss[i]
  <2>1. <<i, d[i - 1]>> \in (1..n) \X Seq(S)
    BY <1>4
  <2> QED BY <1>2, <1>4, <2>1 DEF Chain
<1>6. Joins(d, ss, S) /\ d[0] = <<>>
  BY <1>1, <1>4, <1>5 DEF Joins, Chain
<1>9. n > 0 => d[1] = ss[1]
  <2> HAVE n > 0
  <2>1. d[1] = d[0] \o ss[1]
    <3>1. 1 \in 1..n /\ 1 - 1 = 0
      OBVIOUS
    <3> QED BY <1>5, <3>1
  <2>2. ss[1] \in Seq(S)
    BY <1>0
  <2> QED BY <1>6, <2>1, <2>2, ConcatEmptySeq
<1>7. CASE n = 0
  <2>1. FlattenSeq(ss) = ss /\ ss = <<>>
    BY <1>1, <1>7 DEF FlattenSeq
  <2> QED BY <1>1, <1>6, <1>7, <2>1
<1>8. CASE n # 0
  <2> DEFINE F(x) == x = [i \in 1..n |-> IF i = 1 THEN ss[i] ELSE x[i - 1] \o ss[i]]
  <2>1. PICK e : e = [i \in 1..n |-> d[i]]
    OBVIOUS
  <2>2. F(e)
    <3>1. ASSUME NEW i \in 1..n PROVE e[i] = IF i = 1 THEN ss[i] ELSE e[i - 1] \o ss[i]
      <4>1. CASE i = 1
        BY <1>9, <2>1, <4>1
      <4>2. CASE i # 1
        <5>1. i - 1 \in 1..n
          BY <4>2
        <5> QED BY <1>5, <2>1, <4>2, <5>1
      <4> QED BY <4>1, <4>2
    <3>2. e = [i \in 1..n |-> IF i = 1 THEN ss[i] ELSE e[i - 1] \o ss[i]]
      BY <2>1, <3>1
    <3> QED BY <3>2
  <2>3. PICK f : f = CHOOSE x : F(x)
    OBVIOUS
  <2>4. F(f)
    BY <2>2, <2>3
  <2>5. FlattenSeq(ss) = f[n]
    BY <1>1, <1>8, <2>3 DEF FlattenSeq
  <2>10. \A i \in 1..n : f[i] = IF i = 1 THEN ss[i] ELSE f[i - 1] \o ss[i]
    BY <2>4
  <2>6. PICK good : good = {i \in 0..n : i = 0 \/ f[i] = d[i]}
    OBVIOUS
  <2> HIDE DEF F
  <2>7. ASSUME NEW i \in 1..n, i - 1 \in good PROVE i \in good
    <3>0. i \in 0..n
      OBVIOUS
    <3>1. CASE i = 1
      BY <1>9, <2>10, <2>6, <3>0, <3>1
    <3>2. CASE i # 1
      <4>1. f[i] = f[i - 1] \o ss[i]
        BY <2>10, <3>2
      <4>2. f[i - 1] = d[i - 1]
        BY <2>6, <2>7, <3>2
      <4> QED BY <1>5, <2>6, <3>0, <4>1, <4>2
    <3> QED BY <3>1, <3>2
  <2>8. 0..n \subseteq good
    <3>1. 0 \in good
      BY <2>6
    <3>2. \A i \in 1..n : i - 1 \in good => i \in good
      BY <2>7
    <3> QED BY ONLY <3>1, <3>2, n \in Nat, UptoInduction
  <2>9. f[n] = d[n]
    BY <1>8, <2>6, <2>8
  <2> QED BY <1>1, <1>6, <2>5, <2>9
<1> QED BY <1>7, <1>8

\* What is flattened is a sequence of what the sequences consist of.
LEMMA FlattenType ==
    ASSUME NEW S, NEW ss \in Seq(Seq(S))
    PROVE  FlattenSeq(ss) \in Seq(S)
<1>1. PICK d : Joins(d, ss, S) /\ FlattenSeq(ss) = d[Len(ss)]
  BY FlattenSteps
<1> QED BY <1>1 DEF Joins
-----------------------------------------------------------------------------
(* Parts of sequences, and what is flattened one after the other.          *)

\* The front of a sequence, with one more of its elements.
LEMMA FrontPart ==
    ASSUME NEW S, NEW s \in Seq(S)
    PROVE  /\ \A i \in 0..Len(s) : SubSeq(s, 1, i) \in Seq(S)
           /\ \A i \in 1..Len(s) : SubSeq(s, 1, i) = SubSeq(s, 1, i - 1) \o <<s[i]>>
           /\ SubSeq(s, 1, Len(s)) = s
<1>1. PICK n \in Nat : n = Len(s) /\ DOMAIN s = 1..n /\ \A i \in 1..n : s[i] \in S
  BY LenProperties
<1>2. ASSUME NEW i \in 0..n PROVE SubSeq(s, 1, i) \in Seq(S) /\ Len(SubSeq(s, 1, i)) = i
                                 /\ \A j \in 1..i : SubSeq(s, 1, i)[j] = s[j]
  <2>1. \A j \in 1..i : s[j] \in S
    BY <1>1
  <2>2. SubSeq(s, 1, i) = [j \in 1..i |-> s[j]]
    BY <1>1
  <2> QED BY <2>1, <2>2
<1>3. ASSUME NEW i \in 1..n PROVE SubSeq(s, 1, i) = SubSeq(s, 1, i - 1) \o <<s[i]>>
  <2>1. PICK x : x = s[i]
    OBVIOUS
  <2>2. x \in S /\ i - 1 \in 0..n /\ i \in 0..n /\ i \in Nat
    BY <1>1, <2>1
  <2>3. PICK a, b : a = SubSeq(s, 1, i - 1) /\ b = SubSeq(s, 1, i)
    OBVIOUS
  <2>4. /\ a \in Seq(S) /\ Len(a) = i - 1 /\ \A j \in 1..(i - 1) : a[j] = s[j]
        /\ b \in Seq(S) /\ Len(b) = i /\ \A j \in 1..i : b[j] = s[j]
    BY <1>2, <2>2, <2>3
  <2>5. PICK c : c = Append(a, x)
    OBVIOUS
  <2>6. c \in Seq(S) /\ Len(c) = i /\ c[i] = x /\ \A j \in 1..(i - 1) : c[j] = a[j]
    BY <2>2, <2>4, <2>5
  <2>7. \A j \in 1..i : c[j] = b[j]
    BY <2>1, <2>2, <2>4, <2>6
  <2>8. c = b
    BY <2>4, <2>6, <2>7, SeqEqual
  <2>9. c = a \o <<x>>
    BY <2>2, <2>4, <2>5, AppendIsConcat
  <2> QED BY <2>1, <2>3, <2>8, <2>9
<1>4. SubSeq(s, 1, n) = s
  <2>1. n \in 0..n
    BY <1>1
  <2>2. PICK a : a = SubSeq(s, 1, n)
    OBVIOUS
  <2>3. a \in Seq(S) /\ Len(a) = n /\ \A j \in 1..n : a[j] = s[j]
    BY <1>2, <2>1, <2>2
  <2> QED BY <1>1, <2>2, <2>3, SeqEqual
<1> QED BY <1>1, <1>2, <1>3, <1>4

LEMMA PartType ==
    ASSUME NEW S, NEW s \in Seq(S), NEW a \in 1..Len(s), NEW b \in 1..Len(s), a <= b
    PROVE  /\ SubSeq(s, a, b) \in Seq(S) /\ Len(SubSeq(s, a, b)) = b - a + 1
           /\ DOMAIN SubSeq(s, a, b) = 1..(b - a + 1)
           /\ \A k \in 1..(b - a + 1) : SubSeq(s, a, b)[k] = s[a + k - 1] /\ a + k - 1 \in 1..Len(s)
<1>1. Len(s) \in Nat
  OBVIOUS
<1>2. \A j \in a..b : s[j] \in S
  BY <1>1, ElementOfSeq
<1>3. a \in Int /\ b \in Int
  BY <1>1
<1>4. /\ SubSeq(s, a, b) \in Seq(S)
      /\ Len(SubSeq(s, a, b)) = b - a + 1
      /\ \A i \in 1..(b - a + 1) : SubSeq(s, a, b)[i] = s[a + i - 1]
  BY <1>2, <1>3, SubSeqProperties
<1>5. \A k \in 1..(b - a + 1) : a + k - 1 \in 1..Len(s)
  BY <1>1
<1> QED BY <1>4, <1>5, LenProperties

\* Part of a sequence that grows at its end.
LEMMA PartGrows ==
    ASSUME NEW S, NEW s \in Seq(S), NEW i \in Nat, i + 1 \in 1..Len(s), NEW a \in 1..(i + 1)
    PROVE  /\ Append(SubSeq(s, a, i), s[i + 1]) = SubSeq(s, a, i + 1)
           /\ SubSeq(s, i + 1, i + 1) = <<s[i + 1]>>
           /\ SubSeq(s, i + 2, i + 1) = <<>>
           /\ SubSeq(s, a, i) = <<>> <=> a = i + 1
           /\ SubSeq(s, a, i) \in Seq(S)
<1>1. SubSeq(s, a, i) \in Seq(S) /\ Len(SubSeq(s, a, i)) = IF a <= i THEN i - a + 1 ELSE 0
  <2>1. \A j \in a..i : s[j] \in S
    OBVIOUS
  <2> QED BY <2>1, SubSeqProperties
<1>2. SubSeq(s, a, i + 1) = SubSeq(s, a, i) \o <<s[i + 1]>>
  <2>1. a \in 1..Len(s) /\ i + 1 \in a..Len(s) /\ (i + 1) - 1 = i
    OBVIOUS
  <2> QED BY <2>1, SubSeqRecursiveSecond
<1>3. s[i + 1] \in S
  OBVIOUS
<1>4. Append(SubSeq(s, a, i), s[i + 1]) = SubSeq(s, a, i) \o <<s[i + 1]>>
  BY <1>1, <1>3, AppendIsConcat
<1>5. SubSeq(s, i + 2, i + 1) = <<>> /\ SubSeq(s, i + 1, i) = <<>>
  BY SubSeqEmpty
<1>6. SubSeq(s, i + 1, i + 1) = <<s[i + 1]>>
  <2>1. i + 1 \in 1..Len(s) /\ i + 1 \in (i + 1)..Len(s) /\ (i + 1) - 1 = i
    OBVIOUS
  <2>2. SubSeq(s, i + 1, i + 1) = SubSeq(s, i + 1, i) \o <<s[i + 1]>>
    BY <2>1, SubSeqRecursiveSecond
  <2>3. <<s[i + 1]>> \in Seq(S)
    BY <1>3
  <2> QED BY <1>5, <2>2, <2>3, ConcatEmptySeq
<1>7. SubSeq(s, a, i) = <<>> <=> a = i + 1
  BY <1>1, <1>5, EmptySeq
<1> QED BY <1>1, <1>2, <1>4, <1>5, <1>6, <1>7

LEMMA FlattenOne ==
    ASSUME NEW S, NEW s \in Seq(S)
    PROVE  FlattenSeq(<<s>>) = s
<1>1. PICK ss : ss = <<s>>
  OBVIOUS
<1>2. ss \in Seq(Seq(S)) /\ Len(ss) = 1 /\ ss[1] = s
  BY <1>1
<1>3. PICK d : Joins(d, ss, S) /\ FlattenSeq(ss) = d[1]
  BY <1>2, FlattenSteps
<1>4. 1 \in 1..Len(ss) /\ 1 - 1 = 0
  BY <1>2
<1>5. d[1] = <<>> \o s
  BY <1>2, <1>3, <1>4 DEF Joins
<1> QED BY <1>1, <1>3, <1>5, ConcatEmptySeq

LEMMA FlattenConcat ==
    ASSUME NEW S, NEW ss \in Seq(Seq(S)), NEW tt \in Seq(Seq(S))
    PROVE  FlattenSeq(ss \o tt) = FlattenSeq(ss) \o FlattenSeq(tt)
<1>1. PICK n \in Nat : n = Len(ss) /\ DOMAIN ss = 1..n
  BY LenProperties
<1>2. PICK m \in Nat : m = Len(tt) /\ DOMAIN tt = 1..m
  BY LenProperties
<1>3. PICK all : all = ss \o tt
  OBVIOUS
<1>4. /\ all \in Seq(Seq(S)) /\ Len(all) = n + m
      /\ \A i \in 1..(n + m) : all[i] = IF i <= n THEN ss[i] ELSE tt[i - n]
  <2>1. /\ all \in Seq(Seq(S)) /\ Len(all) = Len(ss) + Len(tt)
        /\ \A i \in 1..(Len(ss) + Len(tt)) : all[i] = IF i <= Len(ss) THEN ss[i] ELSE tt[i - Len(ss)]
    BY <1>3, ConcatProperties
  <2> QED BY <1>1, <1>2, <2>1
<1>5. PICK d : Joins(d, ss, S) /\ FlattenSeq(ss) = d[Len(ss)]
  BY FlattenSteps
<1>6. PICK f : Joins(f, tt, S) /\ FlattenSeq(tt) = f[Len(tt)]
  BY FlattenSteps
<1>7. PICK e : Joins(e, all, S) /\ FlattenSeq(all) = e[Len(all)]
  BY <1>4, FlattenSteps
<1>8. /\ d[0] = <<>> /\ f[0] = <<>> /\ e[0] = <<>>
      /\ \A i \in 1..n : d[i] = d[i - 1] \o ss[i]
      /\ \A i \in 1..m : f[i] = f[i - 1] \o tt[i]
      /\ \A i \in 1..(n + m) : e[i] = e[i - 1] \o all[i]
      /\ d \in [0..n -> Seq(S)] /\ f \in [0..m -> Seq(S)]
  BY <1>1, <1>2, <1>4, <1>5, <1>6, <1>7 DEF Joins
<1>9. PICK same : same = {i \in 0..n : e[i] = d[i]}
  OBVIOUS
<1>10. 0 \in same
  BY <1>8, <1>9
<1>11. ASSUME NEW i \in 1..n, i - 1 \in same PROVE i \in same
  <2>1. i \in 1..(n + m) /\ i <= n /\ i \in 0..n
    OBVIOUS
  <2>2. e[i] = e[i - 1] \o ss[i]
    BY <1>4, <1>8, <2>1
  <2>3. e[i - 1] = d[i - 1]
    BY <1>9, <1>11
  <2> QED BY <1>8, <1>9, <2>1, <2>2, <2>3
<1>12. 0..n \subseteq same
  <2>1. \A i \in 1..n : i - 1 \in same => i \in same
    BY <1>11
  <2> QED BY ONLY <1>10, <2>1, n \in Nat, UptoInduction
<1>13. PICK first \in Seq(S) : first = d[n] /\ e[n] = first
  <2>1. n \in 0..n
    OBVIOUS
  <2>2. e[n] = d[n] /\ d[n] \in Seq(S)
    BY <1>8, <1>9, <1>12, <2>1
  <2> QED BY <2>2
<1>14. PICK more : more = {j \in 0..m : e[n + j] = first \o f[j]}
  OBVIOUS
<1>15. 0 \in more
  <2>1. n + 0 = n /\ first \o <<>> = first /\ 0 \in 0..m
    BY ConcatEmptySeq
  <2>2. first \o f[0] = first
    BY <1>8, <2>1
  <2>3. e[n + 0] = first \o f[0]
    BY <1>13, <2>1, <2>2
  <2> QED BY <1>14, <2>1, <2>3
<1>16. ASSUME NEW j \in 1..m, j - 1 \in more PROVE j \in more
  <2>1. n + j \in 1..(n + m) /\ ~(n + j <= n) /\ (n + j) - n = j /\ (n + j) - 1 = n + (j - 1)
          /\ j \in 0..m /\ j - 1 \in 0..m
    OBVIOUS
  <2>2. e[n + j] = e[(n + j) - 1] \o all[n + j]
    BY <1>8, <2>1
  <2>3. all[n + j] = tt[j]
    BY <1>4, <2>1
  <2>4. e[(n + j) - 1] = first \o f[j - 1]
    BY <1>14, <1>16, <2>1
  <2>5. PICK t \in Seq(S) : t = tt[j]
    BY <1>2, ElementOfSeq
  <2>6. PICK u \in Seq(S) : u = f[j - 1]
    BY <1>8, <2>1
  <2>7. (first \o u) \o t = first \o (u \o t)
    BY ConcatAssociative
  <2>8. f[j] = u \o t
    BY <1>8, <2>5, <2>6
  <2>9. e[n + j] = first \o f[j]
    BY <2>2, <2>3, <2>4, <2>5, <2>6, <2>7, <2>8
  <2> QED BY <1>14, <2>1, <2>9
<1>17. 0..m \subseteq more
  <2>1. \A j \in 1..m : j - 1 \in more => j \in more
    BY <1>16
  <2> QED BY ONLY <1>15, <2>1, m \in Nat, UptoInduction
<1>18. e[n + m] = first \o f[m]
  <2>1. m \in 0..m
    OBVIOUS
  <2> QED BY <1>14, <1>17, <2>1
<1> QED BY <1>1, <1>2, <1>3, <1>4, <1>5, <1>6, <1>7, <1>13, <1>18

LEMMA FlattenNothing == FlattenSeq(<<>>) = <<>>
<1>1. <<>> \in Seq(Seq({})) /\ Len(<<>>) = 0
  OBVIOUS
<1>2. PICK d : Joins(d, <<>>, {}) /\ FlattenSeq(<<>>) = d[Len(<<>>)]
  BY <1>1, FlattenSteps
<1> QED BY <1>1, <1>2 DEF Joins

LEMMA FlattenAppend ==
    ASSUME NEW S, NEW ss \in Seq(Seq(S)), NEW s \in Seq(S)
    PROVE  FlattenSeq(Append(ss, s)) = FlattenSeq(ss) \o s
<1>1. PICK one : one = <<s>>
  OBVIOUS
<1>2. one \in Seq(Seq(S)) /\ Append(ss, s) = ss \o one
  BY <1>1, AppendIsConcat
<1>3. FlattenSeq(ss \o one) = FlattenSeq(ss) \o FlattenSeq(one)
  BY <1>2, FlattenConcat
<1> QED BY <1>1, <1>2, <1>3, FlattenOne

LEMMA FlattenOfNothing ==
    ASSUME NEW S, NEW ss \in Seq(Seq(S)), \A i \in 1..Len(ss) : ss[i] = <<>>
    PROVE  FlattenSeq(ss) = <<>>
<1>1. PICK n \in Nat : n = Len(ss)
  BY LenProperties
<1>2. PICK d : Joins(d, ss, S) /\ FlattenSeq(ss) = d[Len(ss)]
  BY FlattenSteps
<1>3. d[0] = <<>> /\ \A i \in 1..n : d[i] = d[i - 1] \o ss[i]
  BY <1>1, <1>2 DEF Joins
<1>4. PICK good : good = {i \in 0..n : d[i] = <<>>}
  OBVIOUS
<1>5. 0 \in good
  BY <1>3, <1>4
<1>6. \A i \in 1..n : i - 1 \in good => i \in good
  <2> TAKE i \in 1..n
  <2> HAVE i - 1 \in good
  <2>1. d[i - 1] = <<>> /\ ss[i] = <<>>
    BY <1>1, <1>4
  <2>2. <<>> \o <<>> = <<>> /\ i \in 0..n
    OBVIOUS
  <2> QED BY <1>3, <1>4, <2>1, <2>2
<1>7. 0..n \subseteq good
  BY ONLY <1>5, <1>6, n \in Nat, UptoInduction
<1> QED BY <1>1, <1>2, <1>4, <1>7

\* Another last element.
LastIs(new, s, n, x) == n = Len(s) /\ new = [s EXCEPT ![n] = x]
Ends(s, front, x) == s = Append(front, x)

LEMMA LastReplaced ==
    ASSUME NEW S, NEW s \in Seq(S), NEW n \in Nat \ {0}, NEW x \in S, NEW y, y = s[n],
           NEW new, LastIs(new, s, n, x)
    PROVE  \E front \in Seq(S) : Ends(s, front, y) /\ Ends(new, front, x)
<1> USE DEF LastIs
<1>1. PICK front : front = SubSeq(s, 1, n - 1)
  OBVIOUS
<1>2. n \in 1..Len(s) /\ n - 1 \in 0..Len(s) /\ y \in S
  BY ElementOfSeq
<1>3. front \in Seq(S)
  BY <1>1, <1>2, FrontPart
<1>4. s = front \o <<s[n]>>
  BY <1>1, <1>2, FrontPart
<1>6. s = Append(front, y)
  BY <1>2, <1>3, <1>4, AppendIsConcat
<1>7. Len(front) = n - 1
  BY <1>2, <1>3, <1>6
<1>8. PICK more : more = Append(front, x)
  OBVIOUS
<1>9. new \in Seq(S) /\ Len(new) = n /\ \A i \in 1..n : new[i] = IF i = n THEN x ELSE s[i]
  BY <1>2
<1>10. more \in Seq(S) /\ Len(more) = n /\ more[n] = x /\ \A i \in 1..(n - 1) : more[i] = front[i]
  BY <1>3, <1>7, <1>8, AppendProperties
<1>11. \A i \in 1..(n - 1) : s[i] = front[i]
  BY <1>2, <1>3, <1>6, <1>7, AppendProperties
<1>12. \A i \in 1..n : i = n \/ i \in 1..(n - 1)
  OBVIOUS
<1>13. \A i \in 1..n : new[i] = more[i]
  BY <1>9, <1>10, <1>11, <1>12
<1>14. new = more
  BY <1>9, <1>10, <1>13, SeqEqual
<1> QED BY <1>3, <1>6, <1>8, <1>14 DEF Ends

\* One element more in the last of the sequences.
LEMMA LastGrows ==
    ASSUME NEW S, NEW ss \in Seq(Seq(S)), NEW n \in Nat \ {0}, NEW x \in S,
           NEW more, more = Append(ss[n], x), NEW all, LastIs(all, ss, n, more)
    PROVE  FlattenSeq(all) = FlattenSeq(ss) \o <<x>>
<1>1. PICK s \in Seq(S) : s = ss[n]
  BY ElementOfSeq DEF LastIs
<1>2. more = Append(s, x) /\ more \in Seq(S)
  BY <1>1, AppendProperties
<1>3. PICK front \in Seq(Seq(S)) : ss = Append(front, s) /\ all = Append(front, more)
  <2>1. PICK T : T = Seq(S)
    OBVIOUS
  <2>2. \E front \in Seq(T) : Ends(ss, front, s) /\ Ends(all, front, more)
    BY <1>1, <1>2, <2>1, LastReplaced
  <2> QED BY <2>1, <2>2 DEF Ends
<1>4. FlattenSeq(ss) = FlattenSeq(front) \o s /\ FlattenSeq(all) = FlattenSeq(front) \o more
  BY <1>2, <1>3, FlattenAppend
<1>5. PICK a \in Seq(S), one \in Seq(S) : a = FlattenSeq(front) /\ one = <<x>>
  <2>1. FlattenSeq(front) \in Seq(S)
    BY FlattenType
  <2>2. <<x>> \in Seq(S)
    OBVIOUS
  <2> QED BY <2>1, <2>2
<1>6. more = s \o one
  BY <1>2, <1>5, AppendIsConcat
<1>7. (a \o s) \o one = a \o (s \o one)
  BY ONLY a \in Seq(S), s \in Seq(S), one \in Seq(S), ConcatAssociative
<1> QED BY <1>4, <1>5, <1>6, <1>7

-----------------------------------------------------------------------------
(* A sequence without some of its elements.                                *)

\* Nothing of an element of N, another element itself.
Unless(x, N) == IF x \in N THEN <<>> ELSE <<x>>

\* A sequence without the elements of N.
Singles(s, N) == [k \in DOMAIN s |-> Unless(s[k], N)]
Keep(s, N) == FlattenSeq(Singles(s, N))

LEMMA KeptType ==
    ASSUME NEW S, NEW N, NEW s \in Seq(S)
    PROVE  /\ Singles(s, N) \in Seq(Seq(S)) /\ Len(Singles(s, N)) = Len(s)
           /\ \A k \in DOMAIN s : Singles(s, N)[k] = Unless(s[k], N)
           /\ Keep(s, N) \in Seq(S)
<1>1. PICK n \in Nat : n = Len(s) /\ DOMAIN s = 1..n /\ \A k \in 1..n : s[k] \in S
  BY LenProperties
<1>2. \A x \in S : Unless(x, N) \in Seq(S)
  BY DEF Unless
<1>3. \A k \in 1..n : Unless(s[k], N) \in Seq(S)
  BY <1>1, <1>2
<1>4. PICK ss : ss = Singles(s, N)
  OBVIOUS
<1>5. ss = [k \in 1..n |-> Unless(s[k], N)]
  BY <1>1, <1>4 DEF Singles
<1>6. ss \in Seq(Seq(S)) /\ Len(ss) = n /\ \A k \in 1..n : ss[k] = Unless(s[k], N)
  BY <1>3, <1>5
<1>7. FlattenSeq(ss) \in Seq(S)
  BY <1>6, FlattenType
<1> QED BY <1>1, <1>4, <1>6, <1>7 DEF Keep

\* Nothing is left of a sequence of elements of N.
LEMMA KeepNone ==
    ASSUME NEW S, NEW N, NEW s \in Seq(S), \A k \in DOMAIN s : s[k] \in N
    PROVE  Keep(s, N) = <<>>
<1>1. PICK ss : ss = Singles(s, N)
  OBVIOUS
<1>2. PICK n \in Nat : n = Len(s) /\ DOMAIN s = 1..n
  BY LenProperties
<1>3. ss \in Seq(Seq(S)) /\ Len(ss) = n /\ \A k \in 1..n : ss[k] = Unless(s[k], N)
  BY <1>1, <1>2, KeptType
<1>4. \A k \in 1..Len(ss) : ss[k] = <<>>
  BY <1>2, <1>3 DEF Unless
<1> QED BY <1>1, <1>3, <1>4, FlattenOfNothing DEF Keep

\* What is kept of two sequences is what is kept of each.
LEMMA KeepConcat ==
    ASSUME NEW S, NEW N, NEW s \in Seq(S), NEW t \in Seq(S)
    PROVE  Keep(s \o t, N) = Keep(s, N) \o Keep(t, N)
<1>1. PICK n \in Nat : n = Len(s) /\ DOMAIN s = 1..n
  BY LenProperties
<1>2. PICK m \in Nat : m = Len(t) /\ DOMAIN t = 1..m
  BY LenProperties
<1>3. PICK all : all = s \o t
  OBVIOUS
<1>4. /\ all \in Seq(S) /\ Len(all) = n + m /\ DOMAIN all = 1..(n + m)
      /\ \A i \in 1..(n + m) : all[i] = IF i <= n THEN s[i] ELSE t[i - n]
  <2>1. /\ all \in Seq(S) /\ Len(all) = Len(s) + Len(t)
        /\ \A i \in 1..(Len(s) + Len(t)) : all[i] = IF i <= Len(s) THEN s[i] ELSE t[i - Len(s)]
    BY <1>3, ConcatProperties
  <2> QED BY <1>1, <1>2, <2>1, LenProperties
<1>5. PICK a, b, c : a = Singles(s, N) /\ b = Singles(t, N) /\ c = Singles(all, N)
  OBVIOUS
<1>6. /\ a \in Seq(Seq(S)) /\ Len(a) = n /\ \A k \in 1..n : a[k] = Unless(s[k], N)
      /\ b \in Seq(Seq(S)) /\ Len(b) = m /\ \A k \in 1..m : b[k] = Unless(t[k], N)
  BY <1>1, <1>2, <1>5, KeptType
<1>7. c \in Seq(Seq(S)) /\ Len(c) = n + m /\ \A k \in 1..(n + m) : c[k] = Unless(all[k], N)
  BY <1>4, <1>5, KeptType
<1>8. PICK ab : ab = a \o b
  OBVIOUS
<1>9. /\ ab \in Seq(Seq(S)) /\ Len(ab) = n + m
      /\ \A i \in 1..(n + m) : ab[i] = IF i <= n THEN a[i] ELSE b[i - n]
  <2>1. /\ ab \in Seq(Seq(S)) /\ Len(ab) = Len(a) + Len(b)
        /\ \A i \in 1..(Len(a) + Len(b)) : ab[i] = IF i <= Len(a) THEN a[i] ELSE b[i - Len(a)]
    BY <1>6, <1>8, ConcatProperties
  <2> QED BY <1>6, <2>1
<1>10. ASSUME NEW i \in 1..(n + m) PROVE c[i] = ab[i]
  <2>1. CASE i <= n
    <3>1. i \in 1..n
      BY <2>1
    <3>2. c[i] = Unless(s[i], N) /\ ab[i] = Unless(s[i], N)
      BY <1>4, <1>6, <1>7, <1>9, <2>1, <3>1
    <3> QED BY <3>2
  <2>2. CASE ~(i <= n)
    <3>1. i - n \in 1..m
      BY <2>2
    <3>2. PICK j \in 1..m : j = i - n
      BY <3>1
    <3>3. c[i] = Unless(t[j], N) /\ ab[i] = Unless(t[j], N)
      BY <1>4, <1>6, <1>7, <1>9, <2>2, <3>2
    <3> QED BY <3>3
  <2> QED BY <2>1, <2>2
<1>11. c = a \o b
  BY <1>7, <1>8, <1>9, <1>10, SeqEqual
<1>12. FlattenSeq(a \o b) = FlattenSeq(a) \o FlattenSeq(b)
  BY <1>6, FlattenConcat
<1> QED BY <1>3, <1>5, <1>11, <1>12 DEF Keep

\* Nothing is kept of nothing.
LEMMA KeepNothing == \A N : Keep(<<>>, N) = <<>>
<1> TAKE N
<1>1. Singles(<<>>, N) = <<>>
  BY DEF Singles
<1> QED BY <1>1, FlattenNothing DEF Keep

\* Only the elements of a sequence matter.
LEMMA KeepAgrees ==
    ASSUME NEW S, NEW N, NEW M, NEW s \in Seq(S), \A k \in DOMAIN s : s[k] \in N <=> s[k] \in M
    PROVE  Keep(s, N) = Keep(s, M)
<1>1. \A k \in DOMAIN s : Unless(s[k], N) = Unless(s[k], M)
  BY DEF Unless
<1>2. Singles(s, N) = Singles(s, M)
  BY <1>1 DEF Singles
<1> QED BY <1>2 DEF Keep

\* All is kept of a sequence without such elements.
LEMMA KeepAll ==
    ASSUME NEW S, NEW N, NEW s \in Seq(S), \A k \in DOMAIN s : s[k] \notin N
    PROVE  Keep(s, N) = s
<1>1. PICK n \in Nat : n = Len(s) /\ DOMAIN s = 1..n /\ \A k \in 1..n : s[k] \in S
  BY LenProperties
<1>2. PICK ss : ss = Singles(s, N)
  OBVIOUS
<1>3. ss \in Seq(Seq(S)) /\ Len(ss) = n /\ \A k \in 1..n : ss[k] = Unless(s[k], N)
  BY <1>1, <1>2, KeptType
<1>4. \A k \in 1..n : ss[k] = <<s[k]>>
  BY <1>1, <1>3 DEF Unless
<1>5. PICK d : Joins(d, ss, S) /\ FlattenSeq(ss) = d[n]
  BY <1>3, FlattenSteps
<1>6. PICK same : same = {i \in 0..n : d[i] = SubSeq(s, 1, i)}
  OBVIOUS
<1>7. 0 \in same
  <2>1. d[0] = <<>>
    BY <1>5 DEF Joins
  <2>2. SubSeq(s, 1, 0) = <<>>
    BY SubSeqEmpty
  <2>3. 0 \in 0..n
    OBVIOUS
  <2>4. d[0] = SubSeq(s, 1, 0)
    BY <2>1, <2>2
  <2> QED BY ONLY <1>6, <2>3, <2>4
<1>8. ASSUME NEW i \in 1..n, i - 1 \in same PROVE i \in same
  <2>1. d[i] = SubSeq(s, 1, i - 1) \o <<s[i]>>
    BY <1>3, <1>4, <1>5, <1>6, <1>8 DEF Joins
  <2>2. SubSeq(s, 1, i) = SubSeq(s, 1, i - 1) \o <<s[i]>>
    BY <1>1, FrontPart
  <2> QED BY <1>6, <2>1, <2>2
<1>9. \A i \in 1..n : i - 1 \in same => i \in same
  BY <1>8
<1>10. 0..n \subseteq same
  BY ONLY n \in Nat, <1>7, <1>9, UptoInduction
<1>11. d[n] = SubSeq(s, 1, n)
  BY <1>6, <1>10
<1>12. SubSeq(s, 1, n) = s
  BY <1>1, FrontPart
<1> QED BY <1>2, <1>5, <1>11, <1>12 DEF Keep
================================================================================

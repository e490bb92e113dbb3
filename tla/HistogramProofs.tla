-------------------------- MODULE HistogramProofs --------------------------
(***************************************************************************)
(* What the operators of Histogram compute, for histograms of every size:  *)
(* powers, sums over functions, the buckets, decay, samples, percentiles,  *)
(* merging and the aggregation of payloads.  The inductions are by least   *)
(* counterexample: the finite subsets of a set are well-founded.           *)
(***************************************************************************)
EXTENDS Histogram, FiniteSetTheorems, TLAPS

-----------------------------------------------------------------------------
(* Induction *)

\* A set of subsets of a finite set has a minimal member.
LEMMA MinimalSubset ==
    ASSUME NEW S, IsFiniteSet(S), NEW F \in SUBSET (SUBSET S), F # {}
    PROVE  \E s \in F : \A t \in F : t \subseteq s => t = s
<1>1. IsWellFoundedOn(StrictSubsetOrdering(S), FiniteSubsetsOf(S))
  BY FS_StrictSubsetOrderingWellFounded
<1>2. F \subseteq FiniteSubsetsOf(S)
  BY FS_Subset DEF FiniteSubsetsOf
<1>3. \E s \in F : \A t \in F : ~ (<<t, s>> \in StrictSubsetOrdering(S))
  BY <1>1, <1>2, WFMin
<1> QED
  BY <1>2, <1>3 DEF StrictSubsetOrdering, FiniteSubsetsOf

\* What holds for the empty set, and for every set from which any element can
\* be taken such that it holds for the rest, holds for all subsets.
LEMMA SubsetInduction ==
    ASSUME NEW S, IsFiniteSet(S), NEW P \in SUBSET (SUBSET S),
           {} \in P,
           \A s \in SUBSET S : s # {} /\ (\A x \in s : s \ {x} \in P) => s \in P
    PROVE  \A s \in SUBSET S : s \in P
<1> SUFFICES ASSUME NEW u \in (SUBSET S) \ P PROVE FALSE
  OBVIOUS
<1> DEFINE F == (SUBSET S) \ P
<1>1. F \in SUBSET (SUBSET S) /\ F # {}
  OBVIOUS
<1> HIDE DEF F
<1>2. PICK s \in F : \A t \in F : t \subseteq s => t = s
  BY <1>1, MinimalSubset
<1>3. ASSUME NEW x \in s PROVE s \ {x} \in P
  BY <1>2 DEF F
<1> QED
  BY <1>2, <1>3 DEF F

\* Induction over the natural numbers.
LEMMA NumberInduction ==
    ASSUME NEW P \in SUBSET Nat, 0 \in P, \A n \in P : n + 1 \in P
    PROVE  \A n \in Nat : n \in P
<1> SUFFICES ASSUME NEW n \in Nat, n \notin P PROVE FALSE
  OBVIOUS
<1> DEFINE S == 0..n
           F == {0..k : k \in S \ P}
<1>1. IsFiniteSet(S)
  BY FS_Interval
<1>2. F \in SUBSET (SUBSET S) /\ F # {}
  OBVIOUS
<1>3. \A k \in S : k \notin P => 0..k \in F
  OBVIOUS
<1>f. \A s \in F : \E k \in S : k \notin P /\ s = 0..k
  OBVIOUS
<1> HIDE DEF F
<1>s. PICK s \in F : \A t \in F : t \subseteq s => t = s
  <2> HIDE DEF S
  <2> QED
    BY <1>1, <1>2, MinimalSubset
<1>4. PICK k \in S : k \notin P /\ s = 0..k
  BY <1>f
<1>5. k # 0 /\ k - 1 \in S /\ k - 1 \in Nat
  BY <1>4
<1>6. k - 1 \notin P
  BY <1>4, <1>5
<1>7. 0..(k - 1) \in F /\ 0..(k - 1) \subseteq s
  BY <1>3, <1>4, <1>5, <1>6
<1>8. 0..(k - 1) = s
  BY <1>s, <1>7
<1>9. k \in s /\ k \notin 0..(k - 1)
  BY <1>4, <1>5
<1> QED
  BY <1>8, <1>9

-----------------------------------------------------------------------------
(* Folds *)

\* A function that folds step over every subset of S, where pick names the
\* element that is taken next.
FoldsTo(g, S, pick, base, step) ==
    \A s \in SUBSET S : g[s] = IF s = {} THEN base ELSE step[pick[s]][g[s \ {pick[s]}]]

\* Such a function exists: what is right for the sets of up to n elements gives
\* what is right for the ones of n + 1.
LEMMA FoldExists ==
    ASSUME NEW S, IsFiniteSet(S), NEW R, NEW base \in R, NEW step \in [S -> [R -> R]],
           NEW pick, \A s \in SUBSET S : s # {} => pick[s] \in s
    PROVE  \E g \in [SUBSET S -> R] : FoldsTo(g, S, pick, base, step)
<1> DEFINE next(g, s) == IF s = {} THEN base ELSE step[pick[s]][g[s \ {pick[s]}]]
           G == [SUBSET S -> R]
           P == {n \in Nat : \E g \in G : \A s \in SUBSET S : Cardinality(s) <= n => g[s] = next(g, s)}
<1>1. \A s \in SUBSET S : IsFiniteSet(s) /\ Cardinality(s) \in Nat
  BY FS_Subset, FS_CardinalityType
<1>2. \A g \in G : \A s \in SUBSET S : next(g, s) \in R
  <2> SUFFICES ASSUME NEW g \in G, NEW s \in SUBSET S, s # {} PROVE next(g, s) \in R
    OBVIOUS
  <2>1. pick[s] \in S /\ s \ {pick[s]} \in SUBSET S
    OBVIOUS
  <2>2. g[s \ {pick[s]}] \in R /\ step[pick[s]] \in [R -> R]
    BY <2>1
  <2> QED
    BY <2>2
<1>3. 0 \in P
  <2> DEFINE g == [s \in SUBSET S |-> base]
  <2>1. g \in G
    OBVIOUS
  <2>2. ASSUME NEW s \in SUBSET S, Cardinality(s) <= 0 PROVE g[s] = next(g, s)
    <3>1. s = {}
      BY <1>1, <2>2, FS_EmptySet
    <3> QED
      BY <3>1
  <2> QED
    BY <2>1, <2>2
<1>4. ASSUME NEW n \in P PROVE n + 1 \in P
  <2>1. PICK g \in G : \A s \in SUBSET S : Cardinality(s) <= n => g[s] = next(g, s)
    BY <1>4
  <2> DEFINE h == [s \in SUBSET S |-> next(g, s)]
  <2>2. h \in G
    BY <1>2
  <2>3. ASSUME NEW s \in SUBSET S, Cardinality(s) <= n + 1 PROVE h[s] = next(h, s)
    <3>1. CASE s = {}
      BY <3>1
    <3>2. CASE s # {}
      <4> DEFINE t == s \ {pick[s]}
      <4>1. pick[s] \in s /\ t \in SUBSET S
        BY <3>2
      <4>2. Cardinality(t) = Cardinality(s) - 1
        BY <1>1, <4>1, FS_RemoveElement
      <4>3. n \in Nat /\ Cardinality(s) \in Nat
        BY <1>1
      <4>4. g[t] = next(g, t)
        <5>1. Cardinality(t) <= n
          BY <2>3, <4>2, <4>3
        <5> HIDE DEF next, t
        <5> QED
          BY <2>1, <4>1, <5>1
      <4>5. h[t] = g[t]
        BY <4>1, <4>4
      <4>6. h[s] = step[pick[s]][g[t]]
        BY <3>2
      <4> QED
        BY <3>2, <4>5, <4>6
    <3> QED
      BY <3>1, <3>2
  <2> HIDE DEF h, next, G
  <2> QED
    BY <2>2, <2>3
<1>5. Cardinality(S) \in P
  <2>1. Cardinality(S) \in Nat /\ P \in SUBSET Nat
    BY FS_CardinalityType
  <2> HIDE DEF P
  <2> QED
    BY <1>3, <1>4, <2>1, NumberInduction
<1>6. PICK g \in G : \A s \in SUBSET S : Cardinality(s) <= Cardinality(S) => g[s] = next(g, s)
  BY <1>5
<1>7. \A s \in SUBSET S : Cardinality(s) <= Cardinality(S)
  BY FS_Subset
<1> QED
  BY <1>6, <1>7 DEF FoldsTo

-----------------------------------------------------------------------------
(* Powers *)

PowersOf(p, b, n) == p = [i \in 0..n |-> IF i = 0 THEN 1 ELSE b * p[i - 1]]

\* The recursive function of Power exists.
LEMMA PowersExist ==
    ASSUME NEW b \in Nat, NEW n \in Nat
    PROVE  \E p : PowersOf(p, b, n)
<1> DEFINE P == {m \in Nat : \E p : PowersOf(p, b, m)}
<1>1. 0 \in P
  <2> DEFINE p == [i \in 0..0 |-> 1]
  <2>1. p = [i \in 0..0 |-> IF i = 0 THEN 1 ELSE b * p[i - 1]]
    OBVIOUS
  <2>2. PowersOf(p, b, 0)
    BY <2>1 DEF PowersOf
  <2> QED
    BY <2>2
<1>2. ASSUME NEW m \in P PROVE m + 1 \in P
  <2>1. PICK p : PowersOf(p, b, m)
    BY <1>2
  <2> DEFINE q == [i \in 0..(m + 1) |-> IF i = 0 THEN 1 ELSE b * p[i - 1]]
  <2>2. m \in Nat
    BY <1>2
  <2>3. \A i \in 0..m : q[i] = p[i]
    <3> SUFFICES ASSUME NEW i \in 0..m PROVE q[i] = p[i]
      OBVIOUS
    <3>1. p[i] = IF i = 0 THEN 1 ELSE b * p[i - 1]
      BY <2>1 DEF PowersOf
    <3>2. i \in 0..(m + 1)
      BY <2>2
    <3> QED
      BY <3>1, <3>2
  <2>4. \A i \in 0..(m + 1) : i # 0 => i - 1 \in 0..m
    BY <2>2
  <2>5. q = [i \in 0..(m + 1) |-> IF i = 0 THEN 1 ELSE b * q[i - 1]]
    <3> SUFFICES ASSUME NEW i \in 0..(m + 1), i # 0 PROVE p[i - 1] = q[i - 1]
      OBVIOUS
    <3> HIDE DEF q
    <3> QED
      BY <2>3, <2>4
  <2>6. PowersOf(q, b, m + 1)
    BY <2>5 DEF PowersOf
  <2> HIDE DEF q
  <2> QED
    BY <2>2, <2>6
<1> HIDE DEF P
<1>3. n \in P
  BY <1>1, <1>2, NumberInduction DEF P
<1> QED
  BY <1>3 DEF P

\* It is unique.
LEMMA PowersUnique ==
    ASSUME NEW b \in Nat, NEW m \in Nat, NEW n \in Nat, NEW p, NEW q,
           PowersOf(p, b, m), PowersOf(q, b, n)
    PROVE  \A i \in Nat : i <= m /\ i <= n => p[i] = q[i] /\ p[i] \in Nat
<1> DEFINE P == {i \in Nat : i <= m /\ i <= n => p[i] = q[i] /\ p[i] \in Nat}
<1>1. /\ \A i \in 0..m : p[i] = IF i = 0 THEN 1 ELSE b * p[i - 1]
      /\ \A i \in 0..n : q[i] = IF i = 0 THEN 1 ELSE b * q[i - 1]
  BY DEF PowersOf
<1>2. 0 \in P
  BY <1>1
<1>3. ASSUME NEW i \in P PROVE i + 1 \in P
  <2> SUFFICES ASSUME i + 1 <= m, i + 1 <= n
               PROVE  p[i + 1] = q[i + 1] /\ p[i + 1] \in Nat
    BY <1>3
  <2>1. p[i] = q[i] /\ p[i] \in Nat /\ i \in Nat
    BY <1>3
  <2>2. p[i + 1] = b * p[i] /\ q[i + 1] = b * q[i]
    BY <1>1, <2>1
  <2> QED
    BY <2>1, <2>2
<1> HIDE DEF P
<1>4. \A i \in Nat : i \in P
  BY <1>2, <1>3, NumberInduction DEF P
<1> QED
  BY <1>4 DEF P

\* Power is multiplication repeated.
LEMMA PowerFacts ==
    ASSUME NEW b \in Nat \ {0}, NEW n \in Nat
    PROVE  /\ Power(b, n) \in Nat \ {0}
           /\ Power(b, 0) = 1
           /\ Power(b, n + 1) = b * Power(b, n)
<1>1. ASSUME NEW m \in Nat
      PROVE  \E p : PowersOf(p, b, m) /\ Power(b, m) = p[m]
  <2> DEFINE p == CHOOSE q : PowersOf(q, b, m)
  <2>1. PowersOf(p, b, m)
    BY PowersExist
  <2>2. Power(b, m) = p[m]
    BY DEF Power, PowersOf
  <2> QED
    BY <2>1, <2>2
<1>2. ASSUME NEW m \in Nat PROVE Power(b, m) \in Nat /\ Power(b, m + 1) = b * Power(b, m)
  <2>1. PICK p : PowersOf(p, b, m) /\ Power(b, m) = p[m]
    BY <1>1
  <2>2. PICK q : PowersOf(q, b, m + 1) /\ Power(b, m + 1) = q[m + 1]
    BY <1>1
  <2>3. p[m] = q[m] /\ p[m] \in Nat
    BY <2>1, <2>2, PowersUnique
  <2>4. q[m + 1] = b * q[m]
    BY <2>2 DEF PowersOf
  <2> QED
    BY <2>1, <2>2, <2>3, <2>4
<1>3. Power(b, 0) = 1
  <2>1. PICK p : PowersOf(p, b, 0) /\ Power(b, 0) = p[0]
    BY <1>1
  <2> QED
    BY <2>1 DEF PowersOf
<1>4. Power(b, n) # 0
  <2> DEFINE P == {m \in Nat : Power(b, m) # 0}
  <2>1. 0 \in P
    BY <1>3
  <2>2. ASSUME NEW m \in P PROVE m + 1 \in P
    BY <1>2, <2>2
  <2> HIDE DEF P
  <2>3. n \in P
    BY <2>1, <2>2, NumberInduction DEF P
  <2> QED
    BY <2>3 DEF P
<1> QED
  BY <1>2, <1>3, <1>4

\* Powers of two.
LEMMA PowerOfTwo == Power(2, 0) = 1 /\ \A n \in Nat : Power(2, n) \in Nat \ {0}
<1>1. 2 \in Nat \ {0} /\ 0 \in Nat
  OBVIOUS
<1> QED
  BY <1>1, PowerFacts

\* The law of exponents.
LEMMA PowerAdd ==
    ASSUME NEW b \in Nat \ {0}, NEW m \in Nat, NEW n \in Nat
    PROVE  Power(b, m + n) = Power(b, m) * Power(b, n)
<1> DEFINE P == {i \in Nat : Power(b, m + i) = Power(b, m) * Power(b, i)}
<1>1. 0 \in P
  BY PowerFacts
<1>2. ASSUME NEW i \in P PROVE i + 1 \in P
  <2>1. i \in Nat /\ m + i \in Nat /\ m + (i + 1) = (m + i) + 1
    BY <1>2
  <2>2. Power(b, (m + i) + 1) = b * Power(b, m + i) /\ Power(b, i + 1) = b * Power(b, i)
    BY <2>1, PowerFacts
  <2>3. Power(b, m + i) = Power(b, m) * Power(b, i)
    BY <1>2
  <2>4. Power(b, m) \in Nat /\ Power(b, i) \in Nat
    BY <2>1, PowerFacts
  <2>5. b * (Power(b, m) * Power(b, i)) = Power(b, m) * (b * Power(b, i))
    BY <2>4
  <2> QED
    BY <2>1, <2>2, <2>3, <2>5
<1> HIDE DEF P
<1>3. n \in P
  BY <1>1, <1>2, NumberInduction DEF P
<1> QED
  BY <1>3 DEF P

-----------------------------------------------------------------------------
(* Sums *)

SumOver(f, S) == SumFunctionOnSet(f, S)
Pick(s) == CHOOSE x \in s : TRUE
SumsTo(g, f, S) == g = [s \in SUBSET S |-> IF s = {} THEN 0 ELSE f[Pick(s)] + g[s \ {Pick(s)}]]

\* The recursive function of the sum exists.
LEMMA SumsExist ==
    ASSUME NEW S, IsFiniteSet(S), NEW f, \A x \in S : f[x] \in Int
    PROVE  \E g : SumsTo(g, f, S)
<1> DEFINE pick == [s \in SUBSET S |-> Pick(s)]
           step == [x \in S |-> [r \in Int |-> f[x] + r]]
<1>1. \A s \in SUBSET S : s # {} => pick[s] \in s
  BY DEF Pick
<1>2. step \in [S -> [Int -> Int]]
  OBVIOUS
<1> HIDE DEF step, pick
<1>3. PICK g \in [SUBSET S -> Int] : FoldsTo(g, S, pick, 0, step)
  <2> DEFINE R == Int
             zero == 0
  <2>1. zero \in R /\ step \in [S -> [R -> R]]
    BY <1>2
  <2> HIDE DEF R, zero
  <2>2. \E g \in [SUBSET S -> R] : FoldsTo(g, S, pick, zero, step)
    BY <1>1, <2>1, FoldExists
  <2> QED
    BY <2>2 DEF R, zero
<1>4. ASSUME NEW s \in SUBSET S
      PROVE  g[s] = IF s = {} THEN 0 ELSE f[Pick(s)] + g[s \ {Pick(s)}]
  <2>1. g[s] = IF s = {} THEN 0 ELSE step[pick[s]][g[s \ {pick[s]}]]
    BY <1>3 DEF FoldsTo
  <2>2. pick[s] = Pick(s)
    BY DEF pick
  <2>3. ASSUME s # {} PROVE step[pick[s]][g[s \ {pick[s]}]] = f[pick[s]] + g[s \ {pick[s]}]
    <3>1. pick[s] \in S /\ s \ {pick[s]} \in SUBSET S
      BY <1>1, <2>3
    <3>2. g[s \ {pick[s]}] \in Int
      BY <3>1
    <3> QED
      BY <3>1, <3>2 DEF step
  <2> QED
    BY <2>1, <2>2, <2>3
<1>5. SumsTo(g, f, S)
  BY <1>4 DEF SumsTo
<1> QED
  BY <1>5

\* It is unique, and its values are integers.
LEMMA SumsUnique ==
    ASSUME NEW S, IsFiniteSet(S), NEW f, \A x \in S : f[x] \in Int, NEW T \in SUBSET S,
           NEW g, SumsTo(g, f, S), NEW h, SumsTo(h, f, T)
    PROVE  g[T] = h[T] /\ g[T] \in Int
<1> DEFINE P == {s \in SUBSET T : g[s] = h[s] /\ g[s] \in Int}
<1>1. \A s \in SUBSET T : /\ g[s] = IF s = {} THEN 0 ELSE f[Pick(s)] + g[s \ {Pick(s)}]
                          /\ h[s] = IF s = {} THEN 0 ELSE f[Pick(s)] + h[s \ {Pick(s)}]
  BY DEF SumsTo
<1>2. {} \in P
  BY <1>1
<1>3. ASSUME NEW s \in SUBSET T, s # {}, \A x \in s : s \ {x} \in P PROVE s \in P
  <2>1. Pick(s) \in s
    BY <1>3 DEF Pick
  <2>2. s \ {Pick(s)} \in P /\ f[Pick(s)] \in Int
    BY <1>3, <2>1
  <2>3. g[s] = f[Pick(s)] + g[s \ {Pick(s)}] /\ h[s] = f[Pick(s)] + h[s \ {Pick(s)}]
    BY <1>1, <1>3
  <2> QED
    BY <2>2, <2>3
<1>4. IsFiniteSet(T) /\ P \in SUBSET (SUBSET T)
  BY FS_Subset
<1> HIDE DEF P
<1>5. T \in P
  BY <1>2, <1>3, <1>4, SubsetInduction
<1> QED
  BY <1>5 DEF P

\* A sum is the value of its recursive function.
LEMMA SumValue ==
    ASSUME NEW S, IsFiniteSet(S), NEW f, \A x \in S : f[x] \in Int
    PROVE  \E g : SumsTo(g, f, S) /\ SumOver(f, S) = g[S]
<1> DEFINE g == CHOOSE h : SumsTo(h, f, S)
<1>1. SumsTo(g, f, S)
  BY SumsExist
<1>2. SumOver(f, S) = g[S]
  BY DEF SumOver, SumFunctionOnSet, FoldFunctionOnSet, MapThenFoldSet, SumsTo, Pick
<1> QED
  BY <1>1, <1>2

\* The sum over no elements, and over the first element and the others.
LEMMA SumPick ==
    ASSUME NEW S, IsFiniteSet(S), NEW f, \A x \in S : f[x] \in Int
    PROVE  /\ SumOver(f, S) \in Int
           /\ S = {} => SumOver(f, S) = 0
           /\ S # {} => SumOver(f, S) = f[Pick(S)] + SumOver(f, S \ {Pick(S)})
<1>1. PICK g : SumsTo(g, f, S) /\ SumOver(f, S) = g[S]
  BY SumValue
<1>2. SumOver(f, S) \in Int
  BY <1>1, SumsUnique
<1>3. S = {} => SumOver(f, S) = 0
  BY <1>1 DEF SumsTo
<1>4. ASSUME S # {} PROVE SumOver(f, S) = f[Pick(S)] + SumOver(f, S \ {Pick(S)})
  <2> DEFINE T == S \ {Pick(S)}
  <2>1. T \in SUBSET S /\ IsFiniteSet(T) /\ \A x \in T : f[x] \in Int
    BY FS_Subset
  <2> HIDE DEF T
  <2>2. PICK h : SumsTo(h, f, T) /\ SumOver(f, T) = h[T]
    BY <2>1, SumValue
  <2>3. g[T] = h[T]
    BY <1>1, <2>1, <2>2, SumsUnique
  <2>4. g[S] = f[Pick(S)] + g[T]
    BY <1>1, <1>4 DEF SumsTo, T
  <2> QED
    BY <1>1, <2>2, <2>3, <2>4 DEF T
<1> QED
  BY <1>2, <1>3, <1>4

\* Any element may be taken out of a sum.
LEMMA SumRemove ==
    ASSUME NEW S, IsFiniteSet(S), NEW f, \A x \in S : f[x] \in Int, NEW y \in S
    PROVE  SumOver(f, S) = f[y] + SumOver(f, S \ {y})
<1> DEFINE P == {s \in SUBSET S : \A x \in s : SumOver(f, s) = f[x] + SumOver(f, s \ {x})}
<1>0. ASSUME NEW s \in SUBSET S
      PROVE  /\ IsFiniteSet(s) /\ SumOver(f, s) \in Int
             /\ s # {} => Pick(s) \in s /\ SumOver(f, s) = f[Pick(s)] + SumOver(f, s \ {Pick(s)})
  <2>1. IsFiniteSet(s) /\ \A x \in s : f[x] \in Int
    BY FS_Subset
  <2> QED
    BY <2>1, SumPick DEF Pick
<1>1. {} \in P
  OBVIOUS
<1>2. ASSUME NEW s \in SUBSET S, s # {}, \A x \in s : s \ {x} \in P PROVE s \in P
  <2> SUFFICES ASSUME NEW x \in s PROVE SumOver(f, s) = f[x] + SumOver(f, s \ {x})
    OBVIOUS
  <2> DEFINE c == Pick(s)
  <2>1. c \in s /\ SumOver(f, s) = f[c] + SumOver(f, s \ {c})
    BY <1>0, <1>2
  <2> HIDE DEF c
  <2>2. CASE x = c
    BY <2>1, <2>2
  <2>3. CASE x # c
    <3>1. x \in s \ {c} /\ c \in s \ {x} /\ s \ {c} \in P /\ s \ {x} \in P
      BY <1>2, <2>1, <2>3
    <3>2. /\ SumOver(f, s \ {c}) = f[x] + SumOver(f, (s \ {c}) \ {x})
          /\ SumOver(f, s \ {x}) = f[c] + SumOver(f, (s \ {x}) \ {c})
      BY <3>1
    <3> DEFINE r == (s \ {x}) \ {c}
    <3>3. (s \ {c}) \ {x} = r /\ r \in SUBSET S
      OBVIOUS
    <3>4. SumOver(f, r) \in Int /\ f[x] \in Int /\ f[c] \in Int
      BY <1>0, <2>1, <3>3
    <3> HIDE DEF r
    <3>5. SumOver(f, s \ {c}) = f[x] + SumOver(f, r) /\ SumOver(f, s \ {x}) = f[c] + SumOver(f, r)
      BY <3>2, <3>3 DEF r
    <3> QED
      BY <2>1, <3>4, <3>5
  <2> QED
    BY <2>2, <2>3
<1>3. P \in SUBSET (SUBSET S)
  OBVIOUS
<1> HIDE DEF P
<1>4. S \in P
  BY <1>1, <1>2, <1>3, SubsetInduction
<1> QED
  BY <1>4 DEF P

\* The facts about sums that the rest needs: they are integers, empty sums are
\* zero, and any element may be taken out.
LEMMA SumFacts ==
    ASSUME NEW S, IsFiniteSet(S), NEW f, \A x \in S : f[x] \in Int
    PROVE  /\ SumOver(f, {}) = 0
           /\ \A s \in SUBSET S :
                /\ IsFiniteSet(s) /\ SumOver(f, s) \in Int
                /\ \A x \in s : SumOver(f, s) = f[x] + SumOver(f, s \ {x})
<1>1. \A s \in SUBSET S : IsFiniteSet(s) /\ \A x \in s : f[x] \in Int
  BY FS_Subset
<1>2. ASSUME NEW s \in SUBSET S
      PROVE  SumOver(f, s) \in Int /\ \A x \in s : SumOver(f, s) = f[x] + SumOver(f, s \ {x})
  BY <1>1, SumPick, SumRemove
<1>3. SumOver(f, {}) = 0
  BY <1>1, SumPick
<1> QED
  BY <1>1, <1>2, <1>3

\* A sum of multiples is the multiple of a sum.
LEMMA SumScale ==
    ASSUME NEW S, IsFiniteSet(S), NEW d \in Int, NEW f, NEW g,
           \A x \in S : g[x] \in Int /\ f[x] = d * g[x]
    PROVE  SumOver(f, S) = d * SumOver(g, S)
<1> DEFINE P == {s \in SUBSET S : SumOver(f, s) = d * SumOver(g, s)}
<1>1. \A x \in S : f[x] \in Int /\ g[x] \in Int
  OBVIOUS
<1>2. {} \in P
  BY <1>1, SumFacts
<1>3. ASSUME NEW s \in SUBSET S, s # {}, \A x \in s : s \ {x} \in P PROVE s \in P
  <2>1. PICK x \in s : TRUE
    BY <1>3
  <2> DEFINE t == s \ {x}
  <2>2. t \in SUBSET S
    OBVIOUS
  <2>3. /\ SumOver(f, s) = f[x] + SumOver(f, t) /\ SumOver(g, s) = g[x] + SumOver(g, t)
        /\ SumOver(f, t) \in Int /\ SumOver(g, t) \in Int
    BY <1>1, <2>2, SumFacts
  <2>4. SumOver(f, t) = d * SumOver(g, t) /\ f[x] = d * g[x] /\ g[x] \in Int
    BY <1>3
  <2> HIDE DEF t
  <2>5. d * g[x] + d * SumOver(g, t) = d * (g[x] + SumOver(g, t))
    BY <2>3, <2>4
  <2> QED
    BY <2>3, <2>4, <2>5
<1> HIDE DEF P
<1>4. S \in P
  <2>1. P \in SUBSET (SUBSET S)
    BY DEF P
  <2> QED
    BY <1>2, <1>3, <2>1, SubsetInduction
<1> QED
  BY <1>4 DEF P

\* Sums of equal values are equal.
LEMMA SumEqual ==
    ASSUME NEW S, IsFiniteSet(S), NEW f, NEW g, \A x \in S : g[x] \in Int /\ f[x] = g[x]
    PROVE  SumOver(f, S) = SumOver(g, S)
<1>1. \A x \in S : g[x] \in Int /\ f[x] = 1 * g[x]
  OBVIOUS
<1>2. SumOver(f, S) = 1 * SumOver(g, S)
  BY <1>1, SumScale
<1>3. SumOver(g, S) \in Int
  BY SumFacts
<1> QED
  BY <1>2, <1>3

\* A sum of sums is the sum of both.
LEMMA SumPlus ==
    ASSUME NEW S, IsFiniteSet(S), NEW f, NEW g, NEW h,
           \A x \in S : f[x] \in Int /\ g[x] \in Int /\ h[x] = f[x] + g[x]
    PROVE  SumOver(h, S) = SumOver(f, S) + SumOver(g, S)
<1> DEFINE P == {s \in SUBSET S : SumOver(h, s) = SumOver(f, s) + SumOver(g, s)}
<1>1. \A x \in S : f[x] \in Int /\ g[x] \in Int /\ h[x] \in Int
  OBVIOUS
<1>2. {} \in P
  BY <1>1, SumFacts
<1>3. ASSUME NEW s \in SUBSET S, s # {}, \A x \in s : s \ {x} \in P PROVE s \in P
  <2>1. PICK x \in s : TRUE
    BY <1>3
  <2> DEFINE t == s \ {x}
  <2>2. t \in SUBSET S
    OBVIOUS
  <2>3. /\ SumOver(f, s) = f[x] + SumOver(f, t) /\ SumOver(g, s) = g[x] + SumOver(g, t)
        /\ SumOver(h, s) = h[x] + SumOver(h, t)
        /\ SumOver(f, t) \in Int /\ SumOver(g, t) \in Int
    BY <1>1, <2>2, SumFacts
  <2>4. SumOver(h, t) = SumOver(f, t) + SumOver(g, t) /\ h[x] = f[x] + g[x] /\ f[x] \in Int /\ g[x] \in Int
    BY <1>3
  <2> HIDE DEF t
  <2> QED
    BY <2>3, <2>4
<1> HIDE DEF P
<1>4. S \in P
  <2>1. P \in SUBSET (SUBSET S)
    BY DEF P
  <2> QED
    BY <1>2, <1>3, <2>1, SubsetInduction
<1> QED
  BY <1>4 DEF P

\* A sum over more elements is not smaller, where nothing is negative.
LEMMA SumMonotonic ==
    ASSUME NEW S, IsFiniteSet(S), NEW f, \A x \in S : f[x] \in Nat, NEW T \in SUBSET S
    PROVE  SumOver(f, T) \in Nat /\ SumOver(f, T) <= SumOver(f, S)
<1> DEFINE P == {s \in SUBSET S : SumOver(f, s) >= 0 /\ \A t \in SUBSET s : SumOver(f, t) <= SumOver(f, s)}
<1>1. \A x \in S : f[x] \in Int
  OBVIOUS
<1>2. {} \in P
  BY <1>1, SumFacts
<1>3. ASSUME NEW s \in SUBSET S, s # {}, \A x \in s : s \ {x} \in P PROVE s \in P
  <2>1. \A x \in s : /\ SumOver(f, s) = f[x] + SumOver(f, s \ {x}) /\ f[x] \in Nat
                     /\ SumOver(f, s \ {x}) \in Int /\ SumOver(f, s) \in Int
    BY <1>1, SumFacts
  <2>2. SumOver(f, s) >= 0 /\ SumOver(f, s) \in Int
    <3>1. PICK x \in s : TRUE
      BY <1>3
    <3>2. s \ {x} \in P
      BY <1>3
    <3>3. SumOver(f, s \ {x}) >= 0
      BY <3>2
    <3> HIDE DEF P
    <3> QED
      BY <2>1, <3>3
  <2>3. ASSUME NEW t \in SUBSET s PROVE SumOver(f, t) <= SumOver(f, s)
    <3>1. CASE t = s
      BY <2>2, <3>1
    <3>2. CASE t # s
      <4>1. PICK x \in s : x \notin t
        BY <3>2
      <4>2. t \in SUBSET (s \ {x}) /\ SumOver(f, t) \in Int
        BY <1>1, <4>1, SumFacts
      <4>3. SumOver(f, t) <= SumOver(f, s \ {x})
        BY <1>3, <4>2
      <4> QED
        BY <2>1, <4>2, <4>3
    <3> QED
      BY <3>1, <3>2
  <2> QED
    BY <2>2, <2>3
<1> HIDE DEF P
<1>4. \A s \in SUBSET S : s \in P
  <2>1. P \in SUBSET (SUBSET S)
    BY DEF P
  <2> QED
    BY <1>2, <1>3, <2>1, SubsetInduction
<1>5. SumOver(f, T) \in Int
  BY <1>1, SumFacts
<1> QED
  BY <1>4, <1>5 DEF P

\* Raising one value raises the sum by as much.
LEMMA SumUpdate ==
    ASSUME NEW S, IsFiniteSet(S), NEW f \in [S -> Int], NEW y \in S, NEW c \in Int
    PROVE  SumOver([f EXCEPT ![y] = @ + c], S) = SumOver(f, S) + c
<1> DEFINE g == [f EXCEPT ![y] = @ + c]
           T == S \ {y}
<1>1. /\ \A x \in S : g[x] \in Int /\ f[x] \in Int
      /\ g[y] = f[y] + c
      /\ \A x \in T : g[x] = f[x]
  OBVIOUS
<1> HIDE DEF g
<1>2. /\ IsFiniteSet(T) /\ SumOver(f, T) \in Int
      /\ SumOver(f, S) = f[y] + SumOver(f, T) /\ SumOver(g, S) = g[y] + SumOver(g, T)
  BY <1>1, SumFacts
<1>3. SumOver(g, T) = SumOver(f, T)
  BY <1>1, <1>2, SumEqual
<1> HIDE DEF T
<1> QED
  BY <1>1, <1>2, <1>3 DEF g

\* A finite set of integers that is not empty has a greatest and a least member.
LEMMA MaxMinFacts ==
    ASSUME NEW S \in SUBSET Int, IsFiniteSet(S), S # {}
    PROVE  /\ Max(S) \in S /\ \A x \in S : x <= Max(S)
           /\ Min(S) \in S /\ \A x \in S : Min(S) <= x
<1> DEFINE P == {s \in SUBSET S : s # {} => /\ \E m \in s : \A x \in s : m >= x
                                           /\ \E m \in s : \A x \in s : m <= x}
<1>1. {} \in P
  OBVIOUS
<1>2. ASSUME NEW s \in SUBSET S, s # {}, \A x \in s : s \ {x} \in P PROVE s \in P
  <2>1. PICK x \in s : TRUE
    BY <1>2
  <2>2. CASE s \ {x} = {}
    <3>1. \A y \in s : y = x
      BY <2>2
    <3> QED
      BY <3>1
  <2>3. CASE s \ {x} # {}
    <3>1. PICK m \in s \ {x} : \A y \in s \ {x} : m >= y
      BY <1>2, <2>3
    <3>2. PICK n \in s \ {x} : \A y \in s \ {x} : n <= y
      BY <1>2, <2>3
    <3>3. \E k \in s : \A y \in s : k >= y
      <4>1. CASE m >= x
        BY <3>1, <4>1
      <4>2. CASE x > m
        BY <3>1, <4>2
      <4> QED
        BY <4>1, <4>2
    <3>4. \E k \in s : \A y \in s : k <= y
      <4>1. CASE n <= x
        BY <3>2, <4>1
      <4>2. CASE x < n
        BY <3>2, <4>2
      <4> QED
        BY <4>1, <4>2
    <3> QED
      BY <3>3, <3>4
  <2> QED
    BY <2>2, <2>3
<1> HIDE DEF P
<1>3. S \in P
  <2>1. P \in SUBSET (SUBSET S)
    BY DEF P
  <2> QED
    BY <1>1, <1>2, <2>1, SubsetInduction
<1>4. (\E m \in S : \A x \in S : m >= x) /\ (\E m \in S : \A x \in S : m <= x)
  BY <1>3 DEF P
<1>5. Max(S) \in S /\ \A x \in S : Max(S) >= x
  BY <1>4, Zenon DEF Max
<1>6. Min(S) \in S /\ \A x \in S : Min(S) <= x
  BY <1>4, Zenon DEF Min
<1> QED
  BY <1>5, <1>6

\* The maximum and the minimum of two numbers.
LEMMA OfTwo ==
    ASSUME NEW x \in Nat, NEW y \in Nat
    PROVE  /\ Max({x, y}) = IF x <= y THEN y ELSE x
           /\ Min({x, y}) = IF x <= y THEN x ELSE y
<1> DEFINE S == {x, y}
<1>1. IsFiniteSet({x}) /\ S = {x} \cup {y}
  BY FS_Singleton
<1>2. S \in SUBSET Int /\ IsFiniteSet(S) /\ S # {}
  BY <1>1, FS_AddElement
<1>3. /\ Max(S) \in S /\ \A z \in S : z <= Max(S)
      /\ Min(S) \in S /\ \A z \in S : Min(S) <= z
  BY <1>2, MaxMinFacts
<1>4. x \in S /\ y \in S
  OBVIOUS
<1> QED
  BY <1>3, <1>4

-----------------------------------------------------------------------------
(* Buckets *)

\* A quotient is at least q when the dividend is at least q divisors.
LEMMA DivAtLeast ==
    ASSUME NEW w \in Nat \ {0}, NEW x \in Nat, NEW q \in Int, w * q <= x
    PROVE  q <= x \div w
<1> DEFINE d == x \div w
<1>1. d \in Int /\ x < w * (d + 1)
  OBVIOUS
<1> HIDE DEF d
<1>2. w * q < w * (d + 1)
  BY <1>1
<1>3. q < d + 1
  BY <1>1, <1>2
<1> QED
  BY <1>1, <1>3 DEF d

\* Dividing a multiple gives back the factor.
LEMMA DivExact == ASSUME NEW w \in Nat \ {0}, NEW q \in Nat PROVE (w * q) \div w = q
<1> DEFINE x == w * q
           d == x \div w
<1>1. x \in Nat /\ w * q <= x
  OBVIOUS
<1> HIDE DEF x
<1>2. q <= d /\ d \in Nat /\ w * d <= x
  BY <1>1, DivAtLeast
<1> HIDE DEF d
<1>3. w * d <= w * q
  BY <1>2 DEF x
<1>4. d <= q
  BY <1>2, <1>3
<1> QED
  BY <1>2, <1>4 DEF d, x

\* Bernoulli's inequality.
LEMMA PowerGrows ==
    ASSUME NEW b \in Nat \ {0}, NEW n \in Nat
    PROVE  Power(b, n) >= 1 + n * (b - 1)
<1> DEFINE P == {i \in Nat : Power(b, i) >= 1 + i * (b - 1)}
<1>1. 0 \in P
  BY PowerFacts
<1>2. ASSUME NEW i \in P PROVE i + 1 \in P
  <2> DEFINE p == Power(b, i)
             c == b - 1
             l == i * c
  <2>1. i \in Nat /\ c \in Nat /\ l \in Nat /\ b = c + 1
    BY <1>2
  <2>2. p \in Nat /\ Power(b, i + 1) = b * p /\ p >= 1 + l
    BY <1>2, PowerFacts
  <2>3. (i + 1) * (b - 1) = l + c
    BY <2>1
  <2> HIDE DEF p, l, c
  <2>4. b * p = p + c * p
    BY <2>1, <2>2
  <2>5. c * p >= c * (1 + l) /\ c * (1 + l) = c + c * l /\ c * l >= 0 /\ c * l \in Int
    BY <2>1, <2>2
  <2>6. c * p \in Int
    BY <2>1, <2>2
  <2>7. Power(b, i + 1) >= 1 + (i + 1) * (b - 1)
    BY <2>1, <2>2, <2>3, <2>4, <2>5, <2>6
  <2> QED
    BY <2>1, <2>7
<1> HIDE DEF P
<1>3. n \in P
  BY <1>1, <1>2, NumberInduction DEF P
<1> QED
  BY <1>3 DEF P

\* The k-th bucket starts at k or beyond.
LEMMA BucketStartFacts ==
    ASSUME NEW k \in Nat
    PROVE  BucketStart(k) \in Nat /\ BucketStart(k) >= k
<1> DEFINE r == BucketRatio - 1
           p == Power(BucketRatio, k) - 1
           x == FirstBucketSize * p
<1>1. r \in Nat \ {0} /\ FirstBucketSize \in Nat \ {0} /\ BucketRatio \in Nat \ {0}
  BY OptionsAssumption DEF Validate
<1>2. p \in Int /\ p >= k * r
  BY <1>1, PowerFacts, PowerGrows
<1>3. BucketStart(k) = x \div r
  BY DEF BucketStart
<1> HIDE DEF r, p
<1>4. k * r \in Nat /\ p \in Nat
  BY <1>1, <1>2
<1>5. x \in Nat /\ p <= x
  BY <1>1, <1>4
<1>6. r * k <= x
  BY <1>1, <1>2, <1>4, <1>5
<1> HIDE DEF x
<1>7. k <= x \div r /\ x \div r \in Nat
  BY <1>1, <1>5, <1>6, DivAtLeast
<1> QED
  BY <1>3, <1>7

\* There are buckets, and the first one that ends at MaxValue or beyond is the last.
LEMMA BucketFacts ==
    /\ NumBuckets \in Nat \ {0} /\ Bucket = 0..(NumBuckets - 1)
    /\ IsFiniteSet(Bucket) /\ 0 \in Bucket /\ NumBuckets - 1 \in Bucket
<1> DEFINE A == {n \in 1..(MaxValue + 1) : BucketStart(n) >= MaxValue}
           fits(n) == BucketStart(n) >= MaxValue /\ \A m \in 1..(n - 1) : BucketStart(m) < MaxValue
<1>1. MaxValue \in Nat
  BY OptionsAssumption DEF Validate
<1>2. \A n \in 1..(MaxValue + 1) : n \in Nat /\ BucketStart(n) \in Nat /\ BucketStart(n) >= n
  BY <1>1, BucketStartFacts
<1>3. MaxValue + 1 \in A
  <2>1. MaxValue + 1 \in 1..(MaxValue + 1)
    BY <1>1
  <2> QED
    BY <1>1, <1>2, <2>1
<1>4. A \in SUBSET Int /\ IsFiniteSet(A)
  <2>1. IsFiniteSet(1..(MaxValue + 1)) /\ 1..(MaxValue + 1) \in SUBSET Int
    BY <1>1, FS_Interval
  <2>2. A \in SUBSET (1..(MaxValue + 1))
    OBVIOUS
  <2> HIDE DEF A
  <2> QED
    BY <2>1, <2>2, FS_Subset
<1>5. \E n \in 1..(MaxValue + 1) : fits(n)
  <2>1. Min(A) \in A /\ \A n \in A : Min(A) <= n
    <3> HIDE DEF A
    <3> QED
      BY <1>3, <1>4, MaxMinFacts
  <2>2. PICK n \in A : \A m \in A : n <= m
    BY <2>1
  <2>3. ASSUME NEW m \in 1..(n - 1) PROVE BucketStart(m) < MaxValue
    <3>1. m \in 1..(MaxValue + 1) /\ ~(n <= m)
      BY <1>1, <2>2
    <3>2. m \notin A
      BY <2>2, <3>1
    <3> QED
      BY <1>1, <1>2, <3>1, <3>2
  <2> QED
    BY <2>2, <2>3
<1>6. NumBuckets \in 1..(MaxValue + 1)
  BY <1>5, Zenon DEF NumBuckets
<1>7. IsFiniteSet(0..(NumBuckets - 1))
  BY <1>1, <1>6, FS_Interval
<1> QED
  BY <1>1, <1>6, <1>7 DEF Bucket

\* A value lies in its bucket: the buckets after it start beyond the value.
LEMMA BucketIndexFacts ==
    ASSUME NEW v \in Nat
    PROVE  /\ BucketIndex(v) \in Bucket
           /\ \A j \in Bucket : j > BucketIndex(v) => v < BucketStart(j)
<1> DEFINE A == {k \in Bucket : k = 0 \/ BucketStart(k) <= v}
<1>1. A \in SUBSET Int /\ IsFiniteSet(A) /\ 0 \in A
  <2>1. Bucket \in SUBSET Int
    BY BucketFacts
  <2> QED
    BY <2>1, BucketFacts, FS_Subset
<1>2. BucketIndex(v) = Max(A)
  BY DEF BucketIndex
<1>3. Max(A) \in A /\ \A x \in A : x <= Max(A)
  <2> HIDE DEF A
  <2> QED
    BY <1>1, MaxMinFacts
<1>4. ASSUME NEW j \in Bucket, j > Max(A) PROVE v < BucketStart(j)
  <2>1. j \in Nat /\ Max(A) \in Int /\ j \notin A
    BY <1>1, <1>3, <1>4, BucketFacts
  <2>2. BucketStart(j) \in Nat
    BY <2>1, BucketStartFacts
  <2> QED
    BY <2>1, <2>2
<1> QED
  BY <1>2, <1>3, <1>4

-----------------------------------------------------------------------------
(* Weights *)

\* The last time of a run; weights are exact until then.
End == Epoch + Horizon

\* A function that says what each bucket weighs at each time since r, every
\* half-life halving it without a remainder.
Ages(w, r) ==
    \A k \in Bucket : \A s, t \in r..End :
        s <= t => w[k][t] \in Nat /\ w[k][s] = Power(2, t - s) * w[k][t]

Shape(options) ==
    [options : {options}, buckets : [Bucket -> Nat], total : Nat, ref : 0..End]

\* The histogram h is as w says: its buckets are, its total is their sum, and w
\* halves from its reference on.  One without a reference is empty.
Weighs(h, w) ==
    /\ h \in Shape(h.options)
    /\ Ages(w, h.ref)
    /\ \A k \in Bucket : h.buckets[k] = w[k][h.ref]
    /\ h.total = SumOver(h.buckets, Bucket)
    /\ h.ref = ZeroTime => \A k \in Bucket : \A t \in 0..End : w[k][t] = 0

\* A time of the run lies between zero and its end.
LEMMA TimeFacts ==
    /\ End \in Nat /\ Epoch \in 0..End /\ WrappedTime \in 0..End /\ ZeroTime = 0
    /\ Epoch = 2 /\ WrappedTime = 1 /\ End = Epoch + Horizon /\ Horizon \in Nat
  BY OptionsAssumption DEF End, Epoch, WrappedTime, ZeroTime

\* Halving a weight that is exact.
LEMMA DecayExact ==
    ASSUME NEW n \in Nat, NEW x \in Nat
    PROVE  Decayed(Power(2, n) * x, n) = x /\ Power(2, n) * x \in Nat
<1>1. Power(2, n) \in Nat \ {0}
  BY PowerFacts
<1> QED
  BY <1>1, DivExact DEF Decayed

\* What ages from r on ages from any later time on.
LEMMA AgesLater ==
    ASSUME NEW w, NEW r \in 0..End, Ages(w, r), NEW t \in r..End
    PROVE  Ages(w, t)
<1>1. \A u \in t..End : u \in r..End
  BY TimeFacts
<1> QED
  BY <1>1 DEF Ages

\* shiftReference ages a histogram to t, or leaves it at a later reference.
LEMMA ShiftWeighs ==
    ASSUME NEW h, NEW w, Weighs(h, w), NEW t \in 0..End
    PROVE  LET s == ShiftReference(h, t)
           IN /\ s \in Shape(h.options) /\ Weighs(s, w)
              /\ s.ref = IF h.ref <= t THEN t ELSE h.ref
<1> DEFINE s == ShiftReference(h, t)
           o == h.options
<1>1. h \in Shape(o) /\ h.ref \in 0..End /\ End \in Nat
  BY TimeFacts DEF Weighs, Shape
<1>2. CASE h.ref = 0
  <2>1. s = [h EXCEPT !.ref = t]
    BY <1>2 DEF ShiftReference, ZeroTime
  <2>2. s \in Shape(o) /\ s.ref = t /\ s.buckets = h.buckets /\ s.total = h.total /\ s.options = o
    BY <1>1, <2>1 DEF Shape
  <2>3. \A k \in Bucket : s.buckets[k] = w[k][t]
    <3> SUFFICES ASSUME NEW k \in Bucket PROVE h.buckets[k] = w[k][t]
      BY <2>2
    <3>1. w[k][h.ref] = 0 /\ w[k][t] = 0
      BY <1>1, <1>2 DEF Weighs, ZeroTime
    <3> QED
      BY <3>1 DEF Weighs
  <2>4. Ages(w, t)
    BY <1>1, <1>2, AgesLater DEF Weighs
  <2>5. Weighs(s, w)
    BY <1>2, <2>2, <2>3, <2>4 DEF Weighs, ZeroTime
  <2> QED
    BY <1>1, <1>2, <2>2, <2>5
<1>3. CASE h.ref # 0 /\ t <= h.ref
  <2>1. s = h
    BY <1>3 DEF ShiftReference, ZeroTime
  <2> QED
    BY <1>1, <1>3, <2>1
<1>4. CASE h.ref # 0 /\ ~(t <= h.ref)
  <2> DEFINE n == t - h.ref
             b == [k \in Bucket |-> w[k][t]]
             d == Power(2, n)
  <2>1. n \in Nat /\ h.ref <= t /\ t \in h.ref..End /\ h.ref \in h.ref..End
    BY <1>1, <1>4
  <2>2. d \in Nat \ {0}
    BY <2>1, PowerFacts
  <2>3. \A k \in Bucket : b[k] \in Nat /\ h.buckets[k] = d * b[k]
    BY <2>1 DEF Weighs, Ages
  <2>4. s = [h EXCEPT !.ref = t, !.buckets = [k \in Bucket |-> Decayed(h.buckets[k], n)],
                      !.total = Decayed(h.total, n)]
    BY <1>1, <1>4 DEF ShiftReference, ZeroTime, Shape
  <2> HIDE DEF d, n
  <2>5. [k \in Bucket |-> Decayed(h.buckets[k], n)] = b
    <3> SUFFICES ASSUME NEW k \in Bucket PROVE Decayed(h.buckets[k], n) = b[k]
      OBVIOUS
    <3>1. b[k] \in Nat /\ h.buckets[k] = Power(2, n) * b[k]
      BY <2>3 DEF d
    <3> HIDE DEF b
    <3> QED
      BY <2>1, <3>1, DecayExact
  <2>6. SumOver(b, Bucket) \in Nat /\ h.total = d * SumOver(b, Bucket)
    <3>1. SumOver(h.buckets, Bucket) = d * SumOver(b, Bucket)
      <4> HIDE DEF b
      <4> QED
        BY <2>2, <2>3, BucketFacts, SumScale
    <3>2. SumOver(b, Bucket) \in Nat
      <4> HIDE DEF b
      <4> QED
        BY <2>3, BucketFacts, SumMonotonic
    <3> QED
      BY <3>1, <3>2 DEF Weighs
  <2>7. Decayed(h.total, n) = SumOver(b, Bucket)
    <3> HIDE DEF b
    <3> QED
      BY <2>1, <2>6, DecayExact DEF d
  <2>8. s = [h EXCEPT !.ref = t, !.buckets = b, !.total = SumOver(b, Bucket)]
    BY <2>4, <2>5, <2>7
  <2>9. b \in [Bucket -> Nat] /\ \A k \in Bucket : b[k] = w[k][t]
    BY <2>3
  <2> HIDE DEF b
  <2>10. /\ s \in Shape(o) /\ s.ref = t /\ s.buckets = b /\ s.options = o
         /\ s.total = SumOver(b, Bucket)
    BY <1>1, <2>6, <2>8, <2>9 DEF Shape
  <2>11. Ages(w, t)
    BY <1>1, <2>1, AgesLater DEF Weighs
  <2>12. Weighs(s, w)
    BY <1>1, <1>4, <2>9, <2>10, <2>11 DEF Weighs, ZeroTime
  <2> QED
    BY <2>1, <2>10, <2>12
<1> QED
  BY <1>2, <1>3, <1>4

\* A new histogram weighs nothing.
LEMMA NewWeighs ==
    ASSUME NEW o, NEW w, \A k \in Bucket : \A t \in 0..End : w[k][t] = 0
    PROVE  New(o) \in Shape(o) /\ Weighs(New(o), w) /\ New(o).ref = 0
<1> DEFINE h == New(o)
           b == [k \in Bucket |-> 0]
<1>1. h.options = o /\ h.buckets = b /\ h.total = 0 /\ h.ref = 0
  BY DEF New, ZeroTime
<1>2. h \in Shape(o)
  BY TimeFacts DEF New, Shape, ZeroTime
<1>3. Ages(w, 0)
  <2> SUFFICES ASSUME NEW k \in Bucket, NEW s \in 0..End, NEW t \in 0..End, s <= t
               PROVE  w[k][t] \in Nat /\ w[k][s] = Power(2, t - s) * w[k][t]
    BY DEF Ages
  <2>1. t - s \in Nat
    BY TimeFacts
  <2>2. Power(2, t - s) \in Nat /\ w[k][s] = 0 /\ w[k][t] = 0
    BY <2>1, PowerOfTwo
  <2> QED
    BY <2>2
<1>4. SumOver(b, Bucket) = 0
  <2>1. \A k \in Bucket : b[k] \in Int /\ b[k] = 0 * b[k]
    OBVIOUS
  <2> HIDE DEF b
  <2>2. IsFiniteSet(Bucket) /\ Bucket \in SUBSET Bucket
    BY BucketFacts
  <2>3. SumOver(b, Bucket) \in Int
    BY <2>1, <2>2, SumFacts
  <2> DEFINE zero == 0
  <2>4. zero \in Int /\ \A k \in Bucket : b[k] \in Int /\ b[k] = zero * b[k]
    BY <2>1
  <2> HIDE DEF zero
  <2>5. SumOver(b, Bucket) = zero * SumOver(b, Bucket)
    BY <2>2, <2>4, SumScale
  <2> QED
    BY <2>3, <2>5 DEF zero
<1>5. \A k \in Bucket : b[k] = w[k][0]
  BY TimeFacts
<1> HIDE DEF h, b
<1>6. Weighs(h, w)
  BY <1>1, <1>2, <1>3, <1>4, <1>5 DEF Weighs
<1> QED
  BY <1>1, <1>2, <1>6 DEF h

\* A weight of one stays exact to the end of the run.
LEMMA UnitAges ==
    ASSUME NEW m \in 0..Horizon, NEW n \in m..Horizon
    PROVE  /\ Decayed(Unit, n) \in Nat \ {0}
           /\ Decayed(Unit, m) = Power(2, n - m) * Decayed(Unit, n)
<1>0. Horizon \in Nat /\ m \in Nat /\ n \in Nat /\ n \in 0..Horizon
  BY TimeFacts
<1>1. ASSUME NEW i \in 0..Horizon
      PROVE  Decayed(Unit, i) = Power(2, Horizon - i) /\ Decayed(Unit, i) \in Nat \ {0}
  <2> DEFINE j == Horizon - i
  <2>1. i \in Nat /\ j \in Nat /\ i + j = Horizon
    BY <1>0
  <2> HIDE DEF j
  <2>2. Unit = Power(2, i) * Power(2, j) /\ Power(2, j) \in Nat \ {0}
    BY <2>1, PowerAdd, PowerFacts DEF Unit
  <2>3. Decayed(Unit, i) = Power(2, j)
    BY <2>1, <2>2, DecayExact
  <2> QED
    BY <2>2, <2>3 DEF j
<1>2. Power(2, Horizon - m) = Power(2, n - m) * Power(2, Horizon - n)
  <2> DEFINE i == n - m
             j == Horizon - n
  <2>1. i \in Nat /\ j \in Nat /\ Horizon - m = i + j
    BY <1>0
  <2> HIDE DEF i, j
  <2>2. Power(2, i + j) = Power(2, i) * Power(2, j)
    BY <2>1, PowerAdd
  <2> QED
    BY <2>1, <2>2 DEF i, j
<1> QED
  BY <1>0, <1>1, <1>2

\* AddSample adds one sample to what a histogram weighs.
LEMMA AddWeighs ==
    ASSUME NEW h, NEW w, Weighs(h, w), NEW v \in Nat, NEW t \in Epoch..End, h.ref <= t,
           NEW x, \A k \in Bucket : \A u \in t..End :
                     x[k][u] = w[k][u] + (IF BucketIndex(v) = k THEN Decayed(Unit, u - t) ELSE 0)
    PROVE  LET s == AddSample(h, v, Unit, t)
           IN s \in Shape(h.options) /\ Weighs(s, x) /\ s.ref = t
<1> DEFINE r == ShiftReference(h, t)
           s == AddSample(h, v, Unit, t)
           i == BucketIndex(v)
           b == [r.buckets EXCEPT ![i] = @ + Unit]
           o == h.options
<1>0. t \in 0..End /\ t \in Nat /\ End \in Nat /\ t # 0 /\ t \in t..End
  BY TimeFacts
<1>1. r \in Shape(o) /\ Weighs(r, w) /\ r.ref = t
  <2>1. h.ref <= t
    OBVIOUS
  <2> HIDE DEF o
  <2> QED
    BY <1>0, <2>1, ShiftWeighs DEF o
<1>2. Unit \in Nat \ {0} /\ Decayed(Unit, 0) = Unit
  <2>1. Unit \in Nat \ {0} /\ Power(2, 0) = 1
    BY TimeFacts, PowerOfTwo DEF Unit
  <2>2. Decayed(Power(2, 0) * Unit, 0) = Unit
    BY <2>1, DecayExact
  <2> QED
    BY <2>1, <2>2
<1>3. s = [r EXCEPT !.buckets[i] = @ + Unit, !.total = @ + Unit]
  BY <1>2 DEF AddSample
<1>4. i \in Bucket
  BY BucketIndexFacts
<1> HIDE DEF r, s, i
<1>5. r.buckets \in [Bucket -> Nat] /\ r.total \in Nat /\ r.options = o
  BY <1>1 DEF Shape
<1>6. /\ b \in [Bucket -> Nat]
      /\ \A k \in Bucket : b[k] = r.buckets[k] + (IF i = k THEN Unit ELSE 0)
  BY <1>2, <1>4, <1>5
<1>7. /\ s \in Shape(o) /\ s.ref = t /\ s.buckets = b /\ s.total = r.total + Unit
      /\ s.options = o
  <2>1. s = [r EXCEPT !.buckets = b, !.total = r.total + Unit]
    BY <1>1, <1>3 DEF Shape
  <2>2. r.total + Unit \in Nat
    BY <1>2, <1>5
  <2> HIDE DEF b
  <2> QED
    BY <1>1, <1>6, <2>1, <2>2 DEF Shape
<1>8. SumOver(b, Bucket) = SumOver(r.buckets, Bucket) + Unit
  BY <1>2, <1>4, <1>5, BucketFacts, SumUpdate
<1>9. \A k \in Bucket : b[k] = x[k][t]
  <2> SUFFICES ASSUME NEW k \in Bucket PROVE b[k] = x[k][t]
    OBVIOUS
  <2>1. r.buckets[k] = w[k][t]
    BY <1>1 DEF Weighs
  <2>2. x[k][t] = w[k][t] + (IF i = k THEN Unit ELSE 0)
    BY <1>0, <1>2 DEF i
  <2> QED
    BY <1>6, <2>1, <2>2
<1>10. Ages(x, t)
  <2> SUFFICES ASSUME NEW k \in Bucket, NEW p \in t..End, NEW q \in t..End, p <= q
               PROVE  x[k][q] \in Nat /\ x[k][p] = Power(2, q - p) * x[k][q]
    BY DEF Ages
  <2> DEFINE d == Power(2, q - p)
             y == Decayed(Unit, p - t)
             z == Decayed(Unit, q - t)
  <2>1. /\ p - t \in 0..Horizon /\ q - t \in (p - t)..Horizon
        /\ (q - t) - (p - t) = q - p /\ q - p \in Nat
    BY <1>0, TimeFacts
  <2>2. z \in Nat /\ y = d * z
    BY <2>1, UnitAges
  <2>3. d \in Nat
    BY <2>1, PowerOfTwo
  <2>4. w[k][q] \in Nat /\ w[k][p] = d * w[k][q]
    BY <1>1 DEF Weighs, Ages
  <2>5. /\ x[k][q] = w[k][q] + (IF i = k THEN z ELSE 0)
        /\ x[k][p] = w[k][p] + (IF i = k THEN y ELSE 0)
    BY DEF i
  <2> HIDE DEF d, y, z
  <2>6. CASE i = k
    <3>1. x[k][q] = w[k][q] + z /\ x[k][p] = d * w[k][q] + d * z
      BY <2>2, <2>4, <2>5, <2>6
    <3> QED
      BY <2>2, <2>3, <2>4, <3>1 DEF d
  <2>7. CASE i # k
    BY <2>3, <2>4, <2>5, <2>7 DEF d
  <2> QED
    BY <2>6, <2>7
<1> HIDE DEF b
<1>11. r.total = SumOver(r.buckets, Bucket)
  BY <1>1 DEF Weighs
<1>12. Weighs(s, x)
  BY <1>0, <1>7, <1>8, <1>9, <1>10, <1>11 DEF Weighs, ZeroTime
<1> QED
  BY <1>7, <1>12 DEF s

\* Merge adds up what two histograms of the same options weigh, at the later of
\* their references.
LEMMA MergeWeighs ==
    ASSUME NEW h, NEW w, Weighs(h, w), NEW o, NEW v, Weighs(o, v), h.options = o.options,
           NEW t \in 0..End, t = IF h.ref <= o.ref THEN o.ref ELSE h.ref,
           NEW x, \A k \in Bucket : \A u \in t..End : x[k][u] = w[k][u] + v[k][u]
    PROVE  Merge(h, o) \in Shape(h.options) /\ Weighs(Merge(h, o), x) /\ Merge(h, o).ref = t
<1> DEFINE s == ShiftReference(h, t)
           r == ShiftReference(o, t)
           b == [k \in Bucket |-> s.buckets[k] + r.buckets[k]]
           m == Merge(h, o)
<1>1. h.ref \in 0..End /\ o.ref \in 0..End /\ End \in Nat /\ t \in t..End
  BY TimeFacts DEF Weighs, Shape
<1>2. Max({h.ref, o.ref}) = t
  BY <1>1, OfTwo
<1>3. h.ref <= t /\ o.ref <= t
  BY <1>1
<1>4. s \in Shape(h.options) /\ Weighs(s, w) /\ s.ref = t
  BY <1>3, ShiftWeighs
<1>5. r \in Shape(o.options) /\ Weighs(r, v) /\ r.ref = t
  BY <1>3, ShiftWeighs
<1>6. m = [s EXCEPT !.buckets = [k \in Bucket |-> @[k] + r.buckets[k]], !.total = @ + r.total]
  BY <1>2 DEF Merge
<1> HIDE DEF s, r, m
<1>7. /\ s.buckets \in [Bucket -> Nat] /\ r.buckets \in [Bucket -> Nat]
      /\ s.total \in Nat /\ r.total \in Nat
  BY <1>4, <1>5 DEF Shape
<1>8. /\ m \in Shape(h.options) /\ m.buckets = b /\ m.ref = t /\ m.options = h.options
      /\ m.total = s.total + r.total
  <2>1. m = [s EXCEPT !.buckets = b, !.total = s.total + r.total]
    BY <1>4, <1>6 DEF Shape
  <2>2. b \in [Bucket -> Nat] /\ s.total + r.total \in Nat
    BY <1>7
  <2> HIDE DEF b
  <2> QED
    BY <1>4, <2>1, <2>2 DEF Shape
<1>9. \A k \in Bucket : /\ s.buckets[k] \in Int /\ r.buckets[k] \in Int
                        /\ b[k] = s.buckets[k] + r.buckets[k]
  BY <1>7
<1>10. \A k \in Bucket : b[k] = x[k][t]
  BY <1>1, <1>4, <1>5, <1>9 DEF Weighs
<1> HIDE DEF b
<1>11. m.total = SumOver(b, Bucket)
  <2>1. SumOver(b, Bucket) = SumOver(s.buckets, Bucket) + SumOver(r.buckets, Bucket)
    BY <1>9, BucketFacts, SumPlus
  <2> QED
    BY <1>4, <1>5, <1>8, <2>1 DEF Weighs
<1>12. Ages(x, t)
  <2> SUFFICES ASSUME NEW k \in Bucket, NEW p \in t..End, NEW q \in t..End, p <= q
               PROVE  x[k][q] \in Nat /\ x[k][p] = Power(2, q - p) * x[k][q]
    BY DEF Ages
  <2> DEFINE d == Power(2, q - p)
  <2>1. q - p \in Nat
    BY <1>1
  <2>2. d \in Nat
    BY <2>1, PowerOfTwo
  <2>3. /\ w[k][q] \in Nat /\ w[k][p] = d * w[k][q]
        /\ v[k][q] \in Nat /\ v[k][p] = d * v[k][q]
    BY <1>4, <1>5 DEF Weighs, Ages
  <2>4. x[k][q] = w[k][q] + v[k][q] /\ x[k][p] = w[k][p] + v[k][p]
    OBVIOUS
  <2> HIDE DEF d
  <2>5. x[k][p] = d * x[k][q] /\ x[k][q] \in Nat
    BY <2>2, <2>3, <2>4
  <2> QED
    BY <2>5 DEF d
<1>13. t = 0 => \A k \in Bucket : \A u \in 0..End : x[k][u] = 0
  BY <1>4, <1>5 DEF Weighs, ZeroTime
<1>14. Weighs(m, x)
  BY <1>8, <1>10, <1>11, <1>12, <1>13 DEF Weighs, ZeroTime
<1> QED
  BY <1>8, <1>14 DEF m

\* A histogram that is encoded and decoded weighs what it did, and has a
\* reference.
LEMMA CodecWeighs ==
    ASSUME NEW h, NEW w, Weighs(h, w)
    PROVE  LET d == Decode(Encode(h))
           IN /\ Decodes(Encode(h)) /\ d \in Shape(h.options) /\ Weighs(d, w) /\ d.ref # 0
              /\ d.ref = IF h.ref = 0 THEN WrappedTime ELSE h.ref
<1> DEFINE r == IF h.ref = 0 THEN WrappedTime ELSE h.ref
           d == [h EXCEPT !.ref = r]
<1>1. h \in Shape(h.options) /\ h.ref \in 0..End /\ r \in 0..End /\ r # 0 /\ h.ref <= r
  BY TimeFacts DEF Weighs, Shape
<1>2. Decodes(Encode(h)) /\ Decode(Encode(h)) = d
  BY <1>1 DEF Encode, Decode, Decodes, ZeroTime, Shape
<1> HIDE DEF r
<1>3. /\ d \in Shape(h.options) /\ d.options = h.options /\ d.buckets = h.buckets
      /\ d.total = h.total /\ d.ref = r
  BY <1>1 DEF Shape
<1>4. Ages(w, r)
  BY <1>1, TimeFacts, AgesLater DEF Weighs
<1>5. ASSUME NEW k \in Bucket PROVE h.buckets[k] = w[k][r]
  <2>1. CASE h.ref = 0
    BY <1>1, <2>1 DEF Weighs, ZeroTime
  <2>2. CASE h.ref # 0
    BY <2>2 DEF Weighs, r
  <2> QED
    BY <2>1, <2>2
<1> HIDE DEF d
<1>6. Weighs(d, w)
  BY <1>1, <1>3, <1>4, <1>5 DEF Weighs, ZeroTime
<1> QED
  BY <1>1, <1>2, <1>3, <1>6 DEF r

\* The last percentile is a number.  It covers every value whose bucket weighs
\* something at the end of the run, as far as the buckets go.
LEMMA PercentileCovers ==
    ASSUME NEW h, NEW w, Weighs(h, w)
    PROVE  /\ Percentile(h, 100) \in Nat
           /\ \A v \in Nat : w[BucketIndex(v)][End] # 0 =>
                 v <= Percentile(h, 100) \/ Percentile(h, 100) = MaxValue
<1> DEFINE f == h.buckets
           reached == {k \in Bucket : 100 * SumOver(f, 0..k) >= 100 * h.total}
           cands == reached \cup {NumBuckets - 1}
           first == Min(cands)
           last == NumBuckets - 1
<1>1. /\ f \in [Bucket -> Nat] /\ h.total = SumOver(f, Bucket) /\ h.total \in Nat
      /\ h.ref \in 0..End /\ End \in Nat /\ MaxValue \in Nat
  BY TimeFacts, OptionsAssumption DEF Weighs, Shape, Validate
<1>2. Percentile(h, 100) = IF h.total <= 0 THEN 0
                           ELSE IF first = last THEN MaxValue ELSE BucketStart(first + 1)
  BY DEF Percentile, SumOver
<1>3. /\ NumBuckets \in Nat \ {0} /\ Bucket = 0..last /\ IsFiniteSet(Bucket)
      /\ last \in Bucket /\ last \in Nat
  BY BucketFacts
<1>4. first \in cands /\ first \in Bucket
  <2>1. cands \in SUBSET Bucket /\ cands # {} /\ Bucket \in SUBSET Int
    BY <1>3
  <2>2. IsFiniteSet(cands)
    BY <1>3, <2>1, FS_Subset
  <2> HIDE DEF cands
  <2> QED
    BY <2>1, <2>2, MaxMinFacts
<1> HIDE DEF first, f
<1>5. Percentile(h, 100) \in Nat
  <2>1. first + 1 \in Nat
    BY <1>3, <1>4
  <2>2. BucketStart(first + 1) \in Nat
    BY <2>1, BucketStartFacts
  <2> QED
    BY <1>1, <1>2, <2>2
<1>6. ASSUME NEW v \in Nat, w[BucketIndex(v)][End] # 0
      PROVE  v <= Percentile(h, 100) \/ Percentile(h, 100) = MaxValue
  <2> DEFINE i == BucketIndex(v)
  <2>1. i \in Bucket /\ \A j \in Bucket : j > i => v < BucketStart(j)
    BY BucketIndexFacts
  <2> HIDE DEF i
  <2>2. f[i] \in Nat \ {0}
    <3> DEFINE d == Power(2, End - h.ref)
    <3>1. h.ref \in h.ref..End /\ End \in h.ref..End /\ h.ref <= End /\ End - h.ref \in Nat
      BY <1>1
    <3>2. w[i][End] \in Nat /\ w[i][h.ref] = d * w[i][End] /\ f[i] = w[i][h.ref]
      BY <2>1, <3>1 DEF Weighs, Ages, f
    <3>3. d \in Nat \ {0}
      BY <3>1, PowerOfTwo
    <3> HIDE DEF d
    <3> QED
      BY <1>6, <3>2, <3>3 DEF i
  <2>3. \A k \in Bucket : f[k] \in Int /\ f[k] \in Nat
    BY <1>1
  <2>4. SumOver(f, Bucket) = f[i] + SumOver(f, Bucket \ {i}) /\ SumOver(f, Bucket \ {i}) \in Nat
    <3>1. Bucket \ {i} \in SUBSET Bucket
      OBVIOUS
    <3> QED
      BY <1>3, <2>1, <2>3, <3>1, SumRemove, SumMonotonic
  <2>5. h.total > 0
    BY <1>1, <2>2, <2>4
  <2>6. ASSUME NEW k \in Bucket, k < i PROVE k \notin reached
    <3> DEFINE T == Bucket \ {i}
    <3>1. 0..k \in SUBSET T /\ IsFiniteSet(T)
      BY <1>3, <2>1, <2>6, FS_Subset
    <3>2. \A j \in T : f[j] \in Nat
      BY <2>3
    <3>3. SumOver(f, 0..k) \in Nat /\ SumOver(f, 0..k) <= SumOver(f, T)
      BY <3>1, <3>2, SumMonotonic
    <3>4. SumOver(f, 0..k) < h.total
      BY <1>1, <2>2, <2>4, <3>3
    <3> QED
      BY <1>1, <3>3, <3>4
  <2>7. first >= i /\ first \in Nat /\ i \in Nat
    BY <1>3, <1>4, <2>1, <2>6
  <2>8. CASE first = last
    BY <1>2, <2>5, <2>8, <1>1
  <2>9. CASE first # last
    <3>1. first + 1 \in Bucket /\ first + 1 > i /\ first + 1 \in Nat
      BY <1>3, <1>4, <2>7, <2>9
    <3>2. v < BucketStart(first + 1) /\ BucketStart(first + 1) \in Nat
      BY <2>1, <3>1, BucketStartFacts
    <3>3. Percentile(h, 100) = BucketStart(first + 1)
      BY <1>1, <1>2, <2>5, <2>9
    <3> QED
      BY <3>2, <3>3
  <2> QED
    BY <2>8, <2>9
<1> QED
  BY <1>5, <1>6

-----------------------------------------------------------------------------
(* Aggregate *)

\* Merging keeps the shape, whatever the weights.
LEMMA MergeShape ==
    ASSUME NEW options, NEW h \in Shape(options), NEW o \in Shape(options)
    PROVE  Merge(h, o) \in Shape(options)
<1> DEFINE t == Max({h.ref, o.ref})
           s == ShiftReference(h, t)
           r == ShiftReference(o, t)
           b == [k \in Bucket |-> s.buckets[k] + r.buckets[k]]
           m == Merge(h, o)
<1>1. h.ref \in 0..End /\ o.ref \in 0..End /\ h.options = options /\ o.options = options
  BY DEF Shape
<1>2. t \in 0..End
  BY <1>1, OfTwo, TimeFacts
<1> HIDE DEF t
<1>3. ASSUME NEW x \in Shape(options) PROVE ShiftReference(x, t) \in Shape(options)
  <2> DEFINE c == [k \in Bucket |-> Decayed(x.buckets[k], t - x.ref)]
             d == Decayed(x.total, t - x.ref)
  <2>1. x.ref \in 0..End /\ x.buckets \in [Bucket -> Nat] /\ x.total \in Nat
    BY DEF Shape
  <2>2. ASSUME t > x.ref PROVE c \in [Bucket -> Nat] /\ d \in Nat
    <3> DEFINE q == Power(2, t - x.ref)
    <3>1. t - x.ref \in Nat
      BY <1>2, <2>1, <2>2
    <3>2. q \in Nat \ {0}
      BY <3>1, PowerOfTwo
    <3>3. c = [k \in Bucket |-> x.buckets[k] \div q] /\ d = x.total \div q
      BY DEF Decayed
    <3> HIDE DEF q, c, d
    <3> QED
      BY <2>1, <3>2, <3>3
  <2>3. ShiftReference(x, t) = IF x.ref = ZeroTime THEN [x EXCEPT !.ref = t]
                               ELSE IF t <= x.ref THEN x
                               ELSE [x EXCEPT !.ref = t, !.buckets = c, !.total = d]
    BY DEF ShiftReference
  <2> HIDE DEF c, d
  <2>4. [x EXCEPT !.ref = t] \in Shape(options)
    BY <1>2 DEF Shape
  <2>5. t > x.ref => [x EXCEPT !.ref = t, !.buckets = c, !.total = d] \in Shape(options)
    BY <1>2, <2>2 DEF Shape
  <2>6. t <= x.ref \/ t > x.ref
    BY <1>2, <2>1
  <2> QED
    BY <2>3, <2>4, <2>5, <2>6
<1>4. s \in Shape(options) /\ r \in Shape(options)
  BY <1>3
<1>5. m = [s EXCEPT !.buckets = [k \in Bucket |-> @[k] + r.buckets[k]], !.total = @ + r.total]
  BY <1>1 DEF Merge, t
<1> HIDE DEF s, r, m
<1>6. /\ s.buckets \in [Bucket -> Nat] /\ r.buckets \in [Bucket -> Nat]
      /\ s.total \in Nat /\ r.total \in Nat
  BY <1>4 DEF Shape
<1>7. m = [s EXCEPT !.buckets = b, !.total = s.total + r.total]
  BY <1>4, <1>5 DEF Shape
<1>8. b \in [Bucket -> Nat] /\ s.total + r.total \in Nat
  BY <1>6
<1> HIDE DEF b
<1>9. m \in Shape(options)
  BY <1>4, <1>7, <1>8 DEF Shape
<1> QED
  BY <1>9 DEF m

\* What Aggregate does with one payload.
AddPayload(wh, x) ==
    IF ~Decodes(x) THEN wh
    ELSE IF Decode(x).options = "memory" THEN [wh EXCEPT !.memory = Merge(@, Decode(x))]
    ELSE [wh EXCEPT !.cpu = Merge(@, Decode(x))]

NoHistory == [cpu |-> New("cpu"), memory |-> New("memory")]
Workload == [cpu : Shape("cpu"), memory : Shape("memory")]

\* A payload whose histogram, when it is of one of the two shapes, is well formed.
WellFormed(x) ==
    Decodes(x) => \A o \in {"cpu", "memory"} : Decode(x).options = o => Decode(x) \in Shape(o)

\* One payload makes a workload of a workload; it leaves the CPU histogram alone
\* unless it has its options.
LEMMA AddPayloadFacts ==
    ASSUME NEW wh \in Workload, NEW x, WellFormed(x)
    PROVE  /\ AddPayload(wh, x) \in Workload
           /\ AddPayload(wh, x).cpu =
                IF Decodes(x) /\ Decode(x).options = "cpu" THEN Merge(wh.cpu, Decode(x)) ELSE wh.cpu
<1> DEFINE o == Decode(x).options
           c == Merge(wh.cpu, Decode(x))
           m == Merge(wh.memory, Decode(x))
           r == AddPayload(wh, x)
<1>1. wh.cpu \in Shape("cpu") /\ wh.memory \in Shape("memory") /\ wh.cpu.options = "cpu"
  BY DEF Workload, Shape
<1>2. r = IF ~Decodes(x) THEN wh ELSE IF o = "memory" THEN [wh EXCEPT !.memory = m]
          ELSE [wh EXCEPT !.cpu = c]
  BY DEF AddPayload, Workload
<1>3. Decodes(x) /\ o = "memory" => m \in Shape("memory")
  BY <1>1, MergeShape DEF WellFormed
<1>4. Decodes(x) => c \in Shape("cpu") /\ (o # "cpu" => c = wh.cpu)
  <2>1. CASE o # "cpu"
    BY <1>1, <2>1 DEF Merge
  <2>2. CASE o = "cpu"
    BY <1>1, <2>2, MergeShape DEF WellFormed
  <2> QED
    BY <2>1, <2>2
<1> HIDE DEF c, m, r
<1>5. r \in Workload
  BY <1>2, <1>3, <1>4 DEF Workload
<1>6. r.cpu = IF Decodes(x) /\ o = "cpu" THEN c ELSE wh.cpu
  BY <1>2, <1>4 DEF Workload
<1> QED
  BY <1>5, <1>6 DEF r, c

AggregatesTo(g, s) ==
    g = [d \in SUBSET DOMAIN s |-> IF d = {} THEN NoHistory
                                   ELSE AddPayload(g[d \ {Max(d)}], s[Max(d)])]

\* Aggregate takes the payloads in their order.
LEMMA AggregateValue ==
    ASSUME NEW n \in Nat, NEW s, DOMAIN s = 1..n, \A i \in 1..n : WellFormed(s[i])
    PROVE  \E g : /\ Aggregate(s) = g[1..n] /\ g[{}] = NoHistory
                  /\ \A i \in 1..n : /\ g[1..(i - 1)] \in Workload
                                     /\ g[1..i] = AddPayload(g[1..(i - 1)], s[i])
<1> DEFINE D == 1..n
           R == Workload
           pick == [d \in SUBSET D |-> Max(d)]
           step == [i \in D |-> [r \in R |-> AddPayload(r, s[i])]]
<1>1. IsFiniteSet(D) /\ D \in SUBSET Int
  BY FS_Interval
<1>2. ASSUME NEW d \in SUBSET D, d # {} PROVE Max(d) \in d /\ \A i \in d : i <= Max(d)
  <2>1. IsFiniteSet(d) /\ d \in SUBSET Int
    BY <1>1, FS_Subset
  <2> QED
    BY <1>2, <2>1, MaxMinFacts
<1>3. NoHistory \in R
  <2> DEFINE w == [k \in Bucket |-> [u \in 0..End |-> 0]]
  <2>1. \A k \in Bucket : \A u \in 0..End : w[k][u] = 0
    OBVIOUS
  <2> HIDE DEF w
  <2>2. New("cpu") \in Shape("cpu") /\ New("memory") \in Shape("memory")
    BY <2>1, NewWeighs
  <2> QED
    BY <2>2 DEF NoHistory, Workload
<1>4. step \in [D -> [R -> R]]
  BY AddPayloadFacts
<1>5. \A d \in SUBSET D : d # {} => pick[d] \in d
  BY <1>2
<1> HIDE DEF D, R, pick, step
<1>6. PICK f \in [SUBSET D -> R] : FoldsTo(f, D, pick, NoHistory, step)
  BY <1>1, <1>3, <1>4, <1>5, FoldExists
<1>7. AggregatesTo(f, s)
  <2>1. ASSUME NEW d \in SUBSET D
        PROVE  f[d] = IF d = {} THEN NoHistory ELSE AddPayload(f[d \ {Max(d)}], s[Max(d)])
    <3>1. f[d] = IF d = {} THEN NoHistory ELSE step[pick[d]][f[d \ {pick[d]}]]
      BY <1>6 DEF FoldsTo
    <3>2. pick[d] = Max(d)
      BY DEF pick
    <3>3. ASSUME d # {} PROVE step[pick[d]][f[d \ {pick[d]}]] = AddPayload(f[d \ {pick[d]}], s[pick[d]])
      <4>1. pick[d] \in D /\ d \ {pick[d]} \in SUBSET D
        BY <1>5, <3>3
      <4>2. f[d \ {pick[d]}] \in R
        BY <4>1
      <4> QED
        BY <4>1, <4>2 DEF step
    <3> QED
      BY <3>1, <3>2, <3>3
  <2> QED
    BY <2>1 DEF AggregatesTo, D
<1> DEFINE g == CHOOSE h : AggregatesTo(h, s)
<1>8. AggregatesTo(g, s)
  BY <1>7
<1>9. Aggregate(s) = g[D]
  BY DEF Aggregate, FoldLeft, MapThenFoldSet, AggregatesTo, AddPayload, NoHistory, D
<1>10. \A d \in SUBSET D : g[d] = IF d = {} THEN NoHistory
                                  ELSE AddPayload(g[d \ {Max(d)}], s[Max(d)])
  BY <1>8 DEF AggregatesTo, D
<1> HIDE DEF g
<1>11. ASSUME NEW i \in D PROVE i - 1 \in Nat /\ g[1..i] = AddPayload(g[1..(i - 1)], s[i])
  <2> DEFINE d == 1..i
  <2>1. i \in Nat /\ i <= n /\ i >= 1
    BY DEF D
  <2>2. d \in SUBSET D /\ d # {} /\ i \in d /\ \A j \in d : j <= i /\ j \in Int
    BY <2>1 DEF D
  <2>3. Max(d) \in d /\ \A j \in d : j <= Max(d)
    BY <1>2, <2>2
  <2>4. Max(d) = i
    BY <2>1, <2>2, <2>3
  <2>5. d \ {i} = 1..(i - 1)
    BY <2>1
  <2>6. g[d] = AddPayload(g[d \ {i}], s[i])
    BY <1>10, <2>2, <2>4
  <2>7. g[1..i] = AddPayload(g[1..(i - 1)], s[i])
    BY <2>5, <2>6, Zenon
  <2>8. i - 1 \in Nat
    BY <2>1
  <2> QED
    BY <2>7, <2>8
<1>12. g[{}] = NoHistory /\ 1..0 = {}
  <2>1. {} \in SUBSET D
    OBVIOUS
  <2>2. g[{}] = NoHistory
    BY <1>10, <2>1, Zenon
  <2>3. 1..0 = {}
    OBVIOUS
  <2> QED
    BY <2>2, <2>3
<1> DEFINE P == {i \in Nat : i <= n => g[1..i] \in R}
<1>13. 0 \in P
  BY <1>3, <1>12
<1>14. ASSUME NEW i \in P PROVE i + 1 \in P
  <2> SUFFICES ASSUME i + 1 <= n PROVE g[1..(i + 1)] \in R
    OBVIOUS
  <2>1. i \in Nat /\ i + 1 \in D /\ (i + 1) - 1 = i /\ g[1..i] \in R
    BY DEF D
  <2>2. g[1..(i + 1)] = AddPayload(g[1..i], s[i + 1])
    BY <1>11, <2>1
  <2>3. WellFormed(s[i + 1])
    BY <2>1 DEF D
  <2> QED
    BY <2>1, <2>2, <2>3, AddPayloadFacts DEF R
<1>15. P \in SUBSET Nat
  OBVIOUS
<1> HIDE DEF P
<1>16. \A i \in Nat : i \in P
  BY <1>13, <1>14, <1>15, NumberInduction
<1>17. ASSUME NEW i \in D PROVE g[1..(i - 1)] \in R
  <2>1. i - 1 \in Nat /\ i - 1 <= n
    BY DEF D
  <2> QED
    BY <1>16, <2>1 DEF P
<1> QED
  BY <1>9, <1>11, <1>12, <1>17 DEF D, R
=============================================================================

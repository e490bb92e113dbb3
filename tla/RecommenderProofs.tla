------------------------- MODULE RecommenderProofs -------------------------
(***************************************************************************)
(* Proofs about Recommend, for all histograms, ages, margins, peaks and    *)
(* policies.                                                               *)
(***************************************************************************)
EXTENDS Recommender, TLAPS

(* Arithmetic *)

\* Multiplying by a natural number keeps an order.
LEMMA TimesMonotone ==
    ASSUME NEW x \in Int, NEW y \in Int, NEW n \in Nat, x <= y
    PROVE  x * n <= y * n
<1>1. (y - x) * n >= 0
  BY SMT
<1>2. (y - x) * n = y * n - x * n
  BY SMT
<1> QED
  BY <1>1, <1>2, SMT

\* Multiplying by a positive number does not make a natural number smaller.
LEMMA TimesGrows ==
    ASSUME NEW x \in Nat, NEW n \in Nat \ {0}
    PROVE  x * n \in Nat /\ x <= x * n
<1>1. x * 1 <= x * n
  BY SMT
<1> QED
  BY <1>1, SMT

\* A positive factor can be cancelled.
LEMMA TimesCancel ==
    ASSUME NEW x \in Int, NEW y \in Int, NEW n \in Nat \ {0}, x * n <= y * n
    PROVE  x <= y
<1>1. SUFFICES ASSUME y + 1 <= x PROVE FALSE
  BY SMT
<1>2. (y + 1) * n <= x * n
  BY <1>1, TimesMonotone
<1>3. (y + 1) * n = y * n + n
  BY SMT
<1> QED
  BY <1>2, <1>3, SMT

\* Rounding up to a multiple: the quotient is the least that covers the value.
LEMMA CeilBounds ==
    ASSUME NEW v \in Int, NEW d \in Nat \ {0}
    PROVE  LET q == (v + d - 1) \div d
           IN q \in Int /\ v <= q * d /\ q * d < v + d
<1> DEFINE n == v + d - 1
<1> DEFINE q == n \div d
<1>1. n \in Int /\ q \in Int
  BY SMT
<1>2. n = q * d + (n % d) /\ n % d \in 0..(d - 1)
  BY SMT
<1> QED
  BY <1>1, <1>2, SMT
\* Rounding up keeps an order.
LEMMA CeilMonotone ==
    ASSUME NEW x \in Int, NEW y \in Int, NEW d \in Nat \ {0}, x <= y
    PROVE  (x + d - 1) \div d <= (y + d - 1) \div d
<1> DEFINE p == (x + d - 1) \div d
<1> DEFINE q == (y + d - 1) \div d
<1>1. p \in Int /\ p * d < x + d /\ q \in Int /\ y <= q * d
  BY CeilBounds
<1>2. p \in Int /\ q \in Int /\ q + 1 \in Int
  BY <1>1
<1> HIDE DEF p, q
<1>3. SUFFICES ASSUME q + 1 <= p PROVE FALSE
  BY <1>2, SMT DEF p, q
<1>4. (q + 1) * d <= p * d
  BY <1>2, <1>3, TimesMonotone
<1>5. (q + 1) * d = q * d + d
  BY <1>2, SMT
<1> QED
  BY <1>1, <1>2, <1>4, <1>5, SMT

-----------------------------------------------------------------------------
(* Type correctness *)

Bound == [lower : Nat, target : Nat, upper : Nat]

\* The inputs are what Init chose, and the locals of Recommend have their types.
RecType ==
    /\ resource \in {"cpu", "memory"}
    /\ pct \in Bound /\ pct.lower <= pct.target /\ pct.target <= pct.upper
    /\ root \in Nat \ {0} /\ margin \in Int
    /\ observed \in [PRR -> Nat \cup {Nil}]
    /\ policies \in Policies
    /\ stage \in {"bounds", "confidence", "peaks", "clamp", "done"}
    /\ b \in Bound
    /\ unread \subseteq PRR
    /\ peak \in Nat
    /\ next \in Nat

\* The limits of a policy are natural numbers or unset.
LEMMA PolicyType ==
    ASSUME policies \in Policies, NEW i \in DOMAIN policies
    PROVE  /\ policies[i].minAllowed \in Nat \cup {Nil}
           /\ policies[i].maxAllowed \in Nat \cup {Nil}
<1>1. PICK n \in 0..MaxPolicies : policies \in [1..n -> Policy]
  BY DEF Policies
<1>2. policies[i] \in Policy
  BY <1>1
<1> QED
  BY <1>2, InputAssumption DEF Policy

\* The factors are positive.
LEMMA FactorType ==
    ASSUME root \in Nat \ {0}, margin \in Int
    PROVE  Factor \in Nat \ {0} /\ Den \in Nat \ {0}
  BY SMT DEF Factor, Den, AtLeast

\* Rounding up to a whole unit, as CeilBounds has it.
LEMMA CeilType ==
    ASSUME NEW v \in Nat, Den \in Nat \ {0}
    PROVE  Ceil(v) \in Nat /\ v <= Ceil(v) * Den /\ Ceil(v) * Den < v + Den
<1>1. Ceil(v) \in Int /\ v <= Ceil(v) * Den /\ Ceil(v) * Den < v + Den
  BY CeilBounds DEF Ceil
<1>2. SUFFICES ASSUME Ceil(v) + 1 <= 0 PROVE FALSE
  BY <1>1, SMT
<1>3. (Ceil(v) + 1) * Den <= 0 * Den
  BY <1>1, <1>2, TimesMonotone
<1>4. (Ceil(v) + 1) * Den = Ceil(v) * Den + Den
  BY <1>1, SMT
<1> QED
  BY <1>1, <1>3, <1>4, SMT

\* The way into cores and back adds a unit at most, and to a whole value only.
LEMMA RoundUpCases ==
    ASSUME NEW v \in Nat, Den \in Nat \ {0}
    PROVE  /\ Ceil(v) \in Nat
           /\ RoundUp(v) \in {Ceil(v), Ceil(v) + 1}
           /\ RoundUp(v) # Ceil(v) => Ceil(v) * Den = v /\ RoundUp(v) = Ceil(v) + Excess(Ceil(v))
  BY CeilType DEF RoundUp, Whole, Excess

\* Rounding a natural number up gives a natural number.
LEMMA RoundUpType ==
    ASSUME NEW v \in Nat, Den \in Nat \ {0}
    PROVE  RoundUp(v) \in Nat /\ v <= RoundUp(v) * Den
<1> DEFINE c == Ceil(v)  q == RoundUp(v)
<1>1. c \in Nat /\ v <= c * Den /\ q \in {c, c + 1}
  BY CeilType, RoundUpCases
<1> HIDE DEF c, q
<1>2. c * Den \in Nat /\ (c + 1) * Den = c * Den + Den
  BY <1>1, SMT
<1> QED
  BY <1>1, <1>2 DEF q

\* Rounding up keeps an order: the excess of a value does not pass the next unit.
LEMMA RoundUpMonotone ==
    ASSUME NEW x \in Nat, NEW y \in Nat, x <= y, Den \in Nat \ {0}
    PROVE  RoundUp(x) <= RoundUp(y)
<1> DEFINE cx == Ceil(x)  cy == Ceil(y)  qx == RoundUp(x)  qy == RoundUp(y)
<1>1. cx \in Nat /\ cy \in Nat /\ cx <= cy
  BY CeilType, CeilMonotone DEF Ceil
<1>2. /\ qx \in {cx, cx + 1} /\ qy \in {cy, cy + 1}
      /\ qx # cx => cx * Den = x
  BY RoundUpCases
<1>3. y <= cy * Den
  BY CeilType
<1>4. x = y => qx = qy
  OBVIOUS
<1> HIDE DEF cx, cy, qx, qy
<1>5. ASSUME qx = cx \/ x = y \/ cx < cy PROVE qx <= qy
  BY <1>1, <1>2, <1>4, <1>5
<1>6. ASSUME qx # cx, x # y, ~(cx < cy) PROVE qx <= qy
  <2>1. cx = cy /\ cx * Den = x
    BY <1>1, <1>2, <1>6
  <2> QED
    BY <1>3, <1>6, <2>1
<1>7. qx <= qy
  BY <1>5, <1>6
<1> QED
  BY <1>7 DEF qx, qy

\* The products of two stages are natural numbers.
LEMMA ProductType ==
    ASSUME NEW x \in Nat, NEW y \in Nat
    PROVE  x * y \in Nat
  BY SMT

-----------------------------------------------------------------------------
(* The inductive invariant *)

Ordered(x) == x.lower <= x.target /\ x.target <= x.upper
Above(x, floor) == floor <= x.lower /\ floor <= x.target /\ floor <= x.upper

\* What maxObservedMemoryPeak has read is not above its result.
PeakCovers == \A p \in PRR \ unread : observed[p] # Nil => observed[p] <= peak

\* What each stage has established; a minimum may break the upper half of the
\* order, a maximum the lower half and the floor.
StageInv ==
    /\ stage \in {"confidence", "peaks"} => Ordered(b)
    /\ stage \in {"clamp", "done"} =>
          /\ unread = {}
          /\ NoMin => b.target <= b.upper
          /\ NoMax => b.lower <= b.target
    /\ stage = "clamp" /\ resource = "memory" /\ NoMax => Above(b, peak * root * Factor)
    /\ stage = "done" /\ resource = "memory" /\ NoMax =>
          /\ peak * Factor <= 100 * b.lower
          /\ peak * Factor <= 100 * b.target
          /\ peak * Factor <= 100 * b.upper

RecInv == RecType /\ PeakCovers /\ StageInv

\* RecInv holds in the beginning.
LEMMA RecInvInit == Init => RecInv
<1> SUFFICES ASSUME Init PROVE RecInv
  OBVIOUS
<1>1. RecType
  BY InputAssumption DEF Init, RecType, Bound
<1>2. PeakCovers /\ StageInv
  BY DEF Init, PeakCovers, StageInv
<1> QED
  BY <1>1, <1>2 DEF RecInv

\* ComputeBounds keeps RecInv: percentiles of one histogram are ordered.
LEMMA ComputeBoundsStep == RecInv /\ ComputeBounds => RecInv'
<1> SUFFICES ASSUME RecInv, ComputeBounds PROVE RecInv'
  OBVIOUS
<1>1. RecType'
  BY DEF RecInv, RecType, ComputeBounds, input
<1>2. PeakCovers'
  BY DEF RecInv, PeakCovers, ComputeBounds, input
<1>3. StageInv'
  BY DEF RecInv, RecType, StageInv, ComputeBounds, Ordered
<1> QED
  BY <1>1, <1>2, <1>3 DEF RecInv

\* ApplyConfidence keeps RecInv: it widens the interval on both sides.
LEMMA ApplyConfidenceStep == RecInv /\ ApplyConfidence => RecInv'
<1> SUFFICES ASSUME RecInv, ApplyConfidence PROVE RecInv'
  OBVIOUS
<1>0. b \in Bound /\ root \in Nat \ {0} /\ Ordered(b)
  BY DEF RecInv, RecType, StageInv, ApplyConfidence
<1> DEFINE lo == b.lower  tg == b.target  up == b.upper
<1>1. lo \in Nat /\ tg \in Nat /\ up \in Nat /\ lo <= tg /\ tg <= up
  BY <1>0 DEF Bound, Ordered
<1>2. tg * root \in Nat /\ tg <= tg * root
  BY <1>0, <1>1, TimesGrows
<1>3. up * root \in Nat /\ tg * root <= up * root
  BY <1>0, <1>1, TimesMonotone, ProductType
<1>4. up * root * root \in Nat /\ up * root <= up * root * root
  BY <1>0, <1>3, TimesGrows
<1>5. up * root * root * root \in Nat /\ up * root * root <= up * root * root * root
  BY <1>0, <1>4, TimesGrows
<1>6. b' = [lower |-> lo, target |-> tg * root, upper |-> up * root * root * root]
  BY DEF ApplyConfidence
<1> HIDE DEF lo, tg, up
<1>7. b' \in Bound /\ Ordered(b')
  BY <1>1, <1>2, <1>3, <1>4, <1>5, <1>6 DEF Bound, Ordered
<1>8. RecType'
  BY <1>7 DEF RecInv, RecType, ApplyConfidence, input
<1>9. PeakCovers'
  BY DEF RecInv, PeakCovers, ApplyConfidence, input
<1>10. StageInv'
  BY <1>7 DEF StageInv, ApplyConfidence
<1> QED
  BY <1>8, <1>9, <1>10 DEF RecInv

\* maxObservedMemoryPeak keeps RecInv.
LEMMA ReadPeakStep == ASSUME NEW q \in PRR, RecInv, ReadPeak(q) PROVE RecInv'
<1>1. observed[q] \in Nat \cup {Nil} /\ peak \in Nat
  BY DEF RecInv, RecType
<1>2. RecType'
  BY <1>1 DEF RecInv, RecType, ReadPeak, input
<1>3. PeakCovers'
  <2> SUFFICES ASSUME NEW p \in PRR, p \notin unread', observed[p] # Nil
               PROVE  observed[p] <= peak'
    BY DEF PeakCovers, ReadPeak, input
  <2>1. observed[p] \in Nat
    BY DEF RecInv, RecType
  <2>2. CASE p = q
    BY <1>1, <2>1, <2>2 DEF ReadPeak
  <2>3. CASE p # q
    <3>1. observed[p] <= peak
      BY <2>3 DEF RecInv, PeakCovers, ReadPeak
    <3> QED
      BY <1>1, <2>1, <3>1 DEF ReadPeak
  <2> QED
    BY <2>2, <2>3
<1>4. StageInv'
  BY DEF RecInv, StageInv, ReadPeak, input, Ordered
<1> QED
  BY <1>2, <1>3, <1>4 DEF RecInv

\* ApplyMargin keeps RecInv: one factor and one floor for all bounds.
LEMMA ApplyMarginStep == RecInv /\ ApplyMargin => RecInv'
<1> SUFFICES ASSUME RecInv, ApplyMargin PROVE RecInv'
  OBVIOUS
<1>0. /\ b \in Bound /\ Ordered(b) /\ unread = {} /\ unread' = unread
      /\ root \in Nat \ {0} /\ margin \in Int /\ peak \in Nat
  BY DEF RecInv, RecType, StageInv, ApplyMargin
<1>1. Factor \in Nat /\ Factor' = Factor
  BY <1>0, FactorType DEF Factor, AtLeast, ApplyMargin, input
<1> DEFINE floor == IF resource = "memory" THEN peak * root * Factor ELSE 0
<1> DEFINE lo == b.lower * Factor  tg == b.target * Factor  up == b.upper * Factor
<1>2. floor \in Nat
  BY <1>0, <1>1, ProductType
<1>3. lo \in Nat /\ tg \in Nat /\ up \in Nat
  BY <1>0, <1>1, ProductType DEF Bound
<1>4. lo <= tg /\ tg <= up
  BY <1>0, <1>1, TimesMonotone DEF Bound, Ordered
<1>5. b' = [lower |-> AtLeast(lo, floor), target |-> AtLeast(tg, floor),
            upper |-> AtLeast(up, floor)]
  BY DEF ApplyMargin
<1>6. resource = "memory" => floor = peak * root * Factor
  OBVIOUS
<1> HIDE DEF floor, lo, tg, up
<1>7. b' \in Bound /\ Ordered(b') /\ Above(b', floor)
  BY <1>2, <1>3, <1>4, <1>5 DEF Bound, Ordered, Above, AtLeast
<1>8. RecType'
  BY <1>7 DEF RecInv, RecType, ApplyMargin, input
<1>9. PeakCovers'
  BY DEF RecInv, PeakCovers, ApplyMargin, input
<1>10. stage' = "clamp" /\ UNCHANGED <<resource, root, peak>>
  BY DEF ApplyMargin, input
<1>11. StageInv'
  BY <1>0, <1>1, <1>6, <1>7, <1>10 DEF StageInv, Ordered
<1> QED
  BY <1>8, <1>9, <1>11 DEF RecInv

\* The properties of the policies depend on the input only.
LEMMA PoliciesFixed == UNCHANGED input => /\ NoMin' = NoMin /\ NoMax' = NoMax
                                          /\ Factor' = Factor /\ Den' = Den
  BY DEF input, NoMin, NoMax, Own, Factor, Den, AtLeast

\* One policy of the resource, applied to bounds.
LEMMA ClampedFacts ==
    ASSUME b \in Bound, Den \in Nat, NEW i \in DOMAIN policies, policies \in Policies,
           NEW floor \in Nat
    PROVE  LET p == policies[i]
           IN /\ Clamped(p) \in Bound
              /\ p.minAllowed = Nil /\ b.target <= b.upper =>
                    Clamped(p).target <= Clamped(p).upper
              /\ p.maxAllowed = Nil /\ b.lower <= b.target =>
                    Clamped(p).lower <= Clamped(p).target
              /\ p.maxAllowed = Nil /\ Above(b, floor) => Above(Clamped(p), floor)
<1> DEFINE p == policies[i]
<1> DEFINE min == p.minAllowed * Den
<1> DEFINE max == p.maxAllowed * Den
<1> DEFINE c == IF p.minAllowed = Nil THEN b
                ELSE [b EXCEPT !.target = AtLeast(@, min), !.lower = AtLeast(@, min)]
<1> DEFINE d == IF p.maxAllowed = Nil THEN c
                ELSE [c EXCEPT !.upper = AtMost(@, max), !.target = AtMost(@, max)]
<1>1. (p.minAllowed # Nil => min \in Nat) /\ (p.maxAllowed # Nil => max \in Nat)
  BY PolicyType, ProductType
<1>2. Clamped(p) = d
  BY DEF Clamped
<1> HIDE DEF p, min, max
<1>3. c \in Bound
  BY <1>1 DEF Bound, AtLeast
<1>4. d \in Bound
  BY <1>1, <1>3 DEF Bound, AtMost
<1>5. p.minAllowed = Nil /\ b.target <= b.upper => d.target <= d.upper
  BY <1>1 DEF Bound, AtMost
<1>6. p.maxAllowed = Nil /\ b.lower <= b.target => d.lower <= d.target
  BY <1>1 DEF Bound, AtLeast
<1>7. p.maxAllowed = Nil /\ Above(b, floor) => Above(d, floor)
  BY <1>1 DEF Bound, AtLeast, Above
<1> QED
  BY <1>2, <1>4, <1>5, <1>6, <1>7 DEF p

\* clampToPolicy keeps RecInv.
LEMMA ClampToPolicyStep == RecInv /\ ClampToPolicy => RecInv'
<1> SUFFICES ASSUME RecInv, ClampToPolicy PROVE RecInv'
  OBVIOUS
<1>0. /\ b \in Bound /\ policies \in Policies /\ next \in DOMAIN policies
      /\ root \in Nat \ {0} /\ margin \in Int /\ peak \in Nat /\ next \in Nat
  BY DEF RecInv, RecType, ClampToPolicy
<1>1. Factor \in Nat /\ Den \in Nat
  BY <1>0, FactorType
<1>2. UNCHANGED input /\ UNCHANGED <<stage, unread, peak>> /\ stage = "clamp"
  BY DEF ClampToPolicy
<1>3. /\ NoMin' = NoMin /\ NoMax' = NoMax /\ Factor' = Factor
  BY <1>2, PoliciesFixed
<1> DEFINE floor == peak * root * Factor
<1>4. floor \in Nat
  BY <1>0, <1>1, ProductType
<1> HIDE DEF floor
<1>5. /\ unread = {} /\ (NoMin => b.target <= b.upper) /\ (NoMax => b.lower <= b.target)
      /\ resource = "memory" /\ NoMax => Above(b, floor)
  BY <1>2 DEF RecInv, StageInv, floor
<1>6. /\ b' \in Bound
      /\ NoMin => b'.target <= b'.upper
      /\ NoMax => b'.lower <= b'.target
      /\ resource = "memory" /\ NoMax => Above(b', floor)
  <2>1. CASE policies[next].resource = resource
    <3>1. b' = Clamped(policies[next])
      BY <2>1 DEF ClampToPolicy
    <3>2. (NoMin => policies[next].minAllowed = Nil) /\ (NoMax => policies[next].maxAllowed = Nil)
      BY <1>0, <2>1 DEF NoMin, NoMax, Own
    <3> QED
      BY <1>0, <1>1, <1>4, <1>5, <3>1, <3>2, ClampedFacts
  <2>2. CASE policies[next].resource # resource
    BY <1>0, <1>5, <2>2 DEF ClampToPolicy
  <2> QED
    BY <2>1, <2>2
<1>7. RecType'
  BY <1>0, <1>6 DEF RecInv, RecType, ClampToPolicy, input
<1>8. PeakCovers'
  BY DEF RecInv, PeakCovers, ClampToPolicy, input
<1>9. floor = peak' * root' * Factor'
  BY <1>2, <1>3 DEF input, floor
<1>10. StageInv'
  BY <1>2, <1>3, <1>5, <1>6, <1>9 DEF StageInv, input
<1> QED
  BY <1>7, <1>8, <1>10 DEF RecInv

\* A bound over the floor is over it by its rounded value as well.
LEMMA RoundedFloor ==
    ASSUME NEW v \in Nat, root \in Nat \ {0}, Den \in Nat \ {0}, NEW f \in Nat,
           NEW k \in Nat, k * root * f <= v
    PROVE  k * f <= 100 * RoundUp(v)
<1> DEFINE q == RoundUp(v)
<1>1. q \in Nat /\ v <= q * Den
  BY RoundUpType
<1> HIDE DEF q
<1>2. k * root * f = (k * f) * root
  BY SMT
<1>3. q * Den = (100 * q) * root
  BY <1>1, SMT DEF Den
<1>4. k * f \in Nat /\ 100 * q \in Nat
  BY <1>1, ProductType
<1>5. (k * f) * root \in Nat /\ (100 * q) * root \in Nat
  BY <1>4, ProductType
<1>6. (k * f) * root <= (100 * q) * root
  BY <1>1, <1>2, <1>3, <1>5, SMT
<1>7. k * f <= 100 * q
  BY <1>4, <1>6, TimesCancel
<1> QED
  BY <1>7 DEF q

\* resourceList keeps RecInv: rounding up keeps order and floor.
LEMMA ResourceListStep == RecInv /\ ResourceList => RecInv'
<1> SUFFICES ASSUME RecInv, ResourceList PROVE RecInv'
  OBVIOUS
<1>0. /\ b.lower \in Nat /\ b.target \in Nat /\ b.upper \in Nat
      /\ root \in Nat \ {0} /\ margin \in Int /\ peak \in Nat
  BY DEF RecInv, RecType, Bound
<1>1. Factor \in Nat /\ Den \in Nat \ {0}
  BY <1>0, FactorType
<1>2. UNCHANGED input /\ UNCHANGED <<unread, peak, next>> /\ stage = "clamp" /\ stage' = "done"
  BY DEF ResourceList
<1>3. NoMin' = NoMin /\ NoMax' = NoMax /\ Factor' = Factor
  BY <1>2, PoliciesFixed
<1> DEFINE lo == RoundUp(b.lower)  tg == RoundUp(b.target)  up == RoundUp(b.upper)
<1>4. b' = [lower |-> lo, target |-> tg, upper |-> up]
  BY DEF ResourceList
<1>5. lo \in Nat /\ tg \in Nat /\ up \in Nat
  BY <1>0, <1>1, RoundUpType
<1>6. (b.target <= b.upper => tg <= up) /\ (b.lower <= b.target => lo <= tg)
  <2>1. ASSUME NEW x \in Nat, NEW y \in Nat, x <= y PROVE RoundUp(x) <= RoundUp(y)
    BY <1>1, <2>1, RoundUpMonotone
  <2> QED
    BY <1>0, <2>1
<1>7. Above(b, peak * root * Factor) =>
          peak * Factor <= 100 * lo /\ peak * Factor <= 100 * tg /\ peak * Factor <= 100 * up
  BY <1>0, <1>1, RoundedFloor DEF Above
<1> HIDE DEF lo, tg, up
<1>8. RecType'
  BY <1>2, <1>4, <1>5 DEF RecInv, RecType, Bound, input
<1>9. PeakCovers'
  BY <1>2 DEF RecInv, PeakCovers, input
<1>10. StageInv'
  BY <1>2, <1>3, <1>4, <1>6, <1>7 DEF RecInv, StageInv, input
<1> QED
  BY <1>8, <1>9, <1>10 DEF RecInv

\* Every step keeps RecInv.
LEMMA RecInvStep == RecInv /\ [Next]_vars => RecInv'
<1> SUFFICES ASSUME RecInv, [Next]_vars PROVE RecInv'
  OBVIOUS
<1>1. CASE UNCHANGED vars
  BY <1>1 DEF vars, input, RecInv, RecType, PeakCovers, StageInv, NoMin, NoMax, Own,
              Ordered, Above, Factor, AtLeast
<1> QED
  BY <1>1, ComputeBoundsStep, ApplyConfidenceStep, ReadPeakStep, ApplyMarginStep,
     ClampToPolicyStep, ResourceListStep DEF Next

-----------------------------------------------------------------------------
\* Recommend orders its bounds, where no policy pulls at one end, for every
\* histogram, age, margin and peak.
THEOREM RecommendationIsOrdered == Spec => []BoundsOrdered
<1>1. RecInv => BoundsOrdered
  BY DEF RecInv, StageInv, BoundsOrdered
<1> QED
  BY <1>1, RecInvInit, RecInvStep, PTL DEF Spec

\* Recommend keeps every memory bound the margin above every observed peak,
\* unless a policy has a maximum.
THEOREM RecommendationCoversPeaks == Spec => []PeakFloor
<1>1. RecInv => PeakFloor
  <2> SUFFICES ASSUME RecInv, stage = "done", resource = "memory", NoMax,
                      NEW p \in PRR, observed[p] # Nil
               PROVE  /\ 100 * b.lower >= observed[p] * Factor
                      /\ 100 * b.target >= observed[p] * Factor
                      /\ 100 * b.upper >= observed[p] * Factor
    BY DEF PeakFloor
  <2>1. observed[p] \in Nat /\ peak \in Nat /\ observed[p] <= peak /\ Factor \in Nat
    BY FactorType DEF RecInv, RecType, StageInv, PeakCovers
  <2>2. observed[p] * Factor <= peak * Factor
    BY <2>1, TimesMonotone
  <2>3. /\ peak * Factor <= 100 * b.lower
        /\ peak * Factor <= 100 * b.target
        /\ peak * Factor <= 100 * b.upper
    BY DEF RecInv, StageInv
  <2>4. /\ observed[p] * Factor \in Nat /\ peak * Factor \in Nat
        /\ 100 * b.lower \in Nat /\ 100 * b.target \in Nat /\ 100 * b.upper \in Nat
    BY <2>1, ProductType DEF RecInv, RecType, Bound
  <2> QED
    BY <2>2, <2>3, <2>4, SMT
<1> QED
  BY <1>1, RecInvInit, RecInvStep, PTL DEF Spec
-----------------------------------------------------------------------------
(* The last policy *)

\* The target is within the limits of p, which are multiples of unit; the upper
\* bound respects the maximum.
Within(x, p, unit) ==
    /\ p.maxAllowed # Nil => x.target <= p.maxAllowed * unit /\ x.upper <= p.maxAllowed * unit
    /\ p.minAllowed # Nil /\ (p.maxAllowed # Nil => p.minAllowed <= p.maxAllowed)
          => x.target >= p.minAllowed * unit

\* Once the loop of clampToPolicy is past the last policy of the resource, its
\* limits hold: the policies that follow it are of the other resource.
LastApplied ==
    /\ next >= 1
    /\ stage \in {"bounds", "confidence", "peaks"} => next = 1
    /\ stage = "clamp" => \A i \in Own : i < next /\ Last(i) => Within(b, policies[i], Den)

PolicyInv == RecInv /\ LastApplied /\ TargetNearPolicy

\* The policies are numbered from one.
LEMMA PolicyIndex ==
    ASSUME policies \in Policies
    PROVE  \E n \in Nat : DOMAIN policies = 1..n
<1>1. PICK n \in 0..MaxPolicies : policies \in [1..n -> Policy]
  BY DEF Policies
<1> QED
  BY <1>1, InputAssumption

\* Applying a policy brings the bounds within it: the maximum comes last.
LEMMA ClampedWithin ==
    ASSUME b \in Bound, Den \in Nat, NEW i \in DOMAIN policies, policies \in Policies
    PROVE  Within(Clamped(policies[i]), policies[i], Den)
<1> DEFINE p == policies[i]
<1> DEFINE min == p.minAllowed * Den
<1> DEFINE max == p.maxAllowed * Den
<1> DEFINE c == IF p.minAllowed = Nil THEN b
                ELSE [b EXCEPT !.target = AtLeast(@, min), !.lower = AtLeast(@, min)]
<1> DEFINE d == IF p.maxAllowed = Nil THEN c
                ELSE [c EXCEPT !.upper = AtMost(@, max), !.target = AtMost(@, max)]
<1>1. (p.minAllowed # Nil => min \in Nat) /\ (p.maxAllowed # Nil => max \in Nat)
  BY PolicyType, ProductType
<1>2. Clamped(p) = d
  BY DEF Clamped
<1>3. ASSUME p.minAllowed # Nil, p.maxAllowed # Nil, p.minAllowed <= p.maxAllowed
      PROVE  min <= max
  <2>1. p.minAllowed \in Nat /\ p.maxAllowed \in Nat
    BY <1>3, PolicyType
  <2> QED
    BY <1>3, <2>1, TimesMonotone
<1> HIDE DEF p, min, max
<1>4. c \in Bound /\ (p.minAllowed # Nil => c.target >= min)
  <2>1. CASE p.minAllowed = Nil
    BY <2>1
  <2>2. CASE p.minAllowed # Nil
    <3>1. b.target \in Nat /\ b.lower \in Nat /\ min \in Nat
      BY <1>1, <2>2 DEF Bound
    <3>2. AtLeast(b.target, min) \in Nat /\ AtLeast(b.lower, min) \in Nat
          /\ AtLeast(b.target, min) >= min
      BY <3>1 DEF AtLeast
    <3>3. c \in Bound /\ c.target = AtLeast(b.target, min)
      BY <2>2, <3>2 DEF Bound
    <3> QED
      BY <3>2, <3>3
  <2> QED
    BY <2>1, <2>2
<1> HIDE DEF c
<1>5. p.maxAllowed # Nil => d.target <= max /\ d.upper <= max
  BY <1>1, <1>4 DEF Bound, AtMost
<1>6. ASSUME p.minAllowed # Nil, p.maxAllowed # Nil => p.minAllowed <= p.maxAllowed
      PROVE  d.target >= min
  <2>1. CASE p.maxAllowed = Nil
    BY <1>4, <1>6, <2>1
  <2>2. CASE p.maxAllowed # Nil
    <3>1. d.target = AtMost(c.target, max) /\ c.target \in Nat /\ c.target >= min
      BY <1>4, <1>6, <2>2 DEF Bound
    <3>2. min \in Nat /\ max \in Nat /\ min <= max
      BY <1>1, <1>3, <1>6, <2>2
    <3> QED
      BY <3>1, <3>2 DEF AtMost
  <2> QED
    BY <2>1, <2>2
<1> QED
  BY <1>2, <1>5, <1>6 DEF Within, p, min, max

\* clampToPolicy keeps LastApplied.
LEMMA ClampKeepsLast ==
    ASSUME RecInv, LastApplied, ClampToPolicy
    PROVE  LastApplied'
<1>0. /\ b \in Bound /\ policies \in Policies /\ next \in DOMAIN policies
      /\ root \in Nat \ {0} /\ margin \in Int /\ next \in Nat
  BY DEF RecInv, RecType, ClampToPolicy
<1>1. Den \in Nat /\ Den' = Den
  BY <1>0, FactorType, PoliciesFixed DEF ClampToPolicy
<1>2. UNCHANGED <<policies, resource, stage>> /\ stage = "clamp" /\ next' = next + 1
  BY DEF ClampToPolicy, input
<1>3. ASSUME NEW i \in Own, i < next + 1, Last(i) PROVE Within(b', policies[i], Den)
  <2>1. i \in Nat
    BY <1>0, PolicyIndex DEF Own
  <2>2. CASE i = next
    <3>1. b' = Clamped(policies[i])
      BY <2>2 DEF ClampToPolicy, Own
    <3> QED
      BY <1>0, <1>1, <2>2, <3>1, ClampedWithin
  <2>3. CASE i # next
    <3>1. i < next
      BY <1>0, <1>3, <2>1, <2>3
    <3>2. next \notin Own
      BY <1>0, <1>3, <2>1, <3>1 DEF Last
    <3>3. b' = b
      BY <1>0, <3>2 DEF ClampToPolicy, Own
    <3> QED
      BY <1>2, <1>3, <3>1, <3>3 DEF LastApplied
  <2> QED
    BY <2>2, <2>3
<1>4. Own' = Own /\ \A i : Last(i)' = Last(i)
  BY <1>2 DEF Own, Last
<1>5. next' >= 1
  BY <1>0, <1>2
<1> QED
  BY <1>1, <1>2, <1>3, <1>4, <1>5 DEF LastApplied, Within

\* Rounding up keeps limits that are whole units, up to their excess.
LEMMA RoundUpWithin ==
    ASSUME NEW v \in Nat, NEW m \in Nat, Den \in Nat \ {0}
    PROVE  /\ v <= m * Den => RoundUp(v) <= m + Excess(m)
           /\ v >= m * Den => RoundUp(v) >= m
<1> DEFINE q == Ceil(v)  u == RoundUp(v)  e == Excess(m)
<1>1. q \in Nat /\ v <= q * Den /\ q * Den < v + Den /\ u \in {q, q + 1} /\ e \in {0, 1}
  BY CeilType, RoundUpCases DEF Excess
<1>2. u # q /\ q = m => u = m + e
  BY RoundUpCases
<1>3. u # q => q * Den = v
  BY RoundUpCases
<1> HIDE DEF q, u, e
<1>4. m * Den \in Nat /\ q * Den \in Int /\ (m + 1) * Den = m * Den + Den
  BY <1>1, SMT
<1>5. ASSUME v <= m * Den PROVE u <= m + e
  <2>1. q <= m
    <3>1. SUFFICES ASSUME m + 1 <= q PROVE FALSE
      BY <1>1
    <3>2. (m + 1) * Den <= q * Den
      BY <1>1, <3>1, TimesMonotone
    <3> QED
      BY <1>1, <1>4, <1>5, <3>2
  <2> QED
    BY <1>1, <1>2, <2>1
<1>6. ASSUME v >= m * Den PROVE m <= u
  <2>1. m * Den <= q * Den
    BY <1>1, <1>4, <1>6
  <2>2. m <= q
    BY <1>1, <2>1, TimesCancel
  <2> QED
    BY <1>1, <2>2
<1> QED
  BY <1>1, <1>5, <1>6 DEF u, e

\* resourceList establishes TargetNearPolicy.
LEMMA ListKeepsPolicy ==
    ASSUME RecInv, LastApplied, ResourceList
    PROVE  TargetNearPolicy'
<1>0. /\ b.target \in Nat /\ b.upper \in Nat /\ policies \in Policies
      /\ root \in Nat \ {0} /\ margin \in Int /\ next \in Nat /\ next >= 1
      /\ next \notin DOMAIN policies /\ stage = "clamp"
  BY DEF RecInv, RecType, Bound, LastApplied, ResourceList
<1>1. Den \in Nat \ {0}
  BY <1>0, FactorType
<1>2. UNCHANGED <<policies, resource>> /\ Own' = Own
  BY DEF ResourceList, input, Own
<1>3. b'.target = RoundUp(b.target) /\ b'.upper = RoundUp(b.upper)
  BY DEF ResourceList
<1>4. ASSUME NEW i \in Own, Last(i)
      PROVE  /\ policies[i].maxAllowed # Nil =>
                    /\ b'.target <= policies[i].maxAllowed + Excess(policies[i].maxAllowed)
                    /\ b'.upper <= policies[i].maxAllowed + Excess(policies[i].maxAllowed)
             /\ policies[i].minAllowed # Nil
                /\ (policies[i].maxAllowed # Nil => policies[i].minAllowed <= policies[i].maxAllowed)
                => b'.target >= policies[i].minAllowed
  <2>1. i \in DOMAIN policies /\ i < next
    BY <1>0, PolicyIndex DEF Own
  <2>2. Within(b, policies[i], Den)
    BY <1>0, <1>4, <2>1 DEF LastApplied
  <2>3. /\ policies[i].minAllowed \in Nat \cup {Nil}
        /\ policies[i].maxAllowed \in Nat \cup {Nil}
    BY <1>0, <2>1, PolicyType
  <2> QED
    BY <1>0, <1>1, <1>3, <2>2, <2>3, RoundUpWithin DEF Within
<1> QED
  BY <1>2, <1>4 DEF TargetNearPolicy, Last, Excess

\* Every step keeps PolicyInv.
LEMMA PolicyInvStep == PolicyInv /\ [Next]_vars => PolicyInv'
<1> SUFFICES ASSUME PolicyInv, [Next]_vars PROVE PolicyInv'
  OBVIOUS
<1>0. RecInv /\ LastApplied /\ TargetNearPolicy /\ RecInv'
  BY RecInvStep DEF PolicyInv
<1>1. CASE ComputeBounds \/ ApplyConfidence \/ \E p \in PRR : ReadPeak(p)
  <2>1. /\ next' = next /\ next = 1
        /\ stage' \in {"confidence", "peaks"}
    BY <1>0, <1>1 DEF ComputeBounds, ApplyConfidence, ReadPeak, LastApplied
  <2> QED
    BY <1>0, <2>1 DEF PolicyInv, LastApplied, TargetNearPolicy
<1>2. CASE ApplyMargin
  <2>1. next' = 1 /\ stage' = "clamp" /\ policies' = policies /\ resource' = resource
    BY <1>0, <1>2 DEF ApplyMargin, LastApplied, input
  <2>2. \A i \in Own' : i >= 1
    BY <1>0, <2>1, PolicyIndex DEF Own, RecInv, RecType
  <2>3. Own' \subseteq Nat
    BY <1>0, <2>1, PolicyIndex DEF Own, RecInv, RecType
  <2> QED
    BY <1>0, <2>1, <2>2, <2>3 DEF PolicyInv, LastApplied, TargetNearPolicy
<1>3. CASE ClampToPolicy
  <2>1. stage' = "clamp"
    BY <1>3 DEF ClampToPolicy
  <2> QED
    BY <1>0, <1>3, <2>1, ClampKeepsLast DEF PolicyInv, TargetNearPolicy
<1>4. CASE ResourceList
  <2>1. LastApplied'
    BY <1>0, <1>4 DEF ResourceList, LastApplied
  <2> QED
    BY <1>0, <1>4, <2>1, ListKeepsPolicy DEF PolicyInv
<1>5. CASE UNCHANGED vars
  BY <1>0, <1>5 DEF PolicyInv, vars, input, LastApplied, TargetNearPolicy, Own, Last, Within, Den, Excess
<1> QED
  BY <1>1, <1>2, <1>3, <1>4, <1>5 DEF Next

\* clampToPolicy and resourceList: the last policy of the resource holds for the
\* target of every recommendation, and its maximum for the upper bound too, but
\* for the one milli-core that an inexact CPU maximum gains.
THEOREM RecommendationNearPolicy == Spec => []TargetNearPolicy
<1>1. Init => PolicyInv
  BY RecInvInit DEF Init, PolicyInv, LastApplied, TargetNearPolicy
<1>2. PolicyInv => TargetNearPolicy
  BY DEF PolicyInv
<1> QED
  BY <1>1, <1>2, PolicyInvStep, PTL DEF Spec
=============================================================================

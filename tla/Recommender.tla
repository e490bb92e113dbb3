---------------------------- MODULE Recommender ----------------------------
(***************************************************************************)
(* Recommend, for one resource: percentiles of the aggregated histogram,   *)
(* widened by the workload's age, padded by the safety margin, held above  *)
(* the observed memory peaks, clamped to the pod-level policies in their   *)
(* order, and rounded up to whole units (milli-cores, bytes).              *)
(*                                                                         *)
(* The code computes with floats.  Here a bound is the numerator of a      *)
(* fraction whose denominator each stage multiplies: 1, then Den of the    *)
(* confidence, then 100 times that.  The widening is m^-0.5 below and m    *)
(* above, with m = 1 + 24 / hours; a workload's age is given by the square *)
(* root of m, so that both are fractions of root.                          *)
(*                                                                         *)
(* What the floats of the stages lose is far below a unit, and the order   *)
(* of two values is never turned.  It shows where a whole number of        *)
(* milli-cores is held in cores and multiplied by 1000 again: for those in *)
(* Inexact the product is above the number, and rounding up adds a unit.   *)
(***************************************************************************)
EXTENDS Integers, Sequences

CONSTANTS
    Values,     \* what Percentile returns
    Roots,      \* ages, as sqrt(1 + 24 / hours)
    Margins,    \* safetyMarginPercentage
    PRR,        \* the PRRs of the workload
    Peaks,      \* status.observedPeak of a PRR, when set
    Limits,     \* minAllowed and maxAllowed of a policy, when set
    Inexact,    \* n for which the float64 (n / 1000.0) * 1000 is above n
    MaxPolicies,\* bound: pod-level policies
    Nil

ASSUME InputAssumption ==
    /\ Values \subseteq Nat /\ Peaks \subseteq Nat /\ Limits \subseteq Nat
    /\ Roots \subseteq Nat \ {0} /\ Margins \subseteq Int
    /\ Inexact \subseteq Nat
    /\ MaxPolicies \in Nat
    /\ Nil \notin Nat

Policy == [resource : {"cpu", "memory"}, minAllowed : Limits \cup {Nil},
           maxAllowed : Limits \cup {Nil}]
Policies == UNION {[1..n -> Policy] : n \in 0..MaxPolicies}

VARIABLES
    resource,   \* "cpu" or "memory"
    pct,        \* the three percentiles of its histogram
    root,       \* the workload's age
    margin,     \* safetyMarginPercentage
    observed,   \* observedPeak of each PRR, Nil when unset or unparsable
    policies,   \* spec.resourcePolicy.podLevelPolicies
    stage,      \* where Recommend is
    b,          \* Bounds
    unread,     \* PRRs that maxObservedMemoryPeak has still to read
    peak,       \* and its result so far
    next        \* the policy clampToPolicy looks at

input == <<resource, pct, root, margin, observed, policies>>
vars == <<input, stage, b, unread, peak, next>>

\* The percentiles of a policy rise from the lower bound to the upper bound, so
\* what a histogram returns for them does too.
Init ==
    /\ resource \in {"cpu", "memory"}
    /\ pct \in {v \in [lower : Values, target : Values, upper : Values] :
                   v.lower <= v.target /\ v.target <= v.upper}
    /\ root \in Roots /\ margin \in Margins
    /\ observed \in [PRR -> Peaks \cup {Nil}]
    /\ policies \in Policies
    /\ stage = "bounds"
    /\ b = [lower |-> 0, target |-> 0, upper |-> 0]
    /\ unread = PRR /\ peak = 0 /\ next = 1

-----------------------------------------------------------------------------
ComputeBounds ==
    /\ stage = "bounds" /\ stage' = "confidence"
    /\ b' = pct
    /\ UNCHANGED <<input, unread, peak, next>>

\* Mutant: the upper bound is not widened.
ApplyConfidenceLowerOnly ==
    /\ stage = "confidence" /\ stage' = "peaks"
    /\ b' = [lower |-> b.lower, target |-> b.target * root, upper |-> b.upper]
    /\ UNCHANGED <<input, unread, peak, next>>

\* Times 1/root, 1 and root^2, over root.
ApplyConfidence ==
    /\ stage = "confidence" /\ stage' = "peaks"
    /\ b' = [lower |-> b.lower, target |-> b.target * root,
             upper |-> b.upper * root * root * root]
    /\ UNCHANGED <<input, unread, peak, next>>

\* Mutant: the last peak read wins.
ReadPeakLast(p) ==
    /\ stage = "peaks" /\ p \in unread
    /\ peak' = IF observed[p] # Nil THEN observed[p] ELSE peak
    /\ unread' = unread \ {p}
    /\ UNCHANGED <<input, stage, b, next>>

\* maxObservedMemoryPeak.
ReadPeak(p) ==
    /\ stage = "peaks" /\ p \in unread
    /\ peak' = IF observed[p] # Nil /\ observed[p] > peak THEN observed[p] ELSE peak
    /\ unread' = unread \ {p}
    /\ UNCHANGED <<input, stage, b, next>>

AtLeast(v, floor) == IF v < floor THEN floor ELSE v
AtMost(v, ceiling) == IF v > ceiling THEN ceiling ELSE v

Factor == 100 + AtLeast(margin, 0)
Den == 100 * root

\* Every bound is padded, and those of memory are held above the peak floor.
ApplyMargin ==
    /\ stage = "peaks" /\ unread = {} /\ stage' = "clamp"
    /\ LET floor == IF resource = "memory" THEN peak * root * Factor ELSE 0
       IN b' = [lower |-> AtLeast(b.lower * Factor, floor),
                target |-> AtLeast(b.target * Factor, floor),
                upper |-> AtLeast(b.upper * Factor, floor)]
    /\ UNCHANGED <<input, unread, peak, next>>

\* Mutant: the maximum first.
ClampedMaxFirst(p) ==
    LET min == p.minAllowed * Den
        max == p.maxAllowed * Den
        c == IF p.maxAllowed = Nil THEN b
             ELSE [b EXCEPT !.upper = AtMost(@, max), !.target = AtMost(@, max)]
    IN IF p.minAllowed = Nil THEN c
       ELSE [c EXCEPT !.target = AtLeast(@, min), !.lower = AtLeast(@, min)]

\* The minimum raises target and lower bound, then the maximum cuts upper bound
\* and target.
Clamped(p) ==
    LET min == p.minAllowed * Den
        max == p.maxAllowed * Den
        c == IF p.minAllowed = Nil THEN b
             ELSE [b EXCEPT !.target = AtLeast(@, min), !.lower = AtLeast(@, min)]
    IN IF p.maxAllowed = Nil THEN c
       ELSE [c EXCEPT !.upper = AtMost(@, max), !.target = AtMost(@, max)]

\* One turn of the loop of clampToPolicy.
ClampToPolicy ==
    /\ stage = "clamp" /\ next \in DOMAIN policies
    /\ b' = IF policies[next].resource = resource THEN Clamped(policies[next]) ELSE b
    /\ next' = next + 1
    /\ UNCHANGED <<input, stage, unread, peak>>

Ceil(v) == (v + Den - 1) \div Den
Whole(v) == Ceil(v) * Den = v

\* Memory is rounded in bytes, as it is held; cores are rounded in milli-cores.
Excess(n) == IF resource = "cpu" /\ n \in Inexact THEN 1 ELSE 0
RoundUp(v) == IF Whole(v) THEN Ceil(v) + Excess(Ceil(v)) ELSE Ceil(v)

\* resourceList: what the recommendation says.
ResourceList ==
    /\ stage = "clamp" /\ next \notin DOMAIN policies /\ stage' = "done"
    /\ b' = [lower |-> RoundUp(b.lower), target |-> RoundUp(b.target),
             upper |-> RoundUp(b.upper)]
    /\ UNCHANGED <<input, unread, peak, next>>

Next ==
    \/ ComputeBounds \/ ApplyConfidence
    \/ \E p \in PRR : ReadPeak(p)
    \/ ApplyMargin \/ ClampToPolicy \/ ResourceList

Spec == Init /\ [][Next]_vars

-----------------------------------------------------------------------------
Own == {i \in DOMAIN policies : policies[i].resource = resource}
NoMin == \A i \in Own : policies[i].minAllowed = Nil
NoMax == \A i \in Own : policies[i].maxAllowed = Nil

\* Recommend: where no policy pulls at one end, the recommendation keeps the
\* order of its bounds through widening, margin, peak floor and rounding.
BoundsOrdered ==
    stage = "done" => /\ NoMin => b.target <= b.upper
                      /\ NoMax => b.lower <= b.target

\* ApplyMargin: unless maxAllowed says otherwise, a memory recommendation leaves
\* the margin above the peak of every PRR.
PeakFloor ==
    stage = "done" /\ resource = "memory" /\ NoMax =>
        \A p \in PRR : observed[p] # Nil =>
            /\ 100 * b.lower >= observed[p] * Factor
            /\ 100 * b.target >= observed[p] * Factor
            /\ 100 * b.upper >= observed[p] * Factor

Last(i) == \A j \in Own : j <= i

\* clampToPolicy and resourceList: the last policy for the resource holds for the
\* target up to the excess of a CPU maximum that does not survive the way into
\* cores and back, and its maximum holds over a minimum that contradicts it.
TargetNearPolicy ==
    stage = "done" =>
        \A i \in Own : Last(i) =>
            LET p == policies[i]
            IN /\ p.maxAllowed # Nil =>
                      /\ b.target <= p.maxAllowed + Excess(p.maxAllowed)
                      /\ b.upper <= p.maxAllowed + Excess(p.maxAllowed)
               /\ p.minAllowed # Nil /\ (p.maxAllowed # Nil => p.minAllowed <= p.maxAllowed)
                  => b.target >= p.minAllowed
=============================================================================

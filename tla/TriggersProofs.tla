--------------------------- MODULE TriggersProofs ---------------------------
(***************************************************************************)
(* Proofs about the high-watermark and the CPU scale-down trigger, for     *)
(* every window, every number of samples and every unit in which one decay *)
(* of a sample is exact.  Later decays may be rounded: rounding an integer *)
(* down does not take it below an integer it was not below.                *)
(***************************************************************************)
EXTENDS Triggers, TLAPS

-----------------------------------------------------------------------------
(* Arithmetic *)

\* A quotient is at least q when the dividend is at least q divisors.
LEMMA DivAtLeast ==
    ASSUME NEW w \in Nat \ {0}, NEW x \in Nat, NEW q \in Int, w * q <= x
    PROVE  q <= x \div w
<1> DEFINE d == x \div w
<1>1. d \in Int /\ x < w * (d + 1)
  OBVIOUS
<1> HIDE DEF d
<1>2. w * q < w * (d + 1)
  BY <1>1
<1>3. q < d + 1
  BY <1>1, <1>2
<1> QED
  BY <1>1, <1>3 DEF d

\* A quotient is at most q when the dividend is at most q divisors.
LEMMA DivAtMost ==
    ASSUME NEW w \in Nat \ {0}, NEW x \in Nat, NEW q \in Nat, x <= w * q
    PROVE  x \div w \in Nat /\ x \div w <= q
<1> DEFINE d == x \div w
<1>1. d \in Nat /\ w * d <= x
  OBVIOUS
<1> HIDE DEF d
<1>2. w * d <= w * q
  BY <1>1
<1>3. d <= q
  BY <1>1, <1>2
<1> QED
  BY <1>1, <1>3 DEF d

\* A multiple of w has no remainder.
LEMMA MultipleMod == ASSUME NEW w \in Nat \ {0}, NEW q \in Nat PROVE (w * q) % w = 0
<1> DEFINE x == w * q
<1>1. x \in Nat /\ x \div w = q
  <2>1. x \in Nat /\ w * q <= x /\ x <= w * q
    OBVIOUS
  <2> HIDE DEF x
  <2> QED
    BY <2>1, DivAtLeast, DivAtMost
<1>2. x = w * (x \div w) + (x % w)
  BY <1>1
<1> QED
  BY <1>1, <1>2

\* A multiple of w times n, divided by w, is its quotient times n.
LEMMA MultipleDiv ==
    ASSUME NEW w \in Nat \ {0}, NEW v \in Nat, v % w = 0, NEW n \in Nat
    PROVE  v \div w \in Nat /\ (v * n) \div w = (v \div w) * n
<1> DEFINE r == v \div w
<1>1. r \in Nat /\ v = w * r
  OBVIOUS
<1> HIDE DEF r
<1>2. v * n = w * (r * n) /\ r * n \in Nat /\ v * n \in Nat
  BY <1>1
<1>3. (v * n) \div w <= r * n /\ r * n <= (v * n) \div w /\ (v * n) \div w \in Nat
  BY <1>2, DivAtLeast, DivAtMost
<1> QED
  BY <1>1, <1>2, <1>3 DEF r

\* A mark at or above a line that has lost a of its steps is, after it has
\* decayed for d more, at or above the line that has lost a + d.
LEMMA DecayKeepsAbove ==
    ASSUME NEW w \in Nat \ {0}, NEW r \in Nat, NEW x \in Nat, NEW a \in Nat, NEW d \in Nat,
           a + d < w, r * (w - a) <= x
    PROVE  r * (w - (a + d)) <= (x * (w - d)) \div w
<1> DEFINE b == w - a
           c == w - d
<1>1. b \in Nat /\ c \in Nat /\ r * b \in Nat
  OBVIOUS
<1>2. r * b <= x
  OBVIOUS
<1>3. b * c = w * (w - (a + d)) + a * d
  OBVIOUS
<1>4. a * d \in Nat /\ w - (a + d) \in Nat
  OBVIOUS
<1> HIDE DEF b, c
<1>5. (r * b) * c <= x * c /\ x * c \in Nat
  BY <1>1, <1>2
<1>6. (r * b) * c = r * (b * c)
  BY <1>1
<1> DEFINE l == w - (a + d)
<1>7. l \in Nat /\ r * l \in Nat
  BY <1>4
<1> HIDE DEF l
<1>8. r * (w * l + a * d) = w * (r * l) + r * (a * d) /\ r * (a * d) \in Nat
  BY <1>4, <1>7
<1>9. w * (r * l) <= x * c
  BY <1>1, <1>3, <1>4, <1>5, <1>6, <1>7, <1>8 DEF l
<1>10. r * l <= (x * c) \div w
  BY <1>5, <1>7, <1>9, DivAtLeast
<1> QED
  BY <1>10 DEF l, c

-----------------------------------------------------------------------------
(* The inductive invariant *)

\* The line from a sample to zero at time u, without rounding.
Line(s, u) == (s.v \div Window) * (Window - (u - s.t))

MarkType ==
    /\ now \in Nat \ {0} /\ value \in Nat /\ updatedAt \in Nat /\ updatedAt <= now
    /\ recorded \subseteq [v : Nat, t : Nat]

\* When it was last stored, the mark was at or above the line of every sample.
Held ==
    \A s \in recorded :
        /\ updatedAt # ZeroTime /\ s.t <= updatedAt
        /\ Window > 0 => /\ s.v % Window = 0
                         /\ updatedAt - s.t < Window => Line(s, updatedAt) <= value

\* A mark that is not zero comes from a sample that was at least as high.
Sampled == value > 0 => \E s \in recorded : value <= s.v

MarkInv == MarkType /\ Held /\ Sampled

\* decayedLocked, at any time since the mark was stored: it is at or above the
\* line of every sample, and not above what was stored.
LEMMA DecayedFacts ==
    ASSUME MarkInv, NEW t \in Nat, updatedAt <= t
    PROVE  /\ Decayed(t) \in Nat /\ Decayed(t) <= value
           /\ \A s \in recorded : Window > 0 /\ t - s.t < Window => Line(s, t) <= Decayed(t)
<1> USE WatermarkAssumption DEF MarkInv, MarkType, ZeroTime
<1>1. CASE Window = 0 \/ updatedAt = 0 \/ t <= updatedAt
  <2>1. Decayed(t) = value
    BY <1>1 DEF Decayed
  <2>2. ASSUME NEW s \in recorded, Window > 0, t - s.t < Window PROVE Line(s, t) <= value
    <3>1. updatedAt # 0 /\ t = updatedAt
      BY <1>1, <2>2 DEF Held
    <3> QED
      BY <2>2, <3>1 DEF Held
  <2> QED
    BY <2>1, <2>2
<1>2. CASE Window # 0 /\ updatedAt # 0 /\ t > updatedAt /\ t - updatedAt >= Window
  <2>1. Decayed(t) = 0
    BY <1>2 DEF Decayed
  <2>2. ASSUME NEW s \in recorded, t - s.t < Window PROVE FALSE
    BY <1>2, <2>2 DEF Held
  <2> QED
    BY <2>1, <2>2
<1>3. CASE Window # 0 /\ updatedAt # 0 /\ t > updatedAt /\ t - updatedAt < Window
  <2> DEFINE d == t - updatedAt
  <2>1. d \in Nat /\ d < Window /\ Window \in Nat \ {0} /\ t = updatedAt + d
    BY <1>3
  <2>2. Decayed(t) = (value * (Window - d)) \div Window
    BY <1>3 DEF Decayed
  <2> HIDE DEF d
  <2>3. value * (Window - d) \in Nat /\ value * (Window - d) <= Window * value
    BY <2>1
  <2>4. Decayed(t) \in Nat /\ Decayed(t) <= value
    BY <2>1, <2>2, <2>3, DivAtMost
  <2>5. ASSUME NEW s \in recorded, t - s.t < Window PROVE Line(s, t) <= Decayed(t)
    <3> DEFINE a == updatedAt - s.t
               r == s.v \div Window
    <3>1. /\ a \in Nat /\ a + d < Window /\ s.v \in Nat /\ t - s.t = a + d
          /\ Line(s, updatedAt) <= value
      BY <2>1, <2>5 DEF Held
    <3>2. r \in Nat
      BY <2>1, <3>1
    <3>3. Line(s, updatedAt) = r * (Window - a) /\ Line(s, t) = r * (Window - (a + d))
      BY <3>1 DEF Line
    <3> HIDE DEF a, r
    <3> QED
      BY <2>1, <2>2, <3>1, <3>2, <3>3, DecayKeepsAbove
  <2> QED
    BY <2>4, <2>5
<1> QED
  BY <1>1, <1>2, <1>3

\* MarkInv holds in the beginning.
LEMMA MarkInvInit == Init => MarkInv
  BY DEF Init, MarkInv, MarkType, Held, Sampled, ZeroTime

\* Record keeps MarkInv.
LEMMA RecordStep == ASSUME NEW v \in Samples, MarkInv, Record(v) PROVE MarkInv'
<1> USE WatermarkAssumption DEF ZeroTime
<1> DEFINE cur == Decayed(now)
           sample == v * Scale
           e == [v |-> sample, t |-> now]
<1>1. /\ cur \in Nat /\ cur <= value
      /\ \A s \in recorded : Window > 0 /\ now - s.t < Window => Line(s, now) <= cur
  BY DecayedFacts DEF MarkInv, MarkType
<1>2. sample \in Nat /\ (Window > 0 => sample % Window = 0)
  <2>1. v \in Nat /\ Scale \in Nat /\ sample \in Nat
    OBVIOUS
  <2>2. ASSUME Window > 0 PROVE sample % Window = 0
    <3> DEFINE m == Scale \div Window
    <3>1. m \in Nat /\ Scale = Window * m
      BY <2>2
    <3> HIDE DEF m
    <3>2. sample = Window * (v * m) /\ v * m \in Nat
      BY <2>1, <3>1
    <3> HIDE DEF sample
    <3> QED
      BY <2>1, <2>2, <3>2, MultipleMod
  <2> QED
    BY <2>1, <2>2
<1>3. /\ value' = IF sample > cur THEN sample ELSE cur
      /\ updatedAt' = now /\ recorded' = recorded \cup {e} /\ now' = now
  BY DEF Record
<1> HIDE DEF cur, sample
<1>4. now \in Nat \ {0} /\ e \in [v : Nat, t : Nat] /\ e.v = sample /\ e.t = now
  BY <1>2 DEF MarkInv, MarkType
<1>5. value' \in Nat /\ cur <= value' /\ sample <= value' /\ (value' = sample \/ value' = cur)
  BY <1>1, <1>2, <1>3
<1>6. MarkType'
  BY <1>3, <1>4, <1>5 DEF MarkInv, MarkType
<1>7. Held'
  <2>1. ASSUME NEW s \in recorded
        PROVE  /\ s.t <= now
               /\ Window > 0 => /\ s.v % Window = 0
                                /\ now - s.t < Window => Line(s, now) <= value'
    <3>1. s.v \in Nat /\ s.t \in Nat /\ s.t <= now
      BY DEF MarkInv, MarkType, Held
    <3>2. Window > 0 /\ now - s.t < Window => Line(s, now) \in Int
      BY <1>4, <3>1 DEF Line
    <3> QED
      BY <1>1, <1>5, <3>1, <3>2 DEF MarkInv, Held
  <2>2. ASSUME Window > 0 PROVE e.v % Window = 0 /\ Line(e, now) <= value'
    <3>1. Line(e, now) = (sample \div Window) * Window
      BY <1>4, <2>2 DEF Line
    <3>2. (sample \div Window) * Window = sample
      BY <1>2, <2>2
    <3> QED
      BY <1>2, <1>4, <1>5, <2>2, <3>1, <3>2
  <2>3. ASSUME NEW s \in recorded'
        PROVE  /\ updatedAt' # 0 /\ s.t <= updatedAt'
               /\ Window > 0 => /\ s.v % Window = 0
                                /\ updatedAt' - s.t < Window => Line(s, updatedAt') <= value'
    <3>1. CASE s \in recorded
      BY <1>3, <1>4, <2>1, <3>1
    <3>2. CASE s = e
      BY <1>3, <1>4, <2>2, <3>2
    <3> QED
      BY <1>3, <3>1, <3>2
  <2> QED
    BY <2>3 DEF Held, Line
<1>8. Sampled'
  <2>1. CASE value' = sample
    <3>1. e \in recorded' /\ value' <= e.v
      BY <1>2, <1>3, <1>4, <2>1
    <3> QED
      BY <3>1 DEF Sampled
  <2>2. CASE value' = cur
    <3>1. ASSUME value' > 0 PROVE \E s \in recorded : value' <= s.v
      <4>1. value > 0 /\ value \in Nat
        BY <1>1, <2>2, <3>1 DEF MarkInv, MarkType
      <4>2. PICK s \in recorded : value <= s.v
        BY <4>1 DEF MarkInv, Sampled
      <4>3. s.v \in Nat
        BY DEF MarkInv, MarkType
      <4> QED
        BY <1>1, <2>2, <4>1, <4>2, <4>3
    <3> QED
      BY <1>3, <3>1 DEF Sampled
  <2> QED
    BY <1>5, <2>1, <2>2
<1> QED
  BY <1>6, <1>7, <1>8 DEF MarkInv

\* Every step keeps MarkInv.
LEMMA MarkInvStep == MarkInv /\ [Next]_vars => MarkInv'
<1> SUFFICES ASSUME MarkInv, [Next]_vars PROVE MarkInv'
  OBVIOUS
<1>1. CASE \E v \in Samples : Record(v)
  BY <1>1, RecordStep
<1>2. CASE Tick \/ UNCHANGED vars
  <2>1. UNCHANGED <<value, updatedAt, recorded>> /\ now' \in Nat \ {0} /\ now <= now'
    BY <1>2 DEF Tick, vars, MarkInv, MarkType
  <2> QED
    BY <2>1 DEF MarkInv, MarkType, Held, Sampled, Line
<1> QED
  BY <1>1, <1>2 DEF Next

\* Where a sample's line is not yet zero, its value at a time is exact.
LEMMA LinearFacts ==
    ASSUME MarkInv, NEW s \in recorded
    PROVE  /\ Linear(s) \in Nat /\ s.v \in Nat
           /\ Linear(s) = 0 \/ (Window > 0 /\ now - s.t < Window /\ Linear(s) = Line(s, now))
<1>1. /\ s.v \in Nat /\ s.t \in Nat /\ s.t <= updatedAt /\ updatedAt <= now
      /\ now \in Nat /\ updatedAt \in Nat /\ Window \in Nat
      /\ Window > 0 => s.v % Window = 0
  BY WatermarkAssumption DEF MarkInv, MarkType, Held
<1>2. CASE now - s.t >= Window
  BY <1>1, <1>2 DEF Linear
<1>3. CASE now - s.t < Window
  <2> DEFINE n == Window - (now - s.t)
  <2>1. n \in Nat /\ Window \in Nat \ {0} /\ s.v % Window = 0
    BY <1>1, <1>3
  <2>2. Linear(s) = (s.v * n) \div Window /\ Line(s, now) = (s.v \div Window) * n
    BY <1>1, <1>3 DEF Linear, Line
  <2> HIDE DEF n
  <2>3. (s.v * n) \div Window = (s.v \div Window) * n /\ s.v \div Window \in Nat
    <3> DEFINE v == s.v
    <3>1. v \in Nat /\ v % Window = 0
      BY <1>1, <2>1
    <3> HIDE DEF v
    <3>2. (v * n) \div Window = (v \div Window) * n /\ v \div Window \in Nat
      BY <2>1, <3>1, MultipleDiv
    <3> QED
      BY <3>2 DEF v
  <2> QED
    BY <1>1, <1>3, <2>1, <2>2, <2>3
<1> QED
  BY <1>1, <1>2, <1>3

\* MarkInv gives NeverBelowLine.
LEMMA MarkAboveLines == MarkInv => NeverBelowLine
<1> SUFFICES ASSUME MarkInv, NEW s \in recorded PROVE Decayed(now) >= Linear(s)
  BY DEF NeverBelowLine
<1>1. /\ Decayed(now) \in Nat
      /\ Window > 0 /\ now - s.t < Window => Line(s, now) <= Decayed(now)
  BY DecayedFacts DEF MarkInv, MarkType
<1> QED
  BY <1>1, LinearFacts

\* Record and decayedLocked: the mark never falls below the line from an earlier
\* sample to zero, however many samples re-base it.
THEOREM MarkHoldsLines == Spec => []NeverBelowLine
<1> QED
  BY MarkInvInit, MarkInvStep, MarkAboveLines, PTL DEF Spec

\* The trigger is monotonic in the level it compares with.
LEMMA TriggerMonotonic ==
    ASSUME NEW u \in Nat, NEW drop \in BufferDrop \ {0}, NEW low \in Nat, NEW high \in Nat,
           low > 0, low <= high, 100 * u * Scale <= low * (100 - drop)
    PROVE  high > 0 /\ 100 * u * Scale <= high * (100 - drop)
<1> DEFINE c == 100 - drop
           x == 100 * u * Scale
<1>1. c \in Nat /\ x \in Nat /\ x <= low * c
  BY TriggerAssumption, WatermarkAssumption
<1> HIDE DEF c, x
<1>2. low * c <= high * c
  BY <1>1
<1>3. x <= high * c
  BY <1>1, <1>2
<1> QED
  BY <1>3 DEF c, x

\* MarkInv gives ScaleDownTracksDrop.
LEMMA MarkTracksDrops == MarkInv => ScaleDownTracksDrop
<1> SUFFICES ASSUME MarkInv, NEW u \in Utilization, NEW drop \in BufferDrop \ {0}
             PROVE  LET below(level) == level > 0 /\ 100 * u * Scale <= level * (100 - drop)
                        fires == EvaluateCPUScaleDown(u * Scale, Decayed(now), drop)
                    IN /\ (\E s \in recorded : below(Linear(s))) => fires
                       /\ fires => \E s \in recorded : below(s.v)
  BY DEF ScaleDownTracksDrop
<1> DEFINE below(level) == level > 0 /\ 100 * u * Scale <= level * (100 - drop)
           fires == EvaluateCPUScaleDown(u * Scale, Decayed(now), drop)
<1>1. u \in Nat /\ drop \in 1..100 /\ Scale \in Nat
  BY TriggerAssumption, WatermarkAssumption
<1>2. 100 * (u * Scale) = 100 * u * Scale
  BY <1>1
<1>3. fires <=> below(Decayed(now))
  BY <1>1, <1>2 DEF EvaluateCPUScaleDown
<1>4. Decayed(now) \in Nat /\ Decayed(now) <= value /\ value \in Nat
  BY DecayedFacts DEF MarkInv, MarkType
<1>5. ASSUME NEW s \in recorded, below(Linear(s)) PROVE below(Decayed(now))
  <2>1. Linear(s) \in Nat /\ Linear(s) <= Decayed(now)
    BY <1>4, LinearFacts, MarkAboveLines DEF NeverBelowLine
  <2> QED
    BY <1>1, <1>4, <1>5, <2>1, TriggerMonotonic
<1>6. ASSUME below(Decayed(now)) PROVE \E s \in recorded : below(s.v)
  <2>1. PICK s \in recorded : value <= s.v
    BY <1>4, <1>6 DEF MarkInv, Sampled
  <2>2. s.v \in Nat /\ Decayed(now) <= s.v
    BY <1>4, <2>1 DEF MarkInv, MarkType
  <2>3. below(s.v)
    BY <1>1, <1>4, <1>6, <2>2, TriggerMonotonic
  <2> QED
    BY <2>3
<1> QED
  BY <1>3, <1>5, <1>6

\* EvaluateCPUScaleDown against Read: the trigger fires for a drop below the line
\* of any sample, and only for a drop below some sample.
THEOREM TriggerTracksDrops == Spec => []ScaleDownTracksDrop
<1> QED
  BY MarkInvInit, MarkInvStep, MarkTracksDrops, PTL DEF Spec
=============================================================================

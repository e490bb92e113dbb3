----------------------------- MODULE Histogram -----------------------------
(***************************************************************************)
(* The decaying exponential histogram of internal/recommender/histogram.   *)
(* Time is counted in half-lives and a weight of 1.0 is Unit = 2^Horizon,  *)
(* so that Horizon halvings are exact where the code uses floats.  The     *)
(* bucket ratio is an integer (1.05 in the code), so that bucket edges are *)
(* exact too; a sample that lies on an edge, which the code's logarithms   *)
(* may put on either side, is not among the samples of the models.         *)
(***************************************************************************)
EXTENDS Integers, FiniteSets, FiniteSetsExt, SequencesExt

CONSTANTS
    MaxValue, FirstBucketSize, BucketRatio,   \* Options
    Horizon                                   \* half-lives a run may last

\* Options.Validate.
Validate == /\ MaxValue \in Nat /\ MaxValue > 0
            /\ FirstBucketSize \in Nat /\ FirstBucketSize > 0
            /\ BucketRatio \in Nat /\ BucketRatio > 1

ASSUME OptionsAssumption == Validate /\ Horizon \in Nat

\* b to the power n, which math.Pow stands for.
Power(b, n) == LET p[i \in 0..n] == IF i = 0 THEN 1 ELSE b * p[i - 1] IN p[n]

Unit == Power(2, Horizon)

\* time.Time{}; what it decodes to, its UnixNano wrapping around to 1754; and
\* the first time at which a program runs.
ZeroTime == 0
WrappedTime == 1
Epoch == 2

\* The first bucket is [0, FirstBucketSize), each next one BucketRatio wider.
BucketStart(k) == (FirstBucketSize * (Power(BucketRatio, k) - 1)) \div (BucketRatio - 1)
NumBuckets == CHOOSE n \in 1..(MaxValue + 1) :
                 BucketStart(n) >= MaxValue /\ \A m \in 1..(n - 1) : BucketStart(m) < MaxValue
Bucket == 0..(NumBuckets - 1)

\* What lies beyond the last bucket saturates into it.
BucketIndex(value) == Max({k \in Bucket : k = 0 \/ BucketStart(k) <= value})

\* The two shapes the program uses differ in their options only.
New(options) == [options |-> options, buckets |-> [k \in Bucket |-> 0],
                 total |-> 0, ref |-> ZeroTime]

Decayed(weight, halfLives) == weight \div Power(2, halfLives)

\* Mutant: the total is not aged.
ShiftReferenceTotalKept(h, t) ==
    IF h.ref = ZeroTime THEN [h EXCEPT !.ref = t]
    ELSE IF t <= h.ref THEN h
    ELSE [h EXCEPT !.ref = t, !.buckets = [k \in Bucket |-> Decayed(@[k], t - h.ref)]]

ShiftReference(h, t) ==
    IF h.ref = ZeroTime THEN [h EXCEPT !.ref = t]
    ELSE IF t <= h.ref THEN h
    ELSE [h EXCEPT !.ref = t,
                   !.buckets = [k \in Bucket |-> Decayed(@[k], t - h.ref)],
                   !.total = Decayed(@, t - h.ref)]

AddSample(h, value, weight, t) ==
    IF weight <= 0 THEN h
    ELSE LET s == ShiftReference(h, t)
         IN [s EXCEPT !.buckets[BucketIndex(value)] = @ + weight, !.total = @ + weight]

\* The upper edge of the first bucket at which the cumulated weight reaches p
\* percent of the total, the last one when the loop falls through.
Percentile(h, p) ==
    LET pct == IF p < 0 THEN 0 ELSE IF p > 100 THEN 100 ELSE p
        cum(k) == SumFunctionOnSet(h.buckets, 0..k)
        reached == {k \in Bucket : 100 * cum(k) >= pct * h.total}
        first == Min(reached \cup {NumBuckets - 1})
    IN IF h.total <= 0 THEN 0
       ELSE IF first = NumBuckets - 1 THEN MaxValue
       ELSE BucketStart(first + 1)

\* Mutant: other is added as it is, without being aged to h's time.
MergeUnaged(h, other) ==
    IF h.options # other.options THEN h
    ELSE LET s == ShiftReference(h, Max({h.ref, other.ref}))
         IN [s EXCEPT !.buckets = [k \in Bucket |-> @[k] + other.buckets[k]],
                      !.total = @ + other.total]

\* Merge re-bases both sides to the later reference; it refuses other options
\* and leaves h alone.
Merge(h, other) ==
    IF h.options # other.options THEN h
    ELSE LET t == Max({h.ref, other.ref})
             s == ShiftReference(h, t)
             o == ShiftReference(other, t)
         IN [s EXCEPT !.buckets = [k \in Bucket |-> @[k] + o.buckets[k]],
                      !.total = @ + o.total]

\* Encode and Decode (gob and base64): everything survives but the zero time,
\* whose UnixNano is a time of its own.
NoPayload == [kind |-> "none"]
Corrupt == [kind |-> "corrupt"]
Encode(h) == [kind |-> "histogram",
              h |-> [h EXCEPT !.ref = IF @ = ZeroTime THEN WrappedTime ELSE @]]
Decodes(payload) == payload.kind = "histogram"
Decode(payload) == payload.h

\* Aggregate: fold the payloads into one histogram per resource, by shape; a
\* payload that is missing, corrupt or of other options adds nothing.
Aggregate(payloads) ==
    FoldLeft(LAMBDA wh, payload :
                 IF ~Decodes(payload) THEN wh
                 ELSE LET h == Decode(payload)
                      IN IF h.options = "memory"
                            THEN [wh EXCEPT !.memory = Merge(@, h)]
                            ELSE [wh EXCEPT !.cpu = Merge(@, h)],
             [cpu |-> New("cpu"), memory |-> New("memory")], payloads)

\* The payload of the workload checkpoint: both payloads and a time, which
\* DecodeWorkload drops.
EncodeWorkload(wh, now) == [cpu |-> Encode(wh.cpu), memory |-> Encode(wh.memory), time |-> now]
DecodeWorkload(payload) == [cpu |-> Decode(payload.cpu), memory |-> Decode(payload.memory)]
=============================================================================

----------------------------- MODULE Watermark -----------------------------
(***************************************************************************)
(* A decaying high-watermark of the node agent (internal/nodeagent/        *)
(* watermark).  Samples are recorded and the mark is read in the order of  *)
(* the clock.  Values are in units of 1 / Scale and the products that the  *)
(* code computes with floats are rounded down to a unit.  Where Scale is   *)
(* Window ^ (MaxTime + 1) they are exact, as every Record at a later time  *)
(* divides by Window once.                                                 *)
(***************************************************************************)
EXTENDS Integers

CONSTANTS
    Window, Samples,
    Scale,     \* units of a sample, so fine that one decay of a sample is exact
    MaxTime    \* bound: the end of the clock

ASSUME WatermarkAssumption ==
    /\ Window \in Nat /\ Samples \subseteq Nat /\ MaxTime \in Nat \ {0}
    /\ Scale \in Nat \ {0} /\ (Window > 0 => Scale % Window = 0)

ZeroTime == 0

VARIABLES
    now,                 \* the clock, from 1 to MaxTime
    value, updatedAt,    \* the Watermark
    recorded             \* history: the samples, with their times

vars == <<now, value, updatedAt, recorded>>

Init == /\ now = 1 /\ value = 0 /\ updatedAt = ZeroTime
        /\ recorded = {}

\* decayedLocked.
Decayed(t) ==
    IF Window = 0 \/ updatedAt = ZeroTime \/ t <= updatedAt THEN value
    ELSE IF t - updatedAt >= Window THEN 0
    ELSE (value * (Window - (t - updatedAt))) \div Window

\* Mutant: the decayed value is stored under the old time.
RecordOldTime(v) ==
    LET cur == Decayed(now)
        sample == v * Scale
    IN /\ value' = IF sample > cur THEN sample ELSE cur
       /\ updatedAt' = IF sample > cur THEN now ELSE updatedAt
       /\ recorded' = recorded \cup {[v |-> sample, t |-> now]}
       /\ UNCHANGED now

Record(v) ==
    LET cur == Decayed(now)
        sample == v * Scale
    IN /\ value' = IF sample > cur THEN sample ELSE cur
       /\ updatedAt' = now
       /\ recorded' = recorded \cup {[v |-> sample, t |-> now]}
       /\ UNCHANGED now

Tick == now < MaxTime /\ now' = now + 1 /\ UNCHANGED <<value, updatedAt, recorded>>

Next == Tick \/ \E v \in Samples : Record(v)

Spec == Init /\ [][Next]_vars

-----------------------------------------------------------------------------
\* What a sample is worth when it drops linearly to zero over the window.
Linear(s) == IF now - s.t >= Window THEN 0 ELSE (s.v * (Window - (now - s.t))) \div Window

\* Record and decayedLocked: however many smaller samples come after it, a
\* sample holds the mark at or above the line from it to zero.
NeverBelowLine == \A s \in recorded : Decayed(now) >= Linear(s)
=============================================================================

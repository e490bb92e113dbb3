------------------------------ MODULE Triggers ------------------------------
(***************************************************************************)
(* The CPU scale-down trigger of the node agent (internal/nodeagent/       *)
(* trigger), evaluated against the decaying high-watermark at any time.    *)
(***************************************************************************)
EXTENDS Watermark

CONSTANTS
    Utilization,    \* values the trigger may be asked about
    BufferDrop      \* values of scaleDownBufferDropPercentage

ASSUME TriggerAssumption == Utilization \subseteq Nat /\ BufferDrop \subseteq 0..100

\* Mutant: the percentage is taken as what remains, not as the drop.
EvaluateCPUScaleDownRemaining(utilization, watermark, bufferDropPct) ==
    /\ watermark > 0 /\ bufferDropPct > 0
    /\ 100 * utilization <= watermark * bufferDropPct

\* Whether the trigger fires; the new target it proposes is the utilization.
EvaluateCPUScaleDown(utilization, watermark, bufferDropPct) ==
    /\ watermark > 0 /\ bufferDropPct > 0
    /\ 100 * utilization <= watermark * (100 - bufferDropPct)

\* EvaluateCPUScaleDown against Read: it fires when the utilization is the drop
\* below the line of any sample of the last window, however many samples have
\* re-based the mark since, and only when it is the drop below some sample.
ScaleDownTracksDrop ==
    \A u \in Utilization, drop \in BufferDrop \ {0} :
        LET below(level) == level > 0 /\ 100 * u * Scale <= level * (100 - drop)
            fires == EvaluateCPUScaleDown(u * Scale, Decayed(now), drop)
        IN /\ (\E s \in recorded : below(Linear(s))) => fires
           /\ fires => \E s \in recorded : below(s.v)
=============================================================================

---------------------------- MODULE PRRController ----------------------------
(***************************************************************************)
(* PodResourceRecommendationReconciler.Reconcile, one worker: evict the    *)
(* pod of an Anomalous PRR, and drive BudgetedHandler.Handle one step for  *)
(* an Infeasible one: increment temporaryReplicas, wait for a surge pod,   *)
(* evict, decrement.  Reconcile runs for any PRR at any time (events, the  *)
(* workqueue's retries and the resync are not told apart).  As in          *)
(* PPVPAController, every request to the API server is a step and the      *)
(* cache reads before it belong to it.                                     *)
(***************************************************************************)
EXTENDS ApiServer

CONSTANTS
    MaxSurge,       \* infeasibleUpdateBehavior.maxSurge, Nil when unset
    BurstTimeout,   \* burstTimeoutSeconds > 0
    SurgeCeiling    \* the most surge pods any reachable budget allows

\* maxSurge is an integer, a percentage, or a string that does not parse.
Budget == [kind : {"int", "percent", "malformed"}, val : Nat]

\* A percentage of base rounds up; unset is 25 %; malformed is no budget.
ResolveBudget(b, base) ==
    IF b = Nil THEN (25 * base + 99) \div 100
    ELSE CASE b.kind = "int" -> b.val
           [] b.kind = "percent" -> (b.val * base + 99) \div 100
           [] OTHER -> 0

ASSUME BudgetAssumption ==
    /\ MaxSurge \in Budget \cup {Nil}
    /\ BurstTimeout \in BOOLEAN
    /\ SurgeCeiling \in Nat /\ SurgeCeiling <= MaxTarget
    /\ \A r \in 0..(MaxTarget + SurgeCeiling) : ResolveBudget(MaxSurge, r) <= SurgeCeiling

VARIABLES
    epc,      \* where the worker is in Reconcile
    epod,     \* the pod of its PRR
    econds,   \* the PRR's conditions as read
    esnap     \* the parent PPVPA as read, the fields the handler uses

eVars == <<epc, epod, econds, esnap>>

\* Type correctness of the worker's locals.
ETypeOK ==
    /\ epc \in {"idle", "anomaly", "budget", "decrement"}
    /\ epod \in Pod \cup {Nil}
    /\ epc # "idle" => epod \in Pod
    /\ econds \subseteq Cond
    /\ esnap \in [temp : Nat, active : Nat]

NoParent == [temp |-> 0, active |-> 0]
EIdle == epc = "idle" /\ epod = Nil /\ econds = {} /\ esnap = NoParent
EReturn == epc' = "idle" /\ epod' = Nil /\ econds' = {} /\ esnap' = NoParent
EContinue(pc) == epc' = pc /\ UNCHANGED <<epod, econds, esnap>>
EError == "fault" \in Env /\ epc # "idle" /\ EReturn /\ UNCHANGED <<apiVars, cacheVars>>

-----------------------------------------------------------------------------
\* Reconcile up to the handlers; a PRR without a parent or without a
\* condition is left alone.
EGet(p) ==
    /\ epc = "idle" /\ p \in cPRRs /\ Exists(cPPVPA) /\ cConds[p] # {}
    /\ epc' = IF "Anomalous" \in cConds[p] THEN "anomaly" ELSE "budget"
    /\ epod' = p /\ econds' = cConds[p]
    /\ esnap' = [temp |-> cPPVPA.temp, active |-> cPPVPA.active]
    /\ UNCHANGED <<apiVars, cacheVars>>

AfterAnomaly == \/ "Infeasible" \in econds /\ EContinue("budget")
                \/ "Infeasible" \notin econds /\ EReturn

\* evictPod, with what follows when it succeeds; an error ends the call.
EvictPod(p, next) ==
    /\ \/ EvictionAllowed(p) /\ pods' = Evicted(p) /\ (next \/ ("fault" \in Env /\ EReturn))
       \/ ~EvictionAllowed(p) /\ EReturn /\ UNCHANGED pods
    /\ UNCHANGED <<ppvpa, dep, prrs, conds, aged, cacheVars>>

AnomalyHandle ==
    /\ epc = "anomaly"
    /\ \/ epod \in Listed(cPods) /\ EvictPod(epod, AfterAnomaly)
       \/ epod \notin Listed(cPods) /\ AfterAnomaly /\ UNCHANGED <<apiVars, cacheVars>>

-----------------------------------------------------------------------------
(* BudgetedHandler.Handle *)

\* A status patch of temporaryReplicas; NotFound once the PPVPA is gone.
PatchTemp(value) ==
    /\ ppvpa' = IF ~Exists(ppvpa) THEN ppvpa
                ELSE [ppvpa EXCEPT !.temp = MergePatch(esnap.temp, value, @)]
    /\ EReturn
    /\ UNCHANGED <<dep, pods, prrs, conds, aged, cacheVars>>

\* Mutant: the budget test lets one more surge through.
SurgeLeftLoose == esnap.temp <= ResolveBudget(MaxSurge, esnap.active)

SurgeLeft == esnap.temp < ResolveBudget(MaxSurge, esnap.active)

Bump == epc = "budget" /\ SurgeLeft /\ PatchTemp(esnap.temp + 1)

\* Mutant: the pods of the workload's own namespace are not listed.
SurgePodsElsewhere == Marked \cap Foreign

\* findSurgePod: the first annotated pod the cache lists in the namespace, of
\* whatever workload; the order of the list is arbitrary.
SurgePods == Marked \cap (Foreign \cup Listed(cPods))
\* A terminating pod may still carry its Ready condition.
PodReadyIs(ready, s) ==
    IF s \in Foreign THEN ready
    ELSE cPods[s] \in {"terminating", IF ready THEN "ready" ELSE "pending"}
NoSurgePodReady == SurgePods = {} \/ \E s \in SurgePods : PodReadyIs(FALSE, s)

\* Mutant: the decrement is not guarded.
LessUnguarded(n) == n - 1

Less(n) == IF n > 0 THEN n - 1 ELSE n

Wait ==
    /\ epc = "budget" /\ ~SurgeLeft /\ NoSurgePodReady
    /\ ~(BurstTimeout /\ epod \in aged)
    /\ EReturn
    /\ UNCHANGED <<apiVars, cacheVars>>

Rollback ==
    /\ epc = "budget" /\ ~SurgeLeft /\ NoSurgePodReady
    /\ BurstTimeout /\ epod \in aged
    /\ PatchTemp(Less(esnap.temp))

SurgeReady == epc = "budget" /\ ~SurgeLeft /\ \E s \in SurgePods : PodReadyIs(TRUE, s)

TargetMissing ==
    /\ SurgeReady /\ epod \notin Listed(cPods)
    /\ EReturn
    /\ UNCHANGED <<apiVars, cacheVars>>

BudgetedEvict ==
    /\ SurgeReady /\ epod \in Listed(cPods)
    /\ EvictPod(epod, EContinue("decrement"))

Decrement == epc = "decrement" /\ PatchTemp(Less(esnap.temp))

EStep ==
    \/ \E p \in Pod : EGet(p)
    \/ AnomalyHandle \/ Bump \/ Wait \/ Rollback
    \/ TargetMissing \/ BudgetedEvict \/ Decrement
=============================================================================

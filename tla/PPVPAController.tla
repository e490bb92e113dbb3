--------------------------- MODULE PPVPAController ---------------------------
(***************************************************************************)
(* PerPodVerticalPodAutoscalerReconciler.Reconcile, one worker: read the   *)
(* PPVPA from the cache, finalizer, one PRR per pod, recommendation,       *)
(* Deployment replicas.  Every request to the API server is a step.  The   *)
(* snapshot wsnap read first is used until the end, whatever has happened  *)
(* to the object since.  Cache reads that directly precede a request are   *)
(* made in its step: an informer that is late by the time between the two  *)
(* gives the same result.  An error of any request ends the call; the      *)
(* RequeueAfter or the workqueue's retry starts the next one.              *)
(***************************************************************************)
EXTENDS ApiServer

VARIABLES
    wpc,      \* where the worker is in Reconcile
    wsnap,    \* the local ppvpa
    wcreate,  \* PRRs still to create
    wdelete,  \* PRRs still to delete
    wcur      \* the local current of the seed branch

wVars == <<wpc, wsnap, wcreate, wdelete, wcur>>
wLists == <<wcreate, wdelete>>

\* Type correctness of the worker's locals.
WTypeOK ==
    /\ wpc \in {"idle", "finalize", "addFinalizer", "list", "prrs",
                "replicas", "seedActive"}
    /\ wsnap \in PPVPA
    /\ wcreate \subseteq Pod /\ wdelete \subseteq Pod
    /\ wcur \in Nat

NoPPVPA == [phase |-> "gone", finalizer |-> FALSE, target |-> Nil,
            temp |-> 0, active |-> 0, rec |-> {}]
WIdle == wpc = "idle" /\ wsnap = NoPPVPA /\ wcreate = {}
         /\ wdelete = {} /\ wcur = 0
WReturn == wpc' = "idle" /\ wsnap' = NoPPVPA /\ wcreate' = {}
           /\ wdelete' = {} /\ wcur' = 0

\* The reply to a request arrives, or is lost although the request was served.
WContinue(pc) == /\ wpc' = pc
                 /\ UNCHANGED <<wsnap, wLists, wcur>>
WReply(pc) == WContinue(pc) \/ ("fault" \in Env /\ WReturn)

\* An API error at any request leaves the server as it was and ends the call.
WError == "fault" \in Env /\ wpc # "idle" /\ WReturn /\ UNCHANGED <<apiVars, cacheVars>>

-----------------------------------------------------------------------------
WGet ==
    /\ wpc = "idle" /\ Exists(cPPVPA)
    /\ ~(cPPVPA.phase = "deleting" /\ ~cPPVPA.finalizer)
    /\ wpc' = CASE cPPVPA.phase = "deleting" -> "finalize"
                [] cPPVPA.phase = "live" /\ ~cPPVPA.finalizer -> "addFinalizer"
                [] OTHER -> "list"
    /\ wsnap' = cPPVPA
    /\ UNCHANGED <<apiVars, cacheVars, wLists, wcur>>

\* r.Update carries the resourceVersion of the snapshot: a conflict when the
\* object has changed since.
Conflict == wsnap # ppvpa

\* Mutant: removeString returns the list as it was.
FinalizeKept ==
    /\ wpc = "finalize" /\ WReturn
    /\ UNCHANGED <<apiVars, cacheVars>>

Finalize ==
    /\ wpc = "finalize"
    /\ ppvpa' = IF Conflict THEN ppvpa
                ELSE [ppvpa EXCEPT !.finalizer = FALSE, !.phase = "gone"]
    /\ WReturn
    /\ UNCHANGED <<dep, pods, prrs, conds, aged, cacheVars>>

AddFinalizer ==
    /\ wpc = "addFinalizer"
    /\ \/ Conflict /\ WReturn /\ UNCHANGED ppvpa
       \/ /\ ~Conflict
          /\ ppvpa' = [ppvpa EXCEPT !.finalizer = TRUE]
          /\ \/ wpc' = "list" /\ wsnap' = ppvpa' /\ UNCHANGED <<wLists, wcur>>
             \/ "fault" \in Env /\ WReturn
    /\ UNCHANGED <<dep, pods, prrs, conds, aged, cacheVars>>

-----------------------------------------------------------------------------
\* Mutant: pods that are not Ready are not targets.
TargetedPodsReadyOnly == IF cDep = Nil THEN {} ELSE Ready(cPods)

TargetedPods == IF cDep = Nil THEN {} ELSE Listed(cPods)

\* Mutant: PRRs without a pod are not collected.
ListOwnedNoDelete ==
    /\ wpc = "list"
    /\ wcreate' = TargetedPods \ cPRRs
    /\ wpc' = "prrs"
    /\ UNCHANGED <<apiVars, cacheVars, wsnap, wdelete, wcur>>

\* targetedPods, listOwnedPRRs and the two loops' work lists.
ListOwned ==
    /\ wpc = "list"
    /\ wcreate' = TargetedPods \ cPRRs
    /\ wdelete' = cPRRs \ TargetedPods
    /\ wpc' = "prrs"
    /\ UNCHANGED <<apiVars, cacheVars, wsnap, wcur>>

\* AlreadyExists is ignored, so creating is adding to a set.
CreatePRR(p) ==
    /\ wpc = "prrs" /\ p \in wcreate
    /\ prrs' = prrs \cup {p}
    /\ \/ wcreate' = wcreate \ {p} /\ UNCHANGED <<wpc, wsnap, wdelete, wcur>>
       \/ "fault" \in Env /\ WReturn
    /\ UNCHANGED <<ppvpa, dep, pods, conds, aged, cacheVars>>

\* NotFound is ignored, so deleting is removing from a set.
DeletePRR(p) ==
    /\ wpc = "prrs" /\ wcreate = {} /\ p \in wdelete
    /\ RemovePRR(p)
    /\ \/ wdelete' = wdelete \ {p} /\ UNCHANGED <<wpc, wsnap, wcreate, wcur>>
       \/ "fault" \in Env /\ WReturn
    /\ UNCHANGED <<ppvpa, dep, pods, cacheVars>>

\* A status patch of an object that no longer exists is NotFound, an error.
PatchPPVPA(new) == Exists(ppvpa) /\ ppvpa' = new
                   /\ UNCHANGED <<dep, pods, prrs, conds, aged, cacheVars>>
PatchNotFound == ~Exists(ppvpa) /\ WReturn /\ UNCHANGED <<apiVars, cacheVars>>

\* Recommend aggregates the PRRs the cache lists; one without a checkpoint
\* adds nothing.
Aggregated == cPRRs \cap Reporting

ReconcileRecommendation ==
    /\ wpc = "prrs" /\ wcreate = {} /\ wdelete = {}
    /\ \/ PatchNotFound
       \/ /\ PatchPPVPA([ppvpa EXCEPT !.rec = MergePatch(wsnap.rec, Aggregated, @)])
          /\ WReply("replicas")

-----------------------------------------------------------------------------
(* reconcileReplicas *)

SnapTarget == IF wsnap.target = Nil THEN 0 ELSE wsnap.target
SnapDesired == SnapTarget + wsnap.temp

\* Mutant: a Deployment with fewer than the desired replicas is left alone.
NothingToScaleFewer ==
    /\ wpc = "replicas"
    /\ cDep = Nil \/ (SnapDesired > 0 /\ cDep <= SnapDesired)
    /\ WReturn
    /\ UNCHANGED <<apiVars, cacheVars>>

\* The Deployment is gone, or already has the desired replicas.
NothingToScale ==
    /\ wpc = "replicas"
    /\ cDep = Nil \/ (SnapDesired > 0 /\ cDep = SnapDesired)
    /\ WReturn
    /\ UNCHANGED <<apiVars, cacheVars>>

\* Mutant: the surge is added to what the Deployment has.
ScaleDeploymentOnTop ==
    /\ wpc = "replicas" /\ cDep # Nil /\ SnapDesired > 0 /\ cDep # SnapDesired
    /\ dep' = IF dep = Nil THEN Nil ELSE dep + SnapDesired
    /\ WReturn
    /\ UNCHANGED <<ppvpa, pods, prrs, conds, aged, cacheVars>>

\* A merge patch of the Deployment: NotFound when it was deleted meanwhile.
ScaleDeployment ==
    /\ wpc = "replicas" /\ cDep # Nil /\ SnapDesired > 0 /\ cDep # SnapDesired
    /\ dep' = IF dep = Nil THEN Nil ELSE SnapDesired
    /\ WReturn
    /\ UNCHANGED <<ppvpa, pods, prrs, conds, aged, cacheVars>>

Seeding == wpc = "replicas" /\ cDep # Nil /\ SnapDesired = 0

\* Mutant: the seed is written also when targetReplicas is set, to zero.
SeedTargetAlways ==
    /\ Seeding
    /\ \/ PatchNotFound
       \/ /\ PatchPPVPA([ppvpa EXCEPT !.target = cDep])
          /\ \/ wpc' = "seedActive" /\ wcur' = cDep /\ UNCHANGED <<wsnap, wLists>>
             \/ "fault" \in Env /\ WReturn

SeedTarget ==
    /\ Seeding /\ wsnap.target = Nil
    /\ \/ PatchNotFound
       \/ /\ PatchPPVPA([ppvpa EXCEPT !.target = cDep])
          /\ \/ wpc' = "seedActive" /\ wcur' = cDep /\ UNCHANGED <<wsnap, wLists>>
             \/ "fault" \in Env /\ WReturn

SeedActive ==
    /\ wpc = "seedActive" \/ (Seeding /\ wsnap.target # Nil)
    /\ \/ PatchNotFound
       \/ LET current == IF wpc = "seedActive" THEN wcur ELSE cDep
          IN /\ PatchPPVPA([ppvpa EXCEPT !.active = MergePatch(wsnap.active, current, @)])
             /\ WReturn

WStep ==
    \/ WGet \/ Finalize \/ AddFinalizer \/ ListOwned
    \/ \E p \in Pod : CreatePRR(p) \/ DeletePRR(p)
    \/ ReconcileRecommendation
    \/ NothingToScale \/ ScaleDeployment \/ SeedTarget \/ SeedActive
=============================================================================

---------------------------- MODULE ControlPlane ----------------------------
(***************************************************************************)
(* The manager process: the PPVPA and the PRR reconcilers, which share one *)
(* informer cache and write the same objects, beside the other writers.    *)
(***************************************************************************)
EXTENDS PPVPAController, PRRController

vars == <<apiVars, cacheVars, wVars, eVars>>

Init == ApiInit /\ WIdle /\ EIdle

PPVPAWorker == (WStep \/ WError) /\ UNCHANGED eVars
PRRWorker == (EStep \/ EError) /\ UNCHANGED wVars
World == (Others \/ Sync) /\ UNCHANGED <<wVars, eVars>>

\* The manager dies at any point and starts again: both calls are forgotten.
Restart == /\ "restart" \in Env
           /\ WReturn /\ EReturn /\ Resync

Next == PPVPAWorker \/ PRRWorker \/ World \/ Restart

Spec == Init /\ [][Next]_vars

\* Fairness.  A worker that has begun goes on; the PPVPA reconciler is run
\* again by its own RequeueAfter; watches deliver; kubelets, the Deployment
\* controller and the garbage collector make progress.  Nothing is assumed of
\* HPA, users, conditions, time-outs or faults.
Fairness ==
    /\ WF_vars(WStep /\ UNCHANGED eVars)
    /\ WF_vars(SyncPPVPA /\ UNCHANGED <<wVars, eVars>>)
    /\ WF_vars(SyncDep /\ UNCHANGED <<wVars, eVars>>)
    /\ WF_vars(SyncPods /\ UNCHANGED <<wVars, eVars>>)
    /\ WF_vars(SyncPRRs /\ UNCHANGED <<wVars, eVars>>)
    /\ \A p \in Pod : WF_vars(PodLifecycle(p) /\ UNCHANGED <<wVars, eVars>>)
    /\ \A p \in Pod : WF_vars(CollectPRR(p) /\ UNCHANGED <<wVars, eVars>>)
FairSpec == Spec /\ Fairness

\* In addition every PRR is reconciled again and again (the agents' status
\* writes and the resync see to it), and a call that has begun goes on.
PRRFairness ==
    /\ WF_vars((AnomalyHandle \/ Bump \/ Wait \/ Rollback \/ TargetMissing
                \/ BudgetedEvict \/ Decrement) /\ UNCHANGED wVars)
    /\ \A p \in Pod : SF_vars(EGet(p) /\ UNCHANGED wVars)
FairSurgeSpec == FairSpec /\ PRRFairness

-----------------------------------------------------------------------------
(* Safety *)

\* Type correctness of the whole control plane.
TypeOK == ApiTypeOK /\ WTypeOK /\ ETypeOK

\* temporaryReplicas never exceeds what maxSurge allows: BudgetedHandler.Handle
\* tests and writes it from a cached copy, with patches that cannot conflict.
SurgeWithinBudget == ppvpa.temp <= SurgeCeiling

\* The Deployment never gets more than the largest target plus the surge
\* budget, although reconcileReplicas adds two fields of a stale snapshot and
\* seeds targetReplicas from a replica count it may have inflated itself.
ReplicaEnvelope == dep # Nil => dep <= MaxTarget + SurgeCeiling

\* reconcilePRRs takes away the PRR (and with it the history) of a pod only
\* when the pod has ended, whatever the ages of the caches it compares.
PRRDeletedOnlyForGone ==
    [][\A p \in prrs : p \notin prrs' =>
          pods[p] = "gone" \/ dep = Nil \/ ~Exists(ppvpa)]_vars

-----------------------------------------------------------------------------
(* Liveness *)

NoManualScale == <>[][~\E t \in Targets : ManualScale(t) /\ UNCHANGED wVars]_vars

\* reconcileReplicas: once target and temporary replicas stay at values whose
\* sum is positive, the Deployment gets that sum and keeps it.
LockStepPositive ==
    \A t \in Targets, k \in 0..SurgeCeiling : t + k > 0 =>
        (NoManualScale /\ <>[](ppvpa.phase = "live" /\ dep # Nil
                               /\ ppvpa.target = t /\ ppvpa.temp = k)
         => <>[](dep = t + k))

\* reconcileReplicas seeds targetReplicas from a snapshot, with a patch that
\* cannot conflict, while HPA writes the field.  When HPA asks for t alone from
\* some time on and sees to it again and again, t stays, zero included, which
\* the reconciler also takes for "not seeded yet".
HPAPrevails ==
    \A t \in Targets :
        /\ <>[][\A u \in Targets \ {t} : ~(HPAScale(u) /\ UNCHANGED wVars)]_vars
        /\ <>[](ppvpa.phase = "live")
        /\ []<>(ppvpa.target = t)
        => <>[](ppvpa.target = t)

\* Writers other than the PPVPA reconciler leave the PPVPA alone from some time
\* on: r.Update would otherwise conflict again and again.
NoConflicts ==
    <>[][(\E t \in Targets : HPAScale(t) /\ UNCHANGED wVars) \/ PRRWorker => UNCHANGED ppvpa]_vars

\* reconcilePRRs: when the set of pods stays the same, the PRRs become one per
\* pod and the recommendation comes to rest on exactly these.
OnePRRPerPod ==
    \A ps \in SUBSET Pod :
        NoConflicts /\ <>[](ppvpa.phase = "live" /\ dep # Nil /\ Listed(pods) = ps)
        => <>[](prrs = ps /\ ppvpa.rec = ps \cap Reporting)

\* finalize: a deleted PPVPA goes away, and so do its PRRs for good, also the
\* ones that a call still running then creates.
DeletionCompletes ==
    NoConflicts => (ppvpa.phase # "live") ~> [](ppvpa.phase = "gone" /\ prrs = {})

\* BudgetedHandler.Handle: a pod that stays Infeasible beside a surge pod that
\* stays Ready is evicted once the disruption budget leaves room for good,
\* whatever other PRRs do to the shared counter.
SurgeEvicts ==
    \A p \in Pod, s \in Marked \cap Pod :
        ~<>[](/\ "Infeasible" \in conds[p] /\ pods[p] = "ready" /\ pods[s] = "ready"
              /\ Cardinality(Ready(pods)) > MinAvailable
              /\ ppvpa.phase = "live")

-----------------------------------------------------------------------------
(* What comments and documents say of the code, and the code does not keep. *)

\* "TemporaryReplicas reflects in-flight maxSurge inflation": when no pod is
\* Infeasible any more, the inflation ends.
SurgeDrains ==
    <>[](ppvpa.phase = "live" /\ \A p \in Pod : "Infeasible" \notin conds[p])
    => <>[](ppvpa.temp = 0)

\* "First reconcile: seed spec.targetReplicas + status.activeReplicas from the
\* current deployment": where nobody scales, the workload keeps its replicas.
SeedKeepsReplicas == dep # Nil => dep >= InitReplicas
=============================================================================

----------------------------- MODULE ApiServer -----------------------------
(***************************************************************************)
(* What the controllers of the pp-vpa manager share: one PerPodVertical-   *)
(* PodAutoscaler (PPVPA), the Deployment it targets, the pods of that      *)
(* Deployment, one PodResourceRecommendation (PRR) per pod, all as the API *)
(* server stores them; the manager's informer cache, which lags behind;    *)
(* and everybody else who writes these objects (HPA, users, the Deployment *)
(* and ReplicaSet controllers, the node agents, the garbage collector).    *)
(*                                                                         *)
(* A request to the API server is one atomic step.  A reconciler reads the *)
(* cache, one informer per kind, each of which catches up with the server  *)
(* at any time and independently of the others.  A pod name is never       *)
(* reused, as a ReplicaSet generates names.  The Deployment's ReplicaSets  *)
(* are folded into the ownership "every pod of Pod belongs to dep".        *)
(***************************************************************************)
EXTENDS Integers, FiniteSets

CONSTANTS
    Pod,            \* pod names the Deployment can use, each at most once
    Foreign,        \* pods of other workloads in the same namespace, all Ready
    Marked,         \* pods that carry the surge annotation, of Pod \cup Foreign
    Nil,            \* an unset targetReplicas; a Deployment that does not exist
    InitTarget,     \* spec.targetReplicas of the PPVPA when it is created
    InitReplicas,   \* the Deployment's replicas at that time
    InitPods,       \* the pods that are Ready at that time
    Targets,        \* the values HPA or a user writes
    MaxTarget,      \* and their bound
    Reporting,      \* pods whose PRR has a histogram checkpoint in its status
    Raised,         \* the PRR conditions that somebody raises
    MinAvailable,   \* the PodDisruptionBudget of the workload
    Env             \* which external events and faults happen

Cond == {"Anomalous", "Infeasible"}
Events == {"hpa", "manualScale", "podFail", "flag", "unflag", "age",
           "deletePPVPA", "deleteDeployment", "fault", "restart"}

ASSUME PodAssumption ==
    /\ IsFiniteSet(Pod)
    /\ Foreign \cap Pod = {}
    /\ Marked \subseteq Pod \cup Foreign
    /\ InitPods \subseteq Pod
    /\ Reporting \subseteq Pod
    /\ Raised \subseteq Cond
ASSUME ReplicaAssumption ==
    /\ MaxTarget \in Nat
    /\ Targets \subseteq 0..MaxTarget
    /\ Nil \notin Int
    /\ InitTarget \in Targets \cup {Nil}
    /\ InitReplicas \in 0..MaxTarget
    /\ MinAvailable \in Nat
ASSUME EnvAssumption == Env \subseteq Events

VARIABLES
    ppvpa,    \* the PPVPA object
    dep,      \* Deployment.spec.replicas, Nil once the Deployment is deleted
    pods,     \* the life cycle of every pod
    prrs,     \* the pods that have a PRR object
    conds,    \* status.conditions of each PRR that are True
    aged,     \* PRRs created more than burstTimeoutSeconds ago
    cPPVPA, cDep, cPods, cPRRs, cConds   \* the manager's informer caches

apiVars == <<ppvpa, dep, pods, prrs, conds, aged>>
cacheVars == <<cPPVPA, cDep, cPods, cPRRs, cConds>>

PPVPA == [phase     : {"live", "deleting", "gone"},
          finalizer : BOOLEAN,
          target    : Nat \cup {Nil},     \* spec.targetReplicas
          temp      : Nat,                \* status.temporaryReplicas
          active    : Nat,                \* status.activeReplicas
          rec       : SUBSET Pod]         \* PRRs behind defaultRecommendation
PodState == {"absent", "pending", "ready", "terminating", "gone"}

\* Type correctness of the API objects and of their cached copies.
ApiTypeOK ==
    /\ ppvpa \in PPVPA
    /\ dep \in Nat \cup {Nil}
    /\ pods \in [Pod -> PodState]
    /\ prrs \subseteq Pod
    /\ conds \in [Pod -> SUBSET Cond]
    /\ aged \subseteq Pod
    /\ cPPVPA \in PPVPA
    /\ cDep \in Nat \cup {Nil}
    /\ cPods \in [Pod -> PodState]
    /\ cPRRs \subseteq Pod
    /\ cConds \in [Pod -> SUBSET Cond]

ApiInit ==
    /\ ppvpa = [phase |-> "live", finalizer |-> FALSE, target |-> InitTarget,
                temp |-> 0, active |-> 0, rec |-> {}]
    /\ dep = InitReplicas
    /\ pods = [p \in Pod |-> IF p \in InitPods THEN "ready" ELSE "absent"]
    /\ prrs = {}
    /\ conds = [p \in Pod |-> {}]
    /\ aged = {}
    /\ cPPVPA = ppvpa
    /\ cDep = dep
    /\ cPods = pods
    /\ cPRRs = prrs
    /\ cConds = conds

-----------------------------------------------------------------------------
(* Requests of the reconcilers. *)

\* A JSON merge patch carries a field only when it differs from the base
\* object the caller read; it has no resourceVersion and never conflicts.
MergePatch(base, value, current) == IF value = base THEN current ELSE value

Exists(o) == o.phase # "gone"
Listed(ps) == {p \in Pod : ps[p] \in {"pending", "ready", "terminating"}}
Running(ps) == {p \in Pod : ps[p] \in {"pending", "ready"}}
Ready(ps) == {p \in Pod : ps[p] = "ready"}

\* Create of a pods/eviction: the API server refuses with 429 when the
\* disruption budget has no room, and a NotReady pod may always be evicted.
EvictionAllowed(p) ==
    \/ pods[p] \in {"pending", "terminating"}
    \/ pods[p] = "ready" /\ Cardinality(Ready(pods)) > MinAvailable
Evicted(p) == [pods EXCEPT ![p] = "terminating"]

-----------------------------------------------------------------------------
(* Informers. *)

SyncPPVPA == cPPVPA # ppvpa /\ cPPVPA' = ppvpa
             /\ UNCHANGED <<apiVars, cDep, cPods, cPRRs, cConds>>
SyncDep == cDep # dep /\ cDep' = dep
           /\ UNCHANGED <<apiVars, cPPVPA, cPods, cPRRs, cConds>>
SyncPods == cPods # pods /\ cPods' = pods
            /\ UNCHANGED <<apiVars, cPPVPA, cDep, cPRRs, cConds>>
SyncPRRs == <<cPRRs, cConds>> # <<prrs, conds>> /\ cPRRs' = prrs /\ cConds' = conds
            /\ UNCHANGED <<apiVars, cPPVPA, cDep, cPods>>
Sync == SyncPPVPA \/ SyncDep \/ SyncPods \/ SyncPRRs

\* A starting manager lists every kind before its reconcilers run.
Resync == /\ cPPVPA' = ppvpa /\ cDep' = dep /\ cPods' = pods
          /\ cPRRs' = prrs /\ cConds' = conds
          /\ UNCHANGED apiVars

-----------------------------------------------------------------------------
(* Other writers. *)

\* HPA writes spec.targetReplicas through the /scale subresource.
HPAScale(t) ==
    /\ "hpa" \in Env /\ Exists(ppvpa) /\ t # ppvpa.target
    /\ ppvpa' = [ppvpa EXCEPT !.target = t]
    /\ UNCHANGED <<dep, pods, prrs, conds, aged, cacheVars>>

\* A user scales the Deployment behind the autoscaler's back.
ManualScale(r) ==
    /\ "manualScale" \in Env /\ dep \notin {Nil, r}
    /\ dep' = r
    /\ UNCHANGED <<ppvpa, pods, prrs, conds, aged, cacheVars>>

SetPod(p, s) == /\ pods' = [pods EXCEPT ![p] = s]
                /\ UNCHANGED <<ppvpa, dep, prrs, conds, aged, cacheVars>>
Desired == IF dep = Nil THEN 0 ELSE dep

\* The Deployment and ReplicaSet controllers, the scheduler and the kubelet.
PodCreate(p) == /\ pods[p] = "absent" /\ Cardinality(Running(pods)) < Desired
                /\ SetPod(p, "pending")
PodReady(p) == pods[p] = "pending" /\ SetPod(p, "ready")
PodScaleDown(p) ==
    /\ p \in Running(pods) /\ Cardinality(Running(pods)) > Desired
    /\ pods[p] = "ready" => \A q \in Pod : pods[q] # "pending"
    /\ SetPod(p, "terminating")
PodStopped(p) == pods[p] = "terminating" /\ SetPod(p, "gone")
PodFail(p) == /\ "podFail" \in Env /\ pods[p] = "ready"
              /\ \E s \in {"pending", "terminating"} : SetPod(p, s)

\* Whoever raises and clears the conditions of a PRR, and time going by.
SetConds(p, cs) == /\ p \in prrs /\ conds' = [conds EXCEPT ![p] = cs]
                   /\ UNCHANGED <<ppvpa, dep, pods, prrs, aged, cacheVars>>
Flag(p, c) == "flag" \in Env /\ c \notin conds[p] /\ SetConds(p, conds[p] \cup {c})
Unflag(p, c) == "unflag" \in Env /\ c \in conds[p] /\ SetConds(p, conds[p] \ {c})
Age(p) == /\ "age" \in Env /\ p \in prrs \ aged /\ aged' = aged \cup {p}
          /\ UNCHANGED <<ppvpa, dep, pods, prrs, conds, cacheVars>>

\* kubectl delete: the finalizer holds the object back.
DeletePPVPA ==
    /\ "deletePPVPA" \in Env /\ ppvpa.phase = "live"
    /\ ppvpa' = [ppvpa EXCEPT !.phase = IF ppvpa.finalizer THEN "deleting" ELSE "gone"]
    /\ UNCHANGED <<dep, pods, prrs, conds, aged, cacheVars>>
DeleteDeployment ==
    /\ "deleteDeployment" \in Env /\ dep # Nil
    /\ dep' = Nil
    /\ UNCHANGED <<ppvpa, pods, prrs, conds, aged, cacheVars>>

RemovePRR(p) == /\ prrs' = prrs \ {p}
                /\ conds' = [conds EXCEPT ![p] = {}]
                /\ aged' = aged \ {p}
\* The garbage collector sweeps the PRRs whose owner is gone.
CollectPRR(p) == /\ ~Exists(ppvpa) /\ p \in prrs /\ RemovePRR(p)
                 /\ UNCHANGED <<ppvpa, dep, pods, cacheVars>>

PodLifecycle(p) == PodCreate(p) \/ PodReady(p) \/ PodScaleDown(p) \/ PodStopped(p)
Others ==
    \/ \E t \in Targets : HPAScale(t) \/ ManualScale(t)
    \/ \E p \in Pod : PodLifecycle(p) \/ PodFail(p) \/ Age(p) \/ CollectPRR(p)
    \/ \E p \in Pod, c \in Raised : Flag(p, c) \/ Unflag(p, c)
    \/ DeletePPVPA \/ DeleteDeployment
=============================================================================

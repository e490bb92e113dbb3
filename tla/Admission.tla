----------------------------- MODULE Admission -----------------------------
(***************************************************************************)
(* The mutating webhook on the creation of a pod, over ControlPlane.       *)
(* PodCustomDefaulter.Default runs in the manager and reads its caches; it *)
(* decides once what the pod has for its whole life: the resources of its  *)
(* template, the recommendation's target, or its upper bound.  The reads   *)
(* and the creation are one step: an informer that is late by the time     *)
(* between them gives the same result.  The webhook is asked for every pod *)
(* that is created, as the documents intend.                               *)
(***************************************************************************)
EXTENDS ControlPlane

CONSTANTS
    Container,   \* the containers of the pod template
    Named        \* by pod, the containers the status of its PRR names

ASSUME NamedAssumption ==
    /\ Named \in [Pod -> SUBSET Container]
    /\ \A p \in Pod \ Reporting : Named[p] = {}

VARIABLES
    admitted,    \* what each container of a pod was created with, Nil before
    lowered      \* history: temporaryReplicas has been lowered

admissionVars == <<vars, admitted, lowered>>

Resources == {"template", "target", "upperBound"}

\* siblingsFlagged: a PRR that is Infeasible or Anomalous; no when the list
\* cannot be read.
SiblingsFlagged(readable) == readable /\ \E p \in cPRRs : cConds[p] # {}

\* Mutant: the temporary replicas are not looked at.
UseUpperFlagsOnly(readable) == SiblingsFlagged(readable)

UseUpper(readable) == cPPVPA.temp > 0 \/ SiblingsFlagged(readable)

\* matchContainer: the containers that the recommendation speaks of.
Matched == UNION {Named[p] : p \in cPPVPA.rec}

\* found: the walk from the pod to its Deployment and the list of PPVPAs
\* succeeded.  A new ReplicaSet may be missing in the cache.
Default(p, found, readable) ==
    [c \in Container |->
        IF p \in Marked \/ ~found \/ ~Exists(cPPVPA) \/ c \notin Matched THEN "template"
        ELSE IF UseUpper(readable) THEN "upperBound" ELSE "target"]

\* Whether a read of the cache succeeds.
Reads == IF "fault" \in Env THEN BOOLEAN ELSE {TRUE}

Admit ==
    /\ \E found, readable \in Reads :
          admitted' = [p \in Pod |-> IF pods[p] = "absent" /\ pods'[p] # "absent"
                                     THEN Default(p, found, readable) ELSE admitted[p]]
    /\ lowered' = (lowered \/ ppvpa'.temp < ppvpa.temp)

AdmissionInit ==
    /\ Init
    /\ admitted = [p \in Pod |-> IF p \in InitPods THEN [c \in Container |-> "template"] ELSE Nil]
    /\ lowered = FALSE
AdmissionNext == Next /\ Admit
AdmissionSpec == AdmissionInit /\ [][AdmissionNext]_admissionVars

-----------------------------------------------------------------------------
\* Default, "new surge pods are injected with the workload's upperBound": until
\* the first surge is taken back, a pod beyond the largest target, which exists
\* for the surge alone, is never left with the target.  The surge reaches the
\* webhook's cache before it can reach the Deployment, whatever becomes of the
\* condition that asked for it.
SurplusGetsHeadroom ==
    [][\A p \in Pod, c \in Container :
          /\ admitted[p] = Nil /\ admitted'[p] # Nil
          /\ Cardinality(Running(pods)) >= MaxTarget /\ ~lowered
          => admitted'[p][c] # "target"]_admissionVars
=============================================================================

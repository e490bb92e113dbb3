-------------------------- MODULE AdmissionProofs --------------------------
(***************************************************************************)
(* The proof, for every value of the constants, that a pod which exists    *)
(* for the first surge alone is never admitted with the target.            *)
(***************************************************************************)
EXTENDS Admission, ControlPlaneProofs, FiniteSetTheorems

\* Until temporaryReplicas is lowered, the surge travels in one direction: to
\* the server, from there to the cache, then to the PPVPA reconciler's snapshot
\* and with it to the Deployment; whoever is behind has everybody before him.
SurgeTravels ==
    ~lowered => /\ cPPVPA.temp > 0 => ppvpa.temp > 0
                /\ wsnap.temp > 0 => cPPVPA.temp > 0
                /\ dep # Nil /\ dep > MaxTarget => cPPVPA.temp > 0

\* The inductive invariant: a replica count is due to the surge only because
\* every copy of the target is bounded.
AdmissionInv == ReplicaInv /\ SurgeTravels

\* AdmissionInv holds in the beginning.
LEMMA AdmissionInvInit == AdmissionInit => AdmissionInv
<1> SUFFICES ASSUME AdmissionInit PROVE AdmissionInv
  OBVIOUS
<1>1. ReplicaInv
  BY ReplicaInit DEF AdmissionInit
<1>2. SurgeTravels
  BY ReplicaAssumption DEF AdmissionInit, Init, ApiInit, WIdle, NoPPVPA, SurgeTravels
<1> QED BY <1>1, <1>2 DEF AdmissionInv

\* Where a step of the PPVPA reconciler takes its copies and the Deployment's
\* replicas from.
LEMMA WCopies ==
  ASSUME TypeOK, WStep \/ WError
  PROVE  /\ cPPVPA' = cPPVPA
         /\ wsnap'.temp = wsnap.temp \/ wsnap'.temp = 0 \/ wsnap' = cPPVPA
         /\ dep' = dep \/ dep' = Nil \/ dep' = SnapDesired
<1> USE DEF apiVars, cacheVars, wLists
<1>r. WReturn => wsnap'.temp = 0
  BY DEF WReturn, NoPPVPA
<1>1. CASE WGet
  BY <1>1 DEF WGet
<1>2. CASE Finalize
  BY <1>2, <1>r DEF Finalize
<1>3. CASE AddFinalizer
  <2>1. CASE WReturn
    BY <1>3, <2>1, <1>r DEF AddFinalizer
  <2>2. CASE ~WReturn
    <3>1. wsnap = ppvpa /\ wsnap' = [ppvpa EXCEPT !.finalizer = TRUE]
      BY <1>3, <2>2 DEF AddFinalizer, Conflict
    <3>2. wsnap'.temp = wsnap.temp
      BY <3>1 DEF TypeOK, ApiTypeOK, PPVPA
    <3> QED BY <1>3, <3>2 DEF AddFinalizer
  <2> QED BY <2>1, <2>2
<1>4. CASE ListOwned
  BY <1>4 DEF ListOwned
<1>5. ASSUME NEW p \in Pod, CreatePRR(p) \/ DeletePRR(p)
      PROVE  /\ cPPVPA' = cPPVPA
             /\ wsnap'.temp = wsnap.temp \/ wsnap'.temp = 0
             /\ dep' = dep
  BY <1>5, <1>r DEF CreatePRR, DeletePRR
<1>6. CASE ReconcileRecommendation
  BY <1>6, <1>r DEF ReconcileRecommendation, PatchNotFound, PatchPPVPA, WReply, WContinue
<1>7. CASE NothingToScale \/ WError
  BY <1>7, <1>r DEF NothingToScale, WError
<1>8. CASE ScaleDeployment
  BY <1>8, <1>r DEF ScaleDeployment
<1>9. CASE SeedTarget
  BY <1>9, <1>r DEF SeedTarget, PatchNotFound, PatchPPVPA
<1>10. CASE SeedActive
  BY <1>10, <1>r DEF SeedActive, PatchNotFound, PatchPPVPA
<1> QED
  BY <1>1, <1>2, <1>3, <1>4, <1>5, <1>6, <1>7, <1>8, <1>9, <1>10 DEF WStep

\* The PRR reconciler touches neither the Deployment nor the caches.
LEMMA ECopies ==
  EStep \/ EError => UNCHANGED <<dep, cPPVPA>>
  BY DEF EStep, EError, EGet, AnomalyHandle, EvictPod, Bump, Wait, Rollback, TargetMissing,
         BudgetedEvict, Decrement, PatchTemp, apiVars, cacheVars

\* The informers copy the server; nobody else gives the Deployment more
\* replicas than the largest target.
LEMMA WorldCopies ==
  ASSUME Others \/ Sync
  PROVE  /\ cPPVPA' = cPPVPA \/ cPPVPA' = ppvpa
         /\ dep' = dep \/ dep' = Nil \/ (dep' \in Nat /\ dep' <= MaxTarget)
<1> USE DEF apiVars, cacheVars
<1>1. ASSUME NEW t \in Targets, HPAScale(t) \/ ManualScale(t)
      PROVE  cPPVPA' = cPPVPA /\ (dep' = dep \/ (dep' \in Nat /\ dep' <= MaxTarget))
  BY <1>1, ReplicaAssumption DEF HPAScale, ManualScale
<1>2. ASSUME NEW p \in Pod, PodLifecycle(p) \/ PodFail(p) \/ Age(p) \/ CollectPRR(p)
      PROVE  cPPVPA' = cPPVPA /\ dep' = dep
  BY <1>2 DEF PodLifecycle, PodCreate, PodReady, PodScaleDown, PodStopped, PodFail, SetPod,
              Age, CollectPRR
<1>3. ASSUME NEW p \in Pod, NEW c \in Raised, Flag(p, c) \/ Unflag(p, c)
      PROVE  cPPVPA' = cPPVPA /\ dep' = dep
  BY <1>3 DEF Flag, Unflag, SetConds
<1>4. CASE DeletePPVPA \/ DeleteDeployment
  BY <1>4 DEF DeletePPVPA, DeleteDeployment
<1>5. CASE Sync
  BY <1>5 DEF Sync, SyncPPVPA, SyncDep, SyncPods, SyncPRRs
<1> QED BY <1>1, <1>2, <1>3, <1>4, <1>5 DEF Others

\* Every step keeps AdmissionInv.
LEMMA AdmissionInvStep == AdmissionInv /\ [AdmissionNext]_admissionVars => AdmissionInv'
<1> SUFFICES ASSUME AdmissionInv, [AdmissionNext]_admissionVars PROVE AdmissionInv'
  OBVIOUS
<1>c. MaxTarget \in Nat /\ Nil \notin Int
  BY ReplicaAssumption
<1>n. [Next]_vars
  BY DEF AdmissionNext, admissionVars
<1>r. ReplicaInv'
  BY <1>n, ReplicaStep DEF AdmissionInv
<1>t. TypeOK /\ TypeOK' /\ CopiesBounded
  BY <1>r DEF AdmissionInv, ReplicaInv
<1>1. CASE UNCHANGED admissionVars
  BY <1>1, <1>r DEF AdmissionInv, SurgeTravels, admissionVars, vars, apiVars, cacheVars, wVars
<1>2. CASE AdmissionNext
  <2>1. SUFFICES ASSUME ~lowered'
                 PROVE  /\ cPPVPA'.temp > 0 => ppvpa'.temp > 0
                        /\ wsnap'.temp > 0 => cPPVPA'.temp > 0
                        /\ dep' # Nil /\ dep' > MaxTarget => cPPVPA'.temp > 0
    BY <1>r DEF AdmissionInv, SurgeTravels
  <2>2. ~lowered /\ ~(ppvpa'.temp < ppvpa.temp)
    BY <1>2, <2>1 DEF AdmissionNext, Admit
  <2>3. ppvpa.temp \in Nat /\ ppvpa'.temp \in Nat /\ cPPVPA.temp \in Nat /\ wsnap.temp \in Nat
        /\ wsnap'.temp \in Nat
    BY <1>t DEF TypeOK, ApiTypeOK, WTypeOK, PPVPA
  <2>4. ppvpa.temp > 0 => ppvpa'.temp > 0
    BY <2>2, <2>3
  <2>5. /\ cPPVPA.temp > 0 => ppvpa.temp > 0
        /\ wsnap.temp > 0 => cPPVPA.temp > 0
        /\ dep # Nil /\ dep > MaxTarget => cPPVPA.temp > 0
    BY <2>2 DEF AdmissionInv, SurgeTravels
  <2>6. cPPVPA' = cPPVPA \/ cPPVPA' = ppvpa
    BY <1>2, <1>t, WCopies, ECopies, WorldCopies
    DEF AdmissionNext, Next, PPVPAWorker, PRRWorker, World, Restart, Resync
  <2>7. wsnap'.temp = wsnap.temp \/ wsnap'.temp = 0 \/ wsnap' = cPPVPA
    BY <1>2, <1>t, WCopies
    DEF AdmissionNext, Next, PPVPAWorker, PRRWorker, World, Restart, wVars, WReturn, NoPPVPA
  <2>8. dep' = dep \/ dep' = Nil \/ (dep' \in Nat /\ dep' <= MaxTarget) \/ dep' = SnapDesired
    BY <1>2, <1>t, WCopies, ECopies, WorldCopies
    DEF AdmissionNext, Next, PPVPAWorker, PRRWorker, World, Restart, Resync, apiVars
  <2>9. SnapDesired \in Nat /\ (SnapDesired > MaxTarget => wsnap.temp > 0)
    BY <1>c, <1>t DEF SnapDesired, SnapTarget, CopiesBounded, PPVPABounded, UpTo, TypeOK,
                      WTypeOK, PPVPA
  <2> HIDE DEF SnapDesired
  <2>10. cPPVPA.temp > 0 => cPPVPA'.temp > 0
    BY <2>5, <2>6
  <2>11. cPPVPA'.temp > 0 => ppvpa'.temp > 0
    BY <2>4, <2>5, <2>6
  <2>12. wsnap'.temp > 0 => cPPVPA'.temp > 0
    BY <2>5, <2>7, <2>10
  <2>13. dep' # Nil /\ dep' > MaxTarget => cPPVPA'.temp > 0
    BY <1>c, <2>5, <2>8, <2>9, <2>10
  <2> QED BY <2>11, <2>12, <2>13
<1> QED BY <1>1, <1>2

\* Only PodCreate brings a pod into being, and only for a Deployment that wants
\* more pods than are running.
LEMMA CreationNeedsRoom ==
  ASSUME TypeOK, Next, NEW p \in Pod, pods[p] = "absent", pods'[p] # "absent"
  PROVE  Cardinality(Running(pods)) < Desired
<1> USE DEF apiVars, cacheVars
<1>1. CASE PPVPAWorker
  <2>1. pods' = pods
    BY <1>1 DEF PPVPAWorker, WStep, WError, WGet, Finalize, AddFinalizer, ListOwned, CreatePRR,
                DeletePRR, ReconcileRecommendation, NothingToScale, ScaleDeployment, SeedTarget,
                SeedActive, PatchNotFound, PatchPPVPA
  <2> QED BY <2>1
<1>2. CASE PRRWorker
  <2>1. pods' = pods \/ (epod \in Pod /\ EvictionAllowed(epod) /\ pods' = Evicted(epod))
    BY <1>2 DEF PRRWorker, EStep, EError, EGet, AnomalyHandle, EvictPod, Bump, Wait, Rollback,
                TargetMissing, BudgetedEvict, SurgeReady, Decrement, PatchTemp, TypeOK, ETypeOK
  <2> QED BY <2>1 DEF EvictionAllowed, Evicted, TypeOK, ApiTypeOK
<1>3. CASE World
  <2>1. ASSUME NEW o \in Pod, PodLifecycle(o) \/ PodFail(o) PROVE PodCreate(p)
    BY <2>1 DEF PodLifecycle, PodCreate, PodReady, PodScaleDown, PodStopped, PodFail, SetPod,
                Running, TypeOK, ApiTypeOK
  <2>2. (\E o \in Pod : PodLifecycle(o) \/ PodFail(o)) \/ pods' = pods
    BY <1>3 DEF World, Others, Sync, SyncPPVPA, SyncDep, SyncPods, SyncPRRs, HPAScale,
                ManualScale, Age, CollectPRR, Flag, Unflag, SetConds, DeletePPVPA,
                DeleteDeployment
  <2> QED BY <2>1, <2>2 DEF PodCreate
<1>4. CASE Restart
  BY <1>4 DEF Restart, Resync
<1> QED BY <1>1, <1>2, <1>3, <1>4 DEF Next

\* A step from a state of AdmissionInv gives no surplus pod the target.
LEMMA SurplusStep ==
  ASSUME AdmissionInv, AdmissionNext, NEW p \in Pod, NEW c \in Container,
         admitted[p] = Nil, admitted'[p] # Nil,
         Cardinality(Running(pods)) >= MaxTarget, ~lowered
  PROVE  admitted'[p][c] # "target"
<1>1. pods[p] = "absent" /\ pods'[p] # "absent"
  BY DEF AdmissionNext, Admit
<1>2. PICK found \in Reads, readable \in Reads : admitted'[p] = Default(p, found, readable)
  BY <1>1 DEF AdmissionNext, Admit
<1>3. TypeOK
  BY DEF AdmissionInv, ReplicaInv
<1>4. Cardinality(Running(pods)) < Desired
  BY <1>1, <1>3, CreationNeedsRoom DEF AdmissionNext
<1>5. Cardinality(Running(pods)) \in Nat
  BY PodAssumption, FS_Subset, FS_CardinalityType DEF Running
<1>6. dep # Nil /\ dep > MaxTarget
  BY <1>3, <1>4, <1>5, ReplicaAssumption DEF Desired, TypeOK, ApiTypeOK
<1>7. cPPVPA.temp > 0
  BY <1>6 DEF AdmissionInv, SurgeTravels
<1> QED BY <1>2, <1>7 DEF Default, UseUpper

\* PodCustomDefaulter.Default: for any number of pods, any surge budget and any
\* faults, a pod beyond the largest target is never admitted with the target
\* before the first surge is taken back.
THEOREM SurplusPodsGetHeadroom == AdmissionSpec => SurplusGetsHeadroom
<1> DEFINE Kept == \A p \in Pod, c \in Container :
          /\ admitted[p] = Nil /\ admitted'[p] # Nil
          /\ Cardinality(Running(pods)) >= MaxTarget /\ ~lowered
          => admitted'[p][c] # "target"
<1>1. AdmissionInv /\ [AdmissionNext]_admissionVars => [Kept]_admissionVars
  BY SurplusStep
<1> QED
  BY <1>1, AdmissionInvInit, AdmissionInvStep, PTL DEF AdmissionSpec, SurplusGetsHeadroom
=============================================================================

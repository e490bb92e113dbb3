------------------------- MODULE ControlPlaneProofs -------------------------
(***************************************************************************)
(* Proofs, for every value of the constants, that temporaryReplicas stays  *)
(* within the surge budget, that the Deployment stays within the largest   *)
(* target plus that budget, and that a PRR is only deleted for a pod that  *)
(* has ended.  The controllers act on copies of the objects: the inductive *)
(* invariants say what holds of every copy, and in what order the copies   *)
(* of the PPVPA, the Deployment and the pods can differ.                   *)
(***************************************************************************)
EXTENDS ControlPlane, TLAPS

Ceiling == MaxTarget + SurgeCeiling
UpTo(n, x) == x = Nil \/ (x \in Nat /\ x <= n)

\* The bounds of one copy of the PPVPA.
PPVPABounded(o) == /\ UpTo(MaxTarget, o.target)
                   /\ o.temp <= SurgeCeiling
                   /\ o.active <= Ceiling

\* Every copy of every counter is bounded.
CopiesBounded ==
    /\ PPVPABounded(ppvpa) /\ PPVPABounded(cPPVPA) /\ PPVPABounded(wsnap)
    /\ esnap.temp <= SurgeCeiling /\ esnap.active <= Ceiling
    /\ wcur <= Ceiling
    /\ UpTo(Ceiling, dep) /\ UpTo(Ceiling, cDep)

\* A target once set is set in every later copy, and as long as a reader can
\* still find it unset, no surge has been added to the Deployment.
Unseeded ==
    /\ ppvpa.target = Nil => cPPVPA.target = Nil
    /\ wpc # "idle" /\ wsnap.target # Nil => cPPVPA.target # Nil
    /\ cPPVPA.target = Nil \/ (wpc # "idle" /\ wsnap.target = Nil)
       => UpTo(MaxTarget, dep) /\ UpTo(MaxTarget, cDep)

\* The inductive invariant of the replica counts.
ReplicaInv == TypeOK /\ CopiesBounded /\ Unseeded

\* The inductive invariant of the PRRs: the pod cache has shown every pod that
\* has a PRR or gets one, the caches are never ahead of the server, and what
\* is to be deleted belongs to pods that have ended.
OwnershipInv ==
    /\ TypeOK
    /\ \A p \in prrs \cup cPRRs \cup wcreate : cPods[p] # "absent"
    /\ \A p \in Pod : /\ cPods[p] # "absent" => pods[p] # "absent"
                      /\ cPods[p] = "gone" => pods[p] = "gone"
    /\ cDep = Nil => dep = Nil
    /\ \A p \in wdelete : pods[p] = "gone" \/ dep = Nil

-----------------------------------------------------------------------------
(* Type correctness *)

\* WReturn resets the locals to values of their types.
LEMMA WReturnType == WReturn => WTypeOK'
  BY ReplicaAssumption DEF WReturn, WTypeOK, NoPPVPA, PPVPA

\* So does EReturn.
LEMMA EReturnType == EReturn => ETypeOK'
  BY DEF EReturn, ETypeOK, NoParent

\* A field of the PPVPA takes a value of its type, and it remains a PPVPA.
LEMMA FieldTypes ==
  ASSUME NEW o \in PPVPA
  PROVE  /\ \A b \in BOOLEAN : [o EXCEPT !.finalizer = b] \in PPVPA
         /\ \A t \in Nat \cup {Nil} : [o EXCEPT !.target = t] \in PPVPA
         /\ \A n \in Nat : [o EXCEPT !.temp = n] \in PPVPA
         /\ \A n \in Nat : [o EXCEPT !.active = n] \in PPVPA
         /\ \A r \in SUBSET Pod : [o EXCEPT !.rec = r] \in PPVPA
         /\ \A ph \in {"live", "deleting", "gone"} : [o EXCEPT !.phase = ph] \in PPVPA
         /\ [o EXCEPT !.finalizer = FALSE, !.phase = "gone"] \in PPVPA
  BY DEF PPVPA

\* Each other writer leaves well-typed objects.
LEMMA OthersType == ApiTypeOK /\ (Others \/ Sync) => ApiTypeOK'
<1> SUFFICES ASSUME ApiTypeOK, Others \/ Sync PROVE ApiTypeOK'
  OBVIOUS
<1> USE DEF ApiTypeOK, apiVars, cacheVars
<1>1. ASSUME NEW t \in Targets, HPAScale(t) PROVE ApiTypeOK'
  <2>1. t \in Nat \cup {Nil}
    BY ReplicaAssumption
  <2>2. [ppvpa EXCEPT !.target = t] \in PPVPA
    BY <2>1, FieldTypes
  <2> QED BY <1>1, <2>2 DEF HPAScale
<1>2. ASSUME NEW t \in Targets, ManualScale(t) PROVE ApiTypeOK'
  BY <1>2, ReplicaAssumption DEF ManualScale
<1>3. ASSUME NEW p \in Pod, PodLifecycle(p) \/ PodFail(p) PROVE ApiTypeOK'
  BY <1>3 DEF PodLifecycle, PodCreate, PodReady, PodScaleDown, PodStopped,
              PodFail, SetPod, PodState
<1>4. ASSUME NEW p \in Pod, Age(p) PROVE ApiTypeOK'
  BY <1>4 DEF Age
<1>5. ASSUME NEW p \in Pod, CollectPRR(p) PROVE ApiTypeOK'
  BY <1>5 DEF CollectPRR, RemovePRR
<1>6. ASSUME NEW p \in Pod, NEW c \in Raised, Flag(p, c) \/ Unflag(p, c)
      PROVE ApiTypeOK'
  BY <1>6, PodAssumption DEF Flag, Unflag, SetConds
<1>7. CASE DeletePPVPA
  BY <1>7, FieldTypes DEF DeletePPVPA
<1>8. CASE DeleteDeployment
  BY <1>8 DEF DeleteDeployment
<1>9. CASE Sync
  BY <1>9 DEF Sync, SyncPPVPA, SyncDep, SyncPods, SyncPRRs
<1> QED
  BY <1>1, <1>2, <1>3, <1>4, <1>5, <1>6, <1>7, <1>8, <1>9 DEF Others

\* Each step of the PPVPA reconciler keeps the types.
LEMMA WStepType == ApiTypeOK /\ WTypeOK /\ (WStep \/ WError) => ApiTypeOK' /\ WTypeOK'
<1> SUFFICES ASSUME ApiTypeOK, WTypeOK, WStep \/ WError PROVE ApiTypeOK' /\ WTypeOK'
  OBVIOUS
<1> USE DEF ApiTypeOK, apiVars, cacheVars
<1>1. CASE WGet
  BY <1>1 DEF WGet, WTypeOK, wLists
<1>2. CASE Finalize
  BY <1>2, FieldTypes, WReturnType DEF Finalize
<1>3. CASE AddFinalizer
  BY <1>3, FieldTypes, WReturnType DEF AddFinalizer, WTypeOK, wLists
<1>4. CASE ListOwned
  BY <1>4 DEF ListOwned, TargetedPods, Listed, WTypeOK
<1>5. ASSUME NEW p \in Pod, CreatePRR(p) PROVE ApiTypeOK' /\ WTypeOK'
  BY <1>5, WReturnType DEF CreatePRR, WTypeOK
<1>6. ASSUME NEW p \in Pod, DeletePRR(p) PROVE ApiTypeOK' /\ WTypeOK'
  BY <1>6, WReturnType DEF DeletePRR, RemovePRR, WTypeOK
<1>7. CASE ReconcileRecommendation
  <2>1. CASE PatchNotFound
    BY <2>1, WReturnType DEF PatchNotFound
  <2>2. CASE PatchPPVPA([ppvpa EXCEPT !.rec = MergePatch(wsnap.rec, Aggregated, @)])
             /\ WReply("replicas")
    <3>1. MergePatch(wsnap.rec, Aggregated, ppvpa.rec) \in SUBSET Pod
      BY DEF MergePatch, Aggregated, PPVPA
    <3>2. ApiTypeOK'
      BY <2>2, <3>1, FieldTypes DEF PatchPPVPA
    <3>3. WTypeOK'
      BY <2>2, WReturnType DEF WReply, WContinue, WTypeOK, wLists
    <3> QED BY <3>2, <3>3
  <2> QED BY <1>7, <2>1, <2>2 DEF ReconcileRecommendation
<1>8. CASE NothingToScale
  BY <1>8, WReturnType DEF NothingToScale
<1>9. CASE ScaleDeployment
  <2>1. SnapDesired \in Nat
    BY DEF SnapDesired, SnapTarget, WTypeOK, PPVPA
  <2> QED BY <1>9, <2>1, WReturnType DEF ScaleDeployment
<1>10. CASE SeedTarget
  <2>1. CASE PatchNotFound
    BY <2>1, WReturnType DEF PatchNotFound
  <2>2. CASE ~PatchNotFound
    <3>1. cDep \in Nat
      BY <1>10 DEF SeedTarget, Seeding
    <3> QED BY <1>10, <2>2, <3>1, FieldTypes, WReturnType
            DEF SeedTarget, PatchPPVPA, WTypeOK, wLists
  <2> QED BY <2>1, <2>2
<1>11. CASE SeedActive
  <2>1. CASE PatchNotFound
    BY <2>1, WReturnType DEF PatchNotFound
  <2>2. CASE ~PatchNotFound
    <3> DEFINE current == IF wpc = "seedActive" THEN wcur ELSE cDep
    <3>1. current \in Nat
      BY <1>11 DEF SeedActive, Seeding, WTypeOK
    <3>2. MergePatch(wsnap.active, current, ppvpa.active) \in Nat
      BY <3>1 DEF MergePatch, PPVPA
    <3>3. ppvpa' = [ppvpa EXCEPT !.active = MergePatch(wsnap.active, current, @)]
          /\ WReturn /\ UNCHANGED <<dep, pods, prrs, conds, aged, cacheVars>>
      BY <1>11, <2>2 DEF SeedActive, PatchPPVPA
    <3> QED BY <3>2, <3>3, FieldTypes, WReturnType
  <2> QED BY <2>1, <2>2
<1>12. CASE WError
  BY <1>12, WReturnType DEF WError
<1> QED
  BY <1>1, <1>2, <1>3, <1>4, <1>5, <1>6, <1>7, <1>8, <1>9, <1>10, <1>11, <1>12
  DEF WStep

\* A patch of temporaryReplicas keeps the types.
LEMMA PatchTempType ==
  ASSUME ApiTypeOK, NEW n \in Nat, PatchTemp(n)
  PROVE  ApiTypeOK' /\ ETypeOK'
<1>1. MergePatch(esnap.temp, n, ppvpa.temp) \in Nat
  BY DEF MergePatch, ApiTypeOK, PPVPA
<1> QED BY <1>1, FieldTypes, EReturnType DEF PatchTemp, ApiTypeOK, cacheVars

\* Each step of the PRR reconciler keeps the types.
LEMMA EStepType == ApiTypeOK /\ ETypeOK /\ (EStep \/ EError) => ApiTypeOK' /\ ETypeOK'
<1> SUFFICES ASSUME ApiTypeOK, ETypeOK, EStep \/ EError PROVE ApiTypeOK' /\ ETypeOK'
  OBVIOUS
<1> USE DEF apiVars, cacheVars
<1>1. ASSUME NEW p \in Pod, EGet(p) PROVE ApiTypeOK' /\ ETypeOK'
  BY <1>1 DEF EGet, ApiTypeOK, ETypeOK, PPVPA
<1>2. CASE AnomalyHandle
  <2>1. ETypeOK'
    <3>1. EReturn \/ EContinue("budget")
      BY <1>2 DEF AnomalyHandle, EvictPod, AfterAnomaly
    <3> QED BY <1>2, <3>1, EReturnType DEF AnomalyHandle, EContinue, ETypeOK
  <2>2. ApiTypeOK'
    BY <1>2 DEF AnomalyHandle, EvictPod, Evicted, ApiTypeOK, ETypeOK, PodState
  <2> QED BY <2>1, <2>2
<1>3. CASE Bump
  BY <1>3, PatchTempType DEF Bump, ETypeOK
<1>4. CASE Wait
  BY <1>4, EReturnType DEF Wait, ApiTypeOK
<1>5. CASE Rollback \/ Decrement
  <2>1. Less(esnap.temp) \in Nat
    BY DEF Less, ETypeOK
  <2> QED BY <1>5, <2>1, PatchTempType DEF Rollback, Decrement
<1>6. CASE TargetMissing
  BY <1>6, EReturnType DEF TargetMissing, ApiTypeOK
<1>7. CASE BudgetedEvict
  <2>1. ETypeOK'
    <3>1. EReturn \/ EContinue("decrement")
      BY <1>7 DEF BudgetedEvict, EvictPod
    <3> QED BY <1>7, <3>1, EReturnType DEF BudgetedEvict, SurgeReady, EContinue, ETypeOK
  <2>2. ApiTypeOK'
    BY <1>7 DEF BudgetedEvict, EvictPod, Evicted, ApiTypeOK, ETypeOK, PodState
  <2> QED BY <2>1, <2>2
<1>8. CASE EError
  BY <1>8, EReturnType DEF EError, ApiTypeOK
<1> QED
  BY <1>1, <1>2, <1>3, <1>4, <1>5, <1>6, <1>7, <1>8 DEF EStep

\* The initial state is well typed.
LEMMA TypeInit == Init => TypeOK
  BY ReplicaAssumption, PodAssumption
  DEF Init, ApiInit, WIdle, EIdle, TypeOK, ApiTypeOK, WTypeOK, ETypeOK,
      NoPPVPA, NoParent, PPVPA, PodState

\* Every step of the control plane keeps the types.
LEMMA TypeStep == TypeOK /\ [Next]_vars => TypeOK'
<1> SUFFICES ASSUME TypeOK, [Next]_vars PROVE TypeOK'
  OBVIOUS
<1> USE DEF TypeOK
<1>1. CASE PPVPAWorker
  BY <1>1, WStepType DEF PPVPAWorker, ETypeOK, eVars
<1>2. CASE PRRWorker
  BY <1>2, EStepType DEF PRRWorker, WTypeOK, wVars
<1>3. CASE World
  BY <1>3, OthersType DEF World, WTypeOK, ETypeOK, wVars, eVars
<1>4. CASE Restart
  BY <1>4, WReturnType, EReturnType DEF Restart, Resync, ApiTypeOK, apiVars
<1>5. CASE UNCHANGED vars
  BY <1>5 DEF vars, apiVars, cacheVars, wVars, eVars, ApiTypeOK, WTypeOK, ETypeOK
<1> QED BY <1>1, <1>2, <1>3, <1>4, <1>5 DEF Next

\* Every object, cached copy and local of the manager keeps its type, whatever
\* the interleaving of reconcilers, informers, faults and restarts.
THEOREM TypeCorrect == Spec => []TypeOK
  BY TypeInit, TypeStep, PTL DEF Spec

-----------------------------------------------------------------------------
(* Replica counts *)

\* The initial state satisfies the invariant: nothing has been seeded, and the
\* Deployment has at most MaxTarget replicas.
LEMMA ReplicaInit == Init => ReplicaInv
<1> SUFFICES ASSUME Init PROVE ReplicaInv
  OBVIOUS
<1>1. TypeOK
  BY TypeInit
<1>2. InitTarget \in (0..MaxTarget) \cup {Nil} /\ InitReplicas \in 0..MaxTarget
      /\ MaxTarget \in Nat /\ SurgeCeiling \in Nat
  BY ReplicaAssumption, BudgetAssumption
<1>3. CopiesBounded
  BY <1>2 DEF Init, ApiInit, WIdle, EIdle, CopiesBounded, PPVPABounded, UpTo,
              Ceiling, NoPPVPA, NoParent
<1>4. Unseeded
  BY <1>2 DEF Init, ApiInit, WIdle, Unseeded, UpTo
<1> QED BY <1>1, <1>3, <1>4 DEF ReplicaInv

\* WReturn forgets every copy the reconciler had.
LEMMA WReturnBounded ==
  WReturn => wpc' = "idle" /\ wcur' <= Ceiling /\ PPVPABounded(wsnap')
  BY ReplicaAssumption, BudgetAssumption
  DEF WReturn, NoPPVPA, PPVPABounded, UpTo, Ceiling

\* EReturn too.
LEMMA EReturnBounded ==
  EReturn => esnap'.temp <= SurgeCeiling /\ esnap'.active <= Ceiling
  BY ReplicaAssumption, BudgetAssumption DEF EReturn, NoParent, Ceiling

\* The budget of a bounded activeReplicas is bounded, so an increment that
\* passed the test of any copy of temporaryReplicas stays within it.
LEMMA BumpBounded ==
  ASSUME ReplicaInv, SurgeLeft
  PROVE  esnap.temp + 1 <= SurgeCeiling
<1>1. esnap.active \in 0..(MaxTarget + SurgeCeiling)
  BY ReplicaAssumption, BudgetAssumption
  DEF ReplicaInv, TypeOK, ETypeOK, CopiesBounded, Ceiling
<1> DEFINE budget == ResolveBudget(MaxSurge, esnap.active)
<1>2. budget <= SurgeCeiling
  BY <1>1, BudgetAssumption
<1>3. budget \in Int
  BY <1>1, ReplicaAssumption, BudgetAssumption DEF ResolveBudget, Budget
<1>4. esnap.temp < budget /\ esnap.temp \in Nat /\ SurgeCeiling \in Nat
  BY BudgetAssumption DEF SurgeLeft, ReplicaInv, TypeOK, ETypeOK
<1> HIDE DEF budget
<1> QED BY <1>2, <1>3, <1>4

\* Steps of the PPVPA reconciler.  ScaleDeployment is where the order of the
\* copies matters: it adds surge only with a target, and then no reader can
\* find the target unset any more.
LEMMA WStepReplica ==
  ReplicaInv /\ (WStep \/ WError) /\ UNCHANGED eVars /\ TypeOK'
  => CopiesBounded' /\ Unseeded'
<1> SUFFICES ASSUME ReplicaInv, WStep \/ WError, UNCHANGED eVars, TypeOK'
             PROVE  CopiesBounded' /\ Unseeded'
  OBVIOUS
<1> USE DEF ReplicaInv, eVars
<1>c. MaxTarget \in Nat /\ SurgeCeiling \in Nat /\ SurgeCeiling <= MaxTarget /\ Nil \notin Int
  BY ReplicaAssumption, BudgetAssumption
<1>1. CASE WGet
  BY <1>1 DEF WGet, CopiesBounded, Unseeded, apiVars, cacheVars, wLists
<1>2. CASE Finalize
  <2>1. ppvpa'.target = ppvpa.target /\ ppvpa'.temp = ppvpa.temp
        /\ ppvpa'.active = ppvpa.active
    BY <1>2 DEF Finalize, TypeOK, ApiTypeOK, PPVPA
  <2> QED BY <1>2, <2>1, WReturnBounded
          DEF Finalize, CopiesBounded, PPVPABounded, Unseeded, cacheVars
<1>3. CASE AddFinalizer
  <2>1. ppvpa'.target = ppvpa.target /\ ppvpa'.temp = ppvpa.temp
        /\ ppvpa'.active = ppvpa.active
    BY <1>3 DEF AddFinalizer, TypeOK, ApiTypeOK, PPVPA
  <2>2. CASE WReturn
    BY <1>3, <2>1, <2>2, WReturnBounded
    DEF AddFinalizer, CopiesBounded, PPVPABounded, Unseeded, cacheVars
  <2>3. CASE ~WReturn
    <3>1. wsnap = ppvpa /\ wsnap' = ppvpa' /\ wcur' = wcur /\ wpc = "addFinalizer"
          /\ UNCHANGED <<dep, cPPVPA, cDep>>
      BY <1>3, <2>3 DEF AddFinalizer, Conflict, wLists, cacheVars
    <3> QED BY <2>1, <3>1 DEF CopiesBounded, PPVPABounded, Unseeded
  <2> QED BY <2>2, <2>3
<1>4. CASE ListOwned
  BY <1>4 DEF ListOwned, CopiesBounded, Unseeded, apiVars, cacheVars
<1>5. ASSUME NEW p \in Pod, CreatePRR(p) PROVE CopiesBounded' /\ Unseeded'
  BY <1>5, WReturnBounded DEF CreatePRR, CopiesBounded, Unseeded, cacheVars
<1>6. ASSUME NEW p \in Pod, DeletePRR(p) PROVE CopiesBounded' /\ Unseeded'
  BY <1>6, WReturnBounded DEF DeletePRR, CopiesBounded, Unseeded, cacheVars
<1>7. CASE ReconcileRecommendation
  <2>1. ppvpa'.target = ppvpa.target /\ ppvpa'.temp = ppvpa.temp
        /\ ppvpa'.active = ppvpa.active
    BY <1>7 DEF ReconcileRecommendation, PatchNotFound, PatchPPVPA, apiVars,
                TypeOK, ApiTypeOK, PPVPA
  <2>2. UNCHANGED <<dep, cPPVPA, cDep>> /\ wpc = "prrs"
    BY <1>7 DEF ReconcileRecommendation, PatchNotFound, PatchPPVPA, apiVars, cacheVars
  <2>3. WReturn \/ (wpc' = "replicas" /\ UNCHANGED <<wsnap, wcur>>)
    BY <1>7 DEF ReconcileRecommendation, PatchNotFound, WReply, WContinue
  <2> QED BY <2>1, <2>2, <2>3, WReturnBounded DEF CopiesBounded, PPVPABounded, Unseeded
<1>8. CASE NothingToScale
  BY <1>8, WReturnBounded DEF NothingToScale, CopiesBounded, Unseeded, apiVars, cacheVars
<1>9. CASE ScaleDeployment
  <2>1. UNCHANGED <<ppvpa, cPPVPA, cDep>> /\ WReturn /\ wpc = "replicas"
        /\ dep' = IF dep = Nil THEN Nil ELSE SnapDesired
    BY <1>9 DEF ScaleDeployment, cacheVars
  <2>2. SnapDesired \in Nat /\ SnapDesired <= Ceiling
    BY <1>c DEF SnapDesired, SnapTarget, CopiesBounded, PPVPABounded, UpTo, Ceiling,
                TypeOK, WTypeOK, PPVPA
  <2>3. wsnap.target = Nil => SnapDesired <= MaxTarget
    BY <1>c DEF SnapDesired, SnapTarget, CopiesBounded, PPVPABounded,
                TypeOK, WTypeOK, PPVPA
  <2>4. CopiesBounded'
    BY <2>1, <2>2, WReturnBounded DEF CopiesBounded, UpTo
  <2>5. Unseeded'
    <3>1. CASE wsnap.target = Nil
      BY <2>1, <2>2, <2>3, <3>1, WReturnBounded DEF Unseeded, UpTo
    <3>2. CASE wsnap.target # Nil
      BY <2>1, <3>2, WReturnBounded DEF Unseeded
    <3> QED BY <3>1, <3>2
  <2> QED BY <2>4, <2>5
<1>10. CASE SeedTarget
  <2>1. CASE PatchNotFound
    BY <2>1, WReturnBounded DEF PatchNotFound, CopiesBounded, Unseeded, apiVars, cacheVars
  <2>2. CASE ~PatchNotFound
    <3>1. wpc = "replicas" /\ cDep # Nil /\ wsnap.target = Nil
          /\ ppvpa' = [ppvpa EXCEPT !.target = cDep] /\ UNCHANGED <<dep, cPPVPA, cDep>>
      BY <1>10, <2>2 DEF SeedTarget, Seeding, PatchPPVPA, cacheVars
    <3>2. ppvpa'.target = cDep /\ ppvpa'.temp = ppvpa.temp
          /\ ppvpa'.active = ppvpa.active
      BY <3>1 DEF TypeOK, ApiTypeOK, PPVPA
    <3>3. UpTo(MaxTarget, cDep)
      BY <3>1 DEF Unseeded
    <3>4. WReturn \/ (wpc' = "seedActive" /\ wcur' = cDep /\ wsnap' = wsnap)
      BY <1>10, <2>2 DEF SeedTarget, wLists
    <3>5. cDep \in Nat /\ cDep <= Ceiling
      BY <3>1, <3>3, <1>c DEF UpTo, Ceiling
    <3> QED BY <3>1, <3>2, <3>3, <3>4, <3>5, WReturnBounded
            DEF CopiesBounded, PPVPABounded, Unseeded
  <2> QED BY <2>1, <2>2
<1>11. CASE SeedActive
  <2>1. CASE PatchNotFound
    BY <2>1, WReturnBounded DEF PatchNotFound, CopiesBounded, Unseeded, apiVars, cacheVars
  <2>2. CASE ~PatchNotFound
    <3> DEFINE current == IF wpc = "seedActive" THEN wcur ELSE cDep
    <3>1. ppvpa' = [ppvpa EXCEPT !.active = MergePatch(wsnap.active, current, @)]
          /\ WReturn /\ UNCHANGED <<dep, cPPVPA, cDep>>
      BY <1>11, <2>2 DEF SeedActive, PatchPPVPA, cacheVars
    <3>2. current <= Ceiling
      BY <1>11, <1>c DEF SeedActive, Seeding, CopiesBounded, UpTo
    <3>3. ppvpa'.target = ppvpa.target /\ ppvpa'.temp = ppvpa.temp
          /\ ppvpa'.active = MergePatch(wsnap.active, current, ppvpa.active)
      BY <3>1 DEF TypeOK, ApiTypeOK, PPVPA
    <3>4. ppvpa'.active <= Ceiling
      BY <3>2, <3>3 DEF MergePatch, CopiesBounded, PPVPABounded
    <3> QED BY <3>1, <3>3, <3>4, WReturnBounded DEF CopiesBounded, PPVPABounded, Unseeded
  <2> QED BY <2>1, <2>2
<1>12. CASE WError
  BY <1>12, WReturnBounded DEF WError, CopiesBounded, Unseeded, apiVars, cacheVars
<1> QED
  BY <1>1, <1>2, <1>3, <1>4, <1>5, <1>6, <1>7, <1>8, <1>9, <1>10, <1>11, <1>12
  DEF WStep

\* A patch of temporaryReplicas with a bounded value, from any copy.
LEMMA PatchTempBounded ==
  ASSUME ReplicaInv, NEW n \in Nat, n <= SurgeCeiling, PatchTemp(n), UNCHANGED wVars
  PROVE  CopiesBounded' /\ Unseeded'
<1>1. UNCHANGED <<dep, cPPVPA, cDep, wsnap, wpc, wcur>> /\ EReturn
  BY DEF PatchTemp, cacheVars, wVars
<1>2. ppvpa'.target = ppvpa.target /\ ppvpa'.active = ppvpa.active
      /\ (ppvpa'.temp = ppvpa.temp \/ ppvpa'.temp = n)
  BY DEF PatchTemp, MergePatch, ReplicaInv, TypeOK, ApiTypeOK, PPVPA
<1> QED BY <1>1, <1>2, EReturnBounded
        DEF ReplicaInv, CopiesBounded, PPVPABounded, Unseeded

\* Steps of the PRR reconciler.
LEMMA EStepReplica ==
  ReplicaInv /\ (EStep \/ EError) /\ UNCHANGED wVars => CopiesBounded' /\ Unseeded'
<1> SUFFICES ASSUME ReplicaInv, EStep \/ EError, UNCHANGED wVars
             PROVE  CopiesBounded' /\ Unseeded'
  OBVIOUS
<1>0. CopiesBounded /\ Unseeded /\ UNCHANGED <<wsnap, wpc, wcur>>
  BY DEF ReplicaInv, wVars
<1>1. ASSUME NEW p \in Pod, EGet(p) PROVE CopiesBounded' /\ Unseeded'
  BY <1>0, <1>1 DEF EGet, CopiesBounded, PPVPABounded, Unseeded, apiVars, cacheVars
<1>2. CASE AnomalyHandle
  <2>1. EReturn \/ UNCHANGED esnap
    BY <1>2 DEF AnomalyHandle, EvictPod, AfterAnomaly, EContinue
  <2>2. UNCHANGED <<ppvpa, dep, cPPVPA, cDep>>
    BY <1>2 DEF AnomalyHandle, EvictPod, apiVars, cacheVars
  <2> QED BY <1>0, <2>1, <2>2, EReturnBounded DEF CopiesBounded, Unseeded
<1>3. CASE Bump
  <2>1. esnap.temp + 1 \in Nat
    BY DEF ReplicaInv, TypeOK, ETypeOK
  <2>2. esnap.temp + 1 <= SurgeCeiling
    BY <1>3, BumpBounded DEF Bump
  <2> QED BY <1>3, <2>1, <2>2, PatchTempBounded DEF Bump
<1>4. CASE Wait
  BY <1>0, <1>4, EReturnBounded DEF Wait, CopiesBounded, Unseeded, apiVars, cacheVars
<1>5. CASE Rollback \/ Decrement
  <2>1. Less(esnap.temp) \in Nat /\ Less(esnap.temp) <= SurgeCeiling
    BY <1>0, BudgetAssumption DEF Less, ReplicaInv, TypeOK, ETypeOK, CopiesBounded
  <2> QED BY <1>5, <2>1, PatchTempBounded DEF Rollback, Decrement
<1>6. CASE TargetMissing
  BY <1>0, <1>6, EReturnBounded DEF TargetMissing, CopiesBounded, Unseeded, apiVars, cacheVars
<1>7. CASE BudgetedEvict
  <2>1. EReturn \/ UNCHANGED esnap
    BY <1>7 DEF BudgetedEvict, EvictPod, EContinue
  <2>2. UNCHANGED <<ppvpa, dep, cPPVPA, cDep>>
    BY <1>7 DEF BudgetedEvict, EvictPod, cacheVars
  <2> QED BY <1>0, <2>1, <2>2, EReturnBounded DEF CopiesBounded, Unseeded
<1>8. CASE EError
  BY <1>0, <1>8, EReturnBounded DEF EError, CopiesBounded, Unseeded, apiVars, cacheVars
<1> QED
  BY <1>1, <1>2, <1>3, <1>4, <1>5, <1>6, <1>7, <1>8 DEF EStep

\* Other writers and the informers.
LEMMA WorldReplica ==
  ReplicaInv /\ (Others \/ Sync) /\ UNCHANGED <<wVars, eVars>> => CopiesBounded' /\ Unseeded'
<1> SUFFICES ASSUME ReplicaInv, Others \/ Sync, UNCHANGED <<wVars, eVars>>
             PROVE  CopiesBounded' /\ Unseeded'
  OBVIOUS
<1>0. CopiesBounded /\ Unseeded /\ UNCHANGED <<wsnap, wpc, wcur, esnap>>
  BY DEF ReplicaInv, wVars, eVars
<1>c. MaxTarget \in Nat /\ SurgeCeiling \in Nat /\ Nil \notin Int /\ Targets \subseteq 0..MaxTarget
  BY ReplicaAssumption, BudgetAssumption
<1>1. ASSUME NEW t \in Targets, HPAScale(t) PROVE CopiesBounded' /\ Unseeded'
  <2>1. ppvpa'.target = t /\ ppvpa'.temp = ppvpa.temp /\ ppvpa'.active = ppvpa.active
    BY <1>1 DEF HPAScale, ReplicaInv, TypeOK, ApiTypeOK, PPVPA
  <2>2. UpTo(MaxTarget, t) /\ t # Nil
    BY <1>c DEF UpTo
  <2> QED BY <1>0, <1>1, <2>1, <2>2
          DEF HPAScale, CopiesBounded, PPVPABounded, Unseeded, cacheVars
<1>2. ASSUME NEW t \in Targets, ManualScale(t) PROVE CopiesBounded' /\ Unseeded'
  <2>1. UpTo(MaxTarget, t) /\ UpTo(Ceiling, t)
    BY <1>c DEF UpTo, Ceiling
  <2> QED BY <1>0, <1>2, <2>1 DEF ManualScale, CopiesBounded, Unseeded, cacheVars
<1>3. ASSUME NEW p \in Pod, PodLifecycle(p) \/ PodFail(p) PROVE CopiesBounded' /\ Unseeded'
  BY <1>0, <1>3 DEF PodLifecycle, PodCreate, PodReady, PodScaleDown, PodStopped,
                    PodFail, SetPod, CopiesBounded, Unseeded, cacheVars
<1>4. ASSUME NEW p \in Pod, Age(p) \/ CollectPRR(p) PROVE CopiesBounded' /\ Unseeded'
  BY <1>0, <1>4 DEF Age, CollectPRR, CopiesBounded, Unseeded, cacheVars
<1>5. ASSUME NEW p \in Pod, NEW c \in Raised, Flag(p, c) \/ Unflag(p, c)
      PROVE CopiesBounded' /\ Unseeded'
  BY <1>0, <1>5 DEF Flag, Unflag, SetConds, CopiesBounded, Unseeded, cacheVars
<1>6. CASE DeletePPVPA
  <2>1. ppvpa'.target = ppvpa.target /\ ppvpa'.temp = ppvpa.temp
        /\ ppvpa'.active = ppvpa.active
    BY <1>6 DEF DeletePPVPA, ReplicaInv, TypeOK, ApiTypeOK, PPVPA
  <2> QED BY <1>0, <1>6, <2>1
          DEF DeletePPVPA, CopiesBounded, PPVPABounded, Unseeded, cacheVars
<1>7. CASE DeleteDeployment
  BY <1>0, <1>7 DEF DeleteDeployment, CopiesBounded, Unseeded, UpTo, cacheVars
<1>8. CASE SyncPPVPA
  BY <1>0, <1>8 DEF SyncPPVPA, CopiesBounded, Unseeded, apiVars
<1>9. CASE SyncDep
  BY <1>0, <1>9 DEF SyncDep, CopiesBounded, Unseeded, apiVars
<1>10. CASE SyncPods \/ SyncPRRs
  BY <1>0, <1>10 DEF SyncPods, SyncPRRs, CopiesBounded, Unseeded, apiVars
<1> QED
  BY <1>1, <1>2, <1>3, <1>4, <1>5, <1>6, <1>7, <1>8, <1>9, <1>10 DEF Others, Sync

\* Every step keeps the replica counts of every copy within their bounds.
LEMMA ReplicaStep == ReplicaInv /\ [Next]_vars => ReplicaInv'
<1> SUFFICES ASSUME ReplicaInv, [Next]_vars PROVE ReplicaInv'
  OBVIOUS
<1>0. TypeOK'
  BY TypeStep DEF ReplicaInv
<1>1. CASE PPVPAWorker
  BY <1>0, <1>1, WStepReplica DEF PPVPAWorker, ReplicaInv
<1>2. CASE PRRWorker
  BY <1>0, <1>2, EStepReplica DEF PRRWorker, ReplicaInv
<1>3. CASE World
  BY <1>0, <1>3, WorldReplica DEF World, ReplicaInv
<1>4. CASE Restart
  BY <1>0, <1>4, WReturnBounded, EReturnBounded
  DEF Restart, Resync, apiVars, ReplicaInv, CopiesBounded, Unseeded
<1>5. CASE UNCHANGED vars
  BY <1>0, <1>5 DEF vars, apiVars, cacheVars, wVars, eVars, ReplicaInv, CopiesBounded, Unseeded
<1> QED BY <1>1, <1>2, <1>3, <1>4, <1>5 DEF Next

\* Whatever maxSurge and the ages of the copies, temporaryReplicas never
\* exceeds the largest budget a reachable activeReplicas gives.
THEOREM SurgeStaysWithinBudget == Spec => []SurgeWithinBudget
<1>1. ReplicaInv => SurgeWithinBudget
  BY DEF ReplicaInv, CopiesBounded, PPVPABounded, SurgeWithinBudget
<1> QED BY <1>1, ReplicaInit, ReplicaStep, PTL DEF Spec

\* The Deployment is never scaled beyond the largest target plus the budget.
THEOREM DeploymentStaysInEnvelope == Spec => []ReplicaEnvelope
<1>1. ReplicaInv => ReplicaEnvelope
  BY DEF ReplicaInv, CopiesBounded, UpTo, Ceiling, ReplicaEnvelope
<1> QED BY <1>1, ReplicaInit, ReplicaStep, PTL DEF Spec

-----------------------------------------------------------------------------
(* Ownership of PRRs *)

\* Nothing has a PRR yet.
LEMMA OwnershipInit == Init => OwnershipInv
  BY TypeInit DEF Init, ApiInit, WIdle, OwnershipInv

\* The PPVPA reconciler creates and deletes by lists it made from one view of
\* the pods; what it found gone then is gone now.
LEMMA WStepOwnership ==
  ASSUME OwnershipInv, WStep \/ WError, TypeOK'
  PROVE  OwnershipInv'
<1>0. TypeOK
  BY DEF OwnershipInv
<1>1. CASE WGet
  BY <1>1 DEF WGet, OwnershipInv, apiVars, cacheVars, wLists
<1>2. CASE Finalize
  BY <1>2 DEF Finalize, WReturn, OwnershipInv, cacheVars
<1>3. CASE AddFinalizer
  BY <1>3 DEF AddFinalizer, WReturn, OwnershipInv, cacheVars, wLists
<1>4. CASE ListOwned
  BY <1>0, <1>4 DEF ListOwned, TargetedPods, Listed, OwnershipInv, apiVars, cacheVars,
                    TypeOK, ApiTypeOK, PodState
<1>5. ASSUME NEW p \in Pod, CreatePRR(p) PROVE OwnershipInv'
  BY <1>5 DEF CreatePRR, WReturn, OwnershipInv, cacheVars
<1>6. ASSUME NEW p \in Pod, DeletePRR(p) PROVE OwnershipInv'
  BY <1>6 DEF DeletePRR, RemovePRR, WReturn, OwnershipInv, cacheVars
<1>7. CASE ReconcileRecommendation
  <2>1. UNCHANGED <<prrs, cPRRs, cPods, pods, cDep, dep>>
    BY <1>7 DEF ReconcileRecommendation, PatchNotFound, PatchPPVPA, apiVars, cacheVars
  <2>2. WReturn \/ UNCHANGED wLists
    BY <1>7 DEF ReconcileRecommendation, PatchNotFound, WReply, WContinue
  <2> QED BY <2>1, <2>2 DEF OwnershipInv, WReturn, wLists
<1>8. CASE NothingToScale
  BY <1>8 DEF NothingToScale, WReturn, OwnershipInv, apiVars, cacheVars
<1>9. CASE ScaleDeployment
  BY <1>9 DEF ScaleDeployment, WReturn, OwnershipInv, cacheVars
<1>10. CASE SeedTarget
  <2>1. UNCHANGED <<prrs, cPRRs, cPods, pods, cDep, dep>>
    BY <1>10 DEF SeedTarget, PatchNotFound, PatchPPVPA, apiVars, cacheVars
  <2>2. WReturn \/ UNCHANGED wLists
    BY <1>10 DEF SeedTarget, PatchNotFound
  <2> QED BY <2>1, <2>2 DEF OwnershipInv, WReturn, wLists
<1>11. CASE SeedActive
  BY <1>11 DEF SeedActive, PatchNotFound, PatchPPVPA, WReturn, OwnershipInv, apiVars, cacheVars
<1>12. CASE WError
  BY <1>12 DEF WError, WReturn, OwnershipInv, apiVars, cacheVars
<1> QED
  BY <1>1, <1>2, <1>3, <1>4, <1>5, <1>6, <1>7, <1>8, <1>9, <1>10, <1>11, <1>12
  DEF WStep

\* The PRR reconciler only evicts pods that exist and have not ended.
LEMMA EStepOwnership ==
  ASSUME OwnershipInv, EStep \/ EError, UNCHANGED wVars, TypeOK'
  PROVE  OwnershipInv'
<1>0. TypeOK /\ UNCHANGED wLists
  BY DEF OwnershipInv, wVars, wLists
<1>1. UNCHANGED <<prrs, cPRRs, cPods, cDep, dep>>
  BY DEF EStep, EGet, AnomalyHandle, EvictPod, Bump, Wait, Rollback, TargetMissing,
         BudgetedEvict, Decrement, PatchTemp, EError, apiVars, cacheVars
<1>2. pods' = pods \/ (epod \in Pod /\ EvictionAllowed(epod) /\ pods' = Evicted(epod))
  <2>1. CASE AnomalyHandle
    BY <1>0, <2>1 DEF AnomalyHandle, EvictPod, Listed, apiVars
  <2>2. CASE BudgetedEvict
    BY <1>0, <2>2 DEF BudgetedEvict, EvictPod, Listed, apiVars
  <2>3. CASE ~AnomalyHandle /\ ~BudgetedEvict
    BY <2>3 DEF EStep, EGet, Bump, Wait, Rollback, TargetMissing, Decrement,
                PatchTemp, EError, apiVars
  <2> QED BY <2>1, <2>2, <2>3
<1>3. \A p \in Pod : /\ pods[p] # "absent" => pods'[p] # "absent"
                     /\ pods[p] = "gone" => pods'[p] = "gone"
  BY <1>0, <1>2 DEF EvictionAllowed, Evicted, TypeOK, ApiTypeOK
<1> QED BY <1>0, <1>1, <1>3 DEF OwnershipInv, wLists, TypeOK, WTypeOK

\* Pods live and end; the caches follow them and never run ahead.
LEMMA WorldOwnership ==
  ASSUME OwnershipInv, Others \/ Sync, UNCHANGED wVars, TypeOK'
  PROVE  OwnershipInv'
<1>0. TypeOK /\ UNCHANGED wLists
  BY DEF OwnershipInv, wVars, wLists
<1>1. ASSUME NEW t \in Targets, HPAScale(t) \/ ManualScale(t) PROVE OwnershipInv'
  BY <1>0, <1>1 DEF HPAScale, ManualScale, OwnershipInv, cacheVars, wLists
<1>2. ASSUME NEW p \in Pod, PodLifecycle(p) \/ PodFail(p) PROVE OwnershipInv'
  <2>1. UNCHANGED <<dep, prrs, cPRRs, cPods, cDep>>
    BY <1>2 DEF PodLifecycle, PodCreate, PodReady, PodScaleDown, PodStopped,
                PodFail, SetPod, cacheVars
  <2>2. \A x \in Pod : /\ pods[x] # "absent" => pods'[x] # "absent"
                       /\ pods[x] = "gone" => pods'[x] = "gone"
    BY <1>0, <1>2 DEF PodLifecycle, PodCreate, PodReady, PodScaleDown, PodStopped,
                      PodFail, SetPod, Running, TypeOK, ApiTypeOK
  <2> QED BY <1>0, <2>1, <2>2 DEF OwnershipInv, wLists, TypeOK, WTypeOK
<1>3. ASSUME NEW p \in Pod, Age(p) \/ CollectPRR(p) PROVE OwnershipInv'
  BY <1>0, <1>3 DEF Age, CollectPRR, RemovePRR, OwnershipInv, cacheVars, wLists
<1>4. ASSUME NEW p \in Pod, NEW c \in Raised, Flag(p, c) \/ Unflag(p, c)
      PROVE OwnershipInv'
  BY <1>0, <1>4 DEF Flag, Unflag, SetConds, OwnershipInv, cacheVars, wLists
<1>5. CASE DeletePPVPA
  BY <1>0, <1>5 DEF DeletePPVPA, OwnershipInv, cacheVars, wLists
<1>6. CASE DeleteDeployment
  BY <1>0, <1>6 DEF DeleteDeployment, OwnershipInv, cacheVars, wLists
<1>7. CASE SyncPPVPA \/ SyncDep
  BY <1>0, <1>7 DEF SyncPPVPA, SyncDep, OwnershipInv, apiVars, wLists
<1>8. CASE SyncPods
  BY <1>0, <1>8 DEF SyncPods, OwnershipInv, apiVars, wLists, TypeOK, ApiTypeOK, WTypeOK
<1>9. CASE SyncPRRs
  BY <1>0, <1>9 DEF SyncPRRs, OwnershipInv, apiVars, wLists
<1> QED
  BY <1>1, <1>2, <1>3, <1>4, <1>5, <1>6, <1>7, <1>8, <1>9 DEF Others, Sync

\* The ownership invariant is kept by every step.
LEMMA OwnershipStep == OwnershipInv /\ [Next]_vars => OwnershipInv'
<1> SUFFICES ASSUME OwnershipInv, [Next]_vars PROVE OwnershipInv'
  OBVIOUS
<1>0. TypeOK /\ TypeOK'
  BY TypeStep DEF OwnershipInv
<1>1. CASE PPVPAWorker
  BY <1>0, <1>1, WStepOwnership DEF PPVPAWorker
<1>2. CASE PRRWorker
  BY <1>0, <1>2, EStepOwnership DEF PRRWorker
<1>3. CASE World
  BY <1>0, <1>3, WorldOwnership DEF World
<1>4. CASE Restart
  BY <1>0, <1>4 DEF Restart, Resync, WReturn, apiVars, OwnershipInv, TypeOK, ApiTypeOK
<1>5. CASE UNCHANGED vars
  BY <1>0, <1>5 DEF vars, apiVars, cacheVars, wVars, OwnershipInv
<1> QED BY <1>1, <1>2, <1>3, <1>4, <1>5 DEF Next

\* A PRR is removed by the reconciler's work list or by the garbage collector.
LEMMA RemovalStep ==
  ASSUME OwnershipInv, [Next]_vars, NEW p \in prrs, p \notin prrs'
  PROVE  pods[p] = "gone" \/ dep = Nil \/ ~Exists(ppvpa)
<1>1. CASE PPVPAWorker
  <2>1. PICK x \in Pod : DeletePRR(x)
    BY <1>1 DEF PPVPAWorker, WStep, WError, WGet, Finalize, AddFinalizer, ListOwned,
                CreatePRR, ReconcileRecommendation, NothingToScale, ScaleDeployment,
                SeedTarget, SeedActive, PatchNotFound, PatchPPVPA, apiVars
  <2> QED BY <2>1 DEF DeletePRR, RemovePRR, OwnershipInv
<1>2. CASE PRRWorker
  BY <1>2 DEF PRRWorker, EStep, EError, EGet, AnomalyHandle, EvictPod, Bump, Wait,
              Rollback, TargetMissing, BudgetedEvict, Decrement, PatchTemp, apiVars
<1>3. CASE World
  <2>1. PICK x \in Pod : CollectPRR(x)
    BY <1>3 DEF World, Others, Sync, HPAScale, ManualScale, PodLifecycle, PodCreate,
                PodReady, PodScaleDown, PodStopped, PodFail, SetPod, Age, Flag, Unflag,
                SetConds, DeletePPVPA, DeleteDeployment, SyncPPVPA, SyncDep, SyncPods,
                SyncPRRs, apiVars
  <2> QED BY <2>1 DEF CollectPRR
<1>4. CASE Restart
  BY <1>4 DEF Restart, Resync, apiVars
<1>5. CASE UNCHANGED vars
  BY <1>5 DEF vars, apiVars
<1> QED BY <1>1, <1>2, <1>3, <1>4, <1>5 DEF Next

\* reconcilePRRs deletes the PRR of a pod only once the pod has ended, its
\* Deployment is deleted or the PPVPA is gone.
THEOREM PRRsOutliveTheirPods == Spec => PRRDeletedOnlyForGone
<1>1. OwnershipInv /\ [Next]_vars =>
      [\A p \in prrs : p \notin prrs' =>
          pods[p] = "gone" \/ dep = Nil \/ ~Exists(ppvpa)]_vars
  BY RemovalStep
<1> QED BY <1>1, OwnershipInit, OwnershipStep, PTL DEF Spec, PRRDeletedOnlyForGone

=============================================================================

-------------------- MODULE CheckpointControllerProofs --------------------
(***************************************************************************)
(* Proofs about the workload checkpoint, for any number of pods, of        *)
(* incarnations of a PPVPA and of checkpoints written by the agents.       *)
(***************************************************************************)
EXTENDS CheckpointController, TLAPS

\* The cache shows an incarnation of the PPVPA that exists or existed.
CacheBehind == cPPVPA.uid <= ppvpa.uid

\* The owner of the checkpoint is no news to the manager: it was read from the
\* cache, which only moves on.
OwnerKnown == cp # Nil => cp.owner <= cPPVPA.uid

\* What a call carries is of one incarnation, not older than the owner of the
\* checkpoint it is going to write.
InFlight ==
    kpc # "idle" => /\ kuid <= cPPVPA.uid
                    /\ cp # Nil => cp.owner <= kuid
                    /\ \A c \in kenc : c.owner = kuid

\* The inductive invariant: NoOlderHistory says nothing of a call under way.
HistoryInv == TypeOK /\ CacheBehind /\ OwnerKnown /\ InFlight /\ NoOlderHistory

\* An aggregate consists of contributions that the owned PRRs have made.
LEMMA AggregateOwned ==
    ASSUME TypeOK, NEW u \in Uid
    PROVE  /\ Aggregate(Owned(u)) \subseteq Contribution
           /\ \A c \in Aggregate(Owned(u)) : c.owner = u
<1>1. ASSUME NEW p \in Owned(u), cPRRs[p].version > 0
      PROVE  /\ [pod |-> p, version |-> cPRRs[p].version, owner |-> cPRRs[p].owner] \in Contribution
             /\ cPRRs[p].owner = u
  <2>1. p \in Pod /\ cPRRs[p] # Nil /\ cPRRs[p].owner = u
    BY DEF Owned
  <2>2. cPRRs[p] \in PRR
    BY <2>1 DEF TypeOK
  <2>3. cPRRs[p].version \in 1..MaxVersion
    BY <1>1, <2>2, CheckpointAssumption DEF PRR
  <2> QED
    BY <2>1, <2>3 DEF Contribution
<1> QED
  BY <1>1 DEF Aggregate

\* HistoryInv holds in the beginning.
LEMMA HistoryInvInit == Init => HistoryInv
  BY CheckpointAssumption
  DEF Init, HistoryInv, TypeOK, CacheBehind, OwnerKnown, InFlight, NoOlderHistory,
      PPVPA, Uid, PRR, Checkpoint, Contribution

\* Every step keeps the types.
LEMMA TypeStep == TypeOK /\ [Next]_vars => TypeOK'
<1> SUFFICES ASSUME TypeOK, [Next]_vars PROVE TypeOK'
  OBVIOUS
<1> USE CheckpointAssumption
<1>1. CASE Get
  <2>1. cPPVPA.uid \in Uid
    BY DEF TypeOK, PPVPA
  <2>2. Aggregate(Owned(cPPVPA.uid)) \subseteq Contribution
    BY <2>1, AggregateOwned
  <2> QED
    BY <1>1, <2>1, <2>2 DEF Get, TypeOK, apiVars, cacheVars
<1>2. CASE Create
  BY <1>2 DEF Create, Continue, TypeOK, cacheVars, Checkpoint
<1>3. CASE ReadBack
  BY <1>3 DEF ReadBack, Return, Continue, TypeOK, apiVars, cacheVars, Uid
<1>4. CASE PatchStatus
  <2>1. cp' \in Checkpoint \cup {Nil}
    BY <1>4 DEF PatchStatus, TypeOK, Checkpoint
  <2> QED
    BY <1>4, <2>1 DEF PatchStatus, Return, TypeOK, cacheVars, Uid
<1>5. CASE Fail
  BY <1>5 DEF Fail, Return, TypeOK, apiVars, cacheVars, Uid
<1>6. CASE SyncPPVPA \/ SyncPRRs \/ SyncCP
  BY <1>6 DEF SyncPPVPA, SyncPRRs, SyncCP, TypeOK, apiVars, kVars
<1>7. CASE DeletePPVPA \/ RemovePPVPA \/ RecreatePPVPA
  BY <1>7 DEF DeletePPVPA, RemovePPVPA, RecreatePPVPA, TypeOK, PPVPA, Uid, cacheVars, kVars
<1>8. CASE CollectCP
  BY <1>8 DEF CollectCP, TypeOK, cacheVars, kVars
<1>9. ASSUME NEW p \in Pod, NEW u \in Uid, CreatePRR(p, u) \/ WritePRR(p) \/ CollectPRR(p)
      PROVE  TypeOK'
  <2>1. CASE CreatePRR(p, u)
    <3>1. [owner |-> u, version |-> 0] \in PRR
      BY CheckpointAssumption DEF PRR
    <3> QED
      BY <2>1, <3>1 DEF CreatePRR, TypeOK, cacheVars, kVars
  <2>2. CASE WritePRR(p)
    <3>1. prrs[p] \in PRR
      BY <2>2 DEF WritePRR, TypeOK
    <3>2. [prrs[p] EXCEPT !.version = @ + 1] \in PRR
      BY <2>2, <3>1 DEF WritePRR, PRR
    <3>3. prrs' = [prrs EXCEPT ![p] = [prrs[p] EXCEPT !.version = @ + 1]]
      BY <2>2 DEF WritePRR
    <3> QED
      BY <2>2, <3>2, <3>3 DEF WritePRR, TypeOK, cacheVars, kVars
  <2>3. CASE CollectPRR(p)
    BY <2>3 DEF CollectPRR, TypeOK, cacheVars, kVars
  <2> QED
    BY <1>9, <2>1, <2>2, <2>3
<1>10. CASE UNCHANGED vars
  BY <1>10 DEF vars, apiVars, cacheVars, kVars, TypeOK
<1> QED
  BY <1>1, <1>2, <1>3, <1>4, <1>5, <1>6, <1>7, <1>8, <1>9, <1>10, CheckpointAssumption DEF Next, Step, Uid

\* Every step keeps HistoryInv.
LEMMA HistoryInvStep == HistoryInv /\ [Next]_vars => HistoryInv'
<1> SUFFICES ASSUME HistoryInv, [Next]_vars PROVE HistoryInv'
  OBVIOUS
<1>t. TypeOK /\ TypeOK'
  BY TypeStep DEF HistoryInv
<1>i. /\ ppvpa.uid \in Int /\ cPPVPA.uid \in Int /\ kuid \in Int
      /\ cp # Nil => cp \in Checkpoint /\ cp.owner \in Int
      /\ \A c \in Contribution : c.owner \in Int
  BY <1>t, CheckpointAssumption DEF TypeOK, PPVPA, Checkpoint, Contribution, Uid
<1>1. CASE Get
  <2>1. \A c \in kenc' : c.owner = kuid'
    BY <1>1, <1>t, AggregateOwned DEF Get, TypeOK, PPVPA
  <2> QED
    BY <1>1, <1>t, <1>i, <2>1
    DEF Get, HistoryInv, CacheBehind, OwnerKnown, InFlight, NoOlderHistory, apiVars, cacheVars
<1>2. CASE Create
  BY <1>2, <1>t, <1>i
  DEF Create, Continue, HistoryInv, CacheBehind, OwnerKnown, InFlight, NoOlderHistory, cacheVars
<1>3. CASE ReadBack
  BY <1>3, <1>t
  DEF ReadBack, Return, Continue, HistoryInv, CacheBehind, OwnerKnown, InFlight, NoOlderHistory,
      apiVars, cacheVars
<1>4. CASE PatchStatus
  <2>1. CASE cp = Nil
    BY <1>4, <1>t, <2>1
    DEF PatchStatus, Return, HistoryInv, CacheBehind, OwnerKnown, InFlight, NoOlderHistory, cacheVars
  <2>2. CASE cp # Nil
    <3>1. cp'.owner = cp.owner /\ cp'.aggregate = kenc
      BY <1>4, <1>i, <2>2, <1>t DEF PatchStatus, Checkpoint, TypeOK
    <3>2. \A c \in kenc : c.owner >= cp.owner
      BY <1>4, <1>t, <1>i, <2>2 DEF PatchStatus, HistoryInv, InFlight, TypeOK
    <3> QED
      BY <1>4, <1>t, <2>2, <3>1, <3>2
      DEF PatchStatus, Return, HistoryInv, CacheBehind, OwnerKnown, InFlight, NoOlderHistory, cacheVars
  <2> QED
    BY <2>1, <2>2
<1>5. CASE Fail
  BY <1>5, <1>t
  DEF Fail, Return, HistoryInv, CacheBehind, OwnerKnown, InFlight, NoOlderHistory, apiVars, cacheVars
<1>6. CASE SyncPPVPA
  BY <1>6, <1>t, <1>i
  DEF SyncPPVPA, HistoryInv, CacheBehind, OwnerKnown, InFlight, NoOlderHistory, apiVars, kVars
<1>7. CASE SyncPRRs \/ SyncCP
  BY <1>7, <1>t
  DEF SyncPRRs, SyncCP, HistoryInv, CacheBehind, OwnerKnown, InFlight, NoOlderHistory, apiVars, kVars
<1>8. CASE DeletePPVPA \/ RemovePPVPA \/ RecreatePPVPA
  <2>1. ppvpa.uid <= ppvpa'.uid
    BY <1>8, <1>t, <1>i DEF DeletePPVPA, RemovePPVPA, RecreatePPVPA, TypeOK, PPVPA
  <2>2. UNCHANGED <<prrs, cp, cacheVars, kVars>> /\ ppvpa'.uid \in Int
    BY <1>8, <1>t, CheckpointAssumption
    DEF DeletePPVPA, RemovePPVPA, RecreatePPVPA, TypeOK, PPVPA, Uid
  <2> QED
    BY <1>t, <1>i, <2>1, <2>2
    DEF HistoryInv, CacheBehind, OwnerKnown, InFlight, NoOlderHistory, cacheVars, kVars
<1>9. CASE CollectCP
  BY <1>9, <1>t
  DEF CollectCP, HistoryInv, CacheBehind, OwnerKnown, InFlight, NoOlderHistory, cacheVars, kVars
<1>10. ASSUME NEW p \in Pod, NEW u \in Uid, CreatePRR(p, u) \/ WritePRR(p) \/ CollectPRR(p)
       PROVE  HistoryInv'
  BY <1>10, <1>t
  DEF CreatePRR, WritePRR, CollectPRR, HistoryInv, CacheBehind, OwnerKnown, InFlight,
      NoOlderHistory, cacheVars, kVars
<1>11. CASE UNCHANGED vars
  BY <1>11, <1>t
  DEF vars, apiVars, cacheVars, kVars, HistoryInv, CacheBehind, OwnerKnown, InFlight, NoOlderHistory
<1> QED
  BY <1>1, <1>2, <1>3, <1>4, <1>5, <1>6, <1>7, <1>8, <1>9, <1>10, <1>11, CheckpointAssumption DEF Next, Step, Uid

\* CheckpointReconciler.Reconcile never writes the history of an earlier PPVPA
\* of the same name into the checkpoint of a later one.
THEOREM HistoryIsNotInherited == Spec => []NoOlderHistory
<1>1. HistoryInv => NoOlderHistory
  BY DEF HistoryInv
<1> QED
  BY <1>1, HistoryInvInit, HistoryInvStep, PTL DEF Spec
=============================================================================

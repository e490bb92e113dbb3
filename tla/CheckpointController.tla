----------------------- MODULE CheckpointController -----------------------
(***************************************************************************)
(* CheckpointReconciler.Reconcile, one worker: aggregate the checkpoints   *)
(* of the PRRs a PPVPA owns, create the workload checkpoint <name>-check-  *)
(* point when it is missing, read it back from the cache, and write the    *)
(* aggregate into its status.  A name lives longer than an object: a PPVPA *)
(* is deleted and created again under its old name with a new UID while    *)
(* the garbage collector has not yet swept what the old one owned.         *)
(*                                                                         *)
(* As in ControlPlane every request to the API server is a step and each   *)
(* informer lags on its own.  The aggregate is the set of the PRR check-   *)
(* points it was made of; what merging computes is Histogram's subject.    *)
(***************************************************************************)
EXTENDS Integers

CONSTANTS
    Pod,           \* the pods, with one PRR each
    Nil,           \* an object that does not exist
    MaxUid,        \* bound: how often the PPVPA is created
    MaxVersion,    \* bound: how often the agent checkpoints a pod
    Faults         \* whether requests fail

ASSUME CheckpointAssumption ==
    /\ MaxUid \in Nat \ {0} /\ MaxVersion \in Nat
    /\ Faults \in BOOLEAN

Uid == 1..MaxUid

\* A PRR checkpoint: of which pod, written how often, and whose PRR it was in.
Contribution == [pod : Pod, version : 1..MaxVersion, owner : Uid]
\* A PRR: version 0 has no histogramCheckpoint yet.
PRR == [owner : Uid, version : 0..MaxVersion]
\* The workload checkpoint: its owner reference, and the aggregate in its
\* status; an object without a status has an empty one.
Checkpoint == [owner : Uid, aggregate : SUBSET Contribution]
PPVPA == [uid : Uid, phase : {"live", "deleting", "gone"}]

VARIABLES
    ppvpa,      \* the object with the name, or the last that had it
    prrs,       \* the PRR of each pod, or Nil
    cp,         \* the workload checkpoint, or Nil
    cPPVPA, cPRRs, cCP,    \* the manager's informer caches
    kpc,        \* where the worker is in Reconcile
    kuid,       \* the UID of the local ppvpa
    kenc        \* the local enc

apiVars == <<ppvpa, prrs, cp>>
cacheVars == <<cPPVPA, cPRRs, cCP>>
kVars == <<kpc, kuid, kenc>>
vars == <<apiVars, cacheVars, kVars>>

\* Type correctness of the objects, their copies and the worker's locals.
TypeOK ==
    /\ ppvpa \in PPVPA /\ cPPVPA \in PPVPA
    /\ prrs \in [Pod -> PRR \cup {Nil}] /\ cPRRs \in [Pod -> PRR \cup {Nil}]
    /\ cp \in Checkpoint \cup {Nil} /\ cCP \in Checkpoint \cup {Nil}
    /\ kpc \in {"idle", "create", "readBack", "patch"}
    /\ kuid \in Uid /\ kenc \subseteq Contribution

Init ==
    /\ ppvpa = [uid |-> 1, phase |-> "live"] /\ cPPVPA = ppvpa
    /\ prrs = [p \in Pod |-> Nil] /\ cPRRs = prrs
    /\ cp = Nil /\ cCP = Nil
    /\ kpc = "idle" /\ kuid = 1 /\ kenc = {}

-----------------------------------------------------------------------------
Return == kpc' = "idle" /\ kuid' = 1 /\ kenc' = {}
Continue(pc) == kpc' = pc /\ UNCHANGED <<kuid, kenc>>

\* Mutant: the PRRs of the namespace, whoever owns them.
OwnedAny(uid) == {p \in Pod : cPRRs[p] # Nil}

Owned(uid) == {p \in Pod : cPRRs[p] # Nil /\ cPRRs[p].owner = uid}

\* Aggregate skips the PRRs that have no checkpoint yet.
Aggregate(ps) == {[pod |-> p, version |-> cPRRs[p].version, owner |-> cPRRs[p].owner] :
                     p \in {o \in ps : cPRRs[o].version > 0}}

\* Mutant: the early returns for a PPVPA that is gone or being deleted are missing.
GetAlways ==
    /\ kpc = "idle"
    /\ kpc' = "create" /\ kuid' = cPPVPA.uid
    /\ kenc' = Aggregate(Owned(cPPVPA.uid))
    /\ UNCHANGED <<apiVars, cacheVars>>

\* A PPVPA that is gone or being deleted is left alone.
Get ==
    /\ kpc = "idle" /\ cPPVPA.phase = "live"
    /\ kpc' = "create" /\ kuid' = cPPVPA.uid
    /\ kenc' = Aggregate(Owned(cPPVPA.uid))
    /\ UNCHANGED <<apiVars, cacheVars>>

\* AlreadyExists is ignored, also when the object belongs to an earlier PPVPA.
Create ==
    /\ kpc = "create"
    /\ cp' = IF cp = Nil THEN [owner |-> kuid, aggregate |-> {}] ELSE cp
    /\ Continue("readBack")
    /\ UNCHANGED <<ppvpa, prrs, cacheVars>>

\* The cache may not show yet what was just created: NotFound ends the call.
ReadBack ==
    /\ kpc = "readBack"
    /\ IF cCP = Nil THEN Return ELSE Continue("patch")
    /\ UNCHANGED <<apiVars, cacheVars>>

\* Mutant: a checkpoint that has an aggregate keeps it.
PatchStatusOnce ==
    /\ kpc = "patch"
    /\ cp' = IF cp = Nil \/ cp.aggregate # {} THEN cp ELSE [cp EXCEPT !.aggregate = kenc]
    /\ Return
    /\ UNCHANGED <<ppvpa, prrs, cacheVars>>

\* A merge patch without resourceVersion, of whatever object has the name now.
\* EncodeWorkload stamps the time, so the field always differs from the copy
\* that was read back and is always part of the patch.
PatchStatus ==
    /\ kpc = "patch"
    /\ cp' = IF cp = Nil THEN Nil ELSE [cp EXCEPT !.aggregate = kenc]
    /\ Return
    /\ UNCHANGED <<ppvpa, prrs, cacheVars>>

\* An API error at any request, a lost reply to one that was carried out, or
\* the end of the process.
Fail == Faults /\ kpc # "idle" /\ Return /\ UNCHANGED <<apiVars, cacheVars>>

Step == Get \/ Create \/ ReadBack \/ PatchStatus

-----------------------------------------------------------------------------
(* The manager's informers. *)

SyncPPVPA == cPPVPA # ppvpa /\ cPPVPA' = ppvpa /\ UNCHANGED <<apiVars, cPRRs, cCP, kVars>>
SyncPRRs == cPRRs # prrs /\ cPRRs' = prrs /\ UNCHANGED <<apiVars, cPPVPA, cCP, kVars>>
SyncCP == cCP # cp /\ cCP' = cp /\ UNCHANGED <<apiVars, cPPVPA, cPRRs, kVars>>

-----------------------------------------------------------------------------
(* Others: users, the PPVPA reconciler, the agents, the garbage collector. *)

DeletePPVPA ==
    /\ ppvpa.phase = "live" /\ ppvpa' = [ppvpa EXCEPT !.phase = "deleting"]
    /\ UNCHANGED <<prrs, cp, cacheVars, kVars>>
RemovePPVPA ==
    /\ ppvpa.phase = "deleting" /\ ppvpa' = [ppvpa EXCEPT !.phase = "gone"]
    /\ UNCHANGED <<prrs, cp, cacheVars, kVars>>
RecreatePPVPA ==
    /\ ppvpa.phase = "gone" /\ ppvpa.uid < MaxUid
    /\ ppvpa' = [uid |-> ppvpa.uid + 1, phase |-> "live"]
    /\ UNCHANGED <<prrs, cp, cacheVars, kVars>>

\* The PPVPA reconciler works from its own copy of the PPVPA, which may be an
\* earlier one that is gone.
CreatePRR(p, u) ==
    /\ prrs[p] = Nil /\ u <= ppvpa.uid
    /\ prrs' = [prrs EXCEPT ![p] = [owner |-> u, version |-> 0]]
    /\ UNCHANGED <<ppvpa, cp, cacheVars, kVars>>
WritePRR(p) ==
    /\ prrs[p] # Nil /\ prrs[p].version < MaxVersion
    /\ prrs' = [prrs EXCEPT ![p].version = @ + 1]
    /\ UNCHANGED <<ppvpa, cp, cacheVars, kVars>>

\* Nobody has the UID any more.
Dangling(owner) == owner # ppvpa.uid \/ ppvpa.phase = "gone"
CollectPRR(p) ==
    /\ prrs[p] # Nil /\ Dangling(prrs[p].owner)
    /\ prrs' = [prrs EXCEPT ![p] = Nil]
    /\ UNCHANGED <<ppvpa, cp, cacheVars, kVars>>
CollectCP ==
    /\ cp # Nil /\ Dangling(cp.owner) /\ cp' = Nil
    /\ UNCHANGED <<ppvpa, prrs, cacheVars, kVars>>

Next ==
    \/ Step \/ Fail
    \/ SyncPPVPA \/ SyncPRRs \/ SyncCP
    \/ DeletePPVPA \/ RemovePPVPA \/ RecreatePPVPA \/ CollectCP
    \/ \E p \in Pod : WritePRR(p) \/ CollectPRR(p) \/ \E u \in Uid : CreatePRR(p, u)

Spec == Init /\ [][Next]_vars

\* Reconcile runs again after its RequeueAfter and after an error, no request
\* fails for ever, watches deliver, the garbage collector sweeps.
FairSpec == /\ Spec
            /\ WF_vars(Get) /\ SF_vars(Create) /\ SF_vars(ReadBack) /\ SF_vars(PatchStatus)
            /\ WF_vars(SyncPPVPA) /\ WF_vars(SyncPRRs) /\ WF_vars(SyncCP)
            /\ WF_vars(CollectCP) /\ \A p \in Pod : WF_vars(CollectPRR(p))

-----------------------------------------------------------------------------
\* Reconcile: a workload checkpoint never holds the history of an earlier PPVPA
\* of the same name than the one that owns it, although it is found and written
\* by name alone.
NoOlderHistory == cp # Nil => \A c \in cp.aggregate : c.owner >= cp.owner

\* Reconcile, "periodically encodes the workload-aggregate histogram": once the
\* PPVPA and its PRRs come to rest, the checkpoint is the PPVPA's own and holds
\* exactly their aggregate, although a call fails whenever the cache does not
\* show yet what the call has created.
CheckpointConverges ==
    \A u \in Uid, f \in [Pod -> 0..MaxVersion] :
        <>[](ppvpa = [uid |-> u, phase |-> "live"]
             /\ \A p \in Pod : prrs[p] = [owner |-> u, version |-> f[p]])
        => <>[](cp = [owner |-> u,
                      aggregate |-> {[pod |-> p, version |-> f[p], owner |-> u] :
                                        p \in {o \in Pod : f[o] > 0}}])

\* Reconcile: no checkpoint stays behind when its PPVPA is gone for good, also
\* not the one that a call created which had begun before.
CheckpointCollected == <>[](ppvpa.phase = "gone") => <>[](cp = Nil)
=============================================================================

# A TLA+ model of the Per-Pod Vertical Pod Autoscaler (pp-vpa)

The modules here model the controllers, the node agent and the recommender of
pp-vpa. TLC checks them on small instances; TLAPS proves every safety
property that a passing run checks for every value of the constants.
`PROJECT.json` lists components, runs, mutants, findings, hazards and theorems,
and maps every definition to the lines of `src/` it stands for.

## 1. The system

| component | state it keeps | operations | hard because |
|---|---|---|---|
| PPVPA reconciler (`internal/controller/perpodverticalpodautoscaler_controller.go`) | none of its own: finalizer, `spec.targetReplicas`, `status.activeReplicas`, `status.defaultRecommendation` of the PPVPA, PRR objects, `Deployment.spec.replicas` | `Reconcile`: `finalize`, `targetedPods`, `reconcilePRRs`, `reconcileRecommendation`, `reconcileReplicas` | acts for many requests on one cached snapshot; merge patches never conflict; any request may fail; restarts |
| PRR reconciler and `internal/eviction` | `status.temporaryReplicas` of the PPVPA; evictions | `AnomalyHandler.Handle`, `BudgetedHandler.Handle` | several PRRs share one counter through a lagging cache; increment, wait, evict and decrement are spread over calls |
| checkpoint reconciler (`checkpoint_controller.go`) | the workload's checkpoint object | `Reconcile` | aggregates PRRs of a lagging cache; finds its object by name, which outlives the PPVPA |
| admission webhook (`internal/webhook/v1`) | none | `Default` | decides on a lagging cache, once for a pod's life |
| node agent (`internal/nodeagent`) | registry of pods, CPU stream, memory peak extractor, OOM counter per pod | `EnsurePod`, `ForgetPod`, `sampleAll`, `writeCheckpoints` | crash between sample and checkpoint; lock released during writes |
| patch queue (`internal/nodeagent/patcher`) | a heap of resize patches | `Push`, `Pop`, `Submit`, `drainPatches` | pushes during a drain; errors after the request took effect |
| histogram (`internal/recommender/histogram`, `aggregate.go`) | weights by bucket, reference time | `AddSample`, `Merge`, `Percentile`, `Encode`, `Decode`, `Aggregate` | ageing composes in any order; zero time |
| recommender (`recommend.go`, `margin.go`, `confidence.go`, `percentile.go`) | none | `Recommend` | stages undo each other; rounding |
| watermark (`internal/nodeagent/watermark`) and triggers (`internal/nodeagent/trigger`) | value, time | `Record`, `Read`, `EvaluateCPUScaleDown` | re-based at every sample |

The PPVPA and PRR reconcilers interact through the API server only: the PRR
reconciler raises `temporaryReplicas`, the PPVPA reconciler turns it into
Deployment replicas, the Deployment controller makes the surge pod, the PRR
reconciler sees it Ready, evicts and lowers the counter. HPA writes
`targetReplicas` at any time. The webhook sees every pod the Deployment
controller creates and reads the same caches. The node agents' checkpoints in the
PRR status are the input of the recommender, which the PPVPA reconciler calls,
and of the checkpoint reconciler, which stores their aggregate.

What makes each part correct: the surge never exceeds its budget and the
Deployment never exceeds target plus surge; the Deployment follows target plus
surge; PRRs correspond to pods and are not deleted under a living pod; deletion
completes; an infeasible pod is replaced; no error loses a
patch; the weights behind every recommendation are those of the samples; history
survives a restart; the bounds are ordered, above the observed peak and within
the policy.

## 2. The modules

| module | models | used by |
|---|---|---|
| `ApiServer` | the shared objects, the manager's informer caches, the other writers | both controllers |
| `PPVPAController` | one worker of the PPVPA reconciler (variables `w...`) | `ControlPlane` |
| `PRRController` | one worker of the PRR reconciler with the eviction handlers (variables `e...`) | `ControlPlane` |
| `ControlPlane` | the composition, restarts, fairness, the properties | `MCControlPlane`, `ControlPlaneProofs` |
| `Admission` | the webhook, over `ControlPlane` | `MCAdmission`, `AdmissionProofs` |
| `CheckpointController` | the checkpoint reconciler, its caches, the garbage collector, and a PPVPA that is created again | `MCCheckpointController`, `CheckpointControllerProofs` |
| `PatchDelivery` | abstract: what the agent promises of its patches | `PatchQueue` (refinement) |
| `PatchQueue` | the resize queue and `drainPatches` | `MCPatchQueue`, `PatchQueueProofs` |
| `Histogram` | the decaying histogram, its codec, `Aggregate` and the codec of the workload checkpoint, as operators | `NodeAgent`, `HistogramProofs` |
| `NodeAgent` | registry, sampling, checkpoints, restarts | `MCNodeAgent`, `NodeAgentProofs` |
| `Recommender` | `Recommend` as a pipeline, one resource at a time | `MCRecommender`, `RecommenderProofs` |
| `Watermark` | one watermark | `Triggers` |
| `Triggers` | the CPU scale-down trigger against the watermark | its own run, `TriggersProofs` |

### Control plane

`ppvpa`, `dep`, `pods`, `prrs`, `conds`, `aged` are what the API server stores;
`cPPVPA`, `cDep`, `cPods`, `cPRRs`, `cConds` are the caches, each of which
catches up in a step of its own, so that their ages are independent. A
reconciler is a program counter and its locals (`wsnap` is the local `ppvpa`
that lives to the end of `Reconcile`; `wcreate` and `wdelete` are the work lists
of the two loops of `reconcilePRRs`; `esnap` is the parent as read). Each
request is one atomic step:

* an `Update` carries a resourceVersion: `Conflict` when the object differs from
  the snapshot;
* a merge patch carries a field only when it differs from its base
  (`MergePatch`) and never conflicts; it is NotFound when the object is gone;
* with `"fault"` in `Env` a request fails without effect (`WError`, `EError`) or
  is served and its reply is lost; both end the call;
* `Restart` forgets both calls and lists all caches anew.

`Env` chooses which external events a run includes, so that a run asks one
question at a size TLC can finish. What is folded: cache reads that directly
precede a request are made in its step (an informer that is late by that time
gives the same result); ReplicaSets are folded into "the pods of the
Deployment", so that a ReplicaSet the cache does not show yet is a set of pods
the cache does not show yet, which is how `targetedPods` treats it, and
rollouts, in which a ReplicaSet goes before its last pods have ended, are left
out; the target is a Deployment, as for every other kind `targetedPods` returns
an error before a PRR or a replica count is touched; one PPVPA lives once, and
pod names are not reused; a cache jumps to the newest state when it syncs, and
skipping intermediate versions is what a busy informer does; a resourceVersion
conflict is a difference in content; the recommendation is the set of PRRs
behind it (its numbers are `Recommender`'s subject); each controller has one
worker, the default of controller-runtime. maxSurge is not negative.

### Admission

`Admission` adds to every step of `ControlPlane` that creates a pod the answer of
`Default`: per container the resources of the template, the target or the upper
bound (`admitted`). The walk from the pod to its PPVPA and the list of PRRs may
fail when `Env` has faults (`Reads`); the pod then passes unchanged, as in the
code. `Named` says which containers a PRR's status names: no code of the
repository writes `status.containerRecommendations`, so what it may contain is an
input. `lowered` is history.

### Workload checkpoint

`CheckpointController` has the three kinds of objects the reconciler touches and
a cache of each. A PPVPA is a UID and a phase; it is deleted and created again
under its name with the next UID, and the garbage collector takes what belongs to
an older UID in its own time. A PRR is its owner and how often the agent has
written its checkpoint; an aggregate is the set of PRR checkpoints it was made
of (what merging computes is `Histogram`'s). `Fail` at any point of a call
covers an API error, a lost reply and the end of the process. `CreatePRR` is the
PPVPA reconciler, which may still work for an older incarnation: it creates PRRs
for any UID up to the newest. The caches and objects of `ControlPlane` are not
shared: nothing the checkpoint reconciler writes is read by another component.

### Patch queue, node agent, histogram

The heap is a set: `Pop` takes any element of greatest priority, where a
priority is an exact fraction of the totals of the node that the patch names (in
the code a sum of two floats, so that the order of two that differ by less than
the floats resolve is not modelled). `SubmitError` covers every error of
`Submit`, the lost answer to a patch that was carried out included. `Restart` is
the end of the process, which takes the heap along and leaves open whether the
patch on its way was carried out; `dropped`, `late` and `last` are history
variables. `PatchDelivery` is the promise without queue and drain: a patch that
was handed over is owed until it is acknowledged or the process ends, may be
carried out more than once before, and is acknowledged in the end, unless a
refused patch of its own or a higher priority is owed (`Blocked`). `PatchQueue`
implements it with the patches in the heap and the one between `Pop` and
`Submit`'s answer as what is owed (`ImplementsDelivery`).

The histogram keeps its control (the zero reference time, times that do not
advance, different options, corrupt payloads, saturation) over exact numbers:
time is in half-lives, a weight of 1.0 is 2^Horizon, the bucket ratio is 2, and
samples lie off the bucket edges, where the code's logarithms could round either
way. `EnsurePod`, `ForgetPod`, `Record` of the CPU stream and `Enqueue` are
exported operations that nothing in the repository calls yet. They are modelled as
operations any goroutine may call, with one restriction: `Record` is called in the
goroutine of `Run`, like the other sampling, and so not during a round of
checkpoints. `Snapshot` hands out the live histogram and `Encode` reads it without
the stream's lock; a `Record` from another goroutine would race with it, and what
such a torn `Encode` writes is not modelled.

`EnsurePod` restores from the PRR its caller hands it. `prr` is the caller's copy
of each, read at some earlier time (`ReadPRR`), by the same process or, as nothing
is known of the caller, by one before. The guard is the code's: the pod is not
registered. `stale` is history: the pods whose last registration used a copy that
was no longer what the PRR held, or came while a round that had listed the pod
before had still to write its checkpoint. Like the caller, the recommender and
the checkpoint reconciler read PRRs that may be older than the stored ones:
`AggregateExact` speaks of lists of either version (`Versions`).

### Recommender

Each stage of `Recommend` is an action; the reading of peaks and the loop over
policies are one step per element, so that order matters. Bounds are numerators
over a denominator that grows with the stages, which keeps the arithmetic exact
where the code uses floats; an age is given by the square root of the confidence
multiplier. Limits are whole milli-cores and whole bytes. Floats show in one
place: a CPU limit of n milli-cores is held as n / 1000.0 cores and multiplied
by 1000 again before `math.Ceil`, and for some n (2007, 2011, 4001, 16100) the
product is just above n and rounds up to n + 1, never further. `Inexact` is the
set of those n, an arbitrary set in the proofs, and `Excess` the unit they gain.
A computed bound that happens to lie within a float's error of a whole number
may also round to either side; multiplication and `math.Ceil` are monotone, so
the order of the bounds and a clamp that binds do not depend on it, and the peak
floor is a multiple of a hundredth of a byte, which a float resolves. The
percentiles of a policy are assumed to rise from lower bound to upper bound, as
the defaults do; nothing in the code enforces it. `uncappedTarget` and the
container list copy values that are modelled.

## 3. Runs

All runs finish within three minutes. Deadlock is not checked where the system may
stop: when all pod names are used up, at the end of the clock, at the end of
`Recommend`.

| run | shows | bounds |
|---|---|---|
| `replicas` | `TypeOK`, `SurgeWithinBudget`, `ReplicaEnvelope`, `PRRDeletedOnlyForGone` | one pod and a foreign surge pod, targets 0 and 1, maxSurge 50 %, both conditions, pod failures, faults, restarts, deletion of the Deployment; two workers and five caches are enough for every stale copy to exist |
| `converge` | `OnePRRPerPod`, `LockStepPositive`, `DeletionCompletes`, `HPAPrevails` | one pod, HPA and manual scaling between 0 and 1, deletion of the PPVPA |
| `surge` | `SurgeEvicts`, `LockStepPositive` | an infeasible pod, a surge pod and a disruption budget of one, PRRs that grow older than the burst time-out, so that increments are rolled back and made again |
| `admission` | `SurplusGetsHeadroom` | two pods, a target of one and a surge of one, conditions that come and go, pod failures |
| `workload_checkpoint` | `NoOlderHistory`, `CheckpointConverges`, `CheckpointCollected` | one PRR with up to two checkpoints, two incarnations of the PPVPA, errors at every request; one PRR suffices as PRRs do not interact, two incarnations as the code compares UIDs with one |
| `patch_queue` | `NothingLost`, `DrainsByPriority`, `ImplementsDelivery` | four patches of three nodes: equal priorities, scale-down and scale-up, CPU and memory, a node without a memory total; one of the two patches of the middle priority is always refused, so that some patches are blocked and some are not; ends of the process |
| `checkpoints` | `StreamExact`, `AggregateExact`, `PeakCovered`, `CheckpointGrows` | one pod, as pods share nothing but the clock and the aggregate, and for the aggregate the stored PRR and the caller's older copy are two payloads with references of their own; two CPU samples, three memory usages, one beyond the last bucket, three half-lives, an interval of two, an OOM kill, a PRR that starts empty, corrupt or with other options |
| `recommend` | `BoundsOrdered`, `PeakFloor`, `TargetNearPolicy` | two PRRs, up to two policies, a negative and a positive margin, limits on both sides of the values, one of them inexact in cores |
| `watermark` | `NeverBelowLine`, `ScaleDownTracksDrop` | window 3, five instants, in units of 3^-6 of a sample in which every decay is exact, three sample values, six utilizations, drops of 0, 20, 50 and 100 percent |

The other runs are expected to fail: each states what a comment says and the
code does not do. They are the `findings`:

| run | what the counterexample shows |
|---|---|
| `surge_leak` | `temporaryReplicas` is raised, the condition clears (or the pod goes) before the eviction, and no later call lowers it |
| `unseeded_scale` | the surge is raised before the first `reconcileReplicas`; the unset target counts as zero, and a workload of two is scaled to one |
| `refused_patch` | the most urgent patch is refused; each drain pops it first, pushes it back and returns, so that an acceptable patch behind it stays queued for ever |

Other disagreements between code and comments, met while modelling and visible
in the models, without runs of their own:

* `desired <= 0` (controller, line 253) always takes the seed branch, so a
  Deployment does not follow a `targetReplicas` of zero, although lines 237 and
  238 say it is kept in lock-step: hence `t + k > 0` in `LockStepPositive`;
* the surge budget is tested on a cached `temporaryReplicas` (budgeted.go, line
  48): a second Infeasible PRR that is reconciled before the cache has seen the
  decrement evicts without an increment of its own, although lines 33 and 34
  promise one for each eviction;
* the burst time-out (budgeted.go, line 63) runs from the creation of the PRR:
  for a PRR that is older, every increment is taken back before its pod can
  become Ready, and `SurgeEvicts` speaks of a surge pod that is there;
* the seed (controller, line 262) is a merge patch decided on a snapshot and
  overwrites a `targetReplicas` that HPA has written since (`SeedTarget`); HPA
  has to write it again (`HPAPrevails`);
* the webhook leaves pods with the surge annotation alone because the eviction
  layer "already mutated" them (pod_webhook.go, line 51), which no code does;
* after a surge was taken back and another raised, a cache that still shows the
  time between them lets a surplus pod in with the target (pod_webhook.go, line
  63): hence `~lowered` in `SurplusGetsHeadroom`;
* the webhook's marker (pod_webhook.go, line 37) registers it for the API group
  `k8s.io`, which has no pods, while pods are in the core group; `Admission`
  models it as asked for every pod;
* `DecodeWorkload` has no caller: the workload checkpoint is written "ensuring
  restart resilience" (checkpoint_controller.go, line 30) and never read;
* `activeReplicas` is written in the seed branch only and does not follow the
  target (`SeedActive`), although the types' comment (line 224) says it reflects
  the steady-state desired pod count; `SurgeCeiling` therefore has to cover every
  count it may have been seeded with;
* nothing sets the surge annotation that `findSurgePod` (budgeted.go, line 99)
  looks for, so `SurgeEvicts` needs a pod of `Marked`, and a pod of any other
  workload in the namespace (`Foreign`) will do;
* a pod that is forgotten and registered again from an old copy of its PRR, or
  while its checkpoint is still to be written (agent.go, lines 126 and 222),
  starts behind what the PRR holds, and the next round of `writeCheckpoints`
  replaces the checkpoint by one that knows less, although line 124 says that
  its histogram is restored: hence `Pod \ stale` in `CheckpointGrows`;
* `Epsilon` "clips negligible buckets when serializing" (histogram.go, line 39),
  but `Encode` writes every bucket and `Epsilon` is only validated;
* `memLimit` (agent.go, line 61) is never set, so the synthetic OOM sample of
  `sampleAll` is never recorded (`Sample`);
* `writeCheckpoints` encodes the CPU stream only, although its comment says the
  memory histogram piggybacks on the same field (agent.go, lines 214 and 224);
* `maxAllowed` bounds a CPU recommendation (types, lines 78 and 98) up to one
  milli-core only (recommend.go, lines 105 and 150): 2007m becomes a target of
  2008m, 16100m one of 16101m; hence `Excess` in `TargetNearPolicy`;
* `clampToPolicy` raises the target to `minAllowed` and leaves the upper bound
  below it, and cuts the memory target to `maxAllowed` below the peak floor that
  margin.go line 43 calls unconditional: hence `NoMin` and `NoMax` in
  `BoundsOrdered` and `PeakFloor`;
* a watermark does not drop to zero in its window (watermark.go, lines 12 and
  45): every sample re-bases it, and `NeverBelowLine` is the half of the claim
  that holds.

### Fairness

`Fairness` of `ControlPlane`: a worker that has begun goes on (its requests are
answered), the PPVPA reconciler is run again by its own `RequeueAfter`, watches
deliver, kubelets, the Deployment controller and the garbage collector make
progress. `PRRFairness` adds that every PRR is reconciled again and again, which
events of the agents' status writes and the informer resync justify: strong
fairness per PRR, as the workqueue does not starve a key. Nothing is assumed of
HPA, users, conditions, time-outs or faults. The liveness properties name their
own provisos: no manual scaling for ever (`NoManualScale` in `LockStepPositive`),
no endless writes that conflict (`NoConflicts` in `OnePRRPerPod` and
`DeletionCompletes`: `r.Update` may otherwise conflict each time). Both speak of
steps in which the PPVPA reconciler itself does nothing, so that its own writes
are not excluded with them.
`CheckpointController`: `Reconcile` runs again by its `RequeueAfter` and after an
error, no request fails for ever (strong fairness of each), watches deliver and
the garbage collector sweeps.
`PatchQueue`: the ticker fires, the loop goes on, and a request that is acceptable
does not fail for ever; nothing is assumed of the process's lasting.

## 4. Proofs

All proofs are checked by TLAPS (SMT, Zenon, LS4) and hold for every value of
the constants that satisfies the named assumptions.

**`ControlPlaneProofs`**, from `PodAssumption`, `ReplicaAssumption`,
`BudgetAssumption`, `EnvAssumption`:

* `TypeCorrect`: `TypeOK` is inductive.
* `SurgeStaysWithinBudget`, `DeploymentStaysInEnvelope`: neither invariant is
  inductive, as what a step writes comes from a copy. `ReplicaInv` adds
  `CopiesBounded`, the bounds of every copy of every counter, and `Unseeded`: a
  target once set is set in every later copy, and as long as some reader can
  still find it unset, no surge has been added to the Deployment. Without the
  second part the seed could copy an inflated replica count into the target, and
  the next surge would go beyond the envelope. `BudgetAssumption` says that
  `SurgeCeiling` bounds the budget for every `activeReplicas` the Deployment can
  reach, and that it is not above `MaxTarget`: a surge before the seed is scaled
  to as it stands.
* `PRRsOutliveTheirPods`: `OwnershipInv` says that the pod cache has shown every
  pod that has a PRR or is about to get one (a PRR is created for a pod the cache
  showed), that caches are never ahead of the server, and that what is on the
  list to delete belongs to pods that have ended or to a deleted Deployment.

**`PatchQueueProofs`**, from `PatchAssumption`: `PatchesAreNotLost` and
`DrainKeepsPriorityOrder` from `QueueInv`, which adds that the popped patch is
greatest among what was queued when the drain began. `QueueImplementsDelivery`
is the safety part of the refinement: each step of the queue is a step of
`PatchDelivery` or changes none of its variables; its fairness is left to TLC.

**`AdmissionProofs`**, from the assumptions of `ControlPlaneProofs` and
`NamedAssumption`: `SurplusPodsGetHeadroom`. `AdmissionInv` adds to `ReplicaInv`
that, as long as no surge was taken back, a Deployment above the largest target
means that the webhook's own cache shows the surge (`SurgeTravels`): the increment
passes through that cache before `reconcileReplicas` can scale by it.

**`CheckpointControllerProofs`**, from `CheckpointAssumption`:
`HistoryIsNotInherited`. `NoOlderHistory` says nothing of a call under way;
`HistoryInv` adds that what a call carries is of one incarnation, not older than
the owner of the checkpoint it is going to write, and that this owner is not
newer than what the PPVPA cache has shown. It needs the single worker: with two,
a slow call of the old incarnation could write into the new checkpoint.

**`HistogramProofs`**, from `OptionsAssumption`: lemmas on what the operators of
`Histogram` compute, for any bucket layout and any horizon. Folds, sums and powers
are recursive functions; that each exists, is unique and has the expected value
is shown by least counterexample, the finite subsets of a set being well-founded
under inclusion (`MinimalSubset`, `SubsetInduction`, `NumberInduction`,
`FoldExists`). `Weighs(h, w)` relates a histogram to a function `w` that says what
each bucket weighs at each time from its reference on: the buckets are what `w`
says, the total is their sum, every half-life halves `w` without a remainder, and
a histogram without a reference is empty. `AddSample`, `shiftReference`, `Merge`
and the codec each map `Weighs` to `Weighs` of the function one expects
(`AddWeighs`, `ShiftWeighs`, `MergeWeighs`, `CodecWeighs`); the last percentile is
above everything in a bucket that weighs something (`PercentileCovers`);
`AggregateValue` unrolls the fold of `Aggregate` payload by payload.

**`NodeAgentProofs`**, from `AgentAssumption` and `StoredAssumption` (before the
first agent writes there is no CPU history in the PRRs, and a memory histogram
that is there is well formed):

* `CheckpointsOnlyGrow`, an action property. `GrowthInv` says that a registered
  pod outside `stale` is ahead of its checkpoint and that what a round of
  `writeCheckpoints` has still to write for such a pod is ahead of what it
  replaces, one payload a pod. A pod enters `stale` only when it is registered, which
  is where the two ways to fall behind are, and leaves it with its next
  registration or with the process.
* `StreamsExact`. `StreamInv` says of every CPU stream, of every payload waiting
  to be written, of every payload in a PRR and of the caller's copies that it
  weighs what its samples weigh, all of them taken before its reference, which
  is not in the future; behind a payload that would not be restored there are no
  samples. `StreamExact` alone says nothing of payloads, from which a restarted
  agent reads its streams back.
* `AggregatesExact` follows from `StreamInv`, by induction on the payloads: after
  the first n the CPU histogram weighs what the samples behind the first n weigh,
  and since an order of what is listed is a bijection, all are summed in the end.
* `PeaksCovered`. `PeakInv` says that the greatest value is the peak of the
  running interval or has a sample in its bucket of the histogram, one that
  weighs something until the end, and that no limit is set. `PeakCovered` alone
  does not say what a percentile will be after more samples.

**`TriggersProofs`**, from `WatermarkAssumption` and `TriggerAssumption`:
`MarkHoldsLines` and `TriggerTracksDrops` from `MarkInv`: when the mark was last
stored it was at or above the exact line of every sample, and not above some
sample. Only the first decay of a sample has to be exact (`Scale % Window = 0`);
later ones may be rounded down, which does not take a number below a whole number
that it was not below.

**`RecommenderProofs`**, from `InputAssumption`: `RecommendationIsOrdered` and
`RecommendationCoversPeaks` from `RecInv`: the types, that `peak` covers every
PRR already read, and what is known of the bounds at each stage; with lemmas on
products, on the clamp and on rounding up. `RecommendationNearPolicy` adds
`LastApplied`: once the loop is past the last policy of the resource, its limits
hold, and rounding keeps limits that are whole units, up to `Excess`; of `Inexact`
nothing is assumed.

Only model-checked: the liveness properties (`OnePRRPerPod`, `LockStepPositive`,
`DeletionCompletes`, `HPAPrevails`, `SurgeEvicts`, `CheckpointConverges`,
`CheckpointCollected`) and the fairness of `ImplementsDelivery`: fairness and
`ENABLED` are outside the prover. `StreamInv` and `GrowthInv` can also be
evaluated by TLC, with an instance that extends `NodeAgentProofs`; `PeakInv`
quantifies over all functions and cannot.

## 5. Not modelled, and the plan

Not modelled:

* PSI, cgroup and compatibility readers: parsing of files, pure I/O; `sampleAll`
  discards what PSI says;
* entry points, flags, metrics, leader election, generated code;
* `EvaluateScaleUp` and `EvaluateMemoryScaleDown`: one comparison each, without
  state and without a caller;
* the `PodLevelUnsupported` condition, `scalingThresholds` and
  `contentionHighWatermarks`, which no code reads;
* `MemoryPeakExtractor.Flush` and `Histogram.Decay`, which no code of the program
  calls;
* updates of pods, for which the webhook's registration also asks;
* a second manager that overlaps with the first: leader election is optional, and
  the models have one.

Next, in this order:

1. an abstract specification of a budgeted replacement (increment, surge pod of
   the same workload, eviction, decrement) and which part of `ControlPlane`
   implements it;
2. patches of the same container in `PatchQueue`, where an older one may land
   last;
3. proofs of the safety part of deletion (a deleted PPVPA and its PRRs do not come
   back), and of the step lemmas of the convergence arguments;
4. that the order of the PRRs does not change a recommendation, from
   `AggregatesExact` and a lemma that `Percentile` depends on the weights only.

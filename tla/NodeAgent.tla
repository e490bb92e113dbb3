----------------------------- MODULE NodeAgent -----------------------------
(***************************************************************************)
(* The telemetry of the node agent: the registry of pods, the CPU stream   *)
(* and the memory peak extractor of each, sampling, and the checkpoints in *)
(* the status of the pods' PRRs, which a restarted agent reads back.       *)
(*                                                                         *)
(* Sampling and checkpointing share the goroutine of Run; EnsurePod and    *)
(* ForgetPod are called from others, between any two of its requests.  The *)
(* caller hands EnsurePod a PRR that it read some time before.             *)
(***************************************************************************)
EXTENDS Histogram

CONSTANTS
    Pod,          \* pods of the node, with one PRR each
    Nil,
    CPUUsage,     \* samples of CPUStream.Record
    MemoryUsage,  \* values of memory.current
    Interval,     \* of the memory peak extractor
    Stored,       \* what the PRRs may hold when the agent first starts
    MaxSamples,   \* bound: CPU samples of a pod
    MaxKills      \* bound: OOM kills of a pod

ASSUME AgentAssumption ==
    /\ IsFiniteSet(Pod)
    /\ CPUUsage \subseteq Nat /\ MemoryUsage \subseteq Nat
    /\ Interval \in Nat \ {0}
    /\ MaxSamples \in Nat /\ MaxKills \in Nat

\* No CPU history is in the PRRs before the first agent writes it; a memory
\* histogram that is there is well formed.
ASSUME StoredAssumption ==
    \A s \in Stored : Decodes(s) =>
        /\ Decode(s).options # "cpu"
        /\ Decode(s).options = "memory" =>
              Decode(s) \in [options : {"memory"}, buckets : [Bucket -> Nat],
                            total : Nat, ref : 0..(Epoch + Horizon)]

VARIABLES
    now,         \* the clock
    state,       \* Agent.pods: the podState of a registered pod, or Nil
    payload,     \* status.histogramCheckpoint of each PRR
    todo,        \* what writeCheckpoints has still to write
    kills,       \* oom_kill of memory.events
    prr,         \* the caller's copy of each PRR: its payload, and what is behind it
    kept,        \* history: the CPU samples behind each payload
    stale        \* history: pods whose last registration was out of date

agentVars == <<state, todo, prr, stale>>
vars == <<now, payload, kills, kept, agentVars>>

MaxTime == Epoch + Horizon
Registered == {p \in Pod : state[p] # Nil}

Init ==
    /\ now = Epoch
    /\ state = [p \in Pod |-> Nil]
    /\ payload \in [Pod -> Stored]
    /\ todo = {}
    /\ kills = [p \in Pod |-> 0]
    /\ kept = [p \in Pod |-> <<>>]
    /\ prr = [p \in Pod |-> [payload |-> payload[p], log |-> <<>>]]
    /\ stale = {}

-----------------------------------------------------------------------------
\* A new podState: memLimit is never set.  The field log is history: the CPU
\* samples the stream stands for.
NewState(cpu, log) ==
    [cpu |-> cpu, log |-> log, memLimit |-> 0, prevOOMKill |-> 0,
     mem |-> [h |-> New("memory"), curStart |-> ZeroTime, curPeak |-> 0, absPeak |-> 0]]

\* The PRR as it is now.
Current(p) == [payload |-> payload[p], log |-> kept[p]]

\* A registration is out of date when the caller's copy is, or when a round that
\* began before has still to write the pod's checkpoint.
UpToDate(p) == prr[p] = Current(p) /\ \A w \in todo : w.pod # p

\* Mutant: the checkpoint is not read back.
EnsurePodBlank(p) ==
    /\ p \notin Registered
    /\ state' = [state EXCEPT ![p] = NewState(New("cpu"), <<>>)]
    /\ stale' = IF UpToDate(p) THEN stale \ {p} ELSE stale \cup {p}
    /\ UNCHANGED <<now, payload, kills, kept, todo, prr>>

\* EnsurePod restores the CPU stream from the PRR it is given, when the checkpoint
\* decodes and has the stream's options.
EnsurePod(p) ==
    /\ p \notin Registered
    /\ LET x == prr[p].payload
       IN state' = [state EXCEPT ![p] =
                       NewState(IF Decodes(x) THEN Merge(New("cpu"), Decode(x)) ELSE New("cpu"),
                                prr[p].log)]
    /\ stale' = IF UpToDate(p) THEN stale \ {p} ELSE stale \cup {p}
    /\ UNCHANGED <<now, payload, kills, kept, todo, prr>>

ForgetPod(p) ==
    /\ p \in Registered
    /\ state' = [state EXCEPT ![p] = Nil]
    /\ UNCHANGED <<now, payload, kills, kept, todo, prr, stale>>

\* CPUStream.Record.
RecordCPU(p, cores) ==
    /\ todo = {} /\ p \in Registered /\ Len(state[p].log) < MaxSamples
    /\ state' = [state EXCEPT ![p].cpu = AddSample(@, cores, Unit, now),
                              ![p].log = Append(@, [value |-> cores, time |-> now])]
    /\ UNCHANGED <<now, payload, kills, kept, todo, prr, stale>>

\* Mutant: the interval ends without a sample.
FlushDropping(m, t) == [m EXCEPT !.curPeak = 0, !.curStart = t]

FlushLocked(m, t) ==
    [m EXCEPT !.h = IF m.curPeak > 0 THEN AddSample(@, m.curPeak, Unit, t) ELSE @,
              !.curPeak = 0, !.curStart = t]

\* MemoryPeakExtractor.Record.
Record(m, bytes, t) ==
    LET n == [m EXCEPT !.curStart = IF @ = ZeroTime THEN t ELSE @,
                       !.curPeak = Max({@, bytes}),
                       !.absPeak = Max({@, bytes})]
    IN IF t - n.curStart >= Interval THEN FlushLocked(n, t) ELSE n

SyntheticSample(limit) == (limit * 12) \div 10

\* oom.Parse: the oom_kill counter of memory.events, when the file can be read.
Parse(p, readable) == IF readable THEN kills[p] ELSE 0

\* One pod's turn in sampleAll; used is Nil when memory.current cannot be read.
Sample(s, used, kill, t) ==
    LET m == IF used = Nil THEN s.mem ELSE Record(s.mem, used, t)
        oom == kill > s.prevOOMKill /\ s.memLimit > 0
    IN [s EXCEPT !.mem = IF oom THEN Record(m, SyntheticSample(s.memLimit), t) ELSE m,
                 !.prevOOMKill = IF oom THEN kill ELSE @]

SampleAll ==
    /\ todo = {}
    /\ \E used \in [Registered -> MemoryUsage \cup {Nil}], readable \in SUBSET Registered :
          state' = [p \in Pod |->
                      IF p \notin Registered THEN Nil
                      ELSE Sample(state[p], used[p], Parse(p, p \in readable), now)]
    /\ UNCHANGED <<now, payload, kills, kept, todo, prr, stale>>

\* writeCheckpoints lists the registered pods under the lock and writes them
\* without it; the CPU streams listed do not change meanwhile.
WriteCheckpoints ==
    /\ todo = {} /\ Registered # {}
    /\ todo' = {[pod |-> p, cpu |-> state[p].cpu, log |-> state[p].log] : p \in Registered}
    /\ UNCHANGED <<now, payload, kills, kept, state, prr, stale>>

\* CheckpointWriter.Write, one status patch; an error is skipped.
Write(w) ==
    /\ w \in todo
    /\ todo' = todo \ {w}
    /\ \/ payload' = [payload EXCEPT ![w.pod] = Encode(w.cpu)]
          /\ kept' = [kept EXCEPT ![w.pod] = w.log]
       \/ UNCHANGED <<payload, kept>>
    /\ UNCHANGED <<now, kills, state, prr, stale>>

-----------------------------------------------------------------------------
\* The world: time, the kernel, and the end of the process.
Tick == now < MaxTime /\ now' = now + 1 /\ UNCHANGED <<payload, kills, kept, agentVars>>
OOMKill(p) == /\ kills[p] < MaxKills /\ kills' = [kills EXCEPT ![p] = @ + 1]
              /\ UNCHANGED <<now, payload, kept, agentVars>>
Restart == /\ state' = [p \in Pod |-> Nil] /\ todo' = {} /\ stale' = {}
           /\ UNCHANGED <<now, payload, kills, kept, prr>>
ReadPRR(p) == /\ prr[p] # Current(p) /\ prr' = [prr EXCEPT ![p] = Current(p)]
              /\ UNCHANGED <<now, payload, kills, kept, state, todo, stale>>

Next ==
    \/ \E p \in Pod : EnsurePod(p) \/ ForgetPod(p) \/ OOMKill(p) \/ ReadPRR(p)
    \/ \E p \in Pod, cores \in CPUUsage : RecordCPU(p, cores)
    \/ SampleAll \/ WriteCheckpoints \/ Tick \/ Restart
    \/ \E w \in todo : Write(w)

Spec == Init /\ [][Next]_vars

-----------------------------------------------------------------------------
\* The weight that samples should have at time t, by bucket: each is worth one
\* half less for every half-life of its age.
Weight(log, k, t) ==
    SumFunction([i \in DOMAIN log |-> IF BucketIndex(log[i].value) = k
                                      THEN Decayed(Unit, t - log[i].time) ELSE 0])

\* AddSample, Merge and the codec: a CPU stream weighs every sample it stands
\* for by its age, however often it was aged, stored and read back, and its
\* total is the weight of its buckets.
StreamExact ==
    \A p \in Registered :
        LET h == state[p].cpu
        IN /\ \A k \in Bucket : h.buckets[k] = Weight(state[p].log, k, h.ref)
           /\ h.total = SumFunction(h.buckets)

\* The versions of the PRRs that a reader may have, the stored one or an older.
\* To Aggregate two versions of one PRR are as good as two PRRs.
Versions == Pod \X {"stored", "read"}
Version(v) == IF v[2] = "stored" THEN Current(v[1]) ELSE prr[v[1]]

\* Aggregate, EncodeWorkload and DecodeWorkload: the workload's CPU histogram
\* weighs the samples behind all payloads by their age, whichever PRRs are listed,
\* in whatever order and of whatever version, also when it is read back from the
\* workload checkpoint; payloads that are missing, corrupt or of other options
\* leave it alone.
AggregateExact ==
    \A listed \in SUBSET Versions : \A order \in SetToSeqs(listed) :
        LET wh == Aggregate([i \in DOMAIN order |-> Version(order[i]).payload])
            h == DecodeWorkload(EncodeWorkload(wh, now)).cpu
        IN \A k \in Bucket :
               h.buckets[k] = SumFunction([v \in listed |-> Weight(Version(v).log, k, h.ref)])

\* writeCheckpoints and EnsurePod, through crashes, failed writes and pods that
\* are forgotten and registered again while a round is going on: a checkpoint is
\* replaced by one that knows less only when the pod's last registration was out
\* of date, from an old copy of the PRR or ahead of a write that was to come.
CheckpointGrows == [][\A p \in Pod \ stale : IsPrefix(kept[p], kept'[p])]_vars

\* MemoryPeakExtractor: the greatest value ever recorded is the peak of the
\* interval that is going on, or the histogram's last percentile covers it.
PeakCovered ==
    \A p \in Registered :
        LET m == state[p].mem
        IN Min({m.absPeak, MaxValue}) <= Max({m.curPeak, Percentile(m.h, 100)})
=============================================================================

-------------------------- MODULE NodeAgentProofs --------------------------
(***************************************************************************)
(* Proofs about the node agent, for any number of pods, samples, crashes   *)
(* and rounds of writing and any bucket layout: its checkpoints only gain  *)
(* history unless a registration was out of date, the memory peak is not   *)
(* lost, the CPU streams and the aggregate of the checkpoints weigh every  *)
(* sample by its age.                                                      *)
(***************************************************************************)
EXTENDS NodeAgent, HistogramProofs

-----------------------------------------------------------------------------
(* The checkpoints; what the histograms contain plays no part in it *)

Entry == [value : CPUUsage, time : Int]
Log == Seq(Entry)

\* A log is a prefix of itself and of what is appended to a log it is a prefix of.
LEMMA PrefixFacts ==
    ASSUME NEW s \in Log
    PROVE  /\ IsPrefix(s, s)
           /\ \A t \in Log : \A e \in Entry : IsPrefix(s, t) => IsPrefix(s, Append(t, e))
<1>1. IsPrefix(s, s)
  BY DEF IsPrefix, Log
<1>2. ASSUME NEW t \in Log, NEW e \in Entry, IsPrefix(s, t) PROVE IsPrefix(s, Append(t, e))
  BY <1>2 DEF IsPrefix, Log
<1> QED
  BY <1>1, <1>2

-----------------------------------------------------------------------------
(* The inductive invariant *)

\* The histories have their types, and the clock.
KeptType ==
    /\ now \in Int /\ kept \in [Pod -> Log] /\ DOMAIN state = Pod /\ DOMAIN prr = Pod
    /\ \A p \in Pod : "log" \in DOMAIN prr[p] /\ prr[p].log \in Log
    /\ \A p \in Registered : "log" \in DOMAIN state[p] /\ state[p].log \in Log
    /\ \A w \in todo : w.pod \in Pod /\ w.log \in Log

\* A registered pod has the history of its checkpoint and perhaps more, unless
\* its registration was out of date.
AgentAhead == \A p \in Registered \ stale : IsPrefix(kept[p], state[p].log)

\* What writeCheckpoints has still to write is one payload a pod.  It is ahead of
\* the checkpoint it replaces and as far as the pod's own stream, unless the pod
\* was registered out of date: in the meantime, for one, from the old checkpoint.
Pending ==
    /\ \A w \in todo : w.pod \notin stale =>
          /\ IsPrefix(kept[w.pod], w.log)
          /\ w.pod \in Registered => state[w.pod].log = w.log
    /\ \A v, w \in todo : v.pod = w.pod => v = w

GrowthInv == KeptType /\ AgentAhead /\ Pending

\* GrowthInv holds in the beginning.
LEMMA GrowthInvInit == Init => GrowthInv
<1> SUFFICES ASSUME Init PROVE GrowthInv
  OBVIOUS
<1>1. <<>> \in Log
  BY DEF Log
<1>2. Registered = {} /\ todo = {} /\ prr = [p \in Pod |-> [payload |-> payload[p], log |-> <<>>]]
  BY DEF Init, Registered
<1>3. now \in Int /\ kept \in [Pod -> Log] /\ DOMAIN state = Pod
  BY <1>1 DEF Init, Epoch
<1>4. KeptType
  BY <1>1, <1>2, <1>3 DEF KeptType
<1> QED
  BY <1>2, <1>4 DEF GrowthInv, AgentAhead, Pending

\* One pod's turn in sampleAll leaves its CPU history alone.
LEMMA SampleKeepsLog ==
    ASSUME NEW s, "log" \in DOMAIN s, NEW used, NEW kill, NEW t
    PROVE  "log" \in DOMAIN Sample(s, used, kill, t) /\ Sample(s, used, kill, t).log = s.log
  BY DEF Sample

\* EnsurePod keeps GrowthInv: when it is up to date, it starts from the history of
\* the checkpoint and no older payload of the pod is waiting to be written.
LEMMA EnsurePodStep == ASSUME NEW p \in Pod, GrowthInv, EnsurePod(p) PROVE GrowthInv'
<1> DEFINE x == prr[p].payload
           cpu == IF Decodes(x) THEN Merge(New("cpu"), Decode(x)) ELSE New("cpu")
<1>1. /\ state' = [state EXCEPT ![p] = NewState(cpu, prr[p].log)] /\ p \notin Registered
      /\ UNCHANGED <<now, kept, todo, prr>>
      /\ stale' = IF UpToDate(p) THEN stale \ {p} ELSE stale \cup {p}
  BY DEF EnsurePod
<1> HIDE DEF cpu
<1>2. kept[p] \in Log /\ prr[p].log \in Log /\ IsPrefix(kept[p], kept[p]) /\ DOMAIN state = Pod
  BY PrefixFacts DEF GrowthInv, KeptType
<1>3. /\ "log" \in DOMAIN NewState(cpu, prr[p].log)
      /\ NewState(cpu, prr[p].log).log = prr[p].log
  BY DEF NewState
<1>4. /\ state'[p] = NewState(cpu, prr[p].log) /\ DOMAIN state' = Pod
      /\ \A q \in Pod \ {p} : state'[q] = state[q]
  BY <1>1, <1>2
<1>5. KeptType'
  BY <1>1, <1>2, <1>3, <1>4 DEF GrowthInv, KeptType, Registered
<1>6. ASSUME UpToDate(p) PROVE prr[p].log = kept[p] /\ \A w \in todo : w.pod # p
  BY <1>6 DEF UpToDate, Current
<1>7. AgentAhead'
  <2> SUFFICES ASSUME NEW q \in Registered', q \notin stale' PROVE IsPrefix(kept[q], state'[q].log)
    BY <1>1 DEF AgentAhead
  <2>1. CASE q = p
    BY <1>1, <1>2, <1>3, <1>4, <1>6, <2>1
  <2>2. CASE q # p
    <3>1. q \in Registered \ stale /\ state'[q] = state[q]
      BY <1>1, <1>4, <2>2 DEF Registered
    <3> QED
      BY <3>1 DEF GrowthInv, AgentAhead
  <2> QED
    BY <2>1, <2>2
<1>8. Pending'
  <2>1. ASSUME NEW w \in todo, w.pod \notin stale'
        PROVE  /\ IsPrefix(kept[w.pod], w.log)
               /\ w.pod \in Registered' => state'[w.pod].log = w.log
    <3>1. w.pod # p /\ w.pod \notin stale
      BY <1>1, <1>6, <2>1
    <3>2. w.pod \in Pod
      BY Zenon DEF GrowthInv, KeptType
    <3>3. state'[w.pod] = state[w.pod] /\ (w.pod \in Registered' => w.pod \in Registered)
      BY <1>4, <3>1, <3>2 DEF Registered
    <3> QED
      BY <3>1, <3>3 DEF GrowthInv, Pending
  <2> QED
    BY <1>1, <2>1 DEF GrowthInv, Pending
<1> QED
  BY <1>5, <1>7, <1>8 DEF GrowthInv

\* ForgetPod keeps GrowthInv: a payload that is waiting stays good.
LEMMA ForgetPodStep == ASSUME NEW p \in Pod, GrowthInv, ForgetPod(p) PROVE GrowthInv'
<1>1. /\ state' = [state EXCEPT ![p] = Nil] /\ UNCHANGED <<now, kept, todo, prr, stale>>
      /\ DOMAIN state = Pod
  BY DEF ForgetPod, GrowthInv, KeptType
<1>2. /\ state'[p] = Nil /\ DOMAIN state' = Pod
      /\ \A q \in Pod \ {p} : state'[q] = state[q]
  BY <1>1
<1>3. KeptType' /\ AgentAhead'
  BY <1>1, <1>2 DEF GrowthInv, KeptType, AgentAhead, Registered
<1>4. Pending'
  BY <1>1, <1>2 DEF GrowthInv, Pending, Registered
<1> QED
  BY <1>3, <1>4 DEF GrowthInv

\* CPUStream.Record keeps GrowthInv.
LEMMA RecordCPUStep ==
    ASSUME NEW p \in Pod, NEW cores \in CPUUsage, GrowthInv, RecordCPU(p, cores)
    PROVE  GrowthInv'
<1> DEFINE e == [value |-> cores, time |-> now]
<1>1. /\ todo = {} /\ p \in Registered /\ UNCHANGED <<now, kept, todo, prr, stale>>
      /\ DOMAIN state = Pod /\ now \in Int /\ "log" \in DOMAIN state[p]
      /\ state[p].log \in Log /\ kept[p] \in Log
  BY DEF RecordCPU, GrowthInv, KeptType
<1>2. /\ DOMAIN state' = Pod /\ \A q \in Pod \ {p} : state'[q] = state[q]
      /\ "log" \in DOMAIN state'[p] /\ state'[p].log = Append(state[p].log, e)
  BY <1>1 DEF RecordCPU
<1>3. e \in Entry
  BY <1>1 DEF Entry
<1>4. /\ Append(state[p].log, e) \in Log
      /\ IsPrefix(kept[p], state[p].log) => IsPrefix(kept[p], Append(state[p].log, e))
  <2>1. Append(state[p].log, e) \in Log
    BY <1>1, <1>3 DEF Log
  <2> QED
    BY <1>1, <1>3, <2>1, PrefixFacts
<1>5. KeptType'
  BY <1>1, <1>2, <1>4 DEF GrowthInv, KeptType, Registered
<1>6. AgentAhead'
  BY <1>1, <1>2, <1>4 DEF GrowthInv, AgentAhead, Registered
<1>7. Pending'
  BY <1>1 DEF Pending
<1> QED
  BY <1>5, <1>6, <1>7 DEF GrowthInv

\* sampleAll keeps GrowthInv.
LEMMA SampleAllStep == GrowthInv /\ SampleAll => GrowthInv'
<1> SUFFICES ASSUME GrowthInv, SampleAll PROVE GrowthInv'
  OBVIOUS
<1>1. PICK used \in [Registered -> MemoryUsage \cup {Nil}], readable \in SUBSET Registered :
          state' = [p \in Pod |->
                      IF p \notin Registered THEN Nil
                      ELSE Sample(state[p], used[p], Parse(p, p \in readable), now)]
  BY DEF SampleAll
<1>2. todo = {} /\ UNCHANGED <<now, kept, todo, prr, stale>>
  BY DEF SampleAll
<1>3. ASSUME NEW p \in Registered'
      PROVE  /\ p \in Registered
             /\ "log" \in DOMAIN state'[p] /\ state'[p].log = state[p].log
  <2>1. p \in Pod /\ p \in Registered
    BY <1>1, <1>3 DEF Registered
  <2>2. "log" \in DOMAIN state[p]
    BY <2>1 DEF GrowthInv, KeptType
  <2> QED
    BY <1>1, <2>1, <2>2, SampleKeepsLog
<1>4. DOMAIN state' = Pod
  BY <1>1
<1>5. KeptType'
  BY <1>2, <1>3, <1>4 DEF GrowthInv, KeptType
<1>6. AgentAhead' /\ Pending'
  BY <1>2, <1>3 DEF GrowthInv, AgentAhead, Pending
<1> QED
  BY <1>5, <1>6 DEF GrowthInv

\* writeCheckpoints keeps GrowthInv: it lists one payload a pod.
LEMMA WriteCheckpointsStep == GrowthInv /\ WriteCheckpoints => GrowthInv'
<1> SUFFICES ASSUME GrowthInv, WriteCheckpoints PROVE GrowthInv'
  OBVIOUS
<1>1. /\ todo' = {[pod |-> p, cpu |-> state[p].cpu, log |-> state[p].log] : p \in Registered}
      /\ UNCHANGED <<now, kept, state, prr, stale>>
  BY DEF WriteCheckpoints
<1>2. AgentAhead' /\ Registered' = Registered
  BY <1>1 DEF GrowthInv, AgentAhead, Registered
<1>3. \A w \in todo' : /\ w.pod \in Registered
                       /\ w = [pod |-> w.pod, cpu |-> state[w.pod].cpu, log |-> state[w.pod].log]
  BY <1>1
<1>4. \A w \in todo' : w.log = state[w.pod].log
  BY <1>1
<1>5. KeptType'
  BY <1>1, <1>2, <1>3, <1>4 DEF GrowthInv, KeptType, Registered
<1>6. Pending'
  BY <1>1, <1>2, <1>3, <1>4 DEF GrowthInv, Pending, AgentAhead, Registered
<1> QED
  BY <1>2, <1>5, <1>6 DEF GrowthInv

\* CheckpointWriter.Write keeps GrowthInv, and the checkpoint it writes knows at
\* least what the old one did, unless the registration was out of date.
LEMMA WriteStep ==
    ASSUME NEW w \in todo, GrowthInv, Write(w)
    PROVE  GrowthInv' /\ \A p \in Pod \ stale : IsPrefix(kept[p], kept'[p])
<1>1. /\ todo' = todo \ {w} /\ UNCHANGED <<now, state, prr, stale>>
      /\ kept' = [kept EXCEPT ![w.pod] = w.log] \/ kept' = kept
  BY DEF Write
<1>2. /\ w.pod \in Pod /\ w.log \in Log /\ kept \in [Pod -> Log]
      /\ w.pod \notin stale => IsPrefix(kept[w.pod], w.log)
      /\ w.pod \notin stale /\ w.pod \in Registered => state[w.pod].log = w.log
  BY DEF GrowthInv, Pending, KeptType
<1>v. ASSUME NEW v \in todo, v # w PROVE v.pod \in Pod /\ v.pod # w.pod
  BY <1>v, Zenon DEF GrowthInv, Pending, KeptType
<1>3. kept' \in [Pod -> Log] /\ \A p \in Pod \ {w.pod} : kept'[p] = kept[p]
  BY <1>1, <1>2
<1>4. \A p \in Pod : IsPrefix(kept[p], kept[p]) /\ IsPrefix(w.log, w.log)
  BY <1>2, PrefixFacts
<1>5. kept'[w.pod] \in {w.log, kept[w.pod]}
  BY <1>1, <1>2
<1>6. KeptType' /\ Registered' = Registered
  BY <1>1, <1>3 DEF GrowthInv, KeptType, Registered
<1>7. AgentAhead'
  <2> SUFFICES ASSUME NEW p \in Registered \ stale PROVE IsPrefix(kept'[p], state[p].log)
    BY <1>1, <1>6 DEF AgentAhead
  <2>1. IsPrefix(kept[p], state[p].log) /\ p \in Pod
    BY DEF GrowthInv, AgentAhead, Registered
  <2> QED
    BY <1>2, <1>3, <1>4, <1>5, <2>1
<1>8. Pending'
  <2>1. ASSUME NEW v \in todo' PROVE v \in todo /\ kept'[v.pod] = kept[v.pod]
    <3>1. v \in todo /\ v # w
      BY <1>1
    <3>2. v.pod \in Pod \ {w.pod}
      BY <1>v, <3>1, Zenon
    <3> QED
      BY <1>3, <3>1, <3>2
  <2> QED
    BY <1>1, <1>6, <2>1 DEF GrowthInv, Pending
<1>9. \A p \in Pod \ stale : IsPrefix(kept[p], kept'[p])
  BY <1>2, <1>3, <1>4, <1>5
<1> QED
  BY <1>6, <1>7, <1>8, <1>9 DEF GrowthInv

\* Every step keeps GrowthInv, and no step takes history from a checkpoint whose
\* pod was not registered out of date.
LEMMA GrowthInvStep ==
    GrowthInv /\ [Next]_vars =>
        GrowthInv' /\ [\A p \in Pod \ stale : IsPrefix(kept[p], kept'[p])]_vars
<1> SUFFICES ASSUME GrowthInv, [Next]_vars
             PROVE  GrowthInv' /\ [\A p \in Pod \ stale : IsPrefix(kept[p], kept'[p])]_vars
  OBVIOUS
<1>0. \A p \in Pod : IsPrefix(kept[p], kept[p])
  BY PrefixFacts DEF GrowthInv, KeptType
<1>1. CASE \E p \in Pod : EnsurePod(p) \/ ForgetPod(p)
  BY <1>0, <1>1, EnsurePodStep, ForgetPodStep DEF EnsurePod, ForgetPod
<1>2. CASE \E p \in Pod, cores \in CPUUsage : RecordCPU(p, cores)
  BY <1>0, <1>2, RecordCPUStep DEF RecordCPU
<1>3. CASE SampleAll \/ WriteCheckpoints
  BY <1>0, <1>3, SampleAllStep, WriteCheckpointsStep DEF SampleAll, WriteCheckpoints
<1>4. CASE \E w \in todo : Write(w)
  BY <1>4, WriteStep
<1>5. CASE Tick \/ (\E p \in Pod : OOMKill(p)) \/ UNCHANGED vars
  <2>1. UNCHANGED <<state, todo, prr, stale, kept>> /\ now' \in Int
    BY <1>5 DEF Tick, OOMKill, vars, agentVars, GrowthInv, KeptType
  <2> QED
    BY <1>0, <2>1 DEF GrowthInv, KeptType, AgentAhead, Pending, Registered
<1>6. CASE Restart
  <2>1. state' = [p \in Pod |-> Nil] /\ todo' = {} /\ UNCHANGED <<now, kept, prr>>
    BY <1>6 DEF Restart
  <2>2. Registered' = {}
    BY <2>1 DEF Registered
  <2> QED
    BY <1>0, <2>1, <2>2 DEF GrowthInv, KeptType, AgentAhead, Pending
<1>7. ASSUME NEW p \in Pod, ReadPRR(p) PROVE GrowthInv' /\ UNCHANGED kept
  <2>1. prr' = [prr EXCEPT ![p] = Current(p)] /\ UNCHANGED <<now, kept, state, todo, stale>>
    BY <1>7 DEF ReadPRR
  <2>2. "log" \in DOMAIN Current(p) /\ Current(p).log \in Log
    BY DEF Current, GrowthInv, KeptType
  <2>3. DOMAIN prr' = Pod /\ \A q \in Pod : "log" \in DOMAIN prr'[q] /\ prr'[q].log \in Log
    BY <2>1, <2>2 DEF GrowthInv, KeptType
  <2> QED
    BY <2>1, <2>3 DEF GrowthInv, KeptType, AgentAhead, Pending, Registered
<1> QED
  BY <1>0, <1>1, <1>2, <1>3, <1>4, <1>5, <1>6, <1>7 DEF Next

\* writeCheckpoints and EnsurePod: through crashes, failed writes and pods that
\* come and go, a checkpoint is never replaced by one that knows less, unless the
\* pod was registered from an old copy of its PRR or ahead of a pending write.
THEOREM CheckpointsOnlyGrow == Spec => CheckpointGrows
<1> QED
  BY GrowthInvInit, GrowthInvStep, PTL DEF Spec, CheckpointGrows

-----------------------------------------------------------------------------
(* The memory peak *)

Extractor == [h : Shape("memory"), curStart : Int, curPeak : Nat, absPeak : Nat]

\* A histogram that has samples in the bucket of v, as far as anybody can tell
\* until the end of the run.
HasSample(h, v) == \E w : Weighs(h, w) /\ w[BucketIndex(v)][End] # 0

\* The greatest value is the peak of the interval, or in the histogram.
PeakKept(m, t) ==
    /\ m \in Extractor /\ m.h.ref <= t /\ m.curPeak <= m.absPeak
    /\ \E w : Weighs(m.h, w)
    /\ m.curPeak = m.absPeak \/ HasSample(m.h, m.absPeak)

\* The limit is never set, so that no synthetic sample is recorded.
PeakInv ==
    /\ now \in Epoch..End /\ DOMAIN state = Pod
    /\ \A p \in Registered : /\ "mem" \in DOMAIN state[p] /\ "memLimit" \in DOMAIN state[p]
                             /\ state[p].memLimit = 0 /\ PeakKept(state[p].mem, now)

\* A sample stays in the histogram to which it is added, and so do the others.
LEMMA AddContains ==
    ASSUME NEW h \in Shape("memory"), NEW w, Weighs(h, w), NEW v \in Nat \ {0},
           NEW t \in Epoch..End, h.ref <= t
    PROVE  LET s == AddSample(h, v, Unit, t)
           IN /\ s \in Shape("memory") /\ s.ref = t /\ HasSample(s, v)
              /\ \E x : /\ Weighs(s, x)
                        /\ \A i \in Bucket : w[i][End] # 0 => x[i][End] # 0
<1> DEFINE s == AddSample(h, v, Unit, t)
           x == [k \in Bucket |-> [u \in 0..End |->
                   w[k][u] + (IF BucketIndex(v) = k THEN Decayed(Unit, u - t) ELSE 0)]]
<1>1. h.options = "memory" /\ h.ref \in 0..End /\ t \in 0..End /\ End \in t..End /\ End \in 0..End
  BY TimeFacts DEF Shape
<1>2. \A k \in Bucket : \A u \in t..End :
         x[k][u] = w[k][u] + (IF BucketIndex(v) = k THEN Decayed(Unit, u - t) ELSE 0)
  BY <1>1, TimeFacts
<1>3. \A k \in Bucket : w[k][End] \in Nat
  <2>1. h.ref \in h.ref..End /\ End \in h.ref..End /\ h.ref <= End
    BY <1>1, TimeFacts
  <2> QED
    BY <2>1 DEF Weighs, Ages
<1>4. Decayed(Unit, End - t) \in Nat \ {0}
  <2>1. End - t \in 0..Horizon /\ End - t \in (End - t)..Horizon
    BY TimeFacts
  <2> QED
    BY <2>1, UnitAges
<1>5. \A k \in Bucket : x[k][End] = w[k][End] + (IF BucketIndex(v) = k THEN Decayed(Unit, End - t) ELSE 0)
  BY <1>1, <1>2
<1> HIDE DEF x
<1>6. s \in Shape("memory") /\ Weighs(s, x) /\ s.ref = t
  BY <1>1, <1>2, AddWeighs
<1>7. BucketIndex(v) \in Bucket
  BY BucketIndexFacts
<1>8. x[BucketIndex(v)][End] # 0
  BY <1>3, <1>4, <1>5, <1>7
<1>9. \A i \in Bucket : w[i][End] # 0 => x[i][End] # 0
  BY <1>3, <1>4, <1>5
<1> HIDE DEF s
<1>10. s \in Shape("memory") /\ s.ref = t /\ HasSample(s, v)
  BY <1>6, <1>8 DEF HasSample
<1>11. \E y : Weighs(s, y) /\ \A i \in Bucket : w[i][End] # 0 => y[i][End] # 0
  BY <1>6, <1>9
<1> QED
  BY <1>10, <1>11 DEF s

\* flushLocked moves the peak of the interval into the histogram.
LEMMA FlushKeeps ==
    ASSUME NEW m, NEW t \in Epoch..End, PeakKept(m, t)
    PROVE  PeakKept(FlushLocked(m, t), t)
<1> DEFINE h == IF m.curPeak > 0 THEN AddSample(m.h, m.curPeak, Unit, t) ELSE m.h
           f == FlushLocked(m, t)
<1>1. /\ m \in Extractor /\ m.h \in Shape("memory") /\ m.h.ref <= t /\ m.curPeak \in Nat
      /\ m.absPeak \in Nat /\ m.curPeak <= m.absPeak /\ t \in Int
      /\ m.curPeak = m.absPeak \/ HasSample(m.h, m.absPeak)
  BY TimeFacts DEF PeakKept, Extractor
<1>2. f = [m EXCEPT !.h = h, !.curPeak = 0, !.curStart = t]
  BY DEF FlushLocked
<1>3. ASSUME m.curPeak > 0
      PROVE  /\ h \in Shape("memory") /\ h.ref <= t /\ (\E w : Weighs(h, w))
             /\ HasSample(h, m.absPeak)
  <2>1. PICK w : Weighs(m.h, w) /\ (m.curPeak = m.absPeak \/ w[BucketIndex(m.absPeak)][End] # 0)
    BY <1>1 DEF PeakKept, HasSample
  <2>2. m.curPeak \in Nat \ {0} /\ h = AddSample(m.h, m.curPeak, Unit, t)
    BY <1>1, <1>3
  <2> HIDE DEF h
  <2>3. /\ h \in Shape("memory") /\ h.ref = t /\ HasSample(h, m.curPeak)
        /\ \E x : /\ Weighs(h, x)
                  /\ \A i \in Bucket : w[i][End] # 0 => x[i][End] # 0
    BY <1>1, <2>1, <2>2, AddContains
  <2>4. PICK x : Weighs(h, x) /\ \A i \in Bucket : w[i][End] # 0 => x[i][End] # 0
    BY <2>3
  <2>5. BucketIndex(m.absPeak) \in Bucket
    BY <1>1, BucketIndexFacts
  <2>6. HasSample(h, m.absPeak)
    BY <2>1, <2>3, <2>4, <2>5 DEF HasSample
  <2>7. h.ref <= t
    BY <1>1, <2>3
  <2> QED
    BY <2>3, <2>4, <2>6, <2>7
<1>4. ASSUME ~(m.curPeak > 0)
      PROVE  /\ h \in Shape("memory") /\ h.ref <= t /\ (\E w : Weighs(h, w))
             /\ m.absPeak = 0 \/ HasSample(h, m.absPeak)
  <2>1. h = m.h /\ m.curPeak = 0
    BY <1>1, <1>4
  <2> HIDE DEF h
  <2> QED
    BY <1>1, <2>1 DEF PeakKept
<1> HIDE DEF h
<1>5. /\ h \in Shape("memory") /\ h.ref <= t /\ (\E w : Weighs(h, w))
      /\ m.absPeak = 0 \/ HasSample(h, m.absPeak)
  BY <1>3, <1>4
<1>6. f \in Extractor /\ f.h = h /\ f.curPeak = 0 /\ f.absPeak = m.absPeak
  <2> DEFINE M == Shape("memory")
  <2>1. h \in M /\ m \in [h : M, curStart : Int, curPeak : Nat, absPeak : Nat]
    BY <1>1, <1>5 DEF Extractor
  <2> HIDE DEF M, f
  <2>2. f \in [h : M, curStart : Int, curPeak : Nat, absPeak : Nat]
    BY <1>1, <1>2, <2>1
  <2>3. f.h = h /\ f.curPeak = 0 /\ f.absPeak = m.absPeak
    BY <1>2, <2>1
  <2> QED
    BY <2>2, <2>3 DEF Extractor, M
<1> HIDE DEF f
<1>7. f.curPeak <= f.absPeak /\ f.h.ref <= t
  BY <1>1, <1>5, <1>6
<1>8. PeakKept(f, t)
  BY <1>5, <1>6, <1>7 DEF PeakKept
<1> QED
  BY <1>8 DEF f

\* Record keeps the greatest value.
LEMMA RecordKeeps ==
    ASSUME NEW m, NEW t \in Epoch..End, PeakKept(m, t), NEW bytes \in Nat
    PROVE  PeakKept(Record(m, bytes, t), t)
<1> DEFINE start == IF m.curStart = ZeroTime THEN t ELSE m.curStart
           cur == Max({m.curPeak, bytes})
           abs == Max({m.absPeak, bytes})
           n == [m EXCEPT !.curStart = start, !.curPeak = cur, !.absPeak = abs]
<1>1. /\ m \in Extractor /\ m.h.ref <= t /\ m.curPeak \in Nat /\ start \in Int
      /\ m.absPeak \in Nat /\ m.curPeak <= m.absPeak /\ t \in Int
      /\ m.curPeak = m.absPeak \/ HasSample(m.h, m.absPeak)
  BY TimeFacts DEF PeakKept, Extractor
<1>2. /\ cur = IF m.curPeak <= bytes THEN bytes ELSE m.curPeak
      /\ abs = IF m.absPeak <= bytes THEN bytes ELSE m.absPeak
  BY <1>1, OfTwo
<1>3. Record(m, bytes, t) = IF t - n.curStart >= Interval THEN FlushLocked(n, t) ELSE n
  BY DEF Record
<1> HIDE DEF start, cur, abs
<1>4. cur \in Nat /\ abs \in Nat /\ cur <= abs /\ (cur = abs \/ (abs = m.absPeak /\ m.curPeak # m.absPeak))
  BY <1>1, <1>2
<1>5. n \in Extractor /\ n.h = m.h /\ n.curPeak = cur /\ n.absPeak = abs
  <2> DEFINE M == Shape("memory")
  <2>1. m \in [h : M, curStart : Int, curPeak : Nat, absPeak : Nat]
    BY <1>1 DEF Extractor
  <2> HIDE DEF M
  <2>2. n \in [h : M, curStart : Int, curPeak : Nat, absPeak : Nat]
    BY <1>1, <1>4, <2>1
  <2> QED
    BY <1>1, <2>1, <2>2 DEF Extractor, M
<1> HIDE DEF n
<1>6. PeakKept(n, t)
  BY <1>1, <1>4, <1>5 DEF PeakKept
<1>7. PeakKept(FlushLocked(n, t), t)
  BY <1>6, FlushKeeps
<1> QED
  BY <1>3, <1>6, <1>7

\* A later time leaves the extractor good.
LEMMA PeakLater ==
    ASSUME NEW m, NEW t \in Epoch..End, NEW u \in Epoch..End, t <= u, PeakKept(m, t)
    PROVE  PeakKept(m, u)
<1>1. m.h.ref \in Int /\ m.h.ref <= t /\ t \in Int /\ u \in Int
  BY TimeFacts DEF PeakKept, Extractor, Shape
<1>2. m.h.ref <= u
  BY <1>1
<1> QED
  BY <1>2 DEF PeakKept

\* A new podState has seen nothing.
LEMMA NewPeak ==
    ASSUME NEW cpu, NEW log, NEW t \in Epoch..End
    PROVE  LET s == NewState(cpu, log)
           IN /\ "mem" \in DOMAIN s /\ "memLimit" \in DOMAIN s
              /\ s.memLimit = 0 /\ PeakKept(s.mem, t)
<1> DEFINE s == NewState(cpu, log)
           w == [k \in Bucket |-> [u \in 0..End |-> 0]]
           h == New("memory")
<1>1. s.mem = [h |-> h, curStart |-> ZeroTime, curPeak |-> 0, absPeak |-> 0]
  BY DEF NewState
<1>2. h \in Shape("memory") /\ Weighs(h, w) /\ h.ref = 0
  <2>1. \A k \in Bucket : \A u \in 0..End : w[k][u] = 0
    OBVIOUS
  <2> HIDE DEF w
  <2> QED
    BY <2>1, NewWeighs
<1> HIDE DEF h, w
<1>3. s.mem \in Extractor /\ s.mem.h = h /\ s.mem.curPeak = 0 /\ s.mem.absPeak = 0
  BY <1>1, <1>2, TimeFacts DEF Extractor
<1>4. PeakKept(s.mem, t)
  <2>1. h.ref <= t
    BY <1>2, TimeFacts
  <2> HIDE DEF s
  <2> QED
    BY <1>2, <1>3, <2>1 DEF PeakKept
<1> QED
  BY <1>4 DEF NewState

\* One pod's turn in sampleAll.
LEMMA SamplePeak ==
    ASSUME NEW s, "mem" \in DOMAIN s, "memLimit" \in DOMAIN s, s.memLimit = 0,
           NEW t \in Epoch..End, PeakKept(s.mem, t),
           NEW used \in MemoryUsage \cup {Nil}, NEW kill
    PROVE  LET n == Sample(s, used, kill, t)
           IN /\ "mem" \in DOMAIN n /\ "memLimit" \in DOMAIN n
              /\ n.memLimit = 0 /\ PeakKept(n.mem, t)
<1> DEFINE m == IF used = Nil THEN s.mem ELSE Record(s.mem, used, t)
           n == Sample(s, used, kill, t)
<1>1. PeakKept(m, t)
  <2>1. used # Nil => used \in Nat
    BY AgentAssumption
  <2> QED
    BY <2>1, RecordKeeps
<1>2. /\ "mem" \in DOMAIN n /\ "memLimit" \in DOMAIN n /\ n.memLimit = 0 /\ n.mem = m
  BY DEF Sample
<1> HIDE DEF m, n
<1>3. PeakKept(n.mem, t)
  BY <1>1, <1>2
<1> QED
  BY <1>2, <1>3 DEF n

\* Every step keeps PeakInv.
LEMMA PeakInvStep == PeakInv /\ [Next]_vars => PeakInv'
<1> SUFFICES ASSUME PeakInv, [Next]_vars PROVE PeakInv'
  OBVIOUS
<1>0. now \in Epoch..End /\ DOMAIN state = Pod
  BY DEF PeakInv
<1>1. ASSUME NEW p \in Pod, EnsurePod(p) PROVE PeakInv'
  <2> DEFINE x == prr[p].payload
             cpu == IF Decodes(x) THEN Merge(New("cpu"), Decode(x)) ELSE New("cpu")
  <2>1. state' = [state EXCEPT ![p] = NewState(cpu, prr[p].log)] /\ now' = now
    BY <1>1 DEF EnsurePod
  <2> HIDE DEF cpu
  <2>2. /\ DOMAIN state' = Pod /\ state'[p] = NewState(cpu, prr[p].log)
        /\ \A q \in Pod \ {p} : state'[q] = state[q]
    BY <1>0, <2>1
  <2>3. /\ "mem" \in DOMAIN state'[p] /\ "memLimit" \in DOMAIN state'[p]
        /\ state'[p].memLimit = 0 /\ PeakKept(state'[p].mem, now)
    BY <1>0, <2>2, NewPeak
  <2> QED
    BY <2>1, <2>2, <2>3 DEF PeakInv, Registered
<1>2. ASSUME NEW p \in Pod, ForgetPod(p) PROVE PeakInv'
  <2>1. state' = [state EXCEPT ![p] = Nil] /\ now' = now
    BY <1>2 DEF ForgetPod
  <2>2. /\ DOMAIN state' = Pod /\ state'[p] = Nil
        /\ \A q \in Pod \ {p} : state'[q] = state[q]
    BY <1>0, <2>1
  <2> QED
    BY <2>1, <2>2 DEF PeakInv, Registered
<1>3. ASSUME NEW p \in Pod, NEW cores \in CPUUsage, RecordCPU(p, cores) PROVE PeakInv'
  <2>1. p \in Registered /\ now' = now
    BY <1>3 DEF RecordCPU
  <2>2. /\ "mem" \in DOMAIN state[p] /\ "memLimit" \in DOMAIN state[p]
        /\ state[p].memLimit = 0 /\ PeakKept(state[p].mem, now)
    BY <2>1 DEF PeakInv
  <2>3. /\ DOMAIN state' = Pod /\ \A q \in Pod \ {p} : state'[q] = state[q]
        /\ "mem" \in DOMAIN state'[p] /\ "memLimit" \in DOMAIN state'[p]
        /\ state'[p].memLimit = state[p].memLimit /\ state'[p].mem = state[p].mem
    BY <1>0, <1>3, <2>2 DEF RecordCPU
  <2> QED
    BY <2>1, <2>2, <2>3 DEF PeakInv, Registered
<1>4. CASE SampleAll
  <2>1. PICK used \in [Registered -> MemoryUsage \cup {Nil}], readable \in SUBSET Registered :
            state' = [p \in Pod |->
                        IF p \notin Registered THEN Nil
                        ELSE Sample(state[p], used[p], Parse(p, p \in readable), now)]
    BY <1>4 DEF SampleAll
  <2>2. now' = now /\ DOMAIN state' = Pod
    BY <1>4, <2>1 DEF SampleAll
  <2>3. ASSUME NEW p \in Registered'
        PROVE  /\ "mem" \in DOMAIN state'[p] /\ "memLimit" \in DOMAIN state'[p]
               /\ state'[p].memLimit = 0 /\ PeakKept(state'[p].mem, now)
    <3>1. p \in Registered /\ p \in Pod /\ used[p] \in MemoryUsage \cup {Nil}
      BY <2>1, <2>3 DEF Registered
    <3>2. /\ "mem" \in DOMAIN state[p] /\ "memLimit" \in DOMAIN state[p]
          /\ state[p].memLimit = 0 /\ PeakKept(state[p].mem, now)
      BY <3>1 DEF PeakInv
    <3>3. state'[p] = Sample(state[p], used[p], Parse(p, p \in readable), now)
      BY <2>1, <3>1
    <3> QED
      BY <1>0, <3>1, <3>2, <3>3, SamplePeak
  <2> QED
    BY <2>2, <2>3, <1>0 DEF PeakInv
<1>5. CASE Tick
  <2>1. now' \in Epoch..End /\ now <= now' /\ state' = state /\ Registered' = Registered
    BY <1>0, <1>5, TimeFacts DEF Tick, MaxTime, agentVars, Registered
  <2> QED
    BY <1>0, <2>1, PeakLater DEF PeakInv
<1>6. CASE \/ WriteCheckpoints \/ UNCHANGED vars
           \/ (\E p \in Pod : OOMKill(p) \/ ReadPRR(p)) \/ (\E w \in todo : Write(w))
  <2>1. UNCHANGED <<state, now>>
    BY <1>6 DEF WriteCheckpoints, OOMKill, ReadPRR, Write, vars, agentVars
  <2> QED
    BY <2>1 DEF PeakInv, Registered
<1>7. CASE Restart
  <2>1. DOMAIN state' = Pod /\ Registered' = {} /\ now' = now
    BY <1>7 DEF Restart, Registered
  <2> QED
    BY <1>0, <2>1 DEF PeakInv
<1> QED
  BY <1>1, <1>2, <1>3, <1>4, <1>5, <1>6, <1>7 DEF Next

\* MemoryPeakExtractor: for every sampling interval, every sequence of samples
\* and every bucket layout, the histogram's last percentile covers the greatest
\* value ever recorded, unless it is the peak of the interval that is going on.
THEOREM PeaksCovered == Spec => []PeakCovered
<1>1. Init => PeakInv
  <2> SUFFICES ASSUME Init PROVE PeakInv
    OBVIOUS
  <2>1. now \in Epoch..End /\ DOMAIN state = Pod /\ Registered = {}
    BY TimeFacts DEF Init, Registered
  <2> QED
    BY <2>1 DEF PeakInv
<1>2. PeakInv => PeakCovered
  <2> SUFFICES ASSUME PeakInv, NEW p \in Registered, NEW m, m = state[p].mem
               PROVE  Min({m.absPeak, MaxValue}) <= Max({m.curPeak, Percentile(m.h, 100)})
    BY DEF PeakCovered
  <2> DEFINE q == Percentile(m.h, 100)
  <2>1. /\ m.absPeak \in Nat /\ m.curPeak \in Nat /\ MaxValue \in Nat
        /\ m.curPeak = m.absPeak \/ HasSample(m.h, m.absPeak)
    BY OptionsAssumption DEF PeakInv, PeakKept, Extractor, Validate
  <2>2. PICK w : Weighs(m.h, w) /\ (m.curPeak = m.absPeak \/ w[BucketIndex(m.absPeak)][End] # 0)
    BY <2>1 DEF PeakInv, PeakKept, HasSample
  <2>3. q \in Nat /\ (m.curPeak = m.absPeak \/ m.absPeak <= q \/ q = MaxValue)
    BY <2>1, <2>2, PercentileCovers
  <2> HIDE DEF q
  <2>4. /\ Min({m.absPeak, MaxValue}) = IF m.absPeak <= MaxValue THEN m.absPeak ELSE MaxValue
        /\ Max({m.curPeak, q}) = IF m.curPeak <= q THEN q ELSE m.curPeak
    BY <2>1, <2>3, OfTwo
  <2>5. Min({m.absPeak, MaxValue}) <= Max({m.curPeak, q})
    BY <2>1, <2>3, <2>4
  <2> QED
    BY <2>5 DEF q
<1> QED
  BY <1>1, <1>2, PeakInvStep, PTL DEF Spec

-----------------------------------------------------------------------------
(* The CPU streams and their checkpoints *)

\* What the samples of a log weigh, by bucket and time.
LogWeight(log) == [k \in Bucket |-> [t \in 0..End |-> Weight(log, k, t)]]

Share(e, k, t) == IF BucketIndex(e.value) = k THEN Decayed(Unit, t - e.time) ELSE 0

Until(log, t) == log \in Log /\ \A i \in DOMAIN log : log[i].time \in Epoch..t

\* The histogram h stands for the samples of the log, all of them taken before
\* its reference, which is not after t.
Stream(h, log, t) ==
    /\ h \in Shape("cpu") /\ h.ref <= t /\ Until(log, h.ref)
    /\ Weighs(h, LogWeight(log))

\* A payload that EnsurePod would restore stands for the log; behind another
\* one there are no samples.
Behind(x, log, t) ==
    IF Decodes(x) /\ Decode(x).options = "cpu" THEN Stream(Decode(x), log, t)
    ELSE /\ log = <<>>
         /\ Decodes(x) /\ Decode(x).options = "memory" => Decode(x) \in Shape("memory")

StreamInv ==
    /\ now \in Epoch..End /\ DOMAIN state = Pod /\ DOMAIN payload = Pod /\ DOMAIN kept = Pod
    /\ DOMAIN prr = Pod
    /\ \A p \in Registered : /\ {"cpu", "log"} \subseteq DOMAIN state[p]
                             /\ Stream(state[p].cpu, state[p].log, now)
    /\ \A w \in todo : w.pod \in Pod /\ Stream(w.cpu, w.log, now)
    /\ \A p \in Pod : Behind(payload[p], kept[p], now) /\ Behind(prr[p].payload, prr[p].log, now)

\* The weight of a log is a sum of numbers.
LEMMA WeightSum ==
    ASSUME NEW t \in 0..End, NEW log, Until(log, t), NEW k \in Bucket
    PROVE  LET f == [i \in DOMAIN log |-> Share(log[i], k, t)]
           IN /\ IsFiniteSet(DOMAIN log) /\ (\A i \in DOMAIN log : f[i] \in Nat)
              /\ Weight(log, k, t) = SumOver(f, DOMAIN log)
              /\ Weight(log, k, t) \in Nat
<1> DEFINE f == [i \in DOMAIN log |-> Share(log[i], k, t)]
           D == DOMAIN log
<1>1. D = 1..Len(log) /\ Len(log) \in Nat
  BY DEF Until, Log
<1>2. IsFiniteSet(D)
  BY <1>1, FS_Interval
<1>3. ASSUME NEW i \in D PROVE f[i] \in Nat
  <2> DEFINE n == t - log[i].time
  <2>1. n \in 0..Horizon /\ n \in n..Horizon
    BY TimeFacts DEF Until
  <2> HIDE DEF n
  <2>2. Decayed(Unit, n) \in Nat
    BY <2>1, UnitAges
  <2> QED
    BY <2>2 DEF Share, n
<1>4. Weight(log, k, t) = SumOver(f, D)
  <2>1. Weight(log, k, t) = SumFunction(f)
    BY DEF Weight, Share
  <2>2. SumFunction(f) = SumOver(f, D)
    BY DEF SumFunction, SumOver
  <2> QED
    BY <2>1, <2>2
<1> HIDE DEF f
<1>5. D \in SUBSET D
  OBVIOUS
<1>6. SumOver(f, D) \in Nat
  BY <1>2, <1>3, <1>5, SumMonotonic
<1> QED
  BY <1>2, <1>3, <1>4, <1>6 DEF f

\* No samples weigh nothing.
LEMMA EmptyWeight ==
    ASSUME NEW k, NEW t
    PROVE  Weight(<<>>, k, t) = 0
<1> DEFINE log == <<>>
           f == [i \in DOMAIN log |-> Share(log[i], k, t)]
<1>1. DOMAIN log = {} /\ DOMAIN f = {}
  OBVIOUS
<1>2. Weight(log, k, t) = SumFunction(f)
  BY DEF Weight, Share
<1> HIDE DEF f
<1>3. SumFunction(f) = SumOver(f, {})
  BY <1>1 DEF SumFunction, SumOver
<1>4. IsFiniteSet({}) /\ \A x \in {} : f[x] \in Int
  BY FS_EmptySet
<1>5. SumOver(f, {}) = 0
  BY <1>4, SumFacts
<1> QED
  BY <1>2, <1>3, <1>5

\* A sample adds its own weight.
LEMMA WeightAppend ==
    ASSUME NEW t \in Epoch..End, NEW log, Until(log, t), NEW e \in Entry, e.time = t,
           NEW k \in Bucket, NEW u \in t..End
    PROVE  Weight(Append(log, e), k, u) = Weight(log, k, u) + Share(e, k, u)
<1> DEFINE n == Len(log)
           l == Append(log, e)
           f == [i \in DOMAIN log |-> Share(log[i], k, u)]
           g == [i \in DOMAIN l |-> Share(l[i], k, u)]
<1>1. /\ log \in Seq(Entry) /\ n \in Nat /\ DOMAIN log = 1..n
      /\ l \in Seq(Entry) /\ DOMAIN l = 1..(n + 1) /\ l[n + 1] = e
      /\ \A i \in 1..n : l[i] = log[i]
  BY DEF Until, Log
<1>2. u \in 0..End /\ \A x \in Epoch..t : x \in Epoch..u
  BY TimeFacts
<1>3. Until(log, u)
  BY <1>2 DEF Until
<1>4. Until(l, u)
  <2>1. t \in Epoch..u
    BY TimeFacts
  <2>2. ASSUME NEW i \in 1..(n + 1) PROVE l[i].time \in Epoch..u
    <3>1. i \in 1..n \/ i = n + 1
      BY <1>1
    <3> QED
      BY <1>1, <1>3, <2>1, <3>1 DEF Until
  <2> QED
    BY <1>1, <2>2 DEF Until, Log
<1>5. /\ \A i \in 1..n : f[i] \in Nat
      /\ Weight(log, k, u) = SumOver(f, 1..n) /\ IsFiniteSet(1..n)
  BY <1>1, <1>2, <1>3, WeightSum
<1>6. /\ \A i \in 1..(n + 1) : g[i] \in Nat
      /\ Weight(l, k, u) = SumOver(g, 1..(n + 1)) /\ IsFiniteSet(1..(n + 1))
  BY <1>1, <1>2, <1>4, WeightSum
<1>7. g[n + 1] = Share(e, k, u) /\ \A i \in 1..n : g[i] = f[i]
  BY <1>1
<1> HIDE DEF f, g, n, l
<1>8. n + 1 \in 1..(n + 1) /\ 1..(n + 1) \ {n + 1} = 1..n
  BY <1>1
<1>9. SumOver(g, 1..(n + 1)) = g[n + 1] + SumOver(g, 1..n)
  <2> DEFINE D == 1..(n + 1)
  <2>1. IsFiniteSet(D) /\ (\A i \in D : g[i] \in Int) /\ n + 1 \in D
    BY <1>6, <1>8
  <2> HIDE DEF D
  <2>2. SumOver(g, D) = g[n + 1] + SumOver(g, D \ {n + 1})
    BY <2>1, SumRemove
  <2> QED
    BY <1>8, <2>2 DEF D
<1>10. SumOver(g, 1..n) = SumOver(f, 1..n) /\ SumOver(f, 1..n) \in Nat
  <2> DEFINE D == 1..n
  <2>1. IsFiniteSet(D) /\ (\A i \in D : f[i] \in Int /\ f[i] \in Nat /\ g[i] = f[i]) /\ D \in SUBSET D
    BY <1>5, <1>7
  <2> HIDE DEF D
  <2>2. SumOver(g, D) = SumOver(f, D)
    BY <2>1, SumEqual
  <2>3. SumOver(f, D) \in Nat
    BY <2>1, SumMonotonic
  <2> QED
    BY <2>2, <2>3 DEF D
<1>11. g[n + 1] \in Nat
  BY <1>6, <1>8
<1> QED
  BY <1>5, <1>6, <1>7, <1>9, <1>10, <1>11 DEF l

\* What is taken before a time is taken before a later one.
LEMMA UntilLater ==
    ASSUME NEW log, NEW r \in Int, Until(log, r), NEW t \in Int, r <= t
    PROVE  Until(log, t)
<1>1. \A x \in Epoch..r : x \in Epoch..t
  BY TimeFacts
<1> QED
  BY <1>1 DEF Until

\* A later time leaves streams and payloads good.
LEMMA StreamLater ==
    ASSUME NEW t \in Epoch..End, NEW u \in Epoch..End, t <= u, NEW log
    PROVE  /\ \A h : Stream(h, log, t) => Stream(h, log, u)
           /\ \A x : Behind(x, log, t) => Behind(x, log, u)
<1>1. ASSUME NEW h, Stream(h, log, t) PROVE Stream(h, log, u)
  <2>1. h.ref \in Int /\ h.ref <= t /\ t \in Int /\ u \in Int
    BY <1>1, TimeFacts DEF Stream, Shape
  <2>2. h.ref <= u
    BY <2>1
  <2> QED
    BY <1>1, <2>2 DEF Stream
<1> QED
  BY <1>1 DEF Behind

\* A new stream stands for no samples.
LEMMA NewStream ==
    ASSUME NEW t \in Epoch..End
    PROVE  Stream(New("cpu"), <<>>, t) /\ New("cpu").ref = 0 /\ New("cpu").options = "cpu"
<1> DEFINE h == New("cpu")
           log == <<>>
           w == LogWeight(log)
<1>1. \A k \in Bucket : \A u \in 0..End : w[k][u] = 0
  <2>1. \A k \in Bucket : \A u \in 0..End : w[k][u] = Weight(log, k, u)
    BY DEF LogWeight
  <2> QED
    BY <2>1, EmptyWeight
<1> HIDE DEF w
<1>2. h \in Shape("cpu") /\ Weighs(h, w) /\ h.ref = 0
  BY <1>1, NewWeighs
<1>3. Until(log, h.ref)
  BY DEF Until, Log
<1>4. 0 <= t
  BY TimeFacts
<1>5. h.options = "cpu"
  BY DEF New
<1> HIDE DEF h, log
<1>6. Stream(h, log, t) /\ h.ref = 0 /\ h.options = "cpu"
  BY <1>2, <1>3, <1>4, <1>5 DEF Stream, w
<1> QED
  BY <1>6 DEF h, log

\* EnsurePod restores the stream that the payload stands for.
LEMMA LoadStream ==
    ASSUME NEW t \in Epoch..End, NEW x, NEW log, Behind(x, log, t)
    PROVE  Stream(IF Decodes(x) THEN Merge(New("cpu"), Decode(x)) ELSE New("cpu"), log, t)
<1> DEFINE h == New("cpu")
           o == Decode(x)
           w == LogWeight(<<>>)
           v == LogWeight(log)
           m == Merge(h, o)
<1>1. Stream(h, <<>>, t) /\ h.ref = 0 /\ h.options = "cpu"
  BY NewStream
<1>2. CASE ~(Decodes(x) /\ o.options = "cpu")
  <2>1. log = <<>>
    BY <1>2 DEF Behind
  <2>2. o.options # "cpu" => m = h
    BY <1>1 DEF Merge
  <2> QED
    BY <1>1, <1>2, <2>1, <2>2
<1>3. CASE Decodes(x) /\ o.options = "cpu"
  <2>1. Stream(o, log, t)
    BY <1>3 DEF Behind
  <2>2. /\ Weighs(h, w) /\ Weighs(o, v) /\ h.options = o.options
        /\ o.ref \in 0..End /\ o.ref <= t /\ Until(log, o.ref) /\ o \in Shape("cpu")
    BY <1>1, <1>3, <2>1 DEF Stream, Shape
  <2>3. o.ref = IF h.ref <= o.ref THEN o.ref ELSE h.ref
    BY <1>1, <2>2, TimeFacts
  <2>4. \A k \in Bucket : \A u \in o.ref..End : v[k][u] = w[k][u] + v[k][u]
    <3> SUFFICES ASSUME NEW k \in Bucket, NEW u \in o.ref..End PROVE v[k][u] = w[k][u] + v[k][u]
      OBVIOUS
    <3>1. u \in 0..End /\ o.ref <= u /\ u \in Int /\ o.ref \in Int
      BY <2>2, TimeFacts
    <3>2. w[k][u] = 0
      BY <3>1, EmptyWeight DEF LogWeight
    <3>3. Until(log, u)
      BY <2>2, <3>1, UntilLater
    <3>4. v[k][u] \in Nat
      <4>1. Weight(log, k, u) \in Nat
        BY <3>1, <3>3, WeightSum
      <4> QED
        BY <3>1, <4>1 DEF LogWeight
    <3> HIDE DEF v, w
    <3> QED
      BY <3>2, <3>4
  <2> HIDE DEF h, o, w, v
  <2>5. m \in Shape(h.options) /\ Weighs(m, v) /\ m.ref = o.ref
    BY <2>2, <2>3, <2>4, MergeWeighs
  <2> HIDE DEF m
  <2>6. Stream(m, log, t)
    BY <1>1, <2>2, <2>5 DEF Stream, v
  <2> QED
    BY <1>3, <2>6 DEF m, h, o
<1> QED
  BY <1>2, <1>3

\* CPUStream.Record adds the sample to the stream and to what it stands for.
LEMMA RecordStream ==
    ASSUME NEW t \in Epoch..End, NEW h, NEW log, Stream(h, log, t), NEW v \in CPUUsage
    PROVE  Stream(AddSample(h, v, Unit, t), Append(log, [value |-> v, time |-> t]), t)
<1> DEFINE e == [value |-> v, time |-> t]
           l == Append(log, e)
           w == LogWeight(log)
           x == LogWeight(l)
           s == AddSample(h, v, Unit, t)
<1>1. /\ h \in Shape("cpu") /\ h.options = "cpu" /\ h.ref \in 0..End /\ h.ref <= t
      /\ Weighs(h, w) /\ Until(log, h.ref) /\ v \in Nat /\ t \in Int /\ h.ref \in Int
  BY TimeFacts, AgentAssumption DEF Stream, Shape
<1>2. e \in Entry /\ e.time = t /\ e.value = v
  BY <1>1 DEF Entry
<1>3. Until(log, t)
  BY <1>1, UntilLater
<1> HIDE DEF e
<1>4. \A k \in Bucket : \A u \in t..End :
         x[k][u] = w[k][u] + (IF BucketIndex(v) = k THEN Decayed(Unit, u - t) ELSE 0)
  <2> SUFFICES ASSUME NEW k \in Bucket, NEW u \in t..End
               PROVE x[k][u] = w[k][u] + (IF BucketIndex(v) = k THEN Decayed(Unit, u - t) ELSE 0)
    OBVIOUS
  <2>1. Weight(l, k, u) = Weight(log, k, u) + Share(e, k, u)
    BY <1>2, <1>3, WeightAppend
  <2>2. u \in 0..End
    BY TimeFacts
  <2>3. x[k][u] = Weight(l, k, u) /\ w[k][u] = Weight(log, k, u)
    BY <2>2 DEF LogWeight
  <2> HIDE DEF l, x, w
  <2> QED
    BY <1>2, <2>1, <2>3 DEF Share
<1>5. Until(l, t)
  <2>1. /\ log \in Seq(Entry) /\ l \in Seq(Entry) /\ Len(log) \in Nat /\ DOMAIN log = 1..Len(log)
        /\ DOMAIN l = 1..(Len(log) + 1) /\ l[Len(log) + 1] = e
        /\ \A i \in 1..Len(log) : l[i] = log[i]
    BY <1>2, <1>3 DEF Until, Log
  <2>2. t \in Epoch..t
    BY TimeFacts
  <2>3. ASSUME NEW i \in DOMAIN l PROVE l[i].time \in Epoch..t
    <3>1. i \in 1..Len(log) \/ i = Len(log) + 1
      BY <2>1
    <3> QED
      BY <1>2, <1>3, <2>1, <2>2, <3>1 DEF Until
  <2> QED
    BY <2>1, <2>3 DEF Until, Log
<1> HIDE DEF x, w, l
<1>6. s \in Shape("cpu") /\ Weighs(s, x) /\ s.ref = t
  BY <1>1, <1>4, AddWeighs
<1> HIDE DEF s
<1>7. Stream(s, l, t)
  BY <1>1, <1>5, <1>6 DEF Stream, x
<1> QED
  BY <1>7 DEF s, l, e

\* What CheckpointWriter.Write stores stands for what the stream does.
LEMMA SaveStream ==
    ASSUME NEW t \in Epoch..End, NEW h, NEW log, Stream(h, log, t)
    PROVE  Behind(Encode(h), log, t)
<1> DEFINE d == Decode(Encode(h))
           w == LogWeight(log)
<1>1. /\ h \in Shape("cpu") /\ h.options = "cpu" /\ h.ref \in 0..End /\ h.ref <= t
      /\ Weighs(h, w) /\ Until(log, h.ref) /\ h.ref \in Int
  BY TimeFacts DEF Stream, Shape
<1> HIDE DEF w
<1>2. /\ Decodes(Encode(h)) /\ d \in Shape("cpu") /\ Weighs(d, w)
      /\ d.ref = IF h.ref = 0 THEN WrappedTime ELSE h.ref
  BY <1>1, CodecWeighs
<1> HIDE DEF d
<1>3. d.ref \in Int /\ h.ref <= d.ref /\ d.ref <= t
  BY <1>1, <1>2, TimeFacts
<1>4. Until(log, d.ref)
  BY <1>1, <1>3, UntilLater
<1>5. Stream(d, log, t)
  BY <1>2, <1>3, <1>4 DEF Stream, w
<1>6. d.options = "cpu"
  BY <1>2 DEF Shape
<1> QED
  BY <1>2, <1>5, <1>6 DEF Behind, d

\* StreamInv holds in the beginning: the first agent finds no CPU history.
LEMMA StreamInvInit == Init => StreamInv
<1> SUFFICES ASSUME Init PROVE StreamInv
  OBVIOUS
<1>1. /\ now = Epoch /\ now \in Epoch..End /\ DOMAIN state = Pod /\ DOMAIN payload = Pod
      /\ DOMAIN kept = Pod /\ Registered = {} /\ todo = {} /\ DOMAIN prr = Pod
  BY TimeFacts DEF Init, Registered
<1>2. ASSUME NEW p \in Pod
      PROVE  Behind(payload[p], kept[p], now) /\ Behind(prr[p].payload, prr[p].log, now)
  <2>1. kept[p] = <<>> /\ payload[p] \in Stored /\ prr[p].payload = payload[p] /\ prr[p].log = <<>>
    BY DEF Init
  <2>2. Decodes(payload[p]) =>
          /\ Decode(payload[p]).options # "cpu"
          /\ Decode(payload[p]).options = "memory" => Decode(payload[p]) \in Shape("memory")
    BY <2>1, StoredAssumption DEF Shape, End
  <2> QED
    BY <2>1, <2>2 DEF Behind
<1> QED
  BY <1>1, <1>2 DEF StreamInv

\* Every step keeps StreamInv.
LEMMA StreamInvStep == StreamInv /\ [Next]_vars => StreamInv'
<1> SUFFICES ASSUME StreamInv, [Next]_vars PROVE StreamInv'
  OBVIOUS
<1>0. /\ now \in Epoch..End /\ DOMAIN state = Pod /\ DOMAIN payload = Pod /\ DOMAIN kept = Pod
      /\ DOMAIN prr = Pod
  BY DEF StreamInv
<1>1. ASSUME NEW p \in Pod, EnsurePod(p) PROVE StreamInv'
  <2> DEFINE x == prr[p].payload
             l == prr[p].log
             cpu == IF Decodes(x) THEN Merge(New("cpu"), Decode(x)) ELSE New("cpu")
             n == NewState(cpu, l)
  <2>1. state' = [state EXCEPT ![p] = n] /\ UNCHANGED <<now, payload, kept, todo, prr>>
    BY <1>1 DEF EnsurePod
  <2>2. Stream(cpu, l, now)
    <3>1. Behind(x, l, now)
      BY DEF StreamInv
    <3> HIDE DEF x, l
    <3> QED
      BY <1>0, <3>1, LoadStream
  <2> HIDE DEF cpu, x, l
  <2>3. {"cpu", "log"} \subseteq DOMAIN n /\ n.cpu = cpu /\ n.log = l
    BY DEF NewState
  <2> HIDE DEF n
  <2>4. /\ DOMAIN state' = Pod /\ state'[p] = n /\ \A q \in Pod \ {p} : state'[q] = state[q]
    BY <1>0, <2>1
  <2>5. ASSUME NEW q \in Registered'
        PROVE  {"cpu", "log"} \subseteq DOMAIN state'[q] /\ Stream(state'[q].cpu, state'[q].log, now)
    <3>1. CASE q = p
      BY <2>2, <2>3, <2>4, <3>1
    <3>2. CASE q # p
      <4>1. q \in Registered /\ state'[q] = state[q]
        BY <2>4, <3>2 DEF Registered
      <4> QED
        BY <4>1 DEF StreamInv
    <3> QED
      BY <3>1, <3>2
  <2> QED
    BY <2>1, <2>4, <2>5 DEF StreamInv
<1>2. ASSUME NEW p \in Pod, ForgetPod(p) PROVE StreamInv'
  <2>1. state' = [state EXCEPT ![p] = Nil] /\ UNCHANGED <<now, payload, kept, todo, prr>>
    BY <1>2 DEF ForgetPod
  <2>2. /\ DOMAIN state' = Pod /\ state'[p] = Nil
        /\ \A q \in Pod \ {p} : state'[q] = state[q]
    BY <1>0, <2>1
  <2> QED
    BY <2>1, <2>2 DEF StreamInv, Registered
<1>3. ASSUME NEW p \in Pod, NEW cores \in CPUUsage, RecordCPU(p, cores) PROVE StreamInv'
  <2>1. p \in Registered /\ UNCHANGED <<now, payload, kept, todo, prr>>
    BY <1>3 DEF RecordCPU
  <2>2. {"cpu", "log"} \subseteq DOMAIN state[p] /\ Stream(state[p].cpu, state[p].log, now)
    BY <2>1 DEF StreamInv
  <2> DEFINE h == AddSample(state[p].cpu, cores, Unit, now)
             l == Append(state[p].log, [value |-> cores, time |-> now])
  <2>3. Stream(h, l, now)
    BY <1>0, <2>2, RecordStream
  <2>4. /\ DOMAIN state' = Pod /\ \A q \in Pod \ {p} : state'[q] = state[q]
        /\ {"cpu", "log"} \subseteq DOMAIN state'[p] /\ state'[p].cpu = h /\ state'[p].log = l
    BY <1>0, <1>3, <2>2 DEF RecordCPU
  <2> HIDE DEF h, l
  <2>5. ASSUME NEW q \in Registered'
        PROVE  {"cpu", "log"} \subseteq DOMAIN state'[q] /\ Stream(state'[q].cpu, state'[q].log, now)
    <3>1. CASE q = p
      BY <2>3, <2>4, <3>1
    <3>2. CASE q # p
      <4>1. q \in Registered /\ state'[q] = state[q]
        BY <2>4, <3>2 DEF Registered
      <4> QED
        BY <4>1 DEF StreamInv
    <3> QED
      BY <3>1, <3>2
  <2> QED
    BY <2>1, <2>4, <2>5 DEF StreamInv
<1>4. CASE SampleAll
  <2>1. PICK used \in [Registered -> MemoryUsage \cup {Nil}], readable \in SUBSET Registered :
            state' = [p \in Pod |->
                        IF p \notin Registered THEN Nil
                        ELSE Sample(state[p], used[p], Parse(p, p \in readable), now)]
    BY <1>4 DEF SampleAll
  <2>2. UNCHANGED <<now, payload, kept, todo, prr>> /\ DOMAIN state' = Pod
    BY <1>4, <2>1 DEF SampleAll
  <2>3. ASSUME NEW p \in Registered'
        PROVE  {"cpu", "log"} \subseteq DOMAIN state'[p] /\ Stream(state'[p].cpu, state'[p].log, now)
    <3>1. p \in Registered /\ p \in Pod
      BY <2>1, <2>3 DEF Registered
    <3>2. {"cpu", "log"} \subseteq DOMAIN state[p] /\ Stream(state[p].cpu, state[p].log, now)
      BY <3>1 DEF StreamInv
    <3>3. state'[p] = Sample(state[p], used[p], Parse(p, p \in readable), now)
      BY <2>1, <3>1
    <3>4. /\ {"cpu", "log"} \subseteq DOMAIN state'[p]
          /\ state'[p].cpu = state[p].cpu /\ state'[p].log = state[p].log
      BY <3>2, <3>3 DEF Sample
    <3> QED
      BY <3>2, <3>4
  <2> QED
    BY <2>2, <2>3 DEF StreamInv
<1>5. CASE WriteCheckpoints
  <2>1. /\ todo' = {[pod |-> p, cpu |-> state[p].cpu, log |-> state[p].log] : p \in Registered}
        /\ UNCHANGED <<now, payload, kept, state, prr>>
    BY <1>5 DEF WriteCheckpoints
  <2>2. ASSUME NEW w \in todo' PROVE w.pod \in Pod /\ Stream(w.cpu, w.log, now)
    <3>1. PICK p \in Registered : w = [pod |-> p, cpu |-> state[p].cpu, log |-> state[p].log]
      BY <2>1
    <3>2. w.pod = p /\ w.cpu = state[p].cpu /\ w.log = state[p].log /\ p \in Pod
      BY <3>1 DEF Registered
    <3> QED
      BY <3>2 DEF StreamInv
  <2> QED
    BY <2>1, <2>2 DEF StreamInv, Registered
<1>6. ASSUME NEW w \in todo, Write(w) PROVE StreamInv'
  <2>1. todo' = todo \ {w} /\ UNCHANGED <<now, state, prr>>
    BY <1>6 DEF Write
  <2>2. w.pod \in Pod /\ Behind(Encode(w.cpu), w.log, now)
    <3>1. w.pod \in Pod /\ Stream(w.cpu, w.log, now)
      BY DEF StreamInv
    <3> QED
      BY <1>0, <3>1, SaveStream
  <2>3. /\ DOMAIN payload' = Pod /\ DOMAIN kept' = Pod
        /\ \A p \in Pod : \/ payload'[p] = payload[p] /\ kept'[p] = kept[p]
                          \/ payload'[p] = Encode(w.cpu) /\ kept'[p] = w.log
    <3>1. CASE UNCHANGED <<payload, kept>>
      BY <1>0, <3>1
    <3>2. CASE /\ payload' = [payload EXCEPT ![w.pod] = Encode(w.cpu)]
               /\ kept' = [kept EXCEPT ![w.pod] = w.log]
      <4> DEFINE d == Encode(w.cpu)
      <4>1. payload' = [payload EXCEPT ![w.pod] = d]
        BY <3>2
      <4> HIDE DEF d
      <4>2. /\ DOMAIN payload' = Pod /\ DOMAIN kept' = Pod
            /\ \A p \in Pod \ {w.pod} : payload'[p] = payload[p] /\ kept'[p] = kept[p]
            /\ payload'[w.pod] = d /\ kept'[w.pod] = w.log
        BY <1>0, <2>2, <3>2, <4>1
      <4> QED
        BY <4>2 DEF d
    <3> QED
      BY <1>6, <3>1, <3>2 DEF Write
  <2>4. \A p \in Pod : Behind(payload'[p], kept'[p], now)
    BY <2>2, <2>3 DEF StreamInv
  <2> QED
    BY <2>1, <2>3, <2>4 DEF StreamInv, Registered
<1>7. CASE Tick
  <2>1. /\ now' \in Epoch..End /\ now <= now' /\ Registered' = Registered
        /\ UNCHANGED <<state, payload, kept, todo, prr>>
    BY <1>0, <1>7, TimeFacts DEF Tick, MaxTime, agentVars, Registered
  <2> QED
    BY <1>0, <2>1, StreamLater DEF StreamInv
<1>8. CASE UNCHANGED vars \/ (\E p \in Pod : OOMKill(p))
  <2>1. UNCHANGED <<state, now, payload, kept, todo, prr>>
    BY <1>8 DEF OOMKill, vars, agentVars
  <2> QED
    BY <2>1 DEF StreamInv, Registered
<1>9. CASE Restart
  <2>1. /\ DOMAIN state' = Pod /\ Registered' = {} /\ todo' = {}
        /\ UNCHANGED <<now, payload, kept, prr>>
    BY <1>9 DEF Restart, Registered
  <2> QED
    BY <2>1 DEF StreamInv
<1>10. ASSUME NEW p \in Pod, ReadPRR(p) PROVE StreamInv'
  <2>1. prr' = [prr EXCEPT ![p] = Current(p)] /\ UNCHANGED <<now, payload, kept, todo, state>>
    BY <1>10 DEF ReadPRR
  <2>2. Current(p).payload = payload[p] /\ Current(p).log = kept[p]
    BY DEF Current
  <2>3. /\ DOMAIN prr' = Pod
        /\ \A q \in Pod : \/ prr'[q] = prr[q]
                          \/ prr'[q].payload = payload[q] /\ prr'[q].log = kept[q]
    BY <1>0, <2>1, <2>2
  <2>4. \A q \in Pod : Behind(prr'[q].payload, prr'[q].log, now)
    BY <2>3 DEF StreamInv
  <2> QED
    BY <2>1, <2>3, <2>4 DEF StreamInv, Registered
<1> QED
  BY <1>1, <1>2, <1>3, <1>4, <1>5, <1>6, <1>7, <1>8, <1>9, <1>10 DEF Next

\* AddSample, Merge and the codec: through samples, restarts and checkpoints, a
\* CPU stream weighs every sample it stands for by its age, and its total is the
\* weight of its buckets.
THEOREM StreamsExact == Spec => []StreamExact
<1>1. StreamInv => StreamExact
  <2> SUFFICES ASSUME StreamInv, NEW p \in Registered, NEW h, h = state[p].cpu,
                      NEW log, log = state[p].log
               PROVE  /\ \A k \in Bucket : h.buckets[k] = Weight(log, k, h.ref)
                      /\ h.total = SumFunction(h.buckets)
    BY DEF StreamExact
  <2>1. h \in Shape("cpu") /\ Weighs(h, LogWeight(log))
    BY DEF StreamInv, Stream
  <2>2. h.ref \in 0..End /\ DOMAIN h.buckets = Bucket
    BY <2>1 DEF Shape
  <2>3. \A k \in Bucket : LogWeight(log)[k][h.ref] = Weight(log, k, h.ref)
    BY <2>2 DEF LogWeight
  <2>4. h.total = SumFunction(h.buckets)
    BY <2>1, <2>2 DEF Weighs, SumFunction, SumOver
  <2> QED
    BY <2>1, <2>3, <2>4 DEF Weighs
<1> QED
  BY <1>1, StreamInvInit, StreamInvStep, PTL DEF Spec

-----------------------------------------------------------------------------
(* The aggregate *)

\* A histogram weighs what anything says that agrees from its reference on.
LEMMA WeighsSame ==
    ASSUME NEW h, NEW w, Weighs(h, w), NEW x,
           \A k \in Bucket : \A u \in (h.ref)..End : x[k][u] = w[k][u]
    PROVE  Weighs(h, x)
<1>1. h.ref \in 0..End /\ h.ref \in (h.ref)..End /\ ZeroTime = 0
  BY TimeFacts DEF Weighs, Shape
<1>2. Ages(x, h.ref)
  BY DEF Weighs, Ages
<1> QED
  BY <1>1, <1>2 DEF Weighs

\* One payload adds the samples behind it.
LEMMA AddPayloadWeighs ==
    ASSUME NEW t \in Epoch..End, NEW wh \in Workload, NEW w, Weighs(wh.cpu, w),
           NEW x, NEW log, Behind(x, log, t), NEW y,
           \A k \in Bucket : \A u \in 0..End :
               Until(log, u) /\ wh.cpu.ref <= u => y[k][u] = w[k][u] + Weight(log, k, u)
    PROVE  LET h == AddPayload(wh, x).cpu
           IN Weighs(h, y) /\ wh.cpu.ref <= h.ref /\ Until(log, h.ref)
<1> DEFINE c == wh.cpu
           o == Decode(x)
           h == AddPayload(wh, x).cpu
           v == LogWeight(log)
<1>1. c \in Shape("cpu") /\ c.options = "cpu" /\ c.ref \in 0..End /\ c.ref \in Int /\ End \in Nat
  BY TimeFacts DEF Workload, Shape
<1>2. WellFormed(x)
  BY DEF Behind, WellFormed, Stream
<1>3. h = IF Decodes(x) /\ o.options = "cpu" THEN Merge(c, o) ELSE c
  BY <1>2, AddPayloadFacts
<1> HIDE DEF c, h
<1>4. CASE ~(Decodes(x) /\ o.options = "cpu")
  <2>1. h = c /\ log = <<>>
    BY <1>3, <1>4 DEF Behind
  <2>2. \A u \in Int : Until(log, u)
    BY <2>1 DEF Until, Log
  <2>3. \A k \in Bucket : \A u \in (c.ref)..End : y[k][u] = w[k][u]
    <3> SUFFICES ASSUME NEW k \in Bucket, NEW u \in (c.ref)..End PROVE y[k][u] = w[k][u]
      OBVIOUS
    <3>1. u \in 0..End /\ c.ref <= u /\ u \in Int /\ u <= u
      BY <1>1
    <3>2. y[k][u] = w[k][u] + Weight(log, k, u)
      BY <2>2, <3>1 DEF c
    <3>3. w[k][u] \in Nat
      BY <3>1 DEF Weighs, Ages, c
    <3>4. Weight(log, k, u) = 0
      BY <2>1, EmptyWeight
    <3> QED
      BY <3>2, <3>3, <3>4
  <2>4. Weighs(c, y)
    BY <2>3, WeighsSame DEF c
  <2> QED
    BY <1>1, <2>1, <2>2, <2>4 DEF c, h
<1>5. CASE Decodes(x) /\ o.options = "cpu"
  <2> DEFINE r == IF c.ref <= o.ref THEN o.ref ELSE c.ref
  <2>1. Stream(o, log, t)
    BY <1>5 DEF Behind
  <2>2. Weighs(o, v) /\ o.ref \in 0..End /\ o.ref \in Int /\ Until(log, o.ref)
    BY <2>1, TimeFacts DEF Stream, Shape
  <2> HIDE DEF o
  <2>3. r \in 0..End /\ c.ref <= r /\ o.ref <= r /\ r \in Int
    BY <1>1, <2>2
  <2>4. r = IF c.ref <= o.ref THEN o.ref ELSE c.ref
    OBVIOUS
  <2> HIDE DEF r
  <2>5. \A k \in Bucket : \A u \in r..End : y[k][u] = w[k][u] + v[k][u]
    <3> SUFFICES ASSUME NEW k \in Bucket, NEW u \in r..End PROVE y[k][u] = w[k][u] + v[k][u]
      OBVIOUS
    <3>1. u \in 0..End /\ u \in Int /\ c.ref <= u /\ o.ref <= u
      BY <1>1, <2>2, <2>3
    <3>2. Until(log, u)
      BY <2>2, <3>1, UntilLater
    <3>3. v[k][u] = Weight(log, k, u)
      BY <3>1 DEF LogWeight
    <3> HIDE DEF v
    <3> QED
      BY <3>1, <3>2, <3>3 DEF c
  <2> HIDE DEF v
  <2>6. Weighs(c, w)
    BY DEF c
  <2>7. Weighs(Merge(c, o), y) /\ Merge(c, o).ref = r
    BY <1>1, <1>5, <2>2, <2>3, <2>4, <2>5, <2>6, MergeWeighs
  <2>8. Until(log, r)
    BY <2>2, <2>3, UntilLater
  <2> QED
    BY <1>3, <1>5, <2>3, <2>7, <2>8 DEF c, h
<1> QED
  BY <1>4, <1>5

\* A list of versions of the PRRs is finite.
LEMMA ListFinite == \A L \in SUBSET Versions : IsFiniteSet(L)
<1>1. IsFiniteSet({"stored"}) /\ IsFiniteSet({"read"})
  BY FS_Singleton
<1>2. IsFiniteSet({"stored", "read"})
  <2>1. {"stored", "read"} = {"stored"} \cup {"read"}
    OBVIOUS
  <2> QED
    BY <1>1, <2>1, FS_Union
<1>3. IsFiniteSet(Versions)
  BY <1>2, AgentAssumption, FS_Product DEF Versions
<1> QED
  BY <1>3, FS_Subset

\* Every version of a PRR stands for the samples behind it.
LEMMA VersionBehind ==
    ASSUME StreamInv, NEW v \in Versions
    PROVE  Behind(Version(v).payload, Version(v).log, now)
<1>1. v[1] \in Pod
  BY DEF Versions
<1> QED
  BY <1>1 DEF StreamInv, Version, Current

\* What the samples behind the listed versions in Q weigh.
KeptWeight(L, k, t) == [v \in L |-> Weight(Version(v).log, k, t)]
KeptBy(L, Q) == [k \in Bucket |-> [t \in 0..End |-> SumOver(KeptWeight(L, k, t), Q)]]

\* One more version adds the weight of its own.
LEMMA OneMoreVersion ==
    ASSUME NEW L \in SUBSET Versions, NEW Q \in SUBSET L, NEW p \in L \ Q, NEW t \in 0..End,
           \A q \in Q \cup {p} : Until(Version(q).log, t), NEW k \in Bucket
    PROVE  KeptBy(L, Q \cup {p})[k][t] = KeptBy(L, Q)[k][t] + Weight(Version(p).log, k, t)
<1> DEFINE f == KeptWeight(L, k, t)
           S == Q \cup {p}
<1>1. \A q \in S : f[q] = Weight(Version(q).log, k, t)
  BY DEF KeptWeight
<1>2. \A q \in S : Weight(Version(q).log, k, t) \in Nat
  BY WeightSum
<1>3. IsFiniteSet(S) /\ p \in S /\ S \ {p} = Q /\ Q \in SUBSET S
  BY ListFinite, FS_Subset
<1> HIDE DEF f, S
<1>4. SumOver(f, S) = f[p] + SumOver(f, S \ {p}) /\ SumOver(f, Q) \in Nat
  BY <1>1, <1>2, <1>3, SumRemove, SumMonotonic
<1>5. f[p] = Weight(Version(p).log, k, t) /\ f[p] \in Nat
  BY <1>1, <1>2, <1>3
<1>6. KeptBy(L, S)[k][t] = SumOver(f, S) /\ KeptBy(L, Q)[k][t] = SumOver(f, Q)
  BY DEF KeptBy, f
<1>7. SumOver(f, S) = f[p] + SumOver(f, Q)
  BY <1>3, <1>4
<1>8. SumOver(f, S) = SumOver(f, Q) + f[p]
  BY <1>4, <1>5, <1>7
<1>9. KeptBy(L, S)[k][t] = KeptBy(L, Q)[k][t] + Weight(Version(p).log, k, t)
  BY <1>5, <1>6, <1>8
<1> QED
  BY <1>9 DEF S

\* The aggregate of all payloads, in any order, weighs what is behind them.
LEMMA AggregateWeighs ==
    ASSUME StreamInv, NEW L \in SUBSET Versions, NEW order \in SetToSeqs(L)
    PROVE  LET h == Aggregate([i \in DOMAIN order |-> Version(order[i]).payload]).cpu
           IN h \in Shape("cpu") /\ Weighs(h, KeptBy(L, L)) /\ \A p \in L : Until(Version(p).log, h.ref)
<1> DEFINE n == Cardinality(L)
           s == [i \in DOMAIN order |-> Version(order[i]).payload]
           Q(i) == {order[j] : j \in 1..i}
<1>1. /\ n \in Nat /\ order \in [1..n -> L] /\ now \in Epoch..End
      /\ \A i, j \in 1..n : i # j => order[i] # order[j]
  BY ListFinite, FS_CardinalityType DEF SetToSeqs, StreamInv
<1>2. DOMAIN s = 1..n /\ \A i \in 1..n : s[i] = Version(order[i]).payload
  BY <1>1
<1> HIDE DEF n, s
<1>3. ASSUME NEW i \in 1..n PROVE Behind(s[i], Version(order[i]).log, now) /\ WellFormed(s[i])
  <2>1. Behind(s[i], Version(order[i]).log, now)
    BY <1>1, <1>2, VersionBehind
  <2> QED
    BY <2>1 DEF Behind, WellFormed, Stream
<1>4. PICK g : /\ Aggregate(s) = g[1..n] /\ g[{}] = NoHistory
               /\ \A i \in 1..n : /\ g[1..(i - 1)] \in Workload
                                  /\ g[1..i] = AddPayload(g[1..(i - 1)], s[i])
  <2>1. n \in Nat /\ DOMAIN s = 1..n /\ \A i \in 1..n : WellFormed(s[i])
    BY <1>1, <1>2, <1>3
  <2> QED
    BY <2>1, AggregateValue
<1> DEFINE c(i) == g[1..i].cpu
           Good(i) == /\ g[1..i] \in Workload /\ Weighs(c(i), KeptBy(L, Q(i)))
                      /\ \A p \in Q(i) : Until(Version(p).log, c(i).ref)
           P == {i \in Nat : i <= n => Good(i)}
<1>5. 0 \in P
  <2> DEFINE w == KeptBy(L, {})
  <2>1. \A k \in Bucket : \A u \in 0..End : w[k][u] = 0
    <3> SUFFICES ASSUME NEW k \in Bucket, NEW u \in 0..End PROVE w[k][u] = 0
      OBVIOUS
    <3> DEFINE f == KeptWeight(L, k, u)
    <3>1. IsFiniteSet({}) /\ \A x \in {} : f[x] \in Int
      BY FS_EmptySet
    <3>2. SumOver(f, {}) = 0
      BY <3>1, SumFacts
    <3> QED
      BY <3>2 DEF KeptBy
  <2>2. Q(0) = {} /\ 1..0 = {} /\ g[1..0] = NoHistory
    BY <1>4
  <2> HIDE DEF w
  <2>3. Weighs(New("cpu"), w) /\ New("cpu") \in Shape("cpu") /\ New("memory") \in Shape("memory")
    BY <2>1, NewWeighs
  <2>4. NoHistory \in Workload /\ NoHistory.cpu = New("cpu")
    BY <2>3 DEF NoHistory, Workload
  <2>5. Good(0)
    BY <2>2, <2>3, <2>4 DEF w
  <2> QED
    BY <2>5
<1>6. ASSUME NEW i \in P PROVE i + 1 \in P
  <2> SUFFICES ASSUME i + 1 <= n PROVE Good(i + 1)
    OBVIOUS
  <2> DEFINE p == order[i + 1]
             A == Q(i)
             wh == g[1..i]
             w == KeptBy(L, A)
             y == KeptBy(L, A \cup {p})
             h == AddPayload(wh, s[i + 1]).cpu
  <2>1. i \in Nat /\ i + 1 \in 1..n /\ (i + 1) - 1 = i /\ Good(i)
    BY <1>1
  <2>2. /\ wh \in Workload /\ g[1..(i + 1)] = AddPayload(wh, s[i + 1])
        /\ Behind(s[i + 1], Version(p).log, now)
    BY <1>3, <1>4, <2>1
  <2>3. p \in L \ A /\ A \in SUBSET L
    BY <1>1, <2>1
  <2>4. Q(i + 1) = A \cup {p}
    <3>1. 1..(i + 1) = (1..i) \cup {i + 1}
      BY <2>1
    <3> QED
      BY <3>1
  <2>5. Weighs(wh.cpu, w) /\ \A q \in A : Until(Version(q).log, wh.cpu.ref)
    BY <2>1
  <2>6. wh.cpu.ref \in 0..End /\ wh.cpu.ref \in Int
    BY <2>2, TimeFacts DEF Workload, Shape
  <2> HIDE DEF A, wh, p, Q
  <2>7. \A k \in Bucket : \A u \in 0..End :
           Until(Version(p).log, u) /\ wh.cpu.ref <= u => y[k][u] = w[k][u] + Weight(Version(p).log, k, u)
    <3> SUFFICES ASSUME NEW k \in Bucket, NEW u \in 0..End, Until(Version(p).log, u), wh.cpu.ref <= u
                 PROVE  y[k][u] = w[k][u] + Weight(Version(p).log, k, u)
      OBVIOUS
    <3>1. \A q \in A : Until(Version(q).log, u)
      BY <2>5, <2>6, UntilLater
    <3> QED
      BY <2>3, <3>1, OneMoreVersion
  <2> HIDE DEF w, y
  <2>8. Weighs(h, y) /\ wh.cpu.ref <= h.ref /\ Until(Version(p).log, h.ref)
    <3> DEFINE x == s[i + 1]
               log == Version(p).log
    <3>1. /\ now \in Epoch..End /\ wh \in Workload /\ Weighs(wh.cpu, w) /\ Behind(x, log, now)
          /\ h = AddPayload(wh, x).cpu
          /\ \A k \in Bucket : \A u \in 0..End :
                Until(log, u) /\ wh.cpu.ref <= u => y[k][u] = w[k][u] + Weight(log, k, u)
      BY <1>1, <2>2, <2>5, <2>7
    <3> HIDE DEF h, x, log, P
    <3>2. Weighs(h, y) /\ wh.cpu.ref <= h.ref /\ Until(log, h.ref)
      BY <3>1, AddPayloadWeighs
    <3> QED
      BY <3>2 DEF log
  <2>9. g[1..(i + 1)] \in Workload
    BY <1>3, <2>1, <2>2, AddPayloadFacts
  <2>10. h.ref \in Int /\ c(i + 1) = h
    BY <2>2, <2>9, TimeFacts DEF Workload, Shape
  <2> HIDE DEF h, c
  <2>11. \A q \in A \cup {p} : Until(Version(q).log, h.ref)
    BY <2>5, <2>6, <2>8, <2>10, UntilLater
  <2> QED
    BY <2>4, <2>8, <2>9, <2>10, <2>11 DEF y
<1>7. P \in SUBSET Nat
  OBVIOUS
<1> HIDE DEF P
<1>8. n \in P
  BY <1>1, <1>5, <1>6, <1>7, NumberInduction
<1>9. Good(n)
  BY <1>1, <1>8 DEF P
<1>10. Q(n) = L
  <2>1. order \in Injection(1..n, L) /\ IsFiniteSet(L)
    BY <1>1, ListFinite DEF Injection, IsInjective
  <2>2. Cardinality(1..n) = Cardinality(L)
    <3>1. Cardinality(1..n) = IF 1 > n THEN 0 ELSE n - 1 + 1
      BY <1>1, FS_Interval
    <3> QED
      BY <1>1, <3>1 DEF n
  <2>3. order \in Surjection(1..n, L)
    BY <2>1, <2>2, FS_Injection
  <2> QED
    BY <1>1, <2>3 DEF Surjection
<1>11. Aggregate(s) = g[1..n]
  BY <1>4
<1> HIDE DEF Q
<1>12. LET h == Aggregate(s).cpu
       IN h \in Shape("cpu") /\ Weighs(h, KeptBy(L, L)) /\ \A p \in L : Until(Version(p).log, h.ref)
  BY <1>9, <1>10, <1>11 DEF Workload
<1> QED
  BY <1>12 DEF s

\* Aggregate, EncodeWorkload and DecodeWorkload: whatever PRRs are listed, in
\* whatever order and version, for any number of pods and samples, the workload's
\* CPU histogram weighs the samples behind all payloads by their age, also when it
\* is read back.
THEOREM AggregatesExact == Spec => []AggregateExact
<1>1. StreamInv => AggregateExact
  <2> SUFFICES ASSUME StreamInv, NEW L \in SUBSET Versions, NEW order \in SetToSeqs(L), NEW wh,
                      wh = Aggregate([i \in DOMAIN order |-> Version(order[i]).payload]),
                      NEW h, h = DecodeWorkload(EncodeWorkload(wh, now)).cpu, NEW k \in Bucket
               PROVE  h.buckets[k] = SumFunction([v \in L |-> Weight(Version(v).log, k, h.ref)])
    BY DEF AggregateExact
  <2> DEFINE w == KeptBy(L, L)
             f == KeptWeight(L, k, h.ref)
  <2>1. wh.cpu \in Shape("cpu") /\ Weighs(wh.cpu, w) /\ wh.cpu.options = "cpu"
    BY AggregateWeighs DEF Shape
  <2>2. h = Decode(Encode(wh.cpu))
    BY DEF DecodeWorkload, EncodeWorkload
  <2> HIDE DEF w
  <2>3. h \in Shape("cpu") /\ Weighs(h, w)
    BY <2>1, <2>2, CodecWeighs
  <2>4. h.ref \in 0..End /\ h.buckets[k] = w[k][h.ref]
    BY <2>3 DEF Weighs, Shape
  <2>5. w[k][h.ref] = SumOver(f, L)
    BY <2>4 DEF w, KeptBy
  <2>6. f = [v \in L |-> Weight(Version(v).log, k, h.ref)] /\ DOMAIN f = L
    BY DEF KeptWeight
  <2> HIDE DEF f
  <2>7. SumFunction(f) = SumOver(f, L)
    BY <2>6 DEF SumFunction, SumOver
  <2> QED
    BY <2>4, <2>5, <2>6, <2>7
<1> QED
  BY <1>1, StreamInvInit, StreamInvStep, PTL DEF Spec
=============================================================================

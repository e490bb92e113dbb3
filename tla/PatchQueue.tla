----------------------------- MODULE PatchQueue -----------------------------
(***************************************************************************)
(* The node agent's resize patches: producers push PendingPatches into the *)
(* mutex-protected max-heap at any time, and the sampling loop drains it   *)
(* with Submit, one request to the pods/resize subresource per patch.  The *)
(* heap is a set here: container/heap pops a greatest element, and which   *)
(* one of equals depends on the history of the heap.  The heap is in the   *)
(* memory of the agent only: the end of the process takes it along.        *)
(***************************************************************************)
EXTENDS Integers

CONSTANTS
    Patch,                      \* the PendingPatches, each pushed once
    DeltaCPU, DeltaMemory,      \* by patch
    NodeTotalCPU, NodeTotalMemory,      \* by patch
    Rejected,                   \* patches the API server always refuses
    Nil

ASSUME PatchAssumption ==
    /\ DeltaCPU \in [Patch -> Int] /\ DeltaMemory \in [Patch -> Int]
    /\ NodeTotalCPU \in [Patch -> Nat] /\ NodeTotalMemory \in [Patch -> Nat]
    /\ Rejected \subseteq Patch
    /\ Nil \notin Patch

Absf(x) == IF x < 0 THEN -x ELSE x

\* Priority, |dCPU| / totalCPU + |dMem| / totalMem of the node the patch names, as
\* a numerator over a denominator; a total of zero drops its term.
TotalCPU(p) == IF NodeTotalCPU[p] > 0 THEN NodeTotalCPU[p] ELSE 1
TotalMemory(p) == IF NodeTotalMemory[p] > 0 THEN NodeTotalMemory[p] ELSE 1
Score(p) ==
    (IF NodeTotalCPU[p] > 0 THEN Absf(DeltaCPU[p]) * TotalMemory(p) ELSE 0)
  + (IF NodeTotalMemory[p] > 0 THEN Absf(DeltaMemory[p]) * TotalCPU(p) ELSE 0)

\* Priority(p) <= Priority(q), of patches that may name different nodes.
NotAbove(p, q) ==
    Score(p) * TotalCPU(q) * TotalMemory(q) <= Score(q) * TotalCPU(p) * TotalMemory(p)

VARIABLES
    fresh,      \* patches nobody has pushed yet
    queue,      \* the heap
    popped,     \* the patch between Pop and Submit's answer, or Nil
    draining,   \* drainPatches is running
    applied,    \* patches the API server has carried out
    dropped,    \* history: lost with a process that ended
    late,       \* history: pushed since this drain began
    last        \* history: the patch this drain submitted last, or Nil

vars == <<fresh, queue, popped, draining, applied, dropped, late, last>>

\* Type correctness of the queue and of the drain's locals.
TypeOK ==
    /\ fresh \subseteq Patch /\ queue \subseteq Patch /\ applied \subseteq Patch
    /\ dropped \subseteq Patch /\ late \subseteq Patch
    /\ popped \in Patch \cup {Nil} /\ last \in Patch \cup {Nil}
    /\ draining \in BOOLEAN

Init ==
    /\ fresh = Patch /\ queue = {} /\ applied = {} /\ dropped = {} /\ late = {}
    /\ popped = Nil /\ last = Nil
    /\ draining = FALSE

\* Enqueue, from any goroutine; Push and Pop take the queue's lock.
Enqueue(p) ==
    /\ p \in fresh
    /\ fresh' = fresh \ {p}
    /\ queue' = queue \cup {p}
    /\ late' = IF draining THEN late \cup {p} ELSE late
    /\ UNCHANGED <<popped, draining, applied, dropped, last>>

\* The sample ticker fires: Run calls drainPatches.
StartDrain ==
    /\ ~draining /\ draining' = TRUE
    /\ late' = {} /\ last' = Nil
    /\ UNCHANGED <<fresh, queue, popped, applied, dropped>>

\* Mutant: patchHeap.Less the other way round.
PopLeast(p) ==
    /\ draining /\ popped = Nil /\ p \in queue
    /\ \A o \in queue : NotAbove(p, o)
    /\ queue' = queue \ {p} /\ popped' = p
    /\ UNCHANGED <<fresh, draining, applied, dropped, late, last>>

Pop(p) ==
    /\ draining /\ popped = Nil /\ p \in queue
    /\ \A o \in queue : NotAbove(o, p)
    /\ queue' = queue \ {p} /\ popped' = p
    /\ UNCHANGED <<fresh, draining, applied, dropped, late, last>>

EmptyPop ==
    /\ draining /\ popped = Nil /\ queue = {}
    /\ draining' = FALSE
    /\ UNCHANGED <<fresh, queue, popped, applied, dropped, late, last>>

SubmitOK ==
    /\ popped \notin {Nil} \cup Rejected
    /\ applied' = applied \cup {popped}
    /\ last' = popped /\ popped' = Nil
    /\ UNCHANGED <<fresh, queue, draining, late, dropped>>

\* Mutant: a patch that failed is not pushed back.
SubmitErrorDropped ==
    /\ popped # Nil
    /\ popped' = Nil /\ draining' = FALSE
    /\ UNCHANGED <<fresh, queue, applied, dropped, late, last>>

\* Any error: 429, Forbidden, a lost connection; the last of these after the
\* patch was carried out.
SubmitError ==
    /\ popped # Nil
    /\ applied' \in {applied} \cup (IF popped \in Rejected THEN {} ELSE {applied \cup {popped}})
    /\ queue' = queue \cup {popped}
    /\ popped' = Nil /\ draining' = FALSE
    /\ UNCHANGED <<fresh, late, last, dropped>>

\* The process ends, by Run's ctx.Done() or by a crash, and a new one starts with
\* NewQueue; a patch on its way may still be carried out.
Restart ==
    /\ dropped' = dropped \cup queue \cup ({popped} \ {Nil})
    /\ applied' \in {applied} \cup (IF popped \in {Nil} \cup Rejected THEN {} ELSE {applied \cup {popped}})
    /\ queue' = {} /\ popped' = Nil /\ draining' = FALSE
    /\ late' = {} /\ last' = Nil
    /\ UNCHANGED fresh

Next ==
    \/ \E p \in Patch : Enqueue(p) \/ Pop(p)
    \/ StartDrain \/ EmptyPop \/ SubmitOK \/ SubmitError
    \/ Restart

Spec == Init /\ [][Next]_vars

\* The ticker fires again and again, the loop goes on, and a request that is
\* accepted does not fail for ever.
Fairness == /\ WF_vars(StartDrain) /\ WF_vars(EmptyPop)
            /\ \A p \in Patch : WF_vars(Pop(p))
            /\ WF_vars(SubmitOK \/ SubmitError)
            /\ \A p \in Patch : SF_vars(popped = p /\ SubmitOK)
FairSpec == Spec /\ Fairness

-----------------------------------------------------------------------------
\* drainPatches: a patch that was pushed is in the queue, at the API server, or
\* carried out, whatever fails between Pop and the push back; nothing but the end
\* of the process loses one.
NothingLost == Patch \subseteq fresh \cup queue \cup {popped} \cup applied \cup dropped

\* drainPatches submits in priority order: what a drain has still to submit and
\* was there when it began is not more urgent than what it has submitted.
DrainsByPriority ==
    draining /\ last # Nil =>
        \A p \in (queue \cup {popped}) \ (late \cup {Nil}) : NotAbove(p, last)

\* drainPatches, "On error, requeue once and return": one patch cannot hold the
\* queue up for ever, and another that the API server accepts is carried out in
\* the end, unless the process ends before.
AcceptedPatchesLand ==
    \A p \in Patch \ Rejected : (p \in queue) ~> (p \in applied \cup dropped)

Delivery == INSTANCE PatchDelivery WITH
    unseen <- fresh, owed <- queue \cup ({popped} \ {Nil}), landed <- applied, lost <- dropped,
    Ahead <- {qp \in Patch \X Patch : NotAbove(qp[2], qp[1])}

\* The queue with its drains implements PatchDelivery: a patch is owed while it
\* is in the heap or between Pop and Submit's answer, drainPatches pays it only
\* after the API server has carried it out, and pays in the end every one that
\* has no refused patch of its own or a higher priority ahead of it.
ImplementsDelivery == Delivery!FairSpec
=============================================================================

-------------------------- MODULE PatchQueueProofs --------------------------
(***************************************************************************)
(* Proofs about the node agent's patch queue, for every set of patches and *)
(* every priority, over any number of ends of the process.                 *)
(***************************************************************************)
EXTENDS PatchQueue, TLAPS

\* The patch between Pop and Submit's answer is one of the drain that is going
\* on, and no patch that was there before it is more urgent.
PoppedGreatest ==
    popped # Nil => /\ draining
                    /\ \A p \in queue \ late : NotAbove(p, popped)

\* The inductive invariant: DrainsByPriority says nothing of the patch popped.
QueueInv == TypeOK /\ NothingLost /\ PoppedGreatest /\ DrainsByPriority

\* QueueInv holds in the beginning.
LEMMA QueueInvInit == Init => QueueInv
  BY PatchAssumption DEF Init, QueueInv, TypeOK, NothingLost, PoppedGreatest, DrainsByPriority

\* Every step keeps QueueInv.
LEMMA QueueInvStep == QueueInv /\ [Next]_vars => QueueInv'
<1> SUFFICES ASSUME QueueInv, [Next]_vars PROVE QueueInv'
  OBVIOUS
<1> USE PatchAssumption
<1>t. TypeOK'
  BY DEF QueueInv, TypeOK, Next, vars, Enqueue, Pop, StartDrain, EmptyPop, SubmitOK, SubmitError, Restart
<1>1. ASSUME NEW p \in Patch, Enqueue(p) PROVE QueueInv'
  BY <1>t, <1>1 DEF QueueInv, TypeOK, NothingLost, PoppedGreatest, DrainsByPriority, Enqueue
<1>2. ASSUME NEW p \in Patch, Pop(p) PROVE QueueInv'
  BY <1>t, <1>2 DEF QueueInv, TypeOK, NothingLost, PoppedGreatest, DrainsByPriority, Pop
<1>3. CASE StartDrain
  BY <1>t, <1>3 DEF QueueInv, TypeOK, NothingLost, PoppedGreatest, DrainsByPriority, StartDrain
<1>4. CASE EmptyPop
  BY <1>t, <1>4 DEF QueueInv, TypeOK, NothingLost, PoppedGreatest, DrainsByPriority, EmptyPop
<1>5. CASE SubmitOK
  BY <1>t, <1>5 DEF QueueInv, TypeOK, NothingLost, PoppedGreatest, DrainsByPriority, SubmitOK
<1>6. CASE SubmitError
  BY <1>t, <1>6 DEF QueueInv, TypeOK, NothingLost, PoppedGreatest, DrainsByPriority, SubmitError
<1>7. CASE Restart
  BY <1>t, <1>7 DEF QueueInv, TypeOK, NothingLost, PoppedGreatest, DrainsByPriority, Restart
<1>8. CASE UNCHANGED vars
  BY <1>t, <1>8 DEF QueueInv, TypeOK, NothingLost, PoppedGreatest, DrainsByPriority, vars
<1> QED
  BY <1>1, <1>2, <1>3, <1>4, <1>5, <1>6, <1>7, <1>8 DEF Next

\* drainPatches never loses a patch: one that was pushed is in the queue, on its
\* way, carried out, or was the heap's when the process ended.
THEOREM PatchesAreNotLost == Spec => []NothingLost
<1>1. QueueInv => NothingLost
  BY DEF QueueInv
<1> QED
  BY <1>1, QueueInvInit, QueueInvStep, PTL DEF Spec

\* drainPatches submits in the order of Priority the patches that were in the
\* queue when it began, whatever is pushed meanwhile.
THEOREM DrainKeepsPriorityOrder == Spec => []DrainsByPriority
<1>1. QueueInv => DrainsByPriority
  BY DEF QueueInv
<1> QED
  BY <1>1, QueueInvInit, QueueInvStep, PTL DEF Spec

\* Every step of the queue is a step of PatchDelivery or changes nothing there:
\* popping only moves a patch, and an error pushes back what was popped.
LEMMA DeliveryStep == TypeOK /\ [Next]_vars => [Delivery!Next]_(Delivery!vars)
<1> SUFFICES ASSUME TypeOK, [Next]_vars PROVE [Delivery!Next]_(Delivery!vars)
  OBVIOUS
<1> DEFINE owed == queue \cup ({popped} \ {Nil})
<1> USE PatchAssumption
<1>1. ASSUME NEW p \in Patch, Enqueue(p) PROVE Delivery!HandOver(p)
  BY <1>1 DEF Enqueue, Delivery!HandOver
<1>2. ASSUME NEW p \in Patch, Pop(p) PROVE UNCHANGED Delivery!vars
  BY <1>2 DEF Pop, Delivery!vars, TypeOK
<1>3. CASE StartDrain \/ EmptyPop \/ UNCHANGED vars
  BY <1>3 DEF StartDrain, EmptyPop, vars, Delivery!vars
<1>4. CASE SubmitOK
  <2>1. popped \in Patch \ Rejected
    BY <1>4 DEF SubmitOK, TypeOK
  <2>2. CASE popped \in queue
    <3>1. Delivery!CarryOut(popped)
      BY <1>4, <2>1, <2>2 DEF SubmitOK, Delivery!CarryOut
    <3> QED
      BY <2>1, <3>1 DEF Delivery!Next
  <2>3. CASE popped \notin queue
    <3>1. Delivery!Acknowledge(popped)
      BY <1>4, <2>1, <2>3 DEF SubmitOK, Delivery!Acknowledge
    <3> QED
      BY <2>1, <3>1 DEF Delivery!Next
  <2> QED
    BY <2>2, <2>3
<1>5. CASE SubmitError
  <2>1. popped \in Patch /\ owed' = owed /\ fresh' = fresh /\ dropped' = dropped
    BY <1>5 DEF SubmitError, TypeOK
  <2>2. CASE applied' = applied
    BY <2>1, <2>2 DEF Delivery!vars
  <2>3. CASE applied' # applied
    <3>1. popped \notin Rejected /\ applied' = applied \cup {popped}
      BY <1>5, <2>3 DEF SubmitError
    <3>2. Delivery!CarryOut(popped)
      BY <2>1, <3>1 DEF Delivery!CarryOut
    <3> QED
      BY <2>1, <3>2 DEF Delivery!Next
  <2> QED
    BY <2>2, <2>3
<1>6. CASE Restart
  <2>1. Delivery!Abandon
    <3>1. applied' \in {applied} \cup {applied \cup {p} : p \in owed \ Rejected}
      BY <1>6 DEF Restart, TypeOK
    <3> QED
      BY <1>6, <3>1 DEF Restart, Delivery!Abandon
  <2> QED
    BY <2>1 DEF Delivery!Next
<1> QED
  BY <1>1, <1>2, <1>3, <1>4, <1>5, <1>6 DEF Next, Delivery!Next

\* The queue and its drains implement the safety part of PatchDelivery: Submit's
\* answer or the end of the process, and never an error, ends what is owed.
THEOREM QueueImplementsDelivery == Spec => Delivery!Spec
<1>1. Init => Delivery!Init
  BY PatchAssumption DEF Init, Delivery!Init
<1>2. QueueInv => TypeOK
  BY DEF QueueInv
<1> QED
  BY <1>1, <1>2, QueueInvInit, QueueInvStep, DeliveryStep, PTL DEF Spec, Delivery!Spec
=============================================================================

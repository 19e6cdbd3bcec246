-------------------- MODULE TransitionEntanglement_proofs --------------------
(***************************************************************************)
(* The transitions of a queue render together, for any number of lanes and *)
(* queues: THEOREM QueuesAreWhole.                                         *)
(*                                                                         *)
(* QueueIsWhole speaks of pending lanes, but is kept by what the root and  *)
(* the queue remember of them.  The inductive invariant says that a queue  *)
(* remembers the lanes of its waiting updates (KnowsItsLanes), that the    *)
(* root has no other lanes pending (PendingIsWaiting), so that the lanes a *)
(* queue drops for not being pending are none of them, and that lanes that *)
(* wait in one queue are entangled with each other (IsEntangled).          *)
(***************************************************************************)
EXTENDS TransitionEntanglement, TLAPS

KnowsItsLanes == \A q \in Queues : waiting[q] \subseteq queueLanes[q]

PendingIsWaiting == root.pendingLanes = UNION {waiting[q] : q \in Queues}

IsEntangled ==
  \A q \in Queues : \A i, j \in waiting[q] :
    i \in root.entangledLanes /\ j \in root.entanglements[i]

IndInv == TypeOK /\ KnowsItsLanes /\ PendingIsWaiting /\ IsEntangled

-----------------------------------------------------------------------------
(* The operators of FiberLanes *)

\* Entangled lanes keep what they were entangled with and get each other.
LEMMA MarkRootEntangledEntangles ==
  ASSUME NEW r \in Root(UpdateLanes), NEW lanes \in SUBSET UpdateLanes
  PROVE  /\ MarkRootEntangled(r, lanes) \in Root(UpdateLanes)
         /\ MarkRootEntangled(r, lanes).pendingLanes = r.pendingLanes
         /\ r.entangledLanes \cup lanes = MarkRootEntangled(r, lanes).entangledLanes
         /\ \A l \in UpdateLanes :
              /\ r.entanglements[l] \subseteq MarkRootEntangled(r, lanes).entanglements[l]
              /\ l \in lanes => lanes \subseteq MarkRootEntangled(r, lanes).entanglements[l]
  BY DEF MarkRootEntangled, Root

\* A lane that stays pending keeps its entanglements.
LEMMA MarkRootFinishedKeeps ==
  ASSUME NEW r \in Root(UpdateLanes), NEW remaining \in SUBSET r.pendingLanes
  PROVE  /\ MarkRootFinished(r, remaining) \in Root(UpdateLanes)
         /\ MarkRootFinished(r, remaining).pendingLanes = remaining
         /\ MarkRootFinished(r, remaining).entangledLanes = r.entangledLanes \cap remaining
         /\ \A l \in remaining :
              MarkRootFinished(r, remaining).entanglements[l] = r.entanglements[l]
  BY DEF MarkRootFinished, Root

\* An update adds its lane to the pending ones and entangles nothing.
LEMMA MarkRootUpdatedAdds ==
  ASSUME NEW r \in Root(UpdateLanes), NEW lane \in UpdateLanes
  PROVE  /\ MarkRootUpdated(r, lane) \in Root(UpdateLanes)
         /\ MarkRootUpdated(r, lane).pendingLanes = r.pendingLanes \cup {lane}
         /\ MarkRootUpdated(r, lane).entangledLanes = r.entangledLanes
         /\ MarkRootUpdated(r, lane).entanglements = r.entanglements
  BY DEF MarkRootUpdated, Root

-----------------------------------------------------------------------------
LEMMA InitIndInv == Init => IndInv
  BY DEF Init, IndInv, TypeOK, KnowsItsLanes, PendingIsWaiting, IsEntangled, IdleRoot, Root

LEMMA EnqueueIndInv ==
  ASSUME IndInv, NEW q \in Queues, NEW lane \in UpdateLanes, Enqueue(q, lane)
  PROVE  IndInv'
<1> DEFINE updated == MarkRootUpdated(root, lane)
           new     == (queueLanes[q] \cap updated.pendingLanes) \cup {lane}
<1> USE DEF IndInv
<1>1. /\ updated \in Root(UpdateLanes)
      /\ updated.pendingLanes = root.pendingLanes \cup {lane}
      /\ updated.entangledLanes = root.entangledLanes
      /\ updated.entanglements = root.entanglements
  BY MarkRootUpdatedAdds DEF TypeOK
<1> HIDE DEF updated
<1>2. new \in SUBSET UpdateLanes
  BY DEF TypeOK
<1>3. /\ queueLanes' = [queueLanes EXCEPT ![q] = new]
      /\ waiting' = [waiting EXCEPT ![q] = @ \cup {lane}]
      /\ root' = MarkRootEntangled(updated, new)
  BY DEF Enqueue, TypeOK, updated
<1>4. waiting[q] \cup {lane} \subseteq new
  BY <1>1 DEF KnowsItsLanes, PendingIsWaiting, TypeOK
<1> HIDE DEF new
<1>5. /\ root' \in Root(UpdateLanes)
      /\ root'.pendingLanes = root.pendingLanes \cup {lane}
      /\ root'.entangledLanes = root.entangledLanes \cup new
      /\ \A l \in UpdateLanes : /\ root.entanglements[l] \subseteq root'.entanglements[l]
                                /\ l \in new => new \subseteq root'.entanglements[l]
  BY <1>1, <1>2, <1>3, MarkRootEntangledEntangles
<1>6. TypeOK'
  BY <1>2, <1>3, <1>5 DEF TypeOK
<1>7. KnowsItsLanes'
  BY <1>3, <1>4 DEF KnowsItsLanes, TypeOK
<1>8. PendingIsWaiting'
  BY <1>3, <1>5 DEF PendingIsWaiting, TypeOK
<1>9. IsEntangled'
  <2> SUFFICES ASSUME NEW p \in Queues, NEW i \in waiting'[p], NEW j \in waiting'[p]
               PROVE  i \in root'.entangledLanes /\ j \in root'.entanglements[i]
    BY DEF IsEntangled
  <2>1. CASE p = q
    BY <2>1, <1>2, <1>3, <1>4, <1>5 DEF TypeOK
  <2>2. CASE p # q
    <3>1. i \in waiting[p] /\ j \in waiting[p] /\ i \in UpdateLanes
      BY <2>2, <1>3 DEF TypeOK
    <3> QED
      BY <3>1, <1>5 DEF IsEntangled
  <2> QED
    BY <2>1, <2>2
<1> QED
  BY <1>6, <1>7, <1>8, <1>9

LEMMA RenderAndCommitIndInv ==
  ASSUME IndInv, NEW lanes \in SUBSET root.pendingLanes, RenderAndCommit(lanes)
  PROVE  IndInv'
<1> DEFINE batch     == GetEntangledLanes(root, lanes)
           remaining == UNION {waiting'[q] : q \in Queues}
<1> USE DEF IndInv
<1>1. /\ waiting' = [q \in Queues |-> waiting[q] \ batch]
      /\ root' = MarkRootFinished(root, remaining)
      /\ queueLanes' = queueLanes
  BY DEF RenderAndCommit
<1> HIDE DEF batch
<1>2. \A q \in Queues : waiting'[q] \subseteq waiting[q] /\ waiting'[q] \subseteq remaining
  BY <1>1
<1>3. remaining \in SUBSET root.pendingLanes
  BY <1>2 DEF PendingIsWaiting
<1>4. root \in Root(UpdateLanes)
  BY DEF TypeOK
<1> HIDE DEF remaining
<1>5. /\ root' \in Root(UpdateLanes)
      /\ root'.pendingLanes = remaining
      /\ root'.entangledLanes = root.entangledLanes \cap remaining
      /\ \A l \in remaining : root'.entanglements[l] = root.entanglements[l]
  BY <1>1, <1>3, <1>4, MarkRootFinishedKeeps
<1>6. TypeOK'
  BY <1>1, <1>2, <1>5 DEF TypeOK
<1>7. KnowsItsLanes'
  BY <1>1, <1>2 DEF KnowsItsLanes
<1>8. PendingIsWaiting'
  BY <1>5 DEF PendingIsWaiting, remaining
<1>9. IsEntangled'
  BY <1>2, <1>5 DEF IsEntangled
<1> QED
  BY <1>6, <1>7, <1>8, <1>9

LEMMA NextIndInv == IndInv /\ [Next]_vars => IndInv'
<1> SUFFICES ASSUME IndInv, [Next]_vars PROVE IndInv'
  OBVIOUS
<1>1. ASSUME NEW q \in Queues, NEW lane \in UpdateLanes, Enqueue(q, lane) PROVE IndInv'
  BY <1>1, EnqueueIndInv
<1>2. ASSUME NEW lanes \in SUBSET root.pendingLanes, RenderAndCommit(lanes) PROVE IndInv'
  BY <1>2, RenderAndCommitIndInv
<1>3. CASE UNCHANGED vars
  BY <1>3 DEF vars, IndInv, TypeOK, KnowsItsLanes, PendingIsWaiting, IsEntangled
<1> QED
  BY <1>1, <1>2, <1>3 DEF Next

\* The lanes of a root and of its queues are lanes in which updates were made.
THEOREM TypeCorrectness == Spec => []TypeOK
<1>1. IndInv => TypeOK
  BY DEF IndInv
<1> QED
  BY <1>1, InitIndInv, NextIndInv, PTL DEF Spec

\* getEntangledLanes never splits the transitions of a queue: a render that applies
\* one of its updates applies all that wait.
THEOREM QueuesAreWhole == Spec => []QueueIsWhole
<1>1. IndInv => QueueIsWhole
  <2> SUFFICES ASSUME IndInv, NEW lanes \in SUBSET root.pendingLanes, NEW q \in Queues,
                      NEW i \in lanes \cap waiting[q], NEW j \in waiting[q]
               PROVE  j \in GetEntangledLanes(root, lanes)
    BY DEF QueueIsWhole
  <2>1. i \in root.entangledLanes /\ j \in root.entanglements[i]
    BY DEF IndInv, IsEntangled
  <2> QED
    BY <2>1 DEF GetEntangledLanes
<1> QED
  BY <1>1, InitIndInv, NextIndInv, PTL DEF Spec
=============================================================================

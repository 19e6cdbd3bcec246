----------------------- MODULE TransitionEntanglement -----------------------
(***************************************************************************)
(* Which transitions render together (DevjsFiberLane.js), when updates of  *)
(* several queues share the lanes of a root.  Every queue remembers the    *)
(* lanes it was updated in, and an update entangles those still pending.   *)
(* Here a batch of lanes is rendered and committed in one step; the way    *)
(* there is in ConcurrentRoot.                                             *)
(***************************************************************************)
EXTENDS FiberLanes

CONSTANTS UpdateLanes,  \* the lanes updates are made in
          Queues        \* the update queues of the tree

ASSUME LanesAssumption == UpdateLanes \subseteq TransitionLanes

VARIABLES root,        \* the lane fields of the root
          queueLanes,  \* shared.lanes of each queue
          waiting      \* the lanes in which each queue has updates

vars == <<root, queueLanes, waiting>>

Init == /\ root = IdleRoot(UpdateLanes)
        /\ queueLanes = [q \in Queues |-> {}]
        /\ waiting = [q \in Queues |-> {}]

\* Mutant: the queue forgets the lanes of its earlier updates.
EnqueueForgetting(q, lane) ==
  LET updated == MarkRootUpdated(root, lane)
  IN /\ queueLanes' = [queueLanes EXCEPT ![q] = {lane}]
     /\ root' = MarkRootEntangled(updated, queueLanes'[q])
     /\ waiting' = [waiting EXCEPT ![q] = @ \cup {lane}]

\* setState in a transition.
Enqueue(q, lane) ==
  LET updated == MarkRootUpdated(root, lane)
  IN /\ queueLanes' =
          [queueLanes EXCEPT ![q] = (@ \cap updated.pendingLanes) \cup {lane}]
     /\ root' = MarkRootEntangled(updated, queueLanes'[q])
     /\ waiting' = [waiting EXCEPT ![q] = @ \cup {lane}]

\* Each queue applies its updates of the batch, and what is left stays pending.
RenderAndCommit(lanes) ==
  /\ waiting' = [q \in Queues |-> waiting[q] \ GetEntangledLanes(root, lanes)]
  /\ root' = MarkRootFinished(root, UNION {waiting'[q] : q \in Queues})
  /\ UNCHANGED queueLanes

Next == \/ \E q \in Queues, lane \in UpdateLanes : Enqueue(q, lane)
        \/ \E lanes \in SUBSET root.pendingLanes \ {{}} : RenderAndCommit(lanes)

Spec == Init /\ [][Next]_vars

-----------------------------------------------------------------------------
(* Properties *)

TypeOK == /\ root \in Root(UpdateLanes)
          /\ queueLanes \in [Queues -> SUBSET UpdateLanes]
          /\ waiting \in [Queues -> SUBSET UpdateLanes]

\* A batch that has one transition of a queue has all of them, though lanes finish,
\* are used again and are shared with other queues.
QueueIsWhole ==
  \A lanes \in SUBSET root.pendingLanes \ {{}}, q \in Queues :
    lanes \cap waiting[q] # {} => waiting[q] \subseteq GetEntangledLanes(root, lanes)
=============================================================================

------------------------- MODULE TaskPriorityQueue -------------------------
(***************************************************************************)
(* What the Scheduler asks of its two queues: a set of nodes from which    *)
(* the least one is taken.  Nodes are ordered by sortIndex and, between    *)
(* equal sort indices, by id, so that tasks of one deadline leave in the   *)
(* order they were inserted.  SchedulerMinHeap implements this module.     *)
(***************************************************************************)
EXTENDS Integers

CONSTANT Node   \* the nodes that may be queued: records with sortIndex and id

VARIABLE queue

(***************************************************************************)
(* The order of compare(): sort index first, then task id.                 *)
(***************************************************************************)
Before(a, b) == \/ a.sortIndex < b.sortIndex
                \/ a.sortIndex = b.sortIndex /\ a.id < b.id

IsLeast(n) == n \in queue /\ \A m \in queue \ {n} : Before(n, m)

Init == queue = {}

Insert(n) == /\ n \notin queue
             /\ queue' = queue \cup {n}

RemoveLeast(n) == /\ IsLeast(n)
                  /\ queue' = queue \ {n}

Next == \E n \in Node : Insert(n) \/ RemoveLeast(n)

Spec == Init /\ [][Next]_queue
=============================================================================

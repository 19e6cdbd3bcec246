------------------------- MODULE SchedulerMinHeap -------------------------
(***************************************************************************)
(* The array heap behind the Scheduler's taskQueue and timerQueue          *)
(* (packages/scheduler/src/SchedulerMinHeap.js).                           *)
(*                                                                         *)
(* push and pop run without interruption, but their sift loops are where   *)
(* the algorithm can go wrong, so each iteration of a loop is a step and   *)
(* phase, index and node are the loop's locals.  The array is a sequence;  *)
(* the code's zero-based position i is position i + 1 here, which makes    *)
(* the parent of i the position i \div 2 and its children 2i and 2i + 1.   *)
(***************************************************************************)
EXTENDS Integers, Sequences

CONSTANTS Ids,          \* task ids
          SortIndices   \* deadlines or start times the nodes are sorted by

ASSUME HeapAssumption == Ids \subseteq Nat /\ SortIndices \subseteq Int

Node == [id : Ids, sortIndex : SortIndices]

VARIABLES heap,    \* the array
          phase,   \* "idle", or the loop that is running
          index,   \* position the loop has reached
          node     \* the node being sifted

vars == <<heap, phase, index, node>>

compare(a, b) ==
  LET diff == a.sortIndex - b.sortIndex
  IN  IF diff # 0 THEN diff ELSE a.id - b.id

Parent(i) == i \div 2
Left(i)   == 2 * i
Right(i)  == 2 * i + 1

\* Mutant: an exchange that forgets one of the two nodes.
SwapHalf(i, j) == [heap EXCEPT ![i] = heap[j]]

Swap(i, j) == [heap EXCEPT ![i] = heap[j], ![j] = heap[i]]

-----------------------------------------------------------------------------
(* push *)

\* Task ids come from a counter, so no two queued nodes share one.
Push(n) ==
  /\ phase = "idle"
  /\ \A i \in 1..Len(heap) : heap[i].id # n.id
  /\ heap'  = Append(heap, n)
  /\ index' = Len(heap) + 1
  /\ node'  = n
  /\ phase' = "siftUp"

SiftUpSwap ==
  /\ phase = "siftUp"
  /\ index > 1
  /\ compare(heap[Parent(index)], node) > 0
  /\ heap'  = Swap(Parent(index), index)
  /\ index' = Parent(index)
  /\ UNCHANGED <<phase, node>>

SiftUpExit ==
  /\ phase = "siftUp"
  /\ index > 1 => ~(compare(heap[Parent(index)], node) > 0)
  /\ phase' = "idle"
  /\ UNCHANGED <<heap, index, node>>

-----------------------------------------------------------------------------
(* pop *)

\* The last element replaces the root and is sifted down; a heap of one
\* element is simply emptied.
Pop ==
  /\ phase = "idle"
  /\ heap # <<>>
  /\ LET last == heap[Len(heap)]
         rest == SubSeq(heap, 1, Len(heap) - 1)
     IN  IF rest = <<>>
         THEN heap' = rest /\ UNCHANGED <<phase, index, node>>
         ELSE /\ heap'  = [rest EXCEPT ![1] = last]
              /\ phase' = "siftDown"
              /\ index' = 1
              /\ node'  = last

InLoop == index <= Len(heap) \div 2

LeftIsSmaller == compare(heap[Left(index)], node) < 0

\* Mutant: the children are not compared with each other.
RightPrecedesNode ==
  /\ Right(index) <= Len(heap)
  /\ compare(heap[Right(index)], node) < 0

\* The right child is the one to swap with: it exists, and is smaller than
\* the left child if that one could move up, or else than the node.
RightWins ==
  /\ Right(index) <= Len(heap)
  /\ IF LeftIsSmaller
     THEN compare(heap[Right(index)], heap[Left(index)]) < 0
     ELSE compare(heap[Right(index)], node) < 0

SiftDownTo(child) ==
  /\ heap'  = Swap(index, child)
  /\ index' = child
  /\ UNCHANGED <<phase, node>>

SiftDownSwap ==
  /\ phase = "siftDown"
  /\ InLoop
  /\ \/ RightWins /\ SiftDownTo(Right(index))
     \/ LeftIsSmaller /\ ~RightWins /\ SiftDownTo(Left(index))

SiftDownExit ==
  /\ phase = "siftDown"
  /\ InLoop => ~LeftIsSmaller /\ ~RightWins
  /\ phase' = "idle"
  /\ UNCHANGED <<heap, index, node>>

-----------------------------------------------------------------------------
Init == /\ heap = <<>>
        /\ phase = "idle"
        /\ index = 1
        /\ node \in Node

Next == \/ \E n \in Node : Push(n)
        \/ SiftUpSwap
        \/ SiftUpExit
        \/ Pop
        \/ SiftDownSwap
        \/ SiftDownExit

Spec == Init /\ [][Next]_vars

-----------------------------------------------------------------------------
(* Properties *)

TypeOK ==
  /\ heap \in Seq(Node)
  /\ phase \in {"idle", "siftUp", "siftDown"}
  /\ index \in Nat \ {0}
  /\ node \in Node

Ordered(i) == ~(compare(heap[Parent(i)], heap[i]) > 0)

\* Between operations no node precedes its parent: what push and pop must
\* re-establish, whatever was in the array.
HeapOrder == phase = "idle" => \A i \in 2..Len(heap) : Ordered(i)

\* What makes HeapOrder inductive: while a node is being sifted the array is
\* a heap everywhere else, and the grandparent and grandchildren around the
\* hole are already in order, so that any swap leaves one hole at most.
GrandparentOrdered ==
  index > 1 =>
    \A c \in 2..Len(heap) :
      Parent(c) = index => ~(compare(heap[Parent(index)], heap[c]) > 0)

SiftUpInv ==
  phase = "siftUp" =>
    /\ index <= Len(heap)
    /\ heap[index] = node
    /\ \A i \in 2..Len(heap) : i # index => Ordered(i)
    /\ GrandparentOrdered

SiftDownInv ==
  phase = "siftDown" =>
    /\ index <= Len(heap)
    /\ heap[index] = node
    /\ \A i \in 2..Len(heap) : Parent(i) # index => Ordered(i)
    /\ GrandparentOrdered

\* The array is a heap between operations, and during one it is a heap but for
\* the node that is being sifted, whichever push and pop brought it there.
HeapInv == TypeOK /\ HeapOrder /\ SiftUpInv /\ SiftDownInv

\* Pushing, popping and sifting neither lose nor copy a node.
DistinctIds == \A i, j \in 1..Len(heap) : heap[i].id = heap[j].id => i = j

\* The inductive invariant.
IndInv == HeapInv /\ DistinctIds

\* The heap is a priority queue of the nodes in its array: push inserts one,
\* pop takes the least one, and a sift step only rearranges them.
PriorityQueue ==
  INSTANCE TaskPriorityQueue WITH queue <- {heap[i] : i \in 1..Len(heap)}

ImplementsPriorityQueue == PriorityQueue!Spec
=============================================================================

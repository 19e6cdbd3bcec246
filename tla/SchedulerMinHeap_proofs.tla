---------------------- MODULE SchedulerMinHeap_proofs ----------------------
(***************************************************************************)
(* The Scheduler's heap keeps its order and is a priority queue for every  *)
(* set of ids and sort indices, hence for heaps of any size.  The order is *)
(* what sifting preserves (HeapInv); that its first node is then the least *)
(* of all takes an induction along the parents (FirstIsLeast), and that    *)
(* the queue loses and gains no other node takes distinct ids.             *)
(***************************************************************************)
EXTENDS SchedulerMinHeap, SequenceLemmas

NotAfter(a, b) == ~(compare(a, b) > 0)

\* What the nodes are sorted by are numbers.
LEMMA NodeNumbers ==
  ASSUME NEW a \in Node
  PROVE  a.sortIndex \in Int /\ a.id \in Int
<1>1. a.sortIndex \in SortIndices /\ a.id \in Ids
  BY DEF Node
<1>2. a.sortIndex \in Int /\ a.id \in Nat
  BY <1>1, HeapAssumption, Zenon
<1> QED
  BY <1>2

\* compare() returns a number that changes sign when its arguments are swapped.
LEMMA CompareSign ==
  ASSUME NEW a \in Node, NEW b \in Node
  PROVE  /\ compare(a, b) > 0 <=> ~NotAfter(a, b)
         /\ compare(a, b) < 0 <=> ~NotAfter(b, a)
         /\ NotAfter(a, b) \/ NotAfter(b, a)
<1>1. a.sortIndex \in Int /\ b.sortIndex \in Int /\ a.id \in Int /\ b.id \in Int
  BY NodeNumbers
<1> QED
  BY <1>1 DEF compare, NotAfter

\* The order it defines is transitive.
LEMMA NotAfterTransitive ==
  ASSUME NEW a \in Node, NEW b \in Node, NEW c \in Node, NotAfter(a, b), NotAfter(b, c)
  PROVE  NotAfter(a, c)
<1>1. /\ a.sortIndex \in Int /\ b.sortIndex \in Int /\ c.sortIndex \in Int
      /\ a.id \in Int /\ b.id \in Int /\ c.id \in Int
  BY NodeNumbers
<1> QED
  BY <1>1 DEF compare, NotAfter

\* Parent and child positions: the children of a position are the two that
\* have it as parent, and a parent comes before its children.
LEMMA Positions ==
  ASSUME NEW i \in Nat \ {0}, NEW c \in Nat \ {0}
  PROVE  /\ i > 1 => Parent(i) \in Nat \ {0} /\ Parent(i) < i
         /\ Parent(c) = i <=> c = Left(i) \/ c = Right(i)
         /\ Left(i) > i /\ Right(i) > i
         /\ Parent(Left(i)) = i /\ Parent(Right(i)) = i
BY DEF Parent, Left, Right

\* Exchanging two elements of the array keeps it an array of nodes of the
\* same length and changes those two positions only.
LEMMA SwapArray ==
  ASSUME heap \in Seq(Node), NEW i \in 1..Len(heap), NEW j \in 1..Len(heap)
  PROVE  /\ Swap(i, j) \in Seq(Node)
         /\ Len(Swap(i, j)) = Len(heap)
         /\ Swap(i, j)[j] = heap[i]
         /\ Swap(i, j)[i] = heap[j]
         /\ \A k \in 1..Len(heap) : k # i /\ k # j => Swap(i, j)[k] = heap[k]
BY DEF Swap

\* The properties of the heap hold initially: the array is empty.
LEMMA InitInv == Init => HeapInv
BY DEF Init, HeapInv, TypeOK, HeapOrder, SiftUpInv, SiftDownInv, Node

\* push appends a node, which becomes the one that may be out of order.
LEMMA PushInv == ASSUME HeapInv, NEW n \in Node, Push(n) PROVE HeapInv'
<1>1. /\ heap \in Seq(Node) /\ heap' = Append(heap, n) /\ index' = Len(heap) + 1
      /\ node' = n /\ phase' = "siftUp"
  BY DEF HeapInv, TypeOK, Push
<1>2. /\ heap' \in Seq(Node) /\ Len(heap') = Len(heap) + 1
      /\ heap'[Len(heap) + 1] = n
      /\ \A k \in 1..Len(heap) : heap'[k] = heap[k]
  BY <1>1
<1>3. TypeOK'
  BY <1>1, <1>2 DEF TypeOK
<1>4. \A i \in 2..Len(heap') : i # index' => Ordered(i)'
  <2>1. SUFFICES ASSUME NEW i \in 2..Len(heap') , i # index'
                 PROVE  ~(compare(heap'[Parent(i)], heap'[i]) > 0)
    BY DEF Ordered
  <2>2. i \in 2..Len(heap)
    BY <2>1, <1>1, <1>2
  <2>3. Parent(i) \in 1..Len(heap)
    BY <2>2, Positions
  <2>4. Ordered(i)
    BY <2>2 DEF HeapInv, HeapOrder, Push
  <2> QED
    BY <2>2, <2>3, <2>4, <1>2 DEF Ordered
<1>5. GrandparentOrdered'
  <2>1. ASSUME NEW c \in 2..Len(heap'), Parent(c) = index' PROVE FALSE
    <3>1. Parent(c) < c /\ c <= Len(heap) + 1
      BY <1>2, Positions
    <3> QED
      BY <3>1, <2>1, <1>1
  <2> QED
    BY <2>1 DEF GrandparentOrdered
<1> QED
  BY <1>1, <1>2, <1>3, <1>4, <1>5 DEF HeapInv, HeapOrder, SiftUpInv, SiftDownInv

\* A step of siftUp moves the hole to the parent's position.
LEMMA SiftUpSwapInv == ASSUME HeapInv, SiftUpSwap PROVE HeapInv'
<1> DEFINE p == Parent(index)
<1>1. /\ heap \in Seq(Node) /\ index \in 2..Len(heap) /\ phase = "siftUp"
      /\ p \in 1..Len(heap) /\ p < index /\ node \in Node /\ heap[index] = node
  BY Positions DEF HeapInv, TypeOK, SiftUpInv, SiftUpSwap
<1>2. /\ heap' = Swap(p, index) /\ index' = p /\ phase' = phase /\ node' = node
      /\ compare(heap[p], node) > 0
  BY DEF SiftUpSwap
<1>3. /\ heap' \in Seq(Node) /\ Len(heap') = Len(heap)
      /\ heap'[p] = node /\ heap'[index] = heap[p]
      /\ \A k \in 1..Len(heap) : k # p /\ k # index => heap'[k] = heap[k]
  BY <1>1, <1>2, SwapArray
<1>4. TypeOK'
  BY <1>1, <1>2, <1>3 DEF TypeOK
<1>5. \A k \in 1..Len(heap) : heap[k] \in Node
  BY <1>1
<1>6. /\ \A i \in 2..Len(heap) : i # index => Ordered(i)
      /\ GrandparentOrdered
  BY <1>1 DEF HeapInv, SiftUpInv
<1>7. \A i \in 2..Len(heap') : i # index' => Ordered(i)'
  <2>1. SUFFICES ASSUME NEW i \in 2..Len(heap), i # p
                 PROVE  ~(compare(heap'[Parent(i)], heap'[i]) > 0)
    BY <1>2, <1>3 DEF Ordered
  <2>2. Parent(i) \in 1..Len(heap) /\ Parent(i) < i
    BY Positions
  <2>3. CASE i = index
    <3>1. heap'[Parent(i)] = node /\ heap'[i] = heap[p]
      BY <2>3, <1>3
    <3>2. ~NotAfter(heap[p], node)
      BY <1>1, <1>2, <1>5, CompareSign
    <3>3. NotAfter(node, heap[p])
      BY <3>2, <1>1, <1>5, CompareSign
    <3> QED
      BY <3>1, <3>3 DEF NotAfter
  <2>4. CASE i # index /\ Parent(i) = index
    <3>1. heap'[Parent(i)] = heap[p] /\ heap'[i] = heap[i]
      BY <2>1, <2>4, <1>3
    <3> QED
      BY <3>1, <2>4, <1>1, <1>6 DEF GrandparentOrdered
  <2>5. CASE i # index /\ Parent(i) = p
    <3>1. heap'[Parent(i)] = node /\ heap'[i] = heap[i]
      BY <2>1, <2>5, <1>3
    <3>2. ~(compare(heap[p], heap[i]) > 0)
      BY <2>1, <2>5, <1>6 DEF Ordered
    <3>3. ~NotAfter(heap[p], node)
      BY <1>1, <1>2, <1>5, CompareSign
    <3>4. NotAfter(node, heap[p]) /\ NotAfter(heap[p], heap[i])
      BY <3>2, <3>3, <1>1, <1>5, CompareSign DEF NotAfter
    <3>5. NotAfter(node, heap[i])
      BY <3>4, <1>1, <1>5, NotAfterTransitive
    <3> QED
      BY <3>1, <3>5 DEF NotAfter
  <2>6. CASE i # index /\ Parent(i) # index /\ Parent(i) # p
    <3>1. heap'[Parent(i)] = heap[Parent(i)] /\ heap'[i] = heap[i]
      BY <2>1, <2>2, <2>6, <1>3
    <3> QED
      BY <3>1, <2>6, <1>6 DEF Ordered
  <2> QED
    BY <2>3, <2>4, <2>5, <2>6
<1>8. GrandparentOrdered'
  <2>1. SUFFICES ASSUME p > 1, NEW c \in 2..Len(heap), Parent(c) = p
                 PROVE  ~(compare(heap'[Parent(p)], heap'[c]) > 0)
    BY <1>2, <1>3 DEF GrandparentOrdered
  <2>2. /\ Parent(p) \in 1..Len(heap) /\ Parent(p) < p /\ p < c
        /\ heap'[Parent(p)] = heap[Parent(p)]
    BY <2>1, <1>1, <1>3, Positions
  <2>3. ~(compare(heap[Parent(p)], heap[p]) > 0)
    BY <2>1, <1>1, <1>6 DEF Ordered
  <2>4. CASE c = index
    BY <2>2, <2>3, <2>4, <1>3
  <2>5. CASE c # index
    <3>1. heap'[c] = heap[c]
      BY <2>2, <2>5, <1>3
    <3>2. ~(compare(heap[p], heap[c]) > 0)
      BY <2>1, <2>5, <1>6 DEF Ordered
    <3>3. NotAfter(heap[Parent(p)], heap[p]) /\ NotAfter(heap[p], heap[c])
      BY <3>2, <2>3 DEF NotAfter
    <3>4. NotAfter(heap[Parent(p)], heap[c])
      BY <3>3, <2>2, <1>1, <1>5, NotAfterTransitive
    <3> QED
      BY <3>1, <3>4, <2>2 DEF NotAfter
  <2> QED
    BY <2>4, <2>5
<1> QED
  BY <1>1, <1>2, <1>3, <1>4, <1>7, <1>8 DEF HeapInv, HeapOrder, SiftUpInv, SiftDownInv

\* siftUp ends where the node is in order with its parent too.
LEMMA SiftUpExitInv == ASSUME HeapInv, SiftUpExit PROVE HeapInv'
<1>1. /\ phase = "siftUp" /\ phase' = "idle" /\ UNCHANGED <<heap, index, node>>
      /\ index > 1 => ~(compare(heap[Parent(index)], node) > 0)
  BY DEF SiftUpExit
<1>2. /\ heap[index] = node
      /\ \A i \in 2..Len(heap) : i # index => Ordered(i)
  BY <1>1 DEF HeapInv, SiftUpInv
<1>3. \A i \in 2..Len(heap) : Ordered(i)
  BY <1>1, <1>2 DEF Ordered
<1> QED
  BY <1>1, <1>3 DEF HeapInv, TypeOK, HeapOrder, SiftUpInv, SiftDownInv, Ordered

\* The first k elements of an array.
LEMMA Prefix ==
  ASSUME NEW s \in Seq(Node), NEW k \in 0..Len(s)
  PROVE  /\ SubSeq(s, 1, k) \in Seq(Node)
         /\ Len(SubSeq(s, 1, k)) = k
         /\ \A i \in 1..k : SubSeq(s, 1, k)[i] = s[i]
<1>1. \A i \in 1..k : s[i] \in Node
  OBVIOUS
<1>2. SubSeq(s, 1, k) \in Seq(Node)
  BY <1>1, SubSeqProperties
<1> QED
  BY <1>2

\* pop leaves a heap in which only the root may be out of order.
LEMMA PopInv == ASSUME HeapInv, Pop PROVE HeapInv'
<1> DEFINE last == heap[Len(heap)]
           rest == SubSeq(heap, 1, Len(heap) - 1)
<1>1. /\ heap \in Seq(Node) /\ Len(heap) \in Nat \ {0} /\ phase = "idle"
      /\ \A i \in 2..Len(heap) : Ordered(i)
  BY DEF HeapInv, TypeOK, HeapOrder, Pop
<1>2. /\ rest \in Seq(Node) /\ Len(rest) = Len(heap) - 1 /\ last \in Node
      /\ \A i \in 1..Len(heap) - 1 : rest[i] = heap[i]
  <2>1. last \in Node
    BY <1>1
  <2> DEFINE k == Len(heap) - 1
  <2>2. k \in 0..Len(heap)
    BY <1>1
  <2>3. /\ SubSeq(heap, 1, k) \in Seq(Node)
        /\ Len(SubSeq(heap, 1, k)) = k
        /\ \A i \in 1..k : SubSeq(heap, 1, k)[i] = heap[i]
    <3> HIDE DEF k
    <3> QED
      BY <1>1, <2>2, Prefix
  <2> QED
    BY <2>1, <2>3
<1>3. CASE rest = <<>>
  <2>1. heap' = <<>> /\ UNCHANGED <<phase, index, node>>
    BY <1>3 DEF Pop
  <2>2. Len(heap') = 0 /\ heap' \in Seq(Node)
    BY <2>1
  <2> QED
    BY <1>1, <2>1, <2>2 DEF HeapInv, TypeOK, HeapOrder, SiftUpInv, SiftDownInv
<1>4. CASE rest # <<>>
  <2>1. /\ heap' = [rest EXCEPT ![1] = last] /\ phase' = "siftDown" /\ index' = 1
        /\ node' = last
    BY <1>4 DEF Pop
  <2>2. 1 \in 1..Len(rest)
    BY <1>1, <1>2, <1>4
  <2>3. /\ heap' \in Seq(Node) /\ Len(heap') = Len(heap) - 1
        /\ heap'[1] = last
        /\ \A i \in 2..Len(heap') : heap'[i] = heap[i]
    <3> HIDE DEF rest, last
    <3>1. heap' \in Seq(Node) /\ Len(heap') = Len(rest)
      BY <1>2, <2>1, <2>2, ExceptSeq
    <3>2. heap'[1] = last /\ \A i \in 2..Len(rest) : heap'[i] = rest[i]
      BY <1>2, <2>1, <2>2, ExceptSeq
    <3> QED
      BY <1>1, <1>2, <3>1, <3>2
  <2>4. \A i \in 2..Len(heap') : Parent(i) # 1 => Ordered(i)'
    <3>1. SUFFICES ASSUME NEW i \in 2..Len(heap'), Parent(i) # 1
                   PROVE  ~(compare(heap'[Parent(i)], heap'[i]) > 0)
      BY DEF Ordered
    <3>2. i \in 2..Len(heap) /\ Parent(i) \in 2..Len(heap')
      BY <1>1, <2>3, <3>1, Positions
    <3> QED
      BY <1>1, <2>3, <3>2 DEF Ordered
  <2>5. 1 <= Len(heap')
    BY <1>2, <2>2, <2>3
  <2> QED
    BY <1>2, <2>1, <2>3, <2>4, <2>5
       DEF HeapInv, TypeOK, HeapOrder, SiftUpInv, SiftDownInv, GrandparentOrdered
<1> QED
  BY <1>3, <1>4

\* A step of siftDown that exchanges the hole with its least child moves the
\* hole to that child's position.
LEMMA SwapWithLeastChild ==
  ASSUME HeapInv, phase = "siftDown", NEW child \in 1..Len(heap), Parent(child) = index,
         NotAfter(heap[child], node),
         \A c \in 2..Len(heap) : Parent(c) = index => NotAfter(heap[child], heap[c]),
         SiftDownTo(child)
  PROVE  HeapInv'
<1>1. /\ heap \in Seq(Node) /\ index \in 1..Len(heap) /\ node \in Node /\ heap[index] = node
      /\ child > index
      /\ \A i \in 2..Len(heap) : Parent(i) # index => Ordered(i)
      /\ GrandparentOrdered
  <2>1. /\ heap \in Seq(Node) /\ index \in 1..Len(heap) /\ node \in Node /\ heap[index] = node
        /\ \A i \in 2..Len(heap) : Parent(i) # index => Ordered(i)
        /\ GrandparentOrdered
    BY DEF HeapInv, TypeOK, SiftDownInv
  <2> QED
    BY <2>1, Positions
<1>2. /\ heap' = Swap(index, child) /\ index' = child /\ phase' = "siftDown" /\ node' = node
  BY DEF SiftDownTo
<1>3. /\ heap' \in Seq(Node) /\ Len(heap') = Len(heap)
      /\ heap'[child] = node /\ heap'[index] = heap[child]
      /\ \A k \in 1..Len(heap) : k # index /\ k # child => heap'[k] = heap[k]
  BY <1>1, <1>2, SwapArray
<1>4. TypeOK'
  BY <1>1, <1>2, <1>3 DEF TypeOK
<1>5. \A i \in 2..Len(heap') : Parent(i) # index' => Ordered(i)'
  <2>1. SUFFICES ASSUME NEW i \in 2..Len(heap), Parent(i) # child
                 PROVE  NotAfter(heap'[Parent(i)], heap'[i])
    BY <1>2, <1>3 DEF Ordered, NotAfter
  <2>2. Parent(i) \in 1..Len(heap) /\ Parent(i) < i
    BY Positions
  <2>3. CASE i = child
    BY <1>3, <2>3
  <2>4. CASE i # child /\ Parent(i) = index
    <3>1. heap'[Parent(i)] = heap[child] /\ heap'[i] = heap[i]
      BY <1>3, <2>2, <2>4
    <3> QED
      BY <2>4, <3>1
  <2>5. CASE i = index
    <3>1. heap'[Parent(i)] = heap[Parent(index)] /\ heap'[i] = heap[child]
      BY <1>1, <1>3, <2>2, <2>5
    <3>2. child \in 2..Len(heap) /\ index > 1
      BY <1>1, <2>5
    <3> QED
      BY <1>1, <3>1, <3>2 DEF GrandparentOrdered, NotAfter
  <2>6. CASE i # child /\ i # index /\ Parent(i) # index
    <3>1. heap'[Parent(i)] = heap[Parent(i)] /\ heap'[i] = heap[i]
      BY <1>3, <2>1, <2>2, <2>6
    <3> QED
      BY <1>1, <2>6, <3>1 DEF Ordered, NotAfter
  <2> QED
    BY <2>3, <2>4, <2>5, <2>6
<1>6. GrandparentOrdered'
  <2>1. SUFFICES ASSUME NEW c \in 2..Len(heap), Parent(c) = child
                 PROVE  ~(compare(heap'[index], heap'[c]) > 0)
    BY <1>2, <1>3 DEF GrandparentOrdered
  <2>2. c # index /\ c # child /\ c \in 1..Len(heap)
    BY <1>1, <2>1, Positions
  <2>3. heap'[index] = heap[child] /\ heap'[c] = heap[c]
    BY <1>3, <2>2
  <2>4. Ordered(c)
    BY <1>1, <2>1
  <2> QED
    BY <2>1, <2>3, <2>4 DEF Ordered
<1> QED
  BY <1>1, <1>2, <1>3, <1>4, <1>5, <1>6 DEF HeapInv, HeapOrder, SiftUpInv, SiftDownInv

\* The child siftDown chooses is the least one, and precedes the node.
LEMMA SiftDownSwapInv == ASSUME HeapInv, SiftDownSwap PROVE HeapInv'
<1> DEFINE l == Left(index)
           r == Right(index)
<1>1. /\ heap \in Seq(Node) /\ index \in 1..Len(heap) /\ node \in Node
      /\ phase = "siftDown" /\ InLoop
  BY DEF HeapInv, TypeOK, SiftDownInv, SiftDownSwap
<1>2. /\ l \in 1..Len(heap) /\ r \in Nat
      /\ Parent(l) = index /\ Parent(r) = index
      /\ \A c \in 2..Len(heap) : Parent(c) = index => c = l \/ c = r
  <2>1. 2 * index <= Len(heap)
    BY <1>1 DEF InLoop
  <2>2. l \in 1..Len(heap) /\ r \in Nat
    BY <1>1, <2>1 DEF Left, Right
  <2> QED
    BY <1>1, <2>2, Positions
<1>3. \A k \in 1..Len(heap) : heap[k] \in Node
  BY <1>1
<1>4. CASE RightWins /\ SiftDownTo(r)
  <2>1. r \in 1..Len(heap)
    BY <1>1, <1>4 DEF RightWins, Right
  <2>2. heap[l] \in Node /\ heap[r] \in Node
    BY <1>2, <1>3, <2>1
  <2>3. NotAfter(heap[r], node) /\ NotAfter(heap[r], heap[l])
    <3>1. CASE LeftIsSmaller
      <4>1. compare(heap[r], heap[l]) < 0 /\ compare(heap[l], node) < 0
        BY <1>4, <3>1 DEF RightWins, LeftIsSmaller
      <4>2. NotAfter(heap[r], heap[l]) /\ NotAfter(heap[l], node)
        BY <1>1, <2>2, <4>1, CompareSign
      <4> QED
        BY <1>1, <2>2, <4>2, NotAfterTransitive
    <3>2. CASE ~LeftIsSmaller
      <4>1. compare(heap[r], node) < 0 /\ ~(compare(heap[l], node) < 0)
        BY <1>4, <3>2 DEF RightWins, LeftIsSmaller
      <4>2. NotAfter(heap[r], node) /\ NotAfter(node, heap[l])
        BY <1>1, <2>2, <4>1, CompareSign
      <4> QED
        BY <1>1, <2>2, <4>2, NotAfterTransitive
    <3> QED
      BY <3>1, <3>2
  <2>4. NotAfter(heap[r], heap[r])
    BY <2>2, CompareSign
  <2>5. \A c \in 2..Len(heap) : Parent(c) = index => NotAfter(heap[r], heap[c])
    BY <1>2, <2>3, <2>4
  <2> QED
    BY <1>1, <1>2, <1>4, <2>1, <2>3, <2>5, SwapWithLeastChild
<1>5. CASE LeftIsSmaller /\ ~RightWins /\ SiftDownTo(l)
  <2>1. NotAfter(heap[l], node) /\ NotAfter(heap[l], heap[l])
    BY <1>1, <1>2, <1>3, <1>5, CompareSign DEF LeftIsSmaller
  <2>2. r \in 1..Len(heap) => NotAfter(heap[l], heap[r])
    <3>1. r \in 1..Len(heap) => ~(compare(heap[r], heap[l]) < 0)
      BY <1>5 DEF RightWins
    <3> QED
      BY <1>2, <1>3, <3>1, CompareSign
  <2>3. \A c \in 2..Len(heap) : Parent(c) = index => NotAfter(heap[l], heap[c])
    BY <1>2, <2>1, <2>2
  <2> QED
    BY <1>1, <1>2, <1>5, <2>1, <2>3, SwapWithLeastChild
<1> QED
  BY <1>4, <1>5 DEF SiftDownSwap

\* siftDown ends where the node is in order with its children too.
LEMMA SiftDownExitInv == ASSUME HeapInv, SiftDownExit PROVE HeapInv'
<1>1. /\ phase' = "idle" /\ UNCHANGED <<heap, index, node>>
      /\ InLoop => ~LeftIsSmaller /\ ~RightWins
  BY DEF SiftDownExit
<1>2. /\ heap \in Seq(Node) /\ index \in 1..Len(heap) /\ node \in Node /\ heap[index] = node
      /\ \A i \in 2..Len(heap) : Parent(i) # index => Ordered(i)
  BY DEF HeapInv, TypeOK, SiftDownInv, SiftDownExit
<1>3. ASSUME NEW c \in 2..Len(heap), Parent(c) = index
      PROVE  NotAfter(node, heap[c])
  <2>1. (c = Left(index) \/ c = Right(index)) /\ heap[c] \in Node
    BY <1>2, <1>3, Positions
  <2>2. InLoop
    BY <1>2, <2>1 DEF InLoop, Left, Right
  <2>3. ~(compare(heap[c], node) < 0)
    BY <1>1, <2>1, <2>2 DEF LeftIsSmaller, RightWins
  <2> QED
    BY <1>2, <2>1, <2>3, CompareSign
<1>4. \A i \in 2..Len(heap) : Ordered(i)
  BY <1>2, <1>3 DEF Ordered, NotAfter
<1> QED
  BY <1>1, <1>4 DEF HeapInv, TypeOK, HeapOrder, SiftUpInv, SiftDownInv, Ordered

LEMMA StepInv == HeapInv /\ [Next]_vars => HeapInv'
<1> SUFFICES ASSUME HeapInv, [Next]_vars PROVE HeapInv'
  OBVIOUS
<1>1. CASE \E n \in Node : Push(n)
  BY <1>1, PushInv
<1>2. CASE SiftUpSwap
  BY <1>2, SiftUpSwapInv
<1>3. CASE SiftUpExit
  BY <1>3, SiftUpExitInv
<1>4. CASE Pop
  BY <1>4, PopInv
<1>5. CASE SiftDownSwap
  BY <1>5, SiftDownSwapInv
<1>6. CASE SiftDownExit
  BY <1>6, SiftDownExitInv
<1>7. CASE UNCHANGED vars
  BY <1>7 DEF vars, HeapInv, TypeOK, HeapOrder, SiftUpInv, SiftDownInv, Ordered,
              GrandparentOrdered
<1> QED
  BY <1>1, <1>2, <1>3, <1>4, <1>5, <1>6, <1>7 DEF Next

-----------------------------------------------------------------------------
(* The heap as a queue *)

\* What is sifted up or down is exchanged with another node; the rest stays.
LEMMA SiftSwaps ==
  ASSUME HeapInv, SiftUpSwap \/ SiftDownSwap
  PROVE  \E i, j \in 1..Len(heap) : heap' = Swap(i, j)
<1>1. CASE SiftUpSwap
  <2>1. index \in 2..Len(heap) /\ Parent(index) \in 1..Len(heap)
    BY <1>1, Positions DEF HeapInv, TypeOK, SiftUpInv, SiftUpSwap
  <2> QED
    BY <1>1, <2>1 DEF SiftUpSwap
<1>2. CASE SiftDownSwap
  <2>1. /\ heap \in Seq(Node) /\ index \in 1..Len(heap) /\ Left(index) \in 1..Len(heap)
    BY <1>2 DEF HeapInv, TypeOK, SiftDownInv, SiftDownSwap, InLoop, Left
  <2>2. RightWins => Right(index) \in 1..Len(heap)
    BY <2>1 DEF RightWins, Right, Left
  <2> QED
    BY <1>2, <2>1, <2>2 DEF SiftDownSwap, SiftDownTo
<1> QED
  BY <1>1, <1>2

Nodes(array) == {array[i] : i \in 1..Len(array)}

\* An exchange keeps the nodes of the array, each at one position.
LEMMA SwapKeepsNodes ==
  ASSUME HeapInv, DistinctIds, NEW i \in 1..Len(heap), NEW j \in 1..Len(heap),
         heap' = Swap(i, j)
  PROVE  DistinctIds' /\ Nodes(heap') = Nodes(heap)
<1>1. /\ heap \in Seq(Node) /\ Len(heap') = Len(heap)
      /\ heap'[j] = heap[i] /\ heap'[i] = heap[j]
      /\ \A k \in 1..Len(heap) : k # i /\ k # j => heap'[k] = heap[k]
  BY SwapArray DEF HeapInv, TypeOK
<1> DEFINE old(k) == IF k = i THEN j ELSE IF k = j THEN i ELSE k
<1>2. \A k \in 1..Len(heap) : old(k) \in 1..Len(heap) /\ old(old(k)) = k /\ heap'[k] = heap[old(k)]
  BY <1>1
<1> HIDE DEF old
<1>3. DistinctIds'
  BY <1>1, <1>2, SMTT(30) DEF DistinctIds
<1>4. Nodes(heap') = Nodes(heap)
  <2>1. Nodes(heap') \subseteq Nodes(heap)
    BY <1>1, <1>2 DEF Nodes
  <2>2. ASSUME NEW k \in 1..Len(heap)
        PROVE  heap[k] \in Nodes(heap')
    BY <1>1, <1>2 DEF Nodes
  <2> QED
    BY <2>1, <2>2 DEF Nodes
<1> QED
  BY <1>3, <1>4

\* The node at the root of a heap is the least: every other one comes no earlier than
\* its parent, which is nearer to the root.
LEMMA FirstIsLeast ==
  ASSUME HeapInv, phase = "idle", NEW i \in 1..Len(heap)
  PROVE  NotAfter(heap[1], heap[i])
<1> DEFINE T == {k \in 1..Len(heap) : ~NotAfter(heap[1], heap[k])}
<1> SUFFICES ASSUME T # {} PROVE FALSE
  OBVIOUS
<1>1. /\ heap \in Seq(Node) /\ \A k \in 1..Len(heap) : heap[k] \in Node
      /\ \A k \in 2..Len(heap) : Ordered(k)
  BY DEF HeapInv, TypeOK, HeapOrder
<1>2. PICK x \in T : \A y \in T : x <= y
  <2>1. T \subseteq Nat
    OBVIOUS
  <2> HIDE DEF T
  <2> QED
    BY <2>1, LeastElement
<1>3. x \in 2..Len(heap)
  <2>1. NotAfter(heap[1], heap[1])
    BY <1>1, CompareSign
  <2> QED
    BY <2>1
<1>4. Parent(x) \in 1..Len(heap) /\ Parent(x) < x
  BY <1>3, Positions
<1>5. NotAfter(heap[1], heap[Parent(x)])
  BY <1>2, <1>4
<1>6. NotAfter(heap[Parent(x)], heap[x])
  BY <1>1, <1>3 DEF Ordered, NotAfter
<1>7. NotAfter(heap[1], heap[x])
  BY <1>1, <1>3, <1>4, <1>5, <1>6, NotAfterTransitive
<1> QED
  BY <1>7

\* pop takes the first node out of the array.
LEMMA PopKeepsNodes ==
  ASSUME HeapInv, DistinctIds, Pop
  PROVE  DistinctIds' /\ Nodes(heap') = Nodes(heap) \ {heap[1]} /\ heap[1] \in Nodes(heap)
<1> DEFINE last == heap[Len(heap)]
           rest == SubSeq(heap, 1, Len(heap) - 1)
<1>1. /\ heap \in Seq(Node) /\ Len(heap) \in Nat \ {0}
      /\ Len(rest) = Len(heap) - 1 /\ rest \in Seq(Node)
      /\ \A i \in 1..Len(heap) - 1 : rest[i] = heap[i]
  <2>1. heap \in Seq(Node) /\ Len(heap) \in Nat \ {0}
    BY DEF HeapInv, TypeOK, Pop
  <2> DEFINE k == Len(heap) - 1
  <2>2. k \in 0..Len(heap)
    BY <2>1
  <2>3. /\ SubSeq(heap, 1, k) \in Seq(Node)
        /\ Len(SubSeq(heap, 1, k)) = k
        /\ \A i \in 1..k : SubSeq(heap, 1, k)[i] = heap[i]
    <3> HIDE DEF k
    <3> QED
      BY <2>1, <2>2, Prefix
  <2> QED
    BY <2>1, <2>3
<1>2. CASE rest = <<>>
  <2>1. heap' = <<>>
    BY <1>2 DEF Pop
  <2>2. Len(rest) = 0
    BY <1>2
  <2> HIDE DEF rest, last
  <2>3. Len(heap) = 1 /\ Len(heap') = 0
    BY <1>1, <2>1, <2>2
  <2> QED
    BY <2>3 DEF Nodes, DistinctIds
<1>3. CASE rest # <<>>
  <2>1. /\ heap' = [rest EXCEPT ![1] = last] /\ 1 \in 1..Len(rest)
    BY <1>1, <1>3 DEF Pop
  <2> HIDE DEF rest
  <2>2. /\ Len(heap') = Len(heap) - 1 /\ heap'[1] = last
        /\ \A i \in 2..Len(heap') : heap'[i] = heap[i]
    BY <1>1, <2>1, ExceptSeq
  <2> DEFINE old(k) == IF k = 1 THEN Len(heap) ELSE k
  <2>3. \A k \in 1..Len(heap') : old(k) \in 2..Len(heap) /\ heap'[k] = heap[old(k)]
    BY <1>1, <2>1, <2>2
  <2>4. \A k \in 2..Len(heap) : \E n \in 1..Len(heap') : old(n) = k
    <3> SUFFICES ASSUME NEW k \in 2..Len(heap) PROVE \E n \in 1..Len(heap') : old(n) = k
      OBVIOUS
    <3>1. CASE k = Len(heap)
      BY <1>1, <2>1, <2>2, <3>1
    <3>2. CASE k # Len(heap)
      BY <1>1, <2>1, <2>2, <3>2
    <3> QED
      BY <3>1, <3>2
  <2>5. \A k, n \in 1..Len(heap') : old(k) = old(n) => k = n
    BY <1>1, <2>1, <2>2
  <2> HIDE DEF old
  <2>6. DistinctIds'
    BY <2>3, <2>5, SMTT(30) DEF DistinctIds
  <2>7. \A k \in 2..Len(heap) : heap[k] # heap[1]
    BY <1>1 DEF DistinctIds
  <2>8. Nodes(heap') = {heap[k] : k \in 2..Len(heap)}
    BY <2>3, <2>4 DEF Nodes
  <2>9. Nodes(heap) = {heap[k] : k \in 2..Len(heap)} \cup {heap[1]}
    BY <1>1 DEF Nodes
  <2> QED
    BY <2>6, <2>7, <2>8, <2>9
<1> QED
  BY <1>2, <1>3

LEMMA PushKeepsNodes ==
  ASSUME HeapInv, DistinctIds, NEW n \in Node, Push(n)
  PROVE  DistinctIds' /\ Nodes(heap') = Nodes(heap) \cup {n} /\ n \notin Nodes(heap)
<1>1. /\ heap \in Seq(Node) /\ Len(heap) \in Nat /\ Len(heap') = Len(heap) + 1
      /\ heap'[Len(heap) + 1] = n
      /\ \A k \in 1..Len(heap) : heap'[k] = heap[k] /\ heap[k].id # n.id
  BY DEF HeapInv, TypeOK, Push
<1>2. DistinctIds'
  BY <1>1 DEF DistinctIds
<1>3. Nodes(heap') = Nodes(heap) \cup {n}
  BY <1>1 DEF Nodes
<1> QED
  BY <1>1, <1>2, <1>3 DEF Nodes

LEMMA StepIndInv == IndInv /\ [Next]_vars => IndInv'
<1> SUFFICES ASSUME HeapInv, DistinctIds, [Next]_vars PROVE DistinctIds'
  BY StepInv DEF IndInv
<1>1. CASE \E n \in Node : Push(n)
  BY <1>1, PushKeepsNodes
<1>2. CASE SiftUpSwap \/ SiftDownSwap
  BY <1>2, SiftSwaps, SwapKeepsNodes
<1>3. CASE SiftUpExit \/ SiftDownExit
  BY <1>3 DEF SiftUpExit, SiftDownExit, DistinctIds
<1>4. CASE Pop
  BY <1>4, PopKeepsNodes
<1>5. CASE UNCHANGED vars
  BY <1>5 DEF vars, DistinctIds
<1> QED
  BY <1>1, <1>2, <1>3, <1>4, <1>5 DEF Next

\* The array stays well formed, no node is lost or copied, and in the middle of a sift
\* it is a heap everywhere but around the node that is being sifted (siftUp and
\* siftDown).
THEOREM Invariance == Spec => []IndInv
<1>1. Init => IndInv
  BY InitInv DEF IndInv, DistinctIds, Init
<1>2. IndInv /\ [Next]_vars => IndInv'
  BY StepIndInv
<1> QED
  BY <1>1, <1>2, PTL DEF Spec

\* push and pop leave a heap: no node precedes its parent, however many nodes
\* there are (siftUp and siftDown).
THEOREM HeapOrderHolds == Spec => []HeapOrder
<1>1. IndInv => HeapOrder
  BY DEF IndInv, HeapInv
<1> QED
  BY <1>1, Invariance, PTL

\* Every step is one of the queue of nodes, or changes nothing in it.
LEMMA StepSimulation ==
  ASSUME IndInv, [Next]_vars
  PROVE  [PriorityQueue!Next]_(Nodes(heap))
<1>1. HeapInv /\ DistinctIds
  BY DEF IndInv
<1>2. CASE \E n \in Node : Push(n)
  <2>1. PICK n \in Node : Push(n)
    BY <1>2
  <2>2. Nodes(heap') = Nodes(heap) \cup {n} /\ n \notin Nodes(heap)
    BY <1>1, <2>1, PushKeepsNodes
  <2>3. PriorityQueue!Insert(n)
    BY <2>2 DEF PriorityQueue!Insert, Nodes
  <2> QED
    BY <2>3 DEF PriorityQueue!Next
<1>3. CASE SiftUpSwap \/ SiftDownSwap
  BY <1>1, <1>3, SiftSwaps, SwapKeepsNodes
<1>4. CASE SiftUpExit \/ SiftDownExit \/ UNCHANGED vars
  BY <1>4 DEF SiftUpExit, SiftDownExit, vars, Nodes
<1>5. CASE Pop
  <2>1. Nodes(heap') = Nodes(heap) \ {heap[1]} /\ heap[1] \in Nodes(heap)
    BY <1>1, <1>5, PopKeepsNodes
  <2>2. phase = "idle" /\ heap \in Seq(Node) /\ 1 \in 1..Len(heap)
    BY <1>1, <1>5 DEF HeapInv, TypeOK, Pop
  <2>3. ASSUME NEW m \in Nodes(heap) \ {heap[1]}
        PROVE  PriorityQueue!Before(heap[1], m)
    <3>1. PICK i \in 1..Len(heap) : m = heap[i] /\ i # 1
      BY <2>3 DEF Nodes
    <3>2. NotAfter(heap[1], m) /\ heap[1].id # m.id
      BY <1>1, <2>2, <3>1, FirstIsLeast DEF DistinctIds
    <3>3. /\ heap[1].sortIndex \in Int /\ heap[1].id \in Int
          /\ m.sortIndex \in Int /\ m.id \in Int
      BY <2>2, <3>1, NodeNumbers
    <3> QED
      BY <3>2, <3>3 DEF NotAfter, compare, PriorityQueue!Before
  <2>4. PriorityQueue!IsLeast(heap[1])
    BY <2>1, <2>3 DEF PriorityQueue!IsLeast, Nodes
  <2>5. PICK n \in Node : n = heap[1]
    BY <2>2
  <2>6. PriorityQueue!RemoveLeast(n)
    BY <2>1, <2>4, <2>5 DEF PriorityQueue!RemoveLeast, PriorityQueue!IsLeast, Nodes
  <2>7. \E m \in Node : PriorityQueue!RemoveLeast(m)
    BY <2>6
  <2> QED
    BY <2>7 DEF PriorityQueue!Next
<1> QED
  BY <1>2, <1>3, <1>4, <1>5 DEF Next

\* push inserts a node and pop takes the least one: SchedulerMinHeap.js implements a
\* priority queue, however many nodes it has.
THEOREM Refinement == Spec => ImplementsPriorityQueue
<1>1. Init => PriorityQueue!Init
  BY DEF Init, PriorityQueue!Init
<1>2. IndInv /\ [Next]_vars => [PriorityQueue!Next]_({heap[i] : i \in 1..Len(heap)})
  BY StepSimulation DEF Nodes
<1> QED
  BY <1>1, <1>2, Invariance, PTL DEF Spec, ImplementsPriorityQueue, PriorityQueue!Spec
=============================================================================

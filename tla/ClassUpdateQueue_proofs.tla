---------------------- MODULE ClassUpdateQueue_proofs ----------------------
(***************************************************************************)
(* The update queue loses no update, shows them in the order in which they *)
(* were made and calls each callback once, for any number of updates in    *)
(* any lanes: THEOREMS NothingIsLost, BatchesAreWhole, ExactLanes and      *)
(* Refinement.                                                             *)
(*                                                                         *)
(* What a fiber knows of the updates is in its base state, its base queue  *)
(* and the two queues it shares, and together these are the updates 1, 2,  *)
(* 3, ... up to the last one made, in that order, wherever a render is     *)
(* interrupted (IsWhole).  Processing a queue moves the border between     *)
(* base state and base queue, and keeps the numbering (Process).           *)
(***************************************************************************)
EXTENDS ClassUpdateQueue, SequenceLemmas

-----------------------------------------------------------------------------
(* processUpdateQueue *)

LEMMA NoLaneIsNone ==
  /\ NoLane \notin UpdateLanes
  /\ \A lanes \in SUBSET UpdateLanes : NoLane \notin lanes
  BY LanesAssumption DEF NoLane, Lane

\* The border between what is applied for good and what stays in the base queue.
LEMMA FirstSkippedFact ==
  ASSUME NEW queue \in Seq(Update), NEW lanes
  PROVE  /\ FirstSkipped(queue, lanes) \in 1..Len(queue) + 1
         /\ \A i \in 1..FirstSkipped(queue, lanes) - 1 : ~Skips(lanes, queue[i])
<1> DEFINE T == {i \in 1..Len(queue) : Skips(lanes, queue[i])}
           P(n) == /\ n = Len(queue) + 1 \/ Skips(lanes, queue[n])
                   /\ \A i \in 1..n-1 : ~Skips(lanes, queue[i])
<1>1. Len(queue) \in Nat
  OBVIOUS
<1>2. \E n \in 1..Len(queue) + 1 : P(n)
  <2>1. CASE T = {}
    <3>1. P(Len(queue) + 1)
      BY <1>1, <2>1
    <3> QED
      BY <1>1, <3>1
  <2>2. CASE T # {}
    <3>1. PICK x \in T : \A y \in T : x <= y
      <4>1. T \subseteq Nat
        OBVIOUS
      <4> HIDE DEF T
      <4> QED
        BY <2>2, <4>1, LeastElement
    <3>2. P(x) /\ x \in 1..Len(queue) + 1
      BY <1>1, <3>1
    <3> QED
      BY <3>2
  <2> QED
    BY <2>1, <2>2
<1>3. FirstSkipped(queue, lanes) = CHOOSE n \in 1..Len(queue) + 1 : P(n)
  BY DEF FirstSkipped
<1> HIDE DEF P
<1>4. FirstSkipped(queue, lanes) \in 1..Len(queue) + 1 /\ P(FirstSkipped(queue, lanes))
  BY <1>2, <1>3
<1> QED
  BY <1>4 DEF P

\* The ids of a queue.
LEMMA IdsOfQueue ==
  ASSUME NEW queue \in Seq(Update)
  PROVE  /\ Ids(queue) \in Seq(Id) /\ Len(Ids(queue)) = Len(queue)
         /\ \A i \in 1..Len(queue) : Ids(queue)[i] = queue[i].id /\ queue[i].id \in Id
         /\ Elements(Ids(queue)) = {u.id : u \in Elements(queue)}
<1>1. DOMAIN queue = 1..Len(queue) /\ Len(queue) \in Nat
  OBVIOUS
<1>2. \A i \in 1..Len(queue) : queue[i].id \in Id
  <2>1. \A i \in 1..Len(queue) : queue[i] \in Update
    OBVIOUS
  <2> QED
    BY <2>1 DEF Update
<1>3. Ids(queue) = [i \in 1..Len(queue) |-> queue[i].id]
  BY <1>1 DEF Ids
<1>4. Ids(queue) \in Seq(Id) /\ Len(Ids(queue)) = Len(queue) /\ DOMAIN Ids(queue) = 1..Len(queue)
  BY <1>1, <1>2, <1>3
<1> QED
  BY <1>1, <1>2, <1>3, <1>4 DEF Elements

Numbered(queue) == \A i, j \in 1..Len(queue) : i < j => queue[i].id < queue[j].id

\* Filtering a queue keeps the order of its ids.
LEMMA OnlyOfQueue ==
  ASSUME NEW queue \in Seq(Update), NEW T, Numbered(queue)
  PROVE  /\ Only(queue, T) \in Seq(Update) /\ Numbered(Only(queue, T))
         /\ Increasing(Ids(Only(queue, T)))
         /\ Elements(Ids(Only(queue, T))) = {u.id : u \in Elements(queue) \cap T}
<1> DEFINE t == Only(queue, T)
<1>1. t \in Seq(Update) /\ \E e : Keeps(e, t, queue, Len(queue), T)
  BY OnlyKeeps
<1>2. Elements(t) = Elements(queue) \cap T
  BY OnlyElements
<1> HIDE DEF t
<1>3. PICK e : Keeps(e, t, queue, Len(queue), T)
  BY <1>1
<1>4. Numbered(t)
  <2> SUFFICES ASSUME NEW i \in 1..Len(t), NEW j \in 1..Len(t), i < j
               PROVE  t[i].id < t[j].id
    BY DEF Numbered
  <2>1. /\ e[i] \in 1..Len(queue) /\ e[j] \in 1..Len(queue) /\ e[i] < e[j]
        /\ t[i] = queue[e[i]] /\ t[j] = queue[e[j]]
    BY <1>3 DEF Keeps
  <2> QED
    BY <2>1 DEF Numbered
<1>5. Increasing(Ids(t))
  <2>1. /\ DOMAIN Ids(t) = 1..Len(t)
        /\ \A i \in 1..Len(t) : Ids(t)[i] = t[i].id
    BY <1>1, IdsOfQueue
  <2> QED
    BY <1>4, <2>1 DEF Numbered, Increasing
<1>6. Elements(Ids(t)) = {u.id : u \in Elements(queue) \cap T}
  BY <1>1, <1>2, IdsOfQueue
<1> QED
  BY <1>1, <1>4, <1>5, <1>6 DEF t
\* The updates of a base state and of the queue after it are numbered from 1.
Counts(base, queue) ==
  /\ \A i \in 1..Len(base) : base[i] = i
  /\ \A i \in 1..Len(queue) : /\ queue[i].id = Len(base) + i
                              /\ queue[i].callback <=> queue[i].lane # NoLane

UnappliedIds(queue) == {u.id : u \in Unapplied(queue)}

UnappliedAt(base, queue) ==
  {Len(base) + i : i \in {j \in 1..Len(queue) : queue[j].lane # NoLane}}

LEMMA UnappliedIdsByPosition ==
  ASSUME NEW base \in Seq(Id), NEW queue \in Seq(Update), Counts(base, queue)
  PROVE  UnappliedIds(queue) = UnappliedAt(base, queue)
<1>1. DOMAIN queue = 1..Len(queue)
  OBVIOUS
<1>2. \A i \in 1..Len(queue) : queue[i].id = Len(base) + i
  BY DEF Counts
<1>3. \A u : u \in Unapplied(queue) <=> \E i \in 1..Len(queue) : u = queue[i] /\ u.lane # NoLane
  BY <1>1 DEF Unapplied, Elements
<1> QED
  BY <1>2, <1>3 DEF UnappliedIds, UnappliedAt

LanesAt(queue) == {queue[i].lane : i \in 1..Len(queue)}

LEMMA LanesByPosition ==
  ASSUME NEW queue \in Seq(Update)
  PROVE  LanesOf(queue) = LanesAt(queue)
<1>1. DOMAIN queue = 1..Len(queue)
  OBVIOUS
<1> QED
  BY <1>1 DEF LanesOf, LanesAt, Elements

LEMMA RebasedUpdate ==
  ASSUME NEW u \in Update, NEW lanes
  PROVE  /\ Rebased(lanes, u) \in Update /\ Rebased(lanes, u).id = u.id
         /\ Rebased(lanes, u).lane # NoLane <=> Skips(lanes, u)
         /\ Skips(lanes, u) => Rebased(lanes, u) = u /\ u.lane # NoLane /\ u.lane \notin lanes
         /\ ~Skips(lanes, u) => Rebased(lanes, u).callback = FALSE
  BY DEF Rebased, Update, Skips

\* The base queue that is left: the k updates before it became part of the base state.
IsRebased(newBase, newQueue, base, queue, lanes, k) ==
  /\ newBase \in Seq(Id) /\ Len(newBase) = Len(base) + k
  /\ \A i \in 1..Len(base) : newBase[i] = base[i]
  /\ \A i \in 1..k : newBase[Len(base) + i] = queue[i].id
  /\ newQueue \in Seq(Update) /\ Len(newQueue) = Len(queue) - k
  /\ \A i \in 1..Len(newQueue) : newQueue[i] = Rebased(lanes, queue[k + i])

LEMMA RebasedQueue ==
  ASSUME NEW base \in Seq(Id), NEW queue \in Seq(Update), NEW lanes \in SUBSET UpdateLanes,
         Counts(base, queue),
         NEW k \in 0..Len(queue), \A i \in 1..k : ~Skips(lanes, queue[i]),
         NEW newBase, NEW newQueue, IsRebased(newBase, newQueue, base, queue, lanes, k)
  PROVE  /\ Counts(newBase, newQueue)
         /\ UnappliedIds(newQueue)
              = {Len(base) + i : i \in {j \in 1..Len(queue) : Skips(lanes, queue[j])}}
         /\ LanesOf(newQueue) \ {NoLane}
              = {queue[i].lane : i \in {j \in 1..Len(queue) : Skips(lanes, queue[j])}}
         /\ LanesOf(newQueue) \cap lanes = {}
<1>0. /\ newBase \in Seq(Id) /\ Len(newBase) = Len(base) + k
      /\ \A i \in 1..Len(base) : newBase[i] = base[i]
      /\ \A i \in 1..k : newBase[Len(base) + i] = queue[i].id
      /\ newQueue \in Seq(Update) /\ Len(newQueue) = Len(queue) - k
      /\ \A i \in 1..Len(newQueue) : newQueue[i] = Rebased(lanes, queue[k + i])
  BY DEF IsRebased
<1>1. Len(base) \in Nat /\ Len(queue) \in Nat /\ Len(newQueue) \in Nat /\ k \in Nat
  BY <1>0
<1>2. ASSUME NEW i \in 1..Len(newQueue)
      PROVE  /\ k + i \in 1..Len(queue) /\ queue[k + i] \in Update
             /\ newQueue[i] = Rebased(lanes, queue[k + i])
             /\ newQueue[i].id = queue[k + i].id
             /\ newQueue[i].lane # NoLane <=> Skips(lanes, queue[k + i])
             /\ Skips(lanes, queue[k + i]) =>
                  newQueue[i] = queue[k + i] /\ queue[k + i].lane \notin lanes
             /\ ~Skips(lanes, queue[k + i]) => newQueue[i].callback = FALSE
  <2>1. k + i \in 1..Len(queue)
    BY <1>0, <1>1
  <2>2. PICK u \in Update : u = queue[k + i]
    BY <2>1
  <2>3. newQueue[i] = Rebased(lanes, u)
    BY <1>0, <2>2
  <2>4. /\ Rebased(lanes, u).id = u.id
        /\ Rebased(lanes, u).lane # NoLane <=> Skips(lanes, u)
        /\ Skips(lanes, u) => Rebased(lanes, u) = u /\ u.lane \notin lanes
        /\ ~Skips(lanes, u) => Rebased(lanes, u).callback = FALSE
    BY RebasedUpdate
  <2> QED
    BY <2>1, <2>2, <2>3, <2>4, Zenon
<1>3. ASSUME NEW j \in 1..Len(queue), Skips(lanes, queue[j])
      PROVE  j - k \in 1..Len(newQueue) /\ k + (j - k) = j
  <2>1. j \notin 1..k
    BY <1>3
  <2> QED
    BY <1>0, <1>1, <2>1
<1>4. ASSUME NEW i \in 1..Len(newBase)
      PROVE  newBase[i] = i
  <2>1. CASE i \in 1..Len(base)
    BY <1>0, <2>1 DEF Counts
  <2>2. CASE i \notin 1..Len(base)
    <3>1. i - Len(base) \in 1..k /\ i = Len(base) + (i - Len(base))
      BY <1>0, <1>1, <2>2
    <3>2. i - Len(base) \in 1..Len(queue)
      BY <1>0, <1>1, <3>1
    <3> QED
      BY <1>0, <3>1, <3>2 DEF Counts
  <2> QED
    BY <2>1, <2>2
<1>5. ASSUME NEW i \in 1..Len(newQueue)
      PROVE  newQueue[i].id = Len(newBase) + i
  <2>1. queue[k + i].id = Len(base) + (k + i)
    BY <1>2 DEF Counts
  <2>2. newQueue[i].id = queue[k + i].id
    BY <1>2, Zenon
  <2> QED
    BY <1>0, <1>1, <2>1, <2>2
<1>6. ASSUME NEW i \in 1..Len(newQueue)
      PROVE  newQueue[i].callback <=> newQueue[i].lane # NoLane
  <2>1. queue[k + i].callback <=> queue[k + i].lane # NoLane
    BY <1>2 DEF Counts
  <2>2. CASE Skips(lanes, queue[k + i])
    BY <1>2, <2>1, <2>2
  <2>3. CASE ~Skips(lanes, queue[k + i])
    BY <1>2, <2>3
  <2> QED
    BY <2>2, <2>3
<1>7. Counts(newBase, newQueue)
  BY <1>4, <1>5, <1>6 DEF Counts
<1>8. UnappliedIds(newQueue)
        = {Len(base) + i : i \in {j \in 1..Len(queue) : Skips(lanes, queue[j])}}
  <2>1. UnappliedIds(newQueue) = UnappliedAt(newBase, newQueue)
    BY <1>0, <1>7, UnappliedIdsByPosition
  <2>2. ASSUME NEW i \in 1..Len(newQueue), newQueue[i].lane # NoLane
        PROVE  Len(newBase) + i
                 \in {Len(base) + j : j \in {j \in 1..Len(queue) : Skips(lanes, queue[j])}}
    <3>1. Len(newBase) + i = Len(base) + (k + i)
      BY <1>0, <1>1
    <3>2. k + i \in 1..Len(queue) /\ Skips(lanes, queue[k + i])
      BY <1>2, <2>2
    <3> QED
      BY <3>1, <3>2
  <2>3. ASSUME NEW j \in 1..Len(queue), Skips(lanes, queue[j])
        PROVE  Len(base) + j \in UnappliedAt(newBase, newQueue)
    <3>1. j - k \in 1..Len(newQueue) /\ k + (j - k) = j
      BY <1>3, <2>3
    <3>2. newQueue[j - k].lane # NoLane
      BY <1>2, <2>3, <3>1
    <3>3. Len(base) + j = Len(newBase) + (j - k)
      BY <1>0, <1>1
    <3> QED
      BY <3>1, <3>2, <3>3 DEF UnappliedAt
  <2> QED
    BY <2>1, <2>2, <2>3 DEF UnappliedAt
<1>9. LanesOf(newQueue) \ {NoLane}
        = {queue[i].lane : i \in {j \in 1..Len(queue) : Skips(lanes, queue[j])}}
  <2>1. LanesOf(newQueue) = LanesAt(newQueue)
    BY <1>0, LanesByPosition
  <2>2. ASSUME NEW i \in 1..Len(newQueue), newQueue[i].lane # NoLane
        PROVE  \E j \in 1..Len(queue) : Skips(lanes, queue[j]) /\ newQueue[i].lane = queue[j].lane
    BY <1>2, <2>2
  <2>3. ASSUME NEW j \in 1..Len(queue), Skips(lanes, queue[j])
        PROVE  queue[j].lane # NoLane /\ queue[j].lane \in LanesAt(newQueue)
    <3>1. j - k \in 1..Len(newQueue) /\ k + (j - k) = j
      BY <1>3, <2>3
    <3>2. newQueue[j - k] = queue[k + (j - k)]
      BY <1>2, <2>3, <3>1
    <3> QED
      BY <2>3, <3>1, <3>2 DEF Skips, LanesAt
  <2>4. ASSUME NEW l \in LanesAt(newQueue), l # NoLane
        PROVE  \E j \in 1..Len(queue) : Skips(lanes, queue[j]) /\ l = queue[j].lane
    <3>1. PICK i \in 1..Len(newQueue) : l = newQueue[i].lane
      BY DEF LanesAt
    <3> QED
      BY <2>2, <2>4, <3>1
  <2> QED
    BY <2>1, <2>3, <2>4
<1>10. LanesOf(newQueue) \cap lanes = {}
  <2>1. ASSUME NEW i \in 1..Len(newQueue) PROVE newQueue[i].lane \notin lanes
    <3>1. CASE Skips(lanes, queue[k + i])
      BY <1>2, <3>1
    <3>2. CASE ~Skips(lanes, queue[k + i])
      <4>1. newQueue[i].lane = NoLane
        BY <1>2, <3>2
      <4>2. NoLane \notin lanes
        BY NoLaneIsNone
      <4> QED
        BY <4>1, <4>2
    <3> QED
      BY <3>1, <3>2
  <2>2. LanesOf(newQueue) = LanesAt(newQueue)
    BY <1>0, LanesByPosition
  <2> QED
    BY <2>1, <2>2 DEF LanesAt
<1> QED
  BY <1>7, <1>8, <1>9, <1>10

\* The result of processing a queue.
IsProcessed(r, fiber, queue, lanes) ==
  /\ r \in Fiber
  /\ Counts(r.baseState, r.baseQueue)
  /\ Len(r.baseState) + Len(r.baseQueue) = Len(fiber.baseState) + Len(queue)
  /\ r.lanes = LanesOf(r.baseQueue) \ {NoLane}
  /\ LanesOf(r.baseQueue) \cap lanes = {}
  /\ UnappliedIds(r.baseQueue) \subseteq UnappliedIds(queue)
  /\ Increasing(r.memoizedState)
  /\ Elements(r.memoizedState)
       = (1..Len(fiber.baseState) + Len(queue)) \ UnappliedIds(r.baseQueue)
  /\ Increasing(r.callbacks)
  /\ Elements(r.callbacks) = UnappliedIds(queue) \ UnappliedIds(r.baseQueue)

\* The updates of a queue that satisfy a condition, by position.
LEMMA IdsByPosition ==
  ASSUME NEW base \in Seq(Id), NEW queue \in Seq(Update), Counts(base, queue), NEW T
  PROVE  {u.id : u \in Elements(queue) \cap T}
           = {Len(base) + i : i \in {j \in 1..Len(queue) : queue[j] \in T}}
<1>1. DOMAIN queue = 1..Len(queue) /\ \A i \in 1..Len(queue) : queue[i].id = Len(base) + i
  BY DEF Counts
<1> QED
  BY <1>1 DEF Elements

LEMMA CountsIsNumbered ==
  ASSUME NEW base \in Seq(Id), NEW queue \in Seq(Update), Counts(base, queue)
  PROVE  Numbered(queue) /\ Increasing(base) /\ Elements(base) = 1..Len(base)
<1>1. Len(base) \in Nat /\ Len(queue) \in Nat /\ DOMAIN base = 1..Len(base)
  OBVIOUS
<1>2. Numbered(queue)
  BY <1>1 DEF Counts, Numbered
<1>3. Increasing(base)
  BY <1>1 DEF Counts, Increasing
<1>4. Elements(base) = 1..Len(base)
  BY <1>1 DEF Counts, Elements
<1> QED
  BY <1>2, <1>3, <1>4

LEMMA Process ==
  ASSUME NEW fiber \in Fiber, NEW queue \in Seq(Update), NEW lanes \in SUBSET UpdateLanes,
         Counts(fiber.baseState, queue)
  PROVE  IsProcessed(ProcessUpdateQueue(fiber, queue, lanes), fiber, queue, lanes)
<1> DEFINE r     == ProcessUpdateQueue(fiber, queue, lanes)
           base  == fiber.baseState
           first == FirstSkipped(queue, lanes)
           k     == first - 1
           head  == SubSeq(queue, 1, first - 1)
           rest  == SubSeq(queue, first, Len(queue))
           newQueue == [i \in DOMAIN rest |-> Rebased(lanes, rest[i])]
           newBase  == base \o Ids(head)
           kept     == {u \in Elements(queue) : ~Skips(lanes, u)}
           applied  == Only(queue, kept)
           calling  == {u \in Elements(queue) : u.callback}
           calls    == Only(applied, calling)
           skipped  == {j \in 1..Len(queue) : Skips(lanes, queue[j])}
<1>1. r = [baseState |-> newBase, baseQueue |-> newQueue,
           memoizedState |-> base \o Ids(applied),
           lanes |-> {u.lane : u \in {v \in Elements(queue) : Skips(lanes, v)}},
           callbacks |-> Ids(calls)]
  BY Zenon DEF ProcessUpdateQueue, Applied
<1>2. /\ base \in Seq(Id) /\ Len(base) \in Nat /\ Len(queue) \in Nat
      /\ \A i \in 1..Len(queue) : queue[i] \in Update
      /\ DOMAIN queue = 1..Len(queue)
  BY DEF Fiber
<1>3. /\ first \in 1..Len(queue) + 1 /\ k \in 0..Len(queue)
      /\ \A i \in 1..k : ~Skips(lanes, queue[i])
  BY <1>2, FirstSkippedFact
<1>4. Counts(base, queue)
  OBVIOUS
<1> HIDE DEF first, r, base
<1>5. head \in Seq(Update) /\ Len(head) = k /\ \A i \in 1..k : head[i] = queue[i]
  BY <1>2, <1>3
<1>6. /\ rest \in Seq(Update) /\ Len(rest) = Len(queue) - k /\ DOMAIN rest = 1..Len(rest)
      /\ \A i \in 1..Len(rest) : rest[i] = queue[k + i] /\ rest[i] \in Update
  BY <1>2, <1>3, SMTT(30)
<1> HIDE DEF head, rest
<1>7. /\ newQueue \in Seq(Update) /\ Len(newQueue) = Len(queue) - k
      /\ \A i \in 1..Len(newQueue) : newQueue[i] = Rebased(lanes, queue[k + i])
  <2>1. \A i \in 1..Len(rest) : Rebased(lanes, rest[i]) \in Update
    BY <1>6, RebasedUpdate
  <2>2. Len(rest) \in Nat
    BY <1>6
  <2>3. newQueue \in Seq(Update) /\ Len(newQueue) = Len(rest)
    BY <1>6, <2>1, <2>2
  <2> QED
    BY <1>6, <2>3
<1>8. /\ newBase \in Seq(Id) /\ Len(newBase) = Len(base) + k
      /\ \A i \in 1..Len(base) : newBase[i] = base[i]
      /\ \A i \in 1..k : newBase[Len(base) + i] = queue[i].id
  <2>1. /\ Ids(head) \in Seq(Id) /\ Len(Ids(head)) = k
        /\ \A i \in 1..k : Ids(head)[i] = queue[i].id
    BY <1>5, IdsOfQueue
  <2> DEFINE ids == Ids(head)
  <2>2. /\ ids \in Seq(Id) /\ Len(ids) = k
        /\ \A i \in 1..k : ids[i] = queue[i].id
    BY <2>1
  <2> HIDE DEF ids, k, newBase, newQueue, kept, applied, calling, calls, skipped
  <2>3. /\ base \o ids \in Seq(Id) /\ Len(base \o ids) = Len(base) + Len(ids)
        /\ \A i \in 1..Len(base) : (base \o ids)[i] = base[i]
        /\ \A i \in 1..Len(ids) : (base \o ids)[Len(base) + i] = ids[i]
        /\ Elements(base \o ids) = Elements(base) \cup Elements(ids)
    BY <1>2, <2>2, Concatenation, ZenonT(60)
  <2> QED
    BY <2>2, <2>3 DEF ids, newBase
<1> HIDE DEF newQueue, newBase, k, kept, applied, calling, calls
<1>9. /\ Counts(newBase, newQueue)
      /\ UnappliedIds(newQueue) = {Len(base) + i : i \in skipped}
      /\ LanesOf(newQueue) \ {NoLane} = {queue[i].lane : i \in skipped}
      /\ LanesOf(newQueue) \cap lanes = {}
  <2>1. IsRebased(newBase, newQueue, base, queue, lanes, k)
    BY <1>7, <1>8, Zenon DEF IsRebased
  <2> QED
    BY <1>2, <1>3, <1>4, <2>1, RebasedQueue
<1>10. Numbered(queue) /\ Increasing(base) /\ Elements(base) = 1..Len(base)
  BY <1>2, <1>4, CountsIsNumbered
<1>11. /\ applied \in Seq(Update) /\ Numbered(applied) /\ Increasing(Ids(applied))
       /\ Ids(applied) \in Seq(Id)
       /\ Elements(applied) = Elements(queue) \cap kept
       /\ Elements(Ids(applied)) = {Len(base) + i : i \in 1..Len(queue) \ skipped}
  <2> USE DEF kept, applied
  <2>1. /\ applied \in Seq(Update) /\ Numbered(applied) /\ Increasing(Ids(applied))
        /\ Elements(Ids(applied)) = {u.id : u \in Elements(queue) \cap kept}
    BY <1>10, OnlyOfQueue
  <2>2. {u.id : u \in Elements(queue) \cap kept}
          = {Len(base) + i : i \in {j \in 1..Len(queue) : queue[j] \in kept}}
    BY <1>2, <1>4, IdsByPosition, ZenonT(60)
  <2>3. {j \in 1..Len(queue) : queue[j] \in kept} = 1..Len(queue) \ skipped
    BY <1>2 DEF Elements
  <2>4. Elements(applied) = Elements(queue) \cap kept
    BY OnlyElements
  <2> HIDE DEF applied, kept, skipped
  <2>5. Ids(applied) \in Seq(Id)
    BY <2>1, IdsOfQueue
  <2> QED
    BY <2>1, <2>2, <2>3, <2>4, <2>5
<1>12. /\ calls \in Seq(Update) /\ Increasing(Ids(calls)) /\ Ids(calls) \in Seq(Id)
       /\ Elements(Ids(calls)) = {u.id : u \in Elements(queue) \cap (kept \cap calling)}
  <2> USE DEF kept, calling, calls
  <2>1. /\ calls \in Seq(Update) /\ Increasing(Ids(calls))
        /\ Elements(Ids(calls)) = {u.id : u \in Elements(applied) \cap calling}
    BY <1>11, OnlyOfQueue
  <2>2. Ids(calls) \in Seq(Id)
    <3> HIDE DEF calls
    <3> QED
      BY <2>1, IdsOfQueue
  <2>3. Elements(applied) \cap calling = Elements(queue) \cap (kept \cap calling)
    BY <1>11
  <2> QED
    BY <2>1, <2>2, <2>3
<1>13. Elements(Ids(calls)) = UnappliedIds(queue) \ UnappliedIds(newQueue)
  <2> USE DEF kept, calling
  <2>1. {u.id : u \in Elements(queue) \cap (kept \cap calling)}
          = {Len(base) + i : i \in {j \in 1..Len(queue) : queue[j] \in kept \cap calling}}
    <3> HIDE DEF kept, calling
    <3> QED
      BY <1>2, <1>4, IdsByPosition, ZenonT(60)
  <2>2. \A j \in 1..Len(queue) : queue[j].callback <=> queue[j].lane # NoLane
    BY <1>4 DEF Counts
  <2>3. {j \in 1..Len(queue) : queue[j] \in kept \cap calling}
          = {j \in 1..Len(queue) : queue[j].lane # NoLane} \ skipped
    <3>1. \A j \in 1..Len(queue) : queue[j] \in Elements(queue)
      BY <1>2 DEF Elements
    <3>2. \A j \in 1..Len(queue) : queue[j] \in kept \cap calling <=>
            queue[j].lane # NoLane /\ ~Skips(lanes, queue[j])
      BY <2>2, <3>1, Zenon
    <3> QED
      BY <3>2
  <2>4. UnappliedIds(queue) = UnappliedAt(base, queue)
    BY <1>2, <1>4, UnappliedIdsByPosition
  <2> DEFINE unapplied == {j \in 1..Len(queue) : queue[j].lane # NoLane}
  <2>5. UnappliedIds(queue) = {Len(base) + i : i \in unapplied}
    BY <2>4 DEF UnappliedAt
  <2>6. Elements(Ids(calls)) = {Len(base) + i : i \in unapplied \ skipped}
    BY <1>12, <2>1, <2>3
  <2>7. unapplied \subseteq 1..Len(queue) /\ skipped \subseteq 1..Len(queue)
    OBVIOUS
  <2> HIDE DEF unapplied, skipped
  <2> QED
    BY <1>2, <1>9, <2>5, <2>6, <2>7
<1>14. UnappliedIds(newQueue) \subseteq UnappliedIds(queue)
  <2>1. UnappliedIds(queue) = UnappliedAt(base, queue)
    BY <1>2, <1>4, UnappliedIdsByPosition
  <2>2. \A j \in skipped : queue[j].lane # NoLane
    BY DEF Skips
  <2> QED
    BY <1>9, <2>1, <2>2 DEF UnappliedAt
<1>15. /\ base \o Ids(applied) \in Seq(Id) /\ Increasing(base \o Ids(applied))
       /\ Elements(base \o Ids(applied))
            = (1..Len(base) + Len(queue)) \ UnappliedIds(newQueue)
  <2> DEFINE ids == Ids(applied)
  <2>1. /\ ids \in Seq(Id) /\ Increasing(ids)
        /\ Elements(ids) = {Len(base) + i : i \in 1..Len(queue) \ skipped}
    BY <1>11
  <2> HIDE DEF ids
  <2>2. /\ base \o ids \in Seq(Id) /\ Len(base \o ids) = Len(base) + Len(ids)
        /\ \A i \in 1..Len(base) : (base \o ids)[i] = base[i]
        /\ \A i \in 1..Len(ids) : (base \o ids)[Len(base) + i] = ids[i]
        /\ Elements(base \o ids) = Elements(base) \cup Elements(ids)
    BY <1>2, <2>1, Concatenation
  <2>3. Elements(base \o ids) = (1..Len(base) + Len(queue)) \ UnappliedIds(newQueue)
    <3>1. skipped \subseteq 1..Len(queue)
      OBVIOUS
    <3> HIDE DEF skipped
    <3>2. /\ UnappliedIds(newQueue) = {Len(base) + i : i \in skipped}
          /\ Elements(base \o ids)
               = 1..Len(base) \cup {Len(base) + i : i \in 1..Len(queue) \ skipped}
      BY <1>9, <1>10, <2>1, <2>2
    <3>3. ASSUME NEW x \in 1..Len(base) + Len(queue), x \notin 1..Len(base)
          PROVE  x - Len(base) \in 1..Len(queue) /\ x = Len(base) + (x - Len(base))
      BY <1>2, <3>3
    <3>4. ASSUME NEW x \in 1..Len(base) + Len(queue), x \notin UnappliedIds(newQueue)
          PROVE  x \in Elements(base \o ids)
      BY <1>2, <3>2, <3>3, <3>4
    <3>5. ASSUME NEW x \in Elements(base \o ids)
          PROVE  x \in 1..Len(base) + Len(queue) /\ x \notin UnappliedIds(newQueue)
      <4>1. CASE x \in 1..Len(base)
        BY <1>2, <3>1, <3>2, <4>1
      <4>2. CASE x \notin 1..Len(base)
        <5>1. PICK i \in 1..Len(queue) \ skipped : x = Len(base) + i
          BY <3>2, <3>5, <4>2
        <5> QED
          BY <1>2, <3>1, <3>2, <5>1
      <4> QED
        BY <4>1, <4>2
    <3> QED
      BY <3>4, <3>5
  <2>4. ASSUME NEW i \in 1..Len(base) + Len(ids), NEW j \in 1..Len(base) + Len(ids), i < j
        PROVE  (base \o ids)[i] < (base \o ids)[j]
    <3>1. Len(ids) \in Nat /\ DOMAIN ids = 1..Len(ids)
      BY <2>1
    <3>2. \A m \in 1..Len(base) : (base \o ids)[m] = m
      BY <1>4, <2>2 DEF Counts
    <3>3. CASE j \in 1..Len(base)
      BY <1>2, <2>4, <3>1, <3>2, <3>3
    <3>4. CASE j \notin 1..Len(base)
      <4>1. j - Len(base) \in 1..Len(ids) /\ j = Len(base) + (j - Len(base))
        BY <1>2, <3>1, <3>4
      <4>2. (base \o ids)[j] = ids[j - Len(base)]
        BY <2>2, <4>1
      <4>3. \A m \in 1..Len(ids) : ids[m] \in Elements(ids)
        BY <3>1 DEF Elements
      <4>4. PICK n \in 1..Len(queue) : ids[j - Len(base)] = Len(base) + n
        BY <2>1, <4>1, <4>3
      <4>5. CASE i \in 1..Len(base)
        BY <1>2, <3>2, <4>2, <4>4, <4>5
      <4>6. CASE i \notin 1..Len(base)
        <5>1. i - Len(base) \in 1..Len(ids) /\ i = Len(base) + (i - Len(base))
          BY <1>2, <3>1, <4>6
        <5>2. (base \o ids)[i] = ids[i - Len(base)]
          BY <2>2, <5>1
        <5>3. i - Len(base) < j - Len(base)
          BY <1>2, <2>4, <3>1
        <5> QED
          BY <2>1, <3>1, <4>1, <4>2, <5>1, <5>2, <5>3 DEF Increasing
      <4> QED
        BY <4>5, <4>6
    <3> QED
      BY <3>3, <3>4
  <2>5. Increasing(base \o ids)
    <3>1. DOMAIN (base \o ids) = 1..Len(base) + Len(ids)
      BY <2>2
    <3> QED
      BY <2>4, <3>1 DEF Increasing
  <2> QED
    BY <2>2, <2>3, <2>5 DEF ids
<1>16. {u.lane : u \in {v \in Elements(queue) : Skips(lanes, v)}} = LanesOf(newQueue) \ {NoLane}
  <2>1. {u.lane : u \in {v \in Elements(queue) : Skips(lanes, v)}}
          = {queue[i].lane : i \in skipped}
    BY <1>2 DEF Elements
  <2> QED
    BY <1>9, <2>1
<1>17. LanesOf(newQueue) \ {NoLane} \subseteq UpdateLanes
  <2>1. \A i \in skipped : queue[i].lane \in UpdateLanes
    BY <1>2 DEF Skips, Update
  <2> QED
    BY <1>9, <2>1
<1> HIDE DEF skipped
<1>18. r \in Fiber
  BY <1>1, <1>7, <1>8, <1>12, <1>15, <1>16, <1>17 DEF Fiber
<1>19. /\ r.baseState = newBase /\ r.baseQueue = newQueue
       /\ r.memoizedState = base \o Ids(applied)
       /\ r.lanes = LanesOf(newQueue) \ {NoLane}
       /\ r.callbacks = Ids(calls)
  BY <1>1, <1>16
<1>20. Len(newBase) + Len(newQueue) = Len(base) + Len(queue)
  BY <1>2, <1>3, <1>7, <1>8
<1>21. /\ Counts(newBase, newQueue) /\ LanesOf(newQueue) \cap lanes = {}
       /\ UnappliedIds(newQueue) \subseteq UnappliedIds(queue)
       /\ Increasing(base \o Ids(applied)) /\ Increasing(Ids(calls))
       /\ Elements(base \o Ids(applied))
            = (1..Len(base) + Len(queue)) \ UnappliedIds(newQueue)
       /\ Elements(Ids(calls)) = UnappliedIds(queue) \ UnappliedIds(newQueue)
  BY <1>9, <1>12, <1>13, <1>14, <1>15
<1>22. IsProcessed(r, fiber, queue, lanes)
  BY <1>18, <1>19, <1>20, <1>21, Zenon DEF IsProcessed, base
<1> QED
  BY <1>22 DEF r

-----------------------------------------------------------------------------
(* Queues one after the other, and the fibers that have them *)

LEMMA JoinedQueues ==
  ASSUME NEW a \in Seq(Update), NEW b \in Seq(Update)
  PROVE  /\ a \o b \in Seq(Update)
         /\ UnappliedIds(a \o b) = UnappliedIds(a) \cup UnappliedIds(b)
         /\ LanesOf(a \o b) = LanesOf(a) \cup LanesOf(b)
<1>1. a \o b \in Seq(Update) /\ Elements(a \o b) = Elements(a) \cup Elements(b)
  BY Concatenation
<1> DEFINE ab == a \o b
<1> HIDE DEF ab
<1>2. Elements(ab) = Elements(a) \cup Elements(b)
  BY <1>1 DEF ab
<1>3. Unapplied(ab) = Unapplied(a) \cup Unapplied(b)
  BY <1>2 DEF Unapplied
<1> QED
  BY <1>1, <1>2, <1>3 DEF UnappliedIds, LanesOf, ab

LEMMA EmptyQueue ==
  /\ <<>> \in Seq(Update) /\ UnappliedIds(<<>>) = {} /\ LanesOf(<<>>) = {}
  /\ \A a \in Seq(Update) : a \o <<>> = a /\ <<>> \o a = a
<1>1. Elements(<<>>) = {}
  BY DEF Elements
<1>2. UnappliedIds(<<>>) = {} /\ LanesOf(<<>>) = {}
  BY <1>1 DEF UnappliedIds, Unapplied, LanesOf
<1> QED
  BY <1>2

LEMMA JoinedInTurn ==
  ASSUME NEW a \in Seq(Update), NEW b \in Seq(Update), NEW c \in Seq(Update)
  PROVE  a \o (b \o c) = (a \o b) \o c
  OBVIOUS

\* What is joined counts on.
LEMMA CountsOn ==
  ASSUME NEW base \in Seq(Id), NEW a \in Seq(Update), NEW b \in Seq(Update)
  PROVE  Counts(base, a \o b) <=>
           /\ Counts(base, a)
           /\ \A i \in 1..Len(b) : /\ b[i].id = Len(base) + Len(a) + i
                                   /\ b[i].callback <=> b[i].lane # NoLane
<1> DEFINE ab == a \o b
<1>1. /\ ab \in Seq(Update) /\ Len(ab) = Len(a) + Len(b)
      /\ \A i \in 1..Len(a) : ab[i] = a[i]
      /\ \A i \in 1..Len(b) : ab[Len(a) + i] = b[i]
  BY Concatenation
<1>2. Len(a) \in Nat /\ Len(b) \in Nat /\ Len(base) \in Nat
  OBVIOUS
<1> HIDE DEF ab
<1>3. ASSUME Counts(base, ab)
      PROVE  /\ Counts(base, a)
             /\ \A i \in 1..Len(b) : /\ b[i].id = Len(base) + Len(a) + i
                                     /\ b[i].callback <=> b[i].lane # NoLane
  <2>1. ASSUME NEW i \in 1..Len(a)
        PROVE  a[i].id = Len(base) + i /\ (a[i].callback <=> a[i].lane # NoLane)
    <3>1. i \in 1..Len(ab) /\ ab[i] = a[i]
      <4>1. ab[i] = a[i]
        BY <1>1
      <4>2. i \in 1..Len(ab)
        BY <1>1, <1>2
      <4> QED
        BY <4>1, <4>2
    <3>2. ab[i].id = Len(base) + i /\ (ab[i].callback <=> ab[i].lane # NoLane)
      BY <1>3, <3>1 DEF Counts
    <3> QED
      BY <3>1, <3>2, Zenon
  <2>2. ASSUME NEW i \in 1..Len(b)
        PROVE  b[i].id = Len(base) + Len(a) + i /\ (b[i].callback <=> b[i].lane # NoLane)
    <3>1. Len(a) + i \in 1..Len(ab) /\ b[i] = ab[Len(a) + i]
          /\ Len(base) + Len(a) + i = Len(base) + (Len(a) + i)
      BY <1>1, <1>2
    <3> DEFINE k == Len(a) + i
    <3>2. ab[k].id = Len(base) + k /\ (ab[k].callback <=> ab[k].lane # NoLane)
      BY <1>3, <3>1 DEF Counts
    <3> QED
      BY <3>1, <3>2, Zenon
  <2>3. \A i \in 1..Len(base) : base[i] = i
    BY <1>3 DEF Counts
  <2> QED
    BY <2>1, <2>2, <2>3 DEF Counts
<1>4. ASSUME Counts(base, a),
             \A i \in 1..Len(b) : /\ b[i].id = Len(base) + Len(a) + i
                                  /\ b[i].callback <=> b[i].lane # NoLane
      PROVE  Counts(base, ab)
  <2>1. ASSUME NEW i \in 1..Len(ab)
        PROVE  ab[i].id = Len(base) + i /\ (ab[i].callback <=> ab[i].lane # NoLane)
    <3>1. CASE i \in 1..Len(a)
      <4>1. a[i].id = Len(base) + i /\ (a[i].callback <=> a[i].lane # NoLane)
        BY <1>4, <3>1 DEF Counts
      <4>2. ab[i] = a[i]
        BY <1>1, <3>1
      <4> QED
        BY <4>1, <4>2, Zenon
    <3>2. CASE i \notin 1..Len(a)
      <4>1. PICK k \in 1..Len(b) : i = Len(a) + k
        <5>1. i - Len(a) \in 1..Len(b) /\ i = Len(a) + (i - Len(a))
          BY <1>1, <1>2, <3>2
        <5> QED
          BY <5>1
      <4>2. b[k].id = Len(base) + i
        BY <1>2, <1>4, <4>1
      <4>3. b[k].callback <=> b[k].lane # NoLane
        BY <1>4
      <4>4. ab[i] = b[k]
        BY <1>1, <4>1
      <4> QED
        BY <4>2, <4>3, <4>4, Zenon
    <3> QED
      BY <3>1, <3>2
  <2>2. \A i \in 1..Len(base) : base[i] = i
    BY <1>4 DEF Counts
  <2> QED
    BY <2>1, <2>2 DEF Counts
<1> QED
  BY <1>3, <1>4 DEF ab

LEMMA WholeCounts ==
  ASSUME NEW fiber \in Fiber, NEW waiting \in Seq(Update), NEW n \in Nat
  PROVE  IsWhole(fiber, waiting, n) <=>
           /\ Len(fiber.baseState) + Len(waiting) = n
           /\ Counts(fiber.baseState, waiting)
           /\ Increasing(fiber.memoizedState)
           /\ Elements(fiber.memoizedState) = (1..n) \ UnappliedIds(waiting)
<1>1. DOMAIN fiber.baseState = 1..Len(fiber.baseState) /\ DOMAIN waiting = 1..Len(waiting)
  BY DEF Fiber
<1> QED
  BY <1>1, Zenon DEF IsWhole, Counts, UnappliedIds

\* A fiber that is as it was but for its lanes and callbacks has one more update waiting.
LEMMA OneMoreUpdate ==
  ASSUME NEW fiber \in Fiber, NEW waiting \in Seq(Update), NEW n \in Nat,
         IsWhole(fiber, waiting, n),
         NEW u \in Update, u.id = n + 1, u.callback = TRUE, u.lane # NoLane,
         NEW next \in Fiber, next.baseState = fiber.baseState,
         next.memoizedState = fiber.memoizedState
  PROVE  IsWhole(next, waiting \o <<u>>, n + 1) /\ LanesOf(<<u>>) = {u.lane}
<1> DEFINE one == <<u>>
<1>1. /\ one \in Seq(Update) /\ Len(one) = 1 /\ one[1] = u /\ Elements(one) = {u}
  BY DEF Elements
<1>2. UnappliedIds(one) = {n + 1} /\ LanesOf(one) = {u.lane}
  BY <1>1 DEF UnappliedIds, Unapplied, LanesOf
<1> HIDE DEF one
<1>3. /\ Len(fiber.baseState) + Len(waiting) = n
      /\ Counts(fiber.baseState, waiting)
      /\ Increasing(fiber.memoizedState)
      /\ Elements(fiber.memoizedState) = (1..n) \ UnappliedIds(waiting)
  BY WholeCounts
<1> DEFINE more == waiting \o one
           length == Len(fiber.baseState)
<1>4. /\ more \in Seq(Update) /\ Len(more) = Len(waiting) + 1
      /\ UnappliedIds(more) = UnappliedIds(waiting) \cup {n + 1}
  <2>1. UnappliedIds(more) = UnappliedIds(waiting) \cup UnappliedIds(one)
    BY <1>1, JoinedQueues
  <2>2. /\ more \in Seq(Update) /\ Len(more) = Len(waiting) + Len(one)
        /\ \A i \in 1..Len(waiting) : more[i] = waiting[i]
        /\ \A i \in 1..Len(one) : more[Len(waiting) + i] = one[i]
        /\ Elements(more) = Elements(waiting) \cup Elements(one)
    <3>1. one \in Seq(Update)
      BY <1>1
    <3> QED
      BY <3>1, Concatenation
  <2> HIDE DEF more
  <2> QED
    BY <1>1, <1>2, <2>1, <2>2
<1>5. fiber.baseState \in Seq(Id) /\ Len(fiber.baseState) \in Nat /\ Len(waiting) \in Nat
  BY DEF Fiber
<1>6. Counts(fiber.baseState, more)
  <2> DEFINE base == fiber.baseState
  <2>1. base \in Seq(Id) /\ Counts(base, waiting) /\ Len(base) + Len(waiting) = n
    BY <1>3, <1>5
  <2>2. \A i \in 1..Len(one) : one[i].id = Len(base) + Len(waiting) + i
    BY <1>1, <2>1
  <2>3. \A i \in 1..Len(one) : one[i].callback <=> one[i].lane # NoLane
    BY <1>1
  <2> HIDE DEF base
  <2>4. Counts(base, waiting \o one)
    BY <1>1, <2>1, <2>2, <2>3, CountsOn
  <2> QED
    BY <2>4 DEF base, more
<1> HIDE DEF more
<1>7. Elements(fiber.memoizedState) = (1..n + 1) \ UnappliedIds(more)
  <2> DEFINE U == UnappliedIds(waiting)
  <2>1. Elements(fiber.memoizedState) = (1..n) \ U
    BY <1>3
  <2> HIDE DEF U
  <2> QED
    BY <1>4, <2>1 DEF U
<1>8. Len(next.baseState) + Len(more) = n + 1
  <2>1. length + Len(waiting) = n /\ length \in Nat /\ Len(next.baseState) = length
    BY <1>3, <1>5
  <2> HIDE DEF length
  <2>2. length + Len(more) = n + 1
    BY <1>4, <1>5, <2>1
  <2> QED
    BY <2>1, <2>2
<1>9. IsWhole(next, more, n + 1)
  <2>1. n + 1 \in Nat /\ next \in Fiber
    OBVIOUS
  <2>2. /\ Counts(next.baseState, more) /\ Increasing(next.memoizedState)
        /\ Elements(next.memoizedState) = (1..n + 1) \ UnappliedIds(more)
    BY <1>3, <1>6, <1>7, Zenon
  <2> QED
    BY <1>4, <1>8, <2>1, <2>2, WholeCounts
<1> QED
  BY <1>2, <1>9 DEF one, more

\* A fiber that processes a queue has what is left of it, and what comes after it, to do.
LEMMA WholeAfterProcessing ==
  ASSUME NEW fiber \in Fiber, NEW queue \in Seq(Update), NEW after \in Seq(Update),
         NEW n \in Nat, IsWhole(fiber, queue \o after, n), NoLane \notin LanesOf(after),
         NEW lanes \in SUBSET UpdateLanes,
         NEW r, r = ProcessUpdateQueue(fiber, queue, lanes)
  PROVE  /\ r \in Fiber /\ IsWhole(r, r.baseQueue \o after, n)
         /\ r.lanes \cup LanesOf(after) = LanesOf(r.baseQueue \o after) \ {NoLane}
         /\ LanesOf(r.baseQueue) \cap lanes = {}
         /\ Elements(fiber.memoizedState) \subseteq Elements(r.memoizedState)
         /\ Increasing(r.callbacks)
         /\ Elements(r.callbacks)
              = Elements(r.memoizedState) \ Elements(fiber.memoizedState)
<1> DEFINE base == fiber.baseState
           left == r.baseQueue
           m    == Len(base) + Len(queue)
<1>1. /\ base \in Seq(Id) /\ Len(base) \in Nat /\ Len(queue) \in Nat /\ Len(after) \in Nat
      /\ queue \o after \in Seq(Update) /\ Len(queue \o after) = Len(queue) + Len(after)
      /\ UnappliedIds(queue \o after) = UnappliedIds(queue) \cup UnappliedIds(after)
  BY JoinedQueues, Concatenation DEF Fiber
<1>2. /\ Len(base) + Len(queue \o after) = n /\ Counts(base, queue \o after)
      /\ Elements(fiber.memoizedState) = (1..n) \ UnappliedIds(queue \o after)
  BY <1>1, WholeCounts
<1>3. m \in Nat /\ n = m + Len(after)
  <2> DEFINE all == queue \o after
  <2>1. Len(base) + Len(all) = n /\ Len(all) = Len(queue) + Len(after)
    BY <1>1, <1>2
  <2> HIDE DEF all, base
  <2> QED
    BY <1>1, <2>1
<1>4. /\ Counts(base, queue)
      /\ \A i \in 1..Len(after) : /\ after[i].id = m + i
                                  /\ after[i].callback <=> after[i].lane # NoLane
  <2> HIDE DEF base
  <2> QED
    BY <1>1, <1>2, CountsOn
<1>5. IsProcessed(r, fiber, queue, lanes)
  BY <1>4, Process
<1>6. r \in Fiber /\ left \in Seq(Update) /\ r.baseState \in Seq(Id)
  BY <1>5 DEF IsProcessed, Fiber
<1>7. /\ Counts(r.baseState, left)
      /\ Len(r.baseState) + Len(left) = m
      /\ r.lanes = LanesOf(left) \ {NoLane} /\ LanesOf(left) \cap lanes = {}
      /\ UnappliedIds(left) \subseteq UnappliedIds(queue)
      /\ Increasing(r.memoizedState) /\ Increasing(r.callbacks)
      /\ Elements(r.memoizedState) = (1..m) \ UnappliedIds(left)
      /\ Elements(r.callbacks) = UnappliedIds(queue) \ UnappliedIds(left)
  BY <1>5 DEF IsProcessed
<1>8. UnappliedIds(queue) \subseteq 1..m
  <2>1. UnappliedIds(queue) = UnappliedAt(base, queue)
    BY <1>1, <1>4, UnappliedIdsByPosition
  <2> QED
    BY <1>1, <2>1 DEF UnappliedAt
<1>9. UnappliedIds(after) = m + 1..n
  <2>1. /\ DOMAIN after = 1..Len(after)
        /\ \A i \in 1..Len(after) : after[i].id = m + i /\ after[i].lane # NoLane
    BY <1>4 DEF LanesOf, Elements
  <2>2. UnappliedIds(after) = {m + i : i \in 1..Len(after)}
    <3> HIDE DEF m
    <3>1. Unapplied(after) = {after[i] : i \in 1..Len(after)}
      BY <2>1 DEF Unapplied, Elements
    <3> QED
      BY <2>1, <3>1 DEF UnappliedIds
  <2> HIDE DEF m
  <2>3. ASSUME NEW x \in m + 1..n
        PROVE  x - m \in 1..Len(after) /\ x = m + (x - m)
    BY <1>1, <1>3
  <2> QED
    BY <1>1, <1>3, <2>2, <2>3
<1> HIDE DEF base, m, left
<1>10. /\ left \o after \in Seq(Update) /\ Len(left \o after) = Len(left) + Len(after)
       /\ UnappliedIds(left \o after) = UnappliedIds(left) \cup UnappliedIds(after)
       /\ LanesOf(left \o after) = LanesOf(left) \cup LanesOf(after)
  BY <1>6, JoinedQueues, Concatenation
<1>11. Counts(r.baseState, left \o after)
  <2> DEFINE newBase == r.baseState
  <2>1. newBase \in Seq(Id) /\ Len(newBase) + Len(left) = m /\ Counts(newBase, left)
    BY <1>6, <1>7
  <2> HIDE DEF newBase
  <2>2. Counts(newBase, left \o after)
    BY <1>4, <1>6, <2>1, CountsOn
  <2> QED
    BY <2>2 DEF newBase
<1>12. Elements(r.memoizedState) = (1..n) \ UnappliedIds(left \o after)
  BY <1>1, <1>3, <1>7, <1>9, <1>10
<1>13. IsWhole(r, left \o after, n)
  <2>1. Len(r.baseState) + Len(left \o after) = n
    <3>1. Len(r.baseState) \in Nat /\ Len(left) \in Nat
      BY <1>6
    <3> DEFINE a == Len(r.baseState)
               all == left \o after
    <3>2. a \in Nat /\ a + Len(left) = m /\ Len(all) = Len(left) + Len(after)
      BY <1>7, <1>10, <3>1
    <3> HIDE DEF a, all
    <3>3. a + Len(all) = n
      BY <1>1, <1>3, <3>1, <3>2
    <3> QED
      BY <3>3 DEF a, all
  <2> QED
    BY <1>6, <1>7, <1>10, <1>11, <1>12, <2>1, WholeCounts
<1>14. /\ Elements(fiber.memoizedState) \subseteq Elements(r.memoizedState)
       /\ Elements(r.callbacks)
            = Elements(r.memoizedState) \ Elements(fiber.memoizedState)
  <2> DEFINE U == UnappliedIds(queue)
             V == UnappliedIds(left)
  <2>1. /\ Elements(fiber.memoizedState) = (1..n) \ (U \cup (m + 1..n))
        /\ Elements(r.memoizedState) = (1..m) \ V
        /\ Elements(r.callbacks) = U \ V
        /\ V \subseteq U /\ U \subseteq 1..m
    BY <1>1, <1>2, <1>7, <1>8, <1>9
  <2> HIDE DEF U, V
  <2>2. 1..m \subseteq 1..n /\ \A x \in 1..n : x \in 1..m <=> x \notin m + 1..n
    BY <1>1, <1>3
  <2>3. Elements(fiber.memoizedState) = (1..m) \ U
    BY <2>1, <2>2
  <2> QED
    BY <2>1, <2>3
<1>15. r.lanes \cup LanesOf(after) = LanesOf(left \o after) \ {NoLane}
  BY <1>7, <1>10
<1> QED
  BY <1>6, <1>7, <1>13, <1>14, <1>15 DEF left

-----------------------------------------------------------------------------
(* The inductive invariant *)

LEMMA QueuesInTurn ==
  ASSUME NEW a \in Seq(Update), NEW b \in Seq(Update), NEW c \in Seq(Update)
  PROVE  /\ a \o (b \o c) \o <<>> = a \o b \o c
         /\ (a \o b) \o <<>> \o c = a \o b \o c
         /\ \A u \in Update : a \o b \o Append(c, u) = (a \o b \o c) \o <<u>>
<1>1. a \o b \in Seq(Update) /\ b \o c \in Seq(Update)
  BY JoinedQueues
<1>2. a \o (b \o c) = (a \o b) \o c
  BY JoinedInTurn
<1>3. a \o (b \o c) \in Seq(Update)
  BY <1>1, JoinedQueues
<1>4. ASSUME NEW u \in Update
      PROVE  a \o b \o Append(c, u) = (a \o b \o c) \o <<u>>
  <2>1. Append(c, u) = c \o <<u>> /\ <<u>> \in Seq(Update)
    OBVIOUS
  <2> DEFINE ab == a \o b
             one == <<u>>
  <2>2. ab \in Seq(Update) /\ one \in Seq(Update)
    BY <1>1, <2>1
  <2> HIDE DEF ab, one
  <2>3. ab \o (c \o one) = (ab \o c) \o one
    BY <2>2, JoinedInTurn, ZenonT(60)
  <2> QED
    BY <2>1, <2>3 DEF ab, one
<1> QED
  BY <1>1, <1>2, <1>3, <1>4, EmptyQueue

LEMMA Types ==
  ASSUME TypeOK
  PROVE  /\ concurrentQueues \in Seq(Update) /\ pending \in Seq(Update)
         /\ current.baseQueue \in Seq(Update) /\ workInProgress.baseQueue \in Seq(Update)
         /\ current \in Fiber /\ workInProgress \in Fiber
         /\ current.lanes \in SUBSET UpdateLanes /\ workInProgress.lanes \in SUBSET UpdateLanes
         /\ workInProgress.callbacks \in Seq(Id)
         /\ current.baseQueue \o pending \in Seq(Update)
         /\ workInProgress.baseQueue \o pending \in Seq(Update)
         /\ Waiting \in Seq(Update) /\ WaitingFor(workInProgress) \in Seq(Update)
         /\ made \in Nat
<1>1. /\ concurrentQueues \in Seq(Update) /\ pending \in Seq(Update)
      /\ current.baseQueue \in Seq(Update) /\ workInProgress.baseQueue \in Seq(Update)
      /\ current \in Fiber /\ workInProgress \in Fiber
      /\ current.lanes \in SUBSET UpdateLanes /\ workInProgress.lanes \in SUBSET UpdateLanes
      /\ workInProgress.callbacks \in Seq(Id)
      /\ made \in Nat
  BY UpdatesAssumption DEF TypeOK, Fiber
<1>2. /\ current.baseQueue \o pending \in Seq(Update)
      /\ workInProgress.baseQueue \o pending \in Seq(Update)
  BY <1>1, JoinedQueues
<1>3. Waiting \in Seq(Update) /\ WaitingFor(workInProgress) \in Seq(Update)
  BY <1>1, <1>2, JoinedQueues DEF Waiting, WaitingFor
<1> QED
  BY <1>1, <1>2, <1>3

\* A fiber whose lanes and callbacks change is as whole as it was.
LEMMA StaysWhole ==
  ASSUME NEW fiber, NEW next, NEW waiting, NEW n, IsWhole(fiber, waiting, n),
         next.baseState = fiber.baseState, next.memoizedState = fiber.memoizedState
  PROVE  IsWhole(next, waiting, n)
  BY DEF IsWhole

LEMMA Initially == Init => IndInv
<1> SUFFICES ASSUME Init PROVE IndInv
  OBVIOUS
<1>1. EmptyFiber \in Fiber
  BY DEF EmptyFiber, Fiber
<1>2. TypeOK
  BY <1>1, UpdatesAssumption DEF Init, TypeOK
<1>3. Waiting = <<>> /\ EmptyFiber.memoizedState = <<>> /\ EmptyFiber.baseState = <<>>
  BY DEF Init, Waiting, WaitingFor, EmptyFiber
<1>4. Counts(<<>>, <<>>) /\ Increasing(<<>>) /\ Elements(<<>>) = {}
  BY DEF Counts, Increasing, Elements
<1>5. IsWhole(EmptyFiber, <<>>, 0)
  BY <1>3, <1>4, EmptyQueue DEF IsWhole, UnappliedIds
<1>6. CurrentIsWhole
  BY <1>3, <1>5, EmptyQueue
     DEF Init, CurrentIsWhole, EmptyFiber, ConcurrentlyUpdatedLanes
<1>7. WorkInProgressIsWhole /\ BatchIsWhole
  BY DEF Init, WorkInProgressIsWhole, BatchIsWhole
<1> QED
  BY <1>2, <1>6, <1>7 DEF IndInv

LEMMA AfterEnqueueUpdate ==
  ASSUME IndInv, NEW lane \in UpdateLanes, EnqueueUpdate(lane)
  PROVE  IndInv'
<1> DEFINE u == [id |-> made + 1, lane |-> lane, callback |-> TRUE]
<1>1. TypeOK /\ CurrentIsWhole /\ WorkInProgressIsWhole /\ BatchIsWhole
  BY DEF IndInv
<1>2. u \in Update /\ u.id = made + 1 /\ u.callback = TRUE /\ u.lane = lane /\ lane # NoLane
  BY <1>1, NoLaneIsNone, UpdatesAssumption DEF TypeOK, EnqueueUpdate, Update, Id
<1> HIDE DEF u
<1>3. /\ made' = made + 1 /\ made < MaxUpdates
      /\ concurrentQueues' = Append(concurrentQueues, u)
      /\ current' = [current EXCEPT !.lanes = @ \cup {lane}]
      /\ workInProgress' = [workInProgress EXCEPT !.lanes = @ \cup {lane}]
      /\ UNCHANGED <<pending, renderLanes, phase, called>>
  BY DEF EnqueueUpdate, u
<1>4. /\ current' \in Fiber /\ workInProgress' \in Fiber
      /\ current'.baseState = current.baseState
      /\ current'.memoizedState = current.memoizedState
      /\ current'.baseQueue = current.baseQueue
      /\ current'.lanes = current.lanes \cup {lane}
      /\ workInProgress'.baseState = workInProgress.baseState
      /\ workInProgress'.memoizedState = workInProgress.memoizedState
      /\ workInProgress'.baseQueue = workInProgress.baseQueue
      /\ workInProgress'.lanes = workInProgress.lanes \cup {lane}
      /\ workInProgress'.callbacks = workInProgress.callbacks
  BY <1>1, <1>3 DEF TypeOK, Fiber
<1>5. TypeOK'
  BY <1>1, <1>2, <1>3, <1>4, UpdatesAssumption DEF TypeOK
<1>6. /\ Waiting' = Waiting \o <<u>>
      /\ WaitingFor(workInProgress)' = WaitingFor(workInProgress) \o <<u>>
      /\ concurrentQueues' = concurrentQueues \o <<u>>
  <2>1. concurrentQueues' = concurrentQueues \o <<u>>
    BY <1>1, <1>2, <1>3 DEF TypeOK
  <2>2. /\ Waiting' = current.baseQueue \o pending \o Append(concurrentQueues, u)
        /\ WaitingFor(workInProgress)'
             = workInProgress.baseQueue \o pending \o Append(concurrentQueues, u)
    BY <1>3, <1>4 DEF Waiting, WaitingFor
  <2>3. /\ current.baseQueue \in Seq(Update) /\ workInProgress.baseQueue \in Seq(Update)
        /\ pending \in Seq(Update) /\ concurrentQueues \in Seq(Update)
    BY <1>1, Types
  <2>4. \A a \in Seq(Update) :
          a \o pending \o Append(concurrentQueues, u) = (a \o pending \o concurrentQueues) \o <<u>>
    BY <1>2, <2>3, QueuesInTurn, SMTT(30)
  <2> QED
    BY <2>1, <2>2, <2>3, <2>4 DEF Waiting, WaitingFor
<1>7. <<u>> \in Seq(Update) /\ LanesOf(<<u>>) = {lane}
  <2>1. Elements(<<u>>) = {u}
    BY DEF Elements
  <2> QED
    BY <1>2, <2>1 DEF LanesOf
<1>8. /\ LanesOf(Waiting') = LanesOf(Waiting) \cup {lane}
      /\ LanesOf(WaitingFor(workInProgress)') = LanesOf(WaitingFor(workInProgress)) \cup {lane}
      /\ LanesOf(concurrentQueues') = LanesOf(concurrentQueues) \cup {lane}
  <2>1. /\ Waiting \in Seq(Update) /\ WaitingFor(workInProgress) \in Seq(Update)
        /\ concurrentQueues \in Seq(Update)
    BY <1>1, Types
  <2>2. \A queue \in Seq(Update) : LanesOf(queue \o <<u>>) = LanesOf(queue) \cup {lane}
    BY <1>7, JoinedQueues, ZenonT(60)
  <2> QED
    BY <1>6, <2>1, <2>2
<1>9. CurrentIsWhole'
  <2>1. IsWhole(current', Waiting', made')
    BY <1>1, <1>2, <1>3, <1>4, <1>6, Types, OneMoreUpdate, ZenonT(60) DEF CurrentIsWhole
  <2>2. current'.lanes = LanesOf(Waiting') \ {NoLane}
    BY <1>1, <1>2, <1>4, <1>8 DEF CurrentIsWhole
  <2>3. ConcurrentlyUpdatedLanes' \subseteq current'.lanes
    BY <1>1, <1>4, <1>8 DEF CurrentIsWhole, ConcurrentlyUpdatedLanes
  <2> QED
    BY <2>1, <2>2, <2>3 DEF CurrentIsWhole
<1>10. WorkInProgressIsWhole'
  <2>1. ASSUME phase # "none"
        PROVE  /\ IsWhole(workInProgress', WaitingFor(workInProgress)', made')
               /\ RemainingLanes' = LanesOf(WaitingFor(workInProgress)') \ {NoLane}
    <3>1. /\ IsWhole(workInProgress, WaitingFor(workInProgress), made)
          /\ RemainingLanes = LanesOf(WaitingFor(workInProgress)) \ {NoLane}
      BY <1>1, <2>1 DEF WorkInProgressIsWhole
    <3>2. IsWhole(workInProgress', WaitingFor(workInProgress)', made')
      <4>1. /\ workInProgress \in Fiber /\ WaitingFor(workInProgress) \in Seq(Update)
            /\ made \in Nat
        BY <1>1, Types
      <4>2. PICK next \in Fiber : next = workInProgress'
        BY <1>4
      <4>3. /\ next.baseState = workInProgress.baseState
            /\ next.memoizedState = workInProgress.memoizedState
        BY <1>4, <4>2
      <4>4. IsWhole(next, WaitingFor(workInProgress) \o <<u>>, made + 1)
        BY <1>2, <3>1, <4>1, <4>3, OneMoreUpdate
      <4> QED
        BY <1>3, <1>6, <4>2, <4>4
    <3>3. RemainingLanes' = RemainingLanes \cup {lane}
      BY <1>4, <1>8 DEF RemainingLanes, ConcurrentlyUpdatedLanes
    <3> QED
      BY <1>2, <1>8, <3>1, <3>2, <3>3
  <2>2. phase = "completed" => ConcurrentlyUpdatedLanes' \subseteq workInProgress'.lanes
    BY <1>1, <1>4, <1>8 DEF WorkInProgressIsWhole, ConcurrentlyUpdatedLanes
  <2> QED
    BY <1>1, <1>3, <1>4, <2>1, <2>2 DEF WorkInProgressIsWhole
<1>11. BatchIsWhole'
  BY <1>1, <1>3, <1>4 DEF BatchIsWhole
<1> QED
  BY <1>5, <1>9, <1>10, <1>11 DEF IndInv

\* A fiber that differs from another one in its lanes and callbacks only.
SameWork(next, fiber) ==
  /\ next.baseState = fiber.baseState /\ next.baseQueue = fiber.baseQueue
  /\ next.memoizedState = fiber.memoizedState

LEMMA Finished ==
  ASSUME TypeOK, CurrentIsWhole, NEW cur \in Fiber, NEW wip \in Fiber,
         FinishQueueing(cur, wip)
  PROVE  /\ pending' \in Seq(Update) /\ concurrentQueues' = <<>>
         /\ ConcurrentlyUpdatedLanes' = {}
         /\ current' \in Fiber /\ SameWork(current', cur)
         /\ current'.lanes = cur.lanes \cup ConcurrentlyUpdatedLanes
         /\ workInProgress' \in Fiber /\ SameWork(workInProgress', wip)
         /\ workInProgress'.lanes = wip.lanes \cup ConcurrentlyUpdatedLanes
         /\ workInProgress'.callbacks = wip.callbacks
         /\ \A a \in Seq(Update) :
              a \o pending' \o concurrentQueues' = a \o pending \o concurrentQueues
<1>1. /\ pending' = pending \o concurrentQueues /\ concurrentQueues' = <<>>
      /\ current' = [cur EXCEPT !.lanes = @ \cup ConcurrentlyUpdatedLanes]
      /\ workInProgress' = [wip EXCEPT !.lanes = @ \cup ConcurrentlyUpdatedLanes]
  BY DEF FinishQueueing
<1>2. pending \in Seq(Update) /\ concurrentQueues \in Seq(Update)
  BY Types
<1>3. ConcurrentlyUpdatedLanes \subseteq UpdateLanes
  BY Types DEF CurrentIsWhole
<1>4. /\ current' \in Fiber /\ SameWork(current', cur)
      /\ current'.lanes = cur.lanes \cup ConcurrentlyUpdatedLanes
      /\ workInProgress' \in Fiber /\ SameWork(workInProgress', wip)
      /\ workInProgress'.lanes = wip.lanes \cup ConcurrentlyUpdatedLanes
      /\ workInProgress'.callbacks = wip.callbacks
  BY <1>1, <1>3 DEF Fiber, SameWork
<1>5. ConcurrentlyUpdatedLanes' = {}
  BY <1>1, EmptyQueue DEF ConcurrentlyUpdatedLanes
<1>6. pending' \in Seq(Update)
  BY <1>1, <1>2, JoinedQueues
<1>7. \A a \in Seq(Update) :
        a \o pending' \o concurrentQueues' = a \o pending \o concurrentQueues
  BY <1>1, <1>2, QueuesInTurn
<1> QED
  BY <1>1, <1>4, <1>5, <1>6, <1>7

\* The fiber on the screen stays as whole as it was when the queues are joined.
LEMMA CurrentStaysWhole ==
  ASSUME TypeOK, CurrentIsWhole, NEW wip \in Fiber, FinishQueueing(current, wip),
         UNCHANGED made
  PROVE  CurrentIsWhole' /\ Waiting' = Waiting /\ current'.lanes = current.lanes
<1>1. /\ concurrentQueues' = <<>> /\ ConcurrentlyUpdatedLanes' = {}
      /\ SameWork(current', current)
      /\ current'.lanes = current.lanes \cup ConcurrentlyUpdatedLanes
      /\ \A a \in Seq(Update) :
           a \o pending' \o concurrentQueues' = a \o pending \o concurrentQueues
  BY Types, Finished
<1>2. current.baseQueue \in Seq(Update) /\ current'.baseQueue = current.baseQueue
  BY <1>1, Types DEF SameWork
<1>3. Waiting' = Waiting
  <2>1. Waiting' = current.baseQueue \o pending' \o concurrentQueues'
    BY <1>2 DEF Waiting, WaitingFor
  <2> QED
    BY <1>1, <1>2, <2>1 DEF Waiting, WaitingFor
<1>4. current'.lanes = current.lanes
  BY <1>1 DEF CurrentIsWhole
<1>5. IsWhole(current', Waiting, made)
  BY <1>1, StaysWhole DEF CurrentIsWhole, SameWork
<1>6. CurrentIsWhole'
  BY <1>1, <1>3, <1>4, <1>5 DEF CurrentIsWhole
<1> QED
  BY <1>3, <1>4, <1>6

LEMMA WithoutCallbacks ==
  ASSUME NEW fiber \in Fiber
  PROVE  LET next == [fiber EXCEPT !.callbacks = <<>>]
         IN /\ next \in Fiber /\ SameWork(next, fiber)
            /\ next.lanes = fiber.lanes /\ next.callbacks = <<>>
<1> DEFINE next == [fiber EXCEPT !.callbacks = <<>>]
<1>1. next = [baseState |-> fiber.baseState, baseQueue |-> fiber.baseQueue,
              memoizedState |-> fiber.memoizedState, lanes |-> fiber.lanes,
              callbacks |-> <<>>]
  BY DEF Fiber
<1>2. <<>> \in Seq(Id)
  OBVIOUS
<1> HIDE DEF next
<1>3. next \in Fiber
  BY <1>1, <1>2 DEF Fiber
<1>4. SameWork(next, fiber) /\ next.lanes = fiber.lanes /\ next.callbacks = <<>>
  BY <1>1 DEF SameWork
<1> QED
  BY <1>3, <1>4 DEF next

LEMMA AfterPrepareFreshStack ==
  ASSUME IndInv, NEW lanes \in SUBSET UpdateLanes, PrepareFreshStack(lanes)
  PROVE  IndInv'
<1> DEFINE wip == [current EXCEPT !.callbacks = <<>>]
<1>1. TypeOK /\ CurrentIsWhole
  BY DEF IndInv
<1>2. /\ wip \in Fiber /\ SameWork(wip, current)
      /\ wip.lanes = current.lanes /\ wip.callbacks = <<>>
  BY <1>1, WithoutCallbacks DEF TypeOK
<1> HIDE DEF wip
<1>3. /\ FinishQueueing(current, wip) /\ phase' = "prepared" /\ renderLanes' = lanes
      /\ UNCHANGED <<made, called>>
  BY DEF PrepareFreshStack, wip
<1>4. /\ pending' \in Seq(Update) /\ concurrentQueues' = <<>>
      /\ ConcurrentlyUpdatedLanes' = {}
      /\ current' \in Fiber /\ workInProgress' \in Fiber
      /\ SameWork(current', current) /\ SameWork(workInProgress', wip)
      /\ workInProgress'.lanes = wip.lanes \cup ConcurrentlyUpdatedLanes
      /\ workInProgress'.callbacks = <<>>
  BY <1>1, <1>2, <1>3, Types, Finished
<1>5. CurrentIsWhole' /\ Waiting' = Waiting /\ current'.lanes = current.lanes
  BY <1>1, <1>2, <1>3, CurrentStaysWhole
<1>6. SameWork(workInProgress', current') /\ workInProgress'.lanes = current'.lanes
  <2>1. wip.lanes \cup ConcurrentlyUpdatedLanes = current.lanes
    BY <1>1, <1>2 DEF CurrentIsWhole
  <2> QED
    BY <1>2, <1>4, <1>5, <2>1 DEF SameWork
<1>7. TypeOK'
  BY <1>1, <1>3, <1>4 DEF TypeOK
<1>8. WaitingFor(workInProgress)' = Waiting'
  BY <1>6 DEF Waiting, WaitingFor, SameWork
<1>9. IsWhole(workInProgress', Waiting', made')
  BY <1>5, <1>6, StaysWhole DEF CurrentIsWhole, SameWork
<1>10. RemainingLanes' = LanesOf(Waiting') \ {NoLane}
  BY <1>4, <1>5, <1>6 DEF CurrentIsWhole, RemainingLanes
<1>11. Increasing(<<>>) /\ Elements(<<>>) = {}
  BY DEF Increasing, Elements
<1>12. WorkInProgressIsWhole'
  <2>1. /\ workInProgress'.memoizedState = current'.memoizedState
        /\ workInProgress'.baseQueue = current'.baseQueue
    BY <1>6 DEF SameWork
  <2> QED
    BY <1>3, <1>4, <1>8, <1>9, <1>10, <1>11, <2>1 DEF WorkInProgressIsWhole
<1>13. BatchIsWhole'
  BY <1>3 DEF BatchIsWhole
<1> QED
  BY <1>5, <1>7, <1>12, <1>13 DEF IndInv

LEMMA AfterBailOut ==
  ASSUME IndInv, BailOut
  PROVE  IndInv'
<1>1. TypeOK /\ CurrentIsWhole /\ WorkInProgressIsWhole
  BY DEF IndInv
<1>2. /\ phase = "prepared" /\ phase' = "begun" /\ current.lanes \cap renderLanes = {}
      /\ UNCHANGED <<concurrentQueues, pending, current, workInProgress, renderLanes,
                     made, called>>
  BY DEF BailOut
<1>3. TypeOK' /\ CurrentIsWhole' /\ WorkInProgressIsWhole'
  BY <1>1, <1>2
     DEF TypeOK, CurrentIsWhole, Waiting, WaitingFor, ConcurrentlyUpdatedLanes,
         WorkInProgressIsWhole, RemainingLanes
<1>4. LanesOf(workInProgress.baseQueue \o pending) \subseteq current.lanes \cup {NoLane}
  <2>1. workInProgress.baseQueue = current.baseQueue
    BY <1>1, <1>2 DEF WorkInProgressIsWhole
  <2>2. LanesOf(Waiting) = LanesOf(current.baseQueue \o pending) \cup LanesOf(concurrentQueues)
    BY <1>1, Types, JoinedQueues DEF Waiting, WaitingFor
  <2> QED
    BY <1>1, <2>1, <2>2 DEF CurrentIsWhole
<1>5. NoLane \notin renderLanes
  BY <1>1, NoLaneIsNone DEF TypeOK
<1>6. BatchIsWhole'
  BY <1>2, <1>4, <1>5 DEF BatchIsWhole
<1> QED
  BY <1>3, <1>6 DEF IndInv

LEMMA AfterBeginWork ==
  ASSUME IndInv, BeginWork
  PROVE  IndInv'
<1> DEFINE queue == workInProgress.baseQueue \o pending
           r == ProcessUpdateQueue(workInProgress, queue, renderLanes)
<1>1. TypeOK /\ CurrentIsWhole /\ WorkInProgressIsWhole
  BY DEF IndInv
<1>2. /\ phase = "prepared" /\ phase' = "begun" /\ pending' = <<>>
      /\ workInProgress' = r
      /\ current' = [current EXCEPT !.baseQueue = @ \o pending]
      /\ UNCHANGED <<concurrentQueues, renderLanes, made, called>>
  BY DEF BeginWork
<1>3. /\ IsWhole(workInProgress, WaitingFor(workInProgress), made)
      /\ Elements(workInProgress.memoizedState) = Elements(current.memoizedState)
  BY <1>1, <1>2 DEF WorkInProgressIsWhole
<1>4. NoLane \notin LanesOf(concurrentQueues)
  BY <1>1 DEF CurrentIsWhole, ConcurrentlyUpdatedLanes
<1>5. /\ workInProgress \in Fiber /\ queue \in Seq(Update) /\ concurrentQueues \in Seq(Update)
      /\ made \in Nat /\ renderLanes \in SUBSET UpdateLanes
      /\ current \in Fiber /\ current.baseQueue \in Seq(Update) /\ pending \in Seq(Update)
      /\ current.baseQueue \o pending \in Seq(Update)
  BY <1>1, Types DEF TypeOK
<1>6. IsWhole(workInProgress, queue \o concurrentQueues, made)
  BY <1>3 DEF WaitingFor
<1> HIDE DEF queue, r
<1>7. /\ r \in Fiber /\ IsWhole(r, r.baseQueue \o concurrentQueues, made)
      /\ r.lanes \cup LanesOf(concurrentQueues)
           = LanesOf(r.baseQueue \o concurrentQueues) \ {NoLane}
      /\ LanesOf(r.baseQueue) \cap renderLanes = {}
      /\ Elements(workInProgress.memoizedState) \subseteq Elements(r.memoizedState)
      /\ Increasing(r.callbacks)
      /\ Elements(r.callbacks)
           = Elements(r.memoizedState) \ Elements(workInProgress.memoizedState)
  <2>1. r = ProcessUpdateQueue(workInProgress, queue, renderLanes)
    BY DEF r
  <2>2. /\ workInProgress \in Fiber /\ queue \in Seq(Update)
        /\ concurrentQueues \in Seq(Update) /\ made \in Nat
        /\ renderLanes \in SUBSET UpdateLanes
    BY <1>5
  <2> QED
    BY <1>4, <1>6, <2>1, <2>2, WholeAfterProcessing, SMTT(60)
<1>8. /\ current' \in Fiber /\ current'.baseState = current.baseState
      /\ current'.memoizedState = current.memoizedState /\ current'.lanes = current.lanes
      /\ current'.baseQueue = current.baseQueue \o pending
  <2> DEFINE joined == current.baseQueue \o pending
  <2>1. current' = [current EXCEPT !.baseQueue = joined] /\ joined \in Seq(Update)
    BY <1>2, <1>5
  <2> HIDE DEF joined
  <2>2. /\ current' \in Fiber /\ current'.baseState = current.baseState
        /\ current'.memoizedState = current.memoizedState /\ current'.lanes = current.lanes
        /\ current'.baseQueue = joined
    BY <1>5, <2>1 DEF Fiber
  <2> QED
    BY <2>2 DEF joined
<1>9. TypeOK'
  BY <1>1, <1>2, <1>5, <1>7, <1>8, EmptyQueue DEF TypeOK
<1>10. /\ Waiting' = Waiting
       /\ WaitingFor(workInProgress)' = r.baseQueue \o concurrentQueues
  <2>1. Waiting' = (current.baseQueue \o pending) \o <<>> \o concurrentQueues
    BY <1>2, <1>8 DEF Waiting, WaitingFor
  <2>2. WaitingFor(workInProgress)' = r.baseQueue \o <<>> \o concurrentQueues
    BY <1>2 DEF WaitingFor
  <2>3. r.baseQueue \in Seq(Update)
    BY <1>7 DEF Fiber
  <2> QED
    BY <1>5, <2>1, <2>2, <2>3, QueuesInTurn, EmptyQueue DEF Waiting, WaitingFor
<1>11. CurrentIsWhole'
  <2>1. IsWhole(current', Waiting, made)
    BY <1>1, <1>8, StaysWhole DEF CurrentIsWhole
  <2> QED
    BY <1>1, <1>2, <1>8, <1>10, <2>1 DEF CurrentIsWhole, ConcurrentlyUpdatedLanes
<1>12. WorkInProgressIsWhole'
  <2>1. RemainingLanes' = LanesOf(WaitingFor(workInProgress)') \ {NoLane}
    BY <1>2, <1>7, <1>10 DEF RemainingLanes, ConcurrentlyUpdatedLanes
  <2> QED
    BY <1>2, <1>3, <1>7, <1>8, <1>10, <2>1 DEF WorkInProgressIsWhole
<1>13. BatchIsWhole'
  <2>1. r.baseQueue \o <<>> = r.baseQueue
    BY <1>7, EmptyQueue DEF Fiber
  <2> QED
    BY <1>2, <1>7, <2>1 DEF BatchIsWhole
<1> QED
  BY <1>9, <1>11, <1>12, <1>13 DEF IndInv

\* The end of a render: the queues are joined and the alternates are as they were.
LEMMA AfterFinishQueueing ==
  ASSUME IndInv, phase = "begun", FinishQueueing(current, workInProgress),
         phase' \in {"completed", "none"}, UNCHANGED <<renderLanes, made, called>>
  PROVE  IndInv'
<1>1. TypeOK /\ CurrentIsWhole /\ WorkInProgressIsWhole
  BY DEF IndInv
<1>2. /\ pending' \in Seq(Update) /\ concurrentQueues' = <<>>
      /\ ConcurrentlyUpdatedLanes' = {}
      /\ current' \in Fiber /\ workInProgress' \in Fiber
      /\ SameWork(current', current) /\ SameWork(workInProgress', workInProgress)
      /\ workInProgress'.lanes = RemainingLanes
      /\ workInProgress'.callbacks = workInProgress.callbacks
      /\ \A a \in Seq(Update) :
           a \o pending' \o concurrentQueues' = a \o pending \o concurrentQueues
  BY <1>1, Types, Finished DEF RemainingLanes
<1>3. CurrentIsWhole'
  BY <1>1, Types, CurrentStaysWhole
<1>4. TypeOK'
  BY <1>1, <1>2 DEF TypeOK
<1>5. /\ workInProgress'.baseQueue = workInProgress.baseQueue
      /\ workInProgress'.memoizedState = workInProgress.memoizedState
      /\ workInProgress'.baseState = workInProgress.baseState
      /\ current'.memoizedState = current.memoizedState
  BY <1>2 DEF SameWork
<1>6. WaitingFor(workInProgress)' = WaitingFor(workInProgress)
  <2>1. WaitingFor(workInProgress)'
          = workInProgress.baseQueue \o pending' \o concurrentQueues'
    BY <1>5 DEF WaitingFor
  <2>2. workInProgress.baseQueue \in Seq(Update)
    BY <1>1, Types
  <2> QED
    BY <1>2, <2>1, <2>2 DEF WaitingFor
<1>7. IsWhole(workInProgress', WaitingFor(workInProgress), made)
  BY <1>1, <1>5, StaysWhole DEF WorkInProgressIsWhole
<1>8. RemainingLanes' = RemainingLanes
  BY <1>2 DEF RemainingLanes
<1>9. WorkInProgressIsWhole'
  BY <1>1, <1>2, <1>5, <1>6, <1>7, <1>8 DEF WorkInProgressIsWhole
<1>10. BatchIsWhole'
  BY DEF BatchIsWhole
<1> QED
  BY <1>3, <1>4, <1>9, <1>10 DEF IndInv

LEMMA AfterCommit ==
  ASSUME IndInv, Commit
  PROVE  IndInv'
<1>1. TypeOK /\ WorkInProgressIsWhole
  BY DEF IndInv
<1>2. /\ phase = "completed" /\ phase' = "none" /\ renderLanes' = {}
      /\ current' = [workInProgress EXCEPT !.callbacks = <<>>]
      /\ workInProgress' = [workInProgress EXCEPT !.callbacks = <<>>]
      /\ called' = called \o workInProgress.callbacks
      /\ UNCHANGED <<concurrentQueues, pending, made>>
  BY DEF Commit
<1>3. /\ current' \in Fiber /\ workInProgress' \in Fiber
      /\ SameWork(current', workInProgress)
      /\ current'.lanes = workInProgress.lanes
  BY <1>1, <1>2, Types, WithoutCallbacks
<1>4. called' \in Seq(Id)
  BY <1>1, <1>2, Types, Concatenation DEF TypeOK
<1>5. TypeOK'
  BY <1>1, <1>2, <1>3, <1>4 DEF TypeOK
<1>6. Waiting' = WaitingFor(workInProgress)
  BY <1>2, <1>3 DEF Waiting, WaitingFor, SameWork
<1>7. IsWhole(current', WaitingFor(workInProgress), made)
  BY <1>1, <1>2, <1>3, StaysWhole DEF WorkInProgressIsWhole, SameWork
<1>8. /\ ConcurrentlyUpdatedLanes \subseteq workInProgress.lanes
      /\ workInProgress.lanes = LanesOf(WaitingFor(workInProgress)) \ {NoLane}
  BY <1>1, <1>2 DEF WorkInProgressIsWhole, RemainingLanes
<1>9. CurrentIsWhole'
  BY <1>2, <1>3, <1>6, <1>7, <1>8 DEF CurrentIsWhole, ConcurrentlyUpdatedLanes
<1>10. WorkInProgressIsWhole' /\ BatchIsWhole'
  BY <1>2 DEF WorkInProgressIsWhole, BatchIsWhole
<1> QED
  BY <1>5, <1>9, <1>10 DEF IndInv

LEMMA Inductive ==
  ASSUME IndInv, [Next]_vars
  PROVE  IndInv'
<1>1. ASSUME NEW lane \in UpdateLanes, EnqueueUpdate(lane) PROVE IndInv'
  BY <1>1, AfterEnqueueUpdate
<1>2. ASSUME NEW lanes \in SUBSET UpdateLanes, PrepareFreshStack(lanes) PROVE IndInv'
  BY <1>2, AfterPrepareFreshStack
<1>3. CASE BailOut
  BY <1>3, AfterBailOut
<1>4. CASE BeginWork
  BY <1>4, AfterBeginWork
<1>5. CASE CompleteRender
  BY <1>5, AfterFinishQueueing DEF CompleteRender
<1>6. CASE AbandonRender
  BY <1>6, AfterFinishQueueing DEF AbandonRender
<1>7. CASE Commit
  BY <1>7, AfterCommit
<1>8. CASE UNCHANGED vars
  BY <1>8
     DEF vars, IndInv, TypeOK, CurrentIsWhole, WorkInProgressIsWhole, BatchIsWhole,
         Waiting, WaitingFor, RemainingLanes, ConcurrentlyUpdatedLanes
<1> QED
  BY <1>1, <1>2, <1>3, <1>4, <1>5, <1>6, <1>7, <1>8 DEF Next

\* The queue's inductive invariant: wherever a render is interrupted, the fiber on the
\* screen has each update once and in order, in its base state or in a queue, and so
\* has the work in progress.
THEOREM Invariance == Spec => []IndInv
<1>1. IndInv /\ [Next]_vars => IndInv'
  BY Inductive
<1> QED
  BY <1>1, Initially, PTL DEF Spec

LEMMA WaitingIsNumbered ==
  ASSUME IndInv
  PROVE  NoUpdateLost
<1>1. /\ Waiting \in Seq(Update) /\ current \in Fiber /\ made \in Nat
      /\ current.baseState \in Seq(Id) /\ Len(current.baseState) \in Nat
  BY Types DEF IndInv, Fiber
<1>2. /\ Len(current.baseState) + Len(Waiting) = made
      /\ Counts(current.baseState, Waiting)
      /\ Elements(current.memoizedState) = (1..made) \ UnappliedIds(Waiting)
  BY <1>1, WholeCounts DEF IndInv, CurrentIsWhole
<1>3. UnappliedIds(Waiting) \subseteq 1..made
  <2>1. UnappliedIds(Waiting) = UnappliedAt(current.baseState, Waiting)
    BY <1>1, <1>2, UnappliedIdsByPosition
  <2> QED
    BY <1>1, <1>2, <2>1 DEF UnappliedAt
<1>4. UnappliedIds(Waiting) = (1..made) \ Elements(current.memoizedState)
  BY <1>2, <1>3
<1>5. Numbered(Waiting) /\ DOMAIN Waiting = 1..Len(Waiting)
  BY <1>1, <1>2, CountsIsNumbered
<1> QED
  BY <1>4, <1>5 DEF NoUpdateLost, UnappliedIds, Numbered

\* An update is on the screen or waits, once and in the order in which it was made,
\* however many renders skip it, start over or are abandoned.
THEOREM NothingIsLost == Spec => []NoUpdateLost
  BY Invariance, WaitingIsNumbered, PTL

\* Once a fiber was visited, by a bailout or not, no update of the render's lanes is
\* left behind: those of one batch appear together.
THEOREM BatchesAreWhole == Spec => []BatchIsWhole
<1>1. IndInv => BatchIsWhole
  BY DEF IndInv
<1> QED
  BY <1>1, Invariance, PTL

\* The lanes by which the root schedules renders are those of the updates that wait,
\* before a render as well as when a commit is about to leave some behind.
THEOREM ExactLanes == Spec => []LanesAreExact
<1>1. IndInv => LanesAreExact
  BY DEF IndInv, CurrentIsWhole, WorkInProgressIsWhole, LanesAreExact
<1> QED
  BY <1>1, Invariance, PTL

-----------------------------------------------------------------------------
(* What the operations do to the updates that wait: for those who use the queue *)

LEMMA WaitingParts ==
  ASSUME IndInv
  PROVE  Elements(Waiting) = Elements(current.baseQueue \o pending) \cup Elements(concurrentQueues)
<1>1. /\ current.baseQueue \o pending \in Seq(Update) /\ concurrentQueues \in Seq(Update)
      /\ Waiting = (current.baseQueue \o pending) \o concurrentQueues
  BY Types DEF IndInv, Waiting, WaitingFor
<1> QED
  BY <1>1, Concatenation, ZenonT(60)

\* An update is known by its number, and what came in last is the latest.
LEMMA WaitingIsDistinct ==
  ASSUME IndInv
  PROVE  /\ \A u, v \in Elements(Waiting) : u.id = v.id => u = v
         /\ \A u \in Elements(current.baseQueue \o pending), v \in Elements(concurrentQueues) :
              u.id < v.id
         /\ \A u \in Elements(Waiting) : u.id \in Nat
<1> DEFINE a == current.baseQueue \o pending
           b == concurrentQueues
<1>1. /\ a \in Seq(Update) /\ b \in Seq(Update) /\ Waiting \in Seq(Update)
      /\ Waiting = a \o b
  BY Types DEF IndInv, Waiting, WaitingFor
<1>2. \A i, j \in DOMAIN Waiting : i < j => Waiting[i].id < Waiting[j].id
  BY WaitingIsNumbered DEF NoUpdateLost
<1>3. DOMAIN Waiting = 1..Len(Waiting) /\ \A i \in DOMAIN Waiting : Waiting[i].id \in Nat
  <2>1. DOMAIN Waiting = 1..Len(Waiting) /\ \A i \in DOMAIN Waiting : Waiting[i] \in Update
    BY <1>1
  <2>2. \A u \in Update : u.id \in Nat
    BY DEF Update, Id
  <2> QED
    BY <2>1, <2>2
<1>4. ASSUME NEW u \in Elements(Waiting), NEW v \in Elements(Waiting), u.id = v.id
      PROVE  u = v
  <2>1. PICK i \in DOMAIN Waiting : u = Waiting[i]
    BY DEF Elements
  <2>2. PICK j \in DOMAIN Waiting : v = Waiting[j]
    BY DEF Elements
  <2>3. ~(i < j) /\ ~(j < i)
    BY <1>2, <1>3, <1>4, <2>1, <2>2
  <2> QED
    BY <1>3, <2>1, <2>2, <2>3
<1>5. ASSUME NEW u \in Elements(a), NEW v \in Elements(b)
      PROVE  u.id < v.id
  <2> HIDE DEF a, b
  <2>1. DOMAIN a = 1..Len(a) /\ DOMAIN b = 1..Len(b) /\ Len(a) \in Nat /\ Len(b) \in Nat
    BY <1>1
  <2>2. PICK i \in 1..Len(a) : u = a[i]
    BY <2>1 DEF Elements
  <2>3. PICK j \in 1..Len(b) : v = b[j]
    BY <2>1 DEF Elements
  <2>4. /\ Len(Waiting) = Len(a) + Len(b)
        /\ Waiting[i] = a[i] /\ Waiting[Len(a) + j] = b[j]
    BY <1>1, <2>2, <2>3, Concatenation
  <2>5. i \in DOMAIN Waiting /\ Len(a) + j \in DOMAIN Waiting /\ i < Len(a) + j
    BY <1>3, <2>1, <2>4
  <2> QED
    BY <1>2, <2>2, <2>3, <2>4, <2>5
<1>6. \A u \in Elements(Waiting) : u.id \in Nat
  BY <1>3 DEF Elements
<1> QED
  BY <1>4, <1>5, <1>6

\* A new update waits for either alternate.
LEMMA QueuedUpdate ==
  ASSUME IndInv, NEW lane \in UpdateLanes, EnqueueUpdate(lane)
  PROVE  LET u == [id |-> made + 1, lane |-> lane, callback |-> TRUE]
         IN /\ Elements(Waiting)' = Elements(Waiting) \cup {u}
            /\ Elements(WaitingFor(workInProgress))'
                 = Elements(WaitingFor(workInProgress)) \cup {u}
<1> DEFINE u == [id |-> made + 1, lane |-> lane, callback |-> TRUE]
<1>1. TypeOK
  BY DEF IndInv
<1>2. u \in Update
  BY <1>1, UpdatesAssumption DEF TypeOK, EnqueueUpdate, Update, Id
<1>3. /\ concurrentQueues' = Append(concurrentQueues, u) /\ pending' = pending
      /\ current' = [current EXCEPT !.lanes = @ \cup {lane}]
      /\ workInProgress' = [workInProgress EXCEPT !.lanes = @ \cup {lane}]
  BY DEF EnqueueUpdate
<1> HIDE DEF u
<1>4. /\ current'.baseQueue = current.baseQueue
      /\ workInProgress'.baseQueue = workInProgress.baseQueue
  BY <1>1, <1>3 DEF TypeOK, Fiber
<1>5. /\ current.baseQueue \in Seq(Update) /\ workInProgress.baseQueue \in Seq(Update)
      /\ pending \in Seq(Update) /\ concurrentQueues \in Seq(Update)
      /\ Waiting \in Seq(Update) /\ WaitingFor(workInProgress) \in Seq(Update)
  BY <1>1, Types
<1>6. /\ Waiting' = Waiting \o <<u>>
      /\ WaitingFor(workInProgress)' = WaitingFor(workInProgress) \o <<u>>
  <2>1. /\ Waiting' = current.baseQueue \o pending \o Append(concurrentQueues, u)
        /\ WaitingFor(workInProgress)'
             = workInProgress.baseQueue \o pending \o Append(concurrentQueues, u)
    BY <1>3, <1>4 DEF Waiting, WaitingFor
  <2>2. \A a \in Seq(Update) :
          a \o pending \o Append(concurrentQueues, u) = (a \o pending \o concurrentQueues) \o <<u>>
    BY <1>2, <1>5, QueuesInTurn, SMTT(60)
  <2> QED
    BY <1>5, <2>1, <2>2 DEF Waiting, WaitingFor
<1>7. <<u>> \in Seq(Update) /\ Elements(<<u>>) = {u}
  <2>1. <<u>> \in Seq(Update) /\ DOMAIN <<u>> = 1..1 /\ <<u>>[1] = u
    BY <1>2
  <2> QED
    BY <2>1 DEF Elements
<1>8. ASSUME NEW s \in Seq(Update)
      PROVE  Elements(s \o <<u>>) = Elements(s) \cup {u}
  <2> DEFINE t == <<u>>
  <2>1. t \in Seq(Update) /\ Elements(t) = {u}
    BY <1>7
  <2> HIDE DEF t
  <2>2. Elements(s \o t) = Elements(s) \cup Elements(t)
    BY <2>1, Concatenation
  <2> QED
    BY <2>1, <2>2 DEF t
<1> QED
  BY <1>5, <1>6, <1>8 DEF u

\* A new render starts with all that waits, and the end of one changes nothing.
LEMMA FreshWaiting ==
  ASSUME IndInv, NEW lanes \in SUBSET UpdateLanes, PrepareFreshStack(lanes)
  PROVE  /\ Waiting' = Waiting /\ WaitingFor(workInProgress)' = Waiting
         /\ LanesOf(current.baseQueue \o pending)' = LanesOf(Waiting)
<1> DEFINE wip == [current EXCEPT !.callbacks = <<>>]
<1>1. TypeOK /\ CurrentIsWhole /\ IndInv'
  BY AfterPrepareFreshStack DEF IndInv
<1>2. wip \in Fiber
  BY <1>1, WithoutCallbacks DEF TypeOK
<1> HIDE DEF wip
<1>3. /\ FinishQueueing(current, wip) /\ UNCHANGED made /\ phase' = "prepared"
      /\ concurrentQueues' = <<>>
  BY DEF PrepareFreshStack, FinishQueueing, wip
<1>4. Waiting' = Waiting
  BY <1>1, <1>2, <1>3, CurrentStaysWhole
<1>5. WaitingFor(workInProgress)' = Waiting'
  BY <1>1, <1>3 DEF IndInv, WorkInProgressIsWhole, Waiting, WaitingFor
<1>6. (current.baseQueue \o pending)' \in Seq(Update)
  BY <1>1, Types DEF IndInv, TypeOK, Fiber
<1>7. Waiting' = (current.baseQueue \o pending)'
  BY <1>3, <1>6, EmptyQueue DEF Waiting, WaitingFor
<1> QED
  BY <1>4, <1>5, <1>7 DEF LanesOf

LEMMA FinishedWaiting ==
  ASSUME IndInv, CompleteRender \/ AbandonRender
  PROVE  Waiting' = Waiting /\ WaitingFor(workInProgress)' = WaitingFor(workInProgress)
<1>1. TypeOK /\ CurrentIsWhole /\ FinishQueueing(current, workInProgress) /\ UNCHANGED made
  BY DEF IndInv, CompleteRender, AbandonRender
<1>2. Waiting' = Waiting
  BY <1>1, Types, CurrentStaysWhole
<1>3. /\ SameWork(workInProgress', workInProgress)
      /\ \A a \in Seq(Update) :
           a \o pending' \o concurrentQueues' = a \o pending \o concurrentQueues
  BY <1>1, Types, Finished
<1>4. workInProgress'.baseQueue = workInProgress.baseQueue
  BY <1>3 DEF SameWork
<1>5. WaitingFor(workInProgress)' = WaitingFor(workInProgress)
  BY <1>1, <1>3, <1>4, Types DEF WaitingFor
<1> QED
  BY <1>2, <1>5

\* processUpdateQueue keeps the updates it skips as they are.
LEMMA SkippedStay ==
  ASSUME NEW fiber, NEW queue \in Seq(Update), NEW lanes
  PROVE  Unapplied(ProcessUpdateQueue(fiber, queue, lanes).baseQueue)
           = {u \in Elements(queue) : Skips(lanes, u)}
<1> DEFINE r     == ProcessUpdateQueue(fiber, queue, lanes)
           first == FirstSkipped(queue, lanes)
           rest  == SubSeq(queue, first, Len(queue))
           newQueue == [i \in DOMAIN rest |-> Rebased(lanes, rest[i])]
<1>0. DOMAIN queue = 1..Len(queue) /\ Len(queue) \in Nat
  OBVIOUS
<1>1. r.baseQueue = newQueue
  BY DEF ProcessUpdateQueue
<1>2. first \in 1..Len(queue) + 1 /\ \A i \in 1..first - 1 : ~Skips(lanes, queue[i])
  BY FirstSkippedFact
<1> HIDE DEF first
<1>3. /\ rest \in Seq(Update) /\ Elements(rest) = {queue[i] : i \in first..Len(queue)}
  BY <1>2, Parts
<1> HIDE DEF rest
<1>4. Elements(newQueue) = {Rebased(lanes, u) : u \in Elements(rest)}
  BY DEF Elements
<1>5. \A u \in Elements(rest) : /\ Rebased(lanes, u).lane # NoLane <=> Skips(lanes, u)
                                /\ Skips(lanes, u) => Rebased(lanes, u) = u
  <2>1. Elements(rest) \subseteq Update
    BY <1>3 DEF Elements
  <2> QED
    BY <2>1, RebasedUpdate
<1>6. Unapplied(newQueue) = {u \in Elements(rest) : Skips(lanes, u)}
  BY <1>4, <1>5 DEF Unapplied
<1>7. \A u \in Elements(queue) : Skips(lanes, u) => u \in Elements(rest)
  <2> SUFFICES ASSUME NEW i \in 1..Len(queue), Skips(lanes, queue[i])
               PROVE  i \in first..Len(queue)
    BY <1>0, <1>3 DEF Elements
  <2> QED
    BY <1>0, <1>2
<1>8. Elements(rest) \subseteq Elements(queue)
  <2>1. first..Len(queue) \subseteq DOMAIN queue
    BY <1>0, <1>2
  <2> QED
    BY <1>3, <2>1 DEF Elements
<1> HIDE DEF newQueue
<1>9. Unapplied(newQueue) = {u \in Elements(queue) : Skips(lanes, u)}
  BY <1>6, <1>7, <1>8
<1> QED
  BY <1>1, <1>9

\* A render takes the updates of its lanes that it finds, and leaves the others.
LEMMA TakenUpdates ==
  ASSUME IndInv, BeginWork
  PROVE  /\ Waiting' = Waiting
         /\ Unapplied(WaitingFor(workInProgress))'
              = {u \in Unapplied(Waiting) :
                   u \in Elements(concurrentQueues) \/ u.lane \notin renderLanes}
         /\ Elements(workInProgress.memoizedState)'
              = (1..made) \ UnappliedIds(WaitingFor(workInProgress))'
<1> DEFINE queue == current.baseQueue \o pending
           r == ProcessUpdateQueue(workInProgress, queue, renderLanes)
<1>1. TypeOK /\ IndInv'
  BY AfterBeginWork DEF IndInv
<1>2. /\ phase' = "begun" /\ pending' = <<>> /\ workInProgress.baseQueue = current.baseQueue
      /\ current' = [current EXCEPT !.baseQueue = @ \o pending]
      /\ UNCHANGED <<concurrentQueues, made>>
  BY DEF IndInv, WorkInProgressIsWhole, BeginWork
<1>3. workInProgress' = r
  BY <1>2 DEF BeginWork
<1>4. /\ current \in Fiber /\ queue \in Seq(Update) /\ concurrentQueues \in Seq(Update)
      /\ current.baseQueue \in Seq(Update) /\ pending \in Seq(Update)
      /\ workInProgress'.baseQueue \in Seq(Update)
  BY <1>1, Types DEF IndInv, TypeOK, Fiber
<1>5. current'.baseQueue = queue
  BY <1>2, <1>4 DEF Fiber
<1> HIDE DEF queue
<1>6. /\ Waiting' = queue \o <<>> \o concurrentQueues
      /\ WaitingFor(workInProgress)' = workInProgress'.baseQueue \o <<>> \o concurrentQueues
      /\ Waiting = queue \o concurrentQueues
  BY <1>2, <1>5 DEF Waiting, WaitingFor, queue
<1>7. /\ Waiting' = Waiting
      /\ WaitingFor(workInProgress)' = workInProgress'.baseQueue \o concurrentQueues
  BY <1>4, <1>6, EmptyQueue
<1>8. /\ Elements(Waiting) = Elements(queue) \cup Elements(concurrentQueues)
      /\ Elements(WaitingFor(workInProgress)')
           = Elements(workInProgress'.baseQueue) \cup Elements(concurrentQueues)
  BY <1>4, <1>6, <1>7, Concatenation
<1>9. Unapplied(workInProgress'.baseQueue)
        = {u \in Elements(queue) : Skips(renderLanes, u)}
  BY <1>3, <1>4, SkippedStay
<1>10. Unapplied(WaitingFor(workInProgress))'
         = {u \in Unapplied(Waiting) :
              u \in Elements(concurrentQueues) \/ u.lane \notin renderLanes}
  <2>1. \A u \in Elements(queue) :
          Skips(renderLanes, u) <=> u.lane # NoLane /\ u.lane \notin renderLanes
    BY DEF Skips
  <2>2. Unapplied(WaitingFor(workInProgress)')
          = Unapplied(workInProgress'.baseQueue) \cup Unapplied(concurrentQueues)
    BY <1>8 DEF Unapplied
  <2>3. Unapplied(WaitingFor(workInProgress)')
          = {u \in Unapplied(Waiting) :
               u \in Elements(concurrentQueues) \/ u.lane \notin renderLanes}
    BY <1>8, <1>9, <2>1, <2>2 DEF Unapplied
  <2> QED
    BY <2>3 DEF Unapplied
<1>11. Elements(workInProgress.memoizedState)'
         = (1..made) \ UnappliedIds(WaitingFor(workInProgress))'
  BY <1>1, <1>2 DEF IndInv, WorkInProgressIsWhole, IsWhole, UnappliedIds
<1> QED
  BY <1>7, <1>10, <1>11

-----------------------------------------------------------------------------
(* The history of the updates *)

\* Updates in increasing order are those of their set in the order in which they were made.
LEMMA InOrderIsIncreasing ==
  ASSUME NEW s \in Seq(Id), Increasing(s)
  PROVE  s = History!InOrder(Elements(s))
<1> DEFINE ids == [i \in Id |-> i]
           S == Elements(s)
           t == Only(ids, S)
<1>1. ids \in Seq(Nat) /\ Len(ids) = MaxUpdates /\ \A i \in 1..MaxUpdates : ids[i] = i
  <2>1. Id = 1..MaxUpdates /\ MaxUpdates \in Nat
    BY UpdatesAssumption DEF Id
  <2> QED
    BY <2>1
<1>2. S \subseteq Elements(ids)
  BY UpdatesAssumption DEF Elements, Id
<1> HIDE DEF ids, S
<1>3. t \in Seq(Nat) /\ \E e : Keeps(e, t, ids, Len(ids), S)
  BY <1>1, OnlyKeeps
<1>4. Elements(t) = S
  <2>1. ids \in Seq(Nat)
    BY <1>1
  <2>2. Elements(Only(ids, S)) = Elements(ids) \cap S
    BY <2>1, OnlyElements
  <2> QED
    BY <1>2, <2>2
<1>5. PICK e : Keeps(e, t, ids, Len(ids), S)
  BY <1>3
<1> HIDE DEF t
<1>6. Increasing(t)
  <2>1. ASSUME NEW i \in 1..Len(t)
        PROVE  e[i] \in 1..MaxUpdates /\ t[i] = e[i]
    BY <1>1, <1>5 DEF Keeps
  <2>2. \A i, j \in 1..Len(t) : i < j => e[i] < e[j]
    BY <1>5 DEF Keeps
  <2>3. DOMAIN t = 1..Len(t)
    BY <1>3
  <2> QED
    BY <2>1, <2>2, <2>3 DEF Increasing
<1>7. s \in Seq(Nat)
  BY UpdatesAssumption DEF Id
<1>8. s = t
  BY <1>3, <1>4, <1>6, <1>7, IncreasingIsUnique DEF S
<1>9. History!InOrder(S) = t
  BY DEF History!InOrder, History!Id, History!Only, Only, t, ids, Id
<1> QED
  BY <1>8, <1>9 DEF S

LEMMA CommitAddsToHistory ==
  ASSUME IndInv, Commit
  PROVE  History!Commit
<1> DEFINE S == Elements(workInProgress.callbacks)
<1>1. TypeOK /\ WorkInProgressIsWhole
  BY DEF IndInv
<1>2. /\ phase = "completed"
      /\ current' = [workInProgress EXCEPT !.callbacks = <<>>]
      /\ called' = called \o workInProgress.callbacks
      /\ UNCHANGED made
  BY DEF Commit
<1>3. /\ workInProgress \in Fiber /\ workInProgress.callbacks \in Seq(Id)
      /\ workInProgress.memoizedState \in Seq(Id)
  BY <1>1, Types DEF Fiber
<1>4. current'.memoizedState = workInProgress.memoizedState
  BY <1>2, <1>3, WithoutCallbacks DEF SameWork
<1>5. /\ Elements(current.memoizedState) \subseteq Elements(workInProgress.memoizedState)
      /\ Increasing(workInProgress.callbacks)
      /\ S = Elements(workInProgress.memoizedState) \ Elements(current.memoizedState)
      /\ Increasing(workInProgress.memoizedState)
      /\ Elements(workInProgress.memoizedState) \subseteq 1..made
  BY <1>1, <1>2 DEF WorkInProgressIsWhole, IsWhole
<1> HIDE DEF S
<1>6. workInProgress.callbacks = History!InOrder(S)
  BY <1>3, <1>5, InOrderIsIncreasing DEF S
<1>7. Elements(current.memoizedState) \cup S = Elements(workInProgress.memoizedState)
  BY <1>5
<1>8. workInProgress.memoizedState = History!InOrder(Elements(current.memoizedState) \cup S)
  BY <1>3, <1>5, <1>7, InOrderIsIncreasing
<1>9. \A s : History!Elements(s) = Elements(s)
  BY DEF History!Elements, Elements
<1>10. S \in SUBSET ((1..made) \ Elements(current.memoizedState))
  BY <1>5
<1> QED
  BY <1>2, <1>4, <1>6, <1>8, <1>9, <1>10, Zenon DEF History!Commit

LEMMA StepOfHistory ==
  ASSUME IndInv, [Next]_vars
  PROVE  [History!Next]_(History!vars)
<1>1. ASSUME NEW lane \in UpdateLanes, EnqueueUpdate(lane)
      PROVE  History!Make
  <2>1. current'.memoizedState = current.memoizedState
    BY <1>1 DEF EnqueueUpdate, IndInv, TypeOK, Fiber
  <2> QED
    BY <1>1, <2>1 DEF EnqueueUpdate, History!Make
<1>2. ASSUME NEW wip \in Fiber, FinishQueueing(current, wip), UNCHANGED <<made, called>>
      PROVE  UNCHANGED History!vars
  <2>1. SameWork(current', current)
    BY <1>2, Types, Finished DEF IndInv
  <2> QED
    BY <1>2, <2>1 DEF SameWork, History!vars
<1>3. ASSUME NEW lanes \in SUBSET UpdateLanes, PrepareFreshStack(lanes)
      PROVE  UNCHANGED History!vars
  BY <1>2, <1>3, Types, WithoutCallbacks DEF PrepareFreshStack, IndInv
<1>4. CASE BailOut
  BY <1>4 DEF BailOut, History!vars
<1>5. CASE BeginWork
  <2>1. current'.memoizedState = current.memoizedState
    BY <1>5 DEF BeginWork, IndInv, TypeOK, Fiber
  <2> QED
    BY <1>5, <2>1 DEF BeginWork, History!vars
<1>6. CASE CompleteRender
  BY <1>2, <1>6, Types DEF CompleteRender, IndInv
<1>7. CASE AbandonRender
  BY <1>2, <1>7, Types DEF AbandonRender, IndInv
<1>8. CASE Commit
  BY <1>8, CommitAddsToHistory DEF History!Next
<1>9. CASE UNCHANGED vars
  BY <1>9 DEF vars, History!vars
<1> QED
  BY <1>1, <1>3, <1>4, <1>5, <1>6, <1>7, <1>8, <1>9 DEF Next, History!Next

\* The update queue implements the history of updates: a commit only adds updates to the
\* screen, which shows them in the order in which they were made, and calls the callback
\* of each of them then and only then.
THEOREM Refinement == Spec => ImplementsUpdateHistory
<1>1. Init => History!Init
  BY DEF Init, EmptyFiber, History!Init
<1>2. IndInv /\ [Next]_vars => [History!Next]_(History!vars)
  BY StepOfHistory
<1> QED
  BY <1>1, <1>2, Invariance, PTL DEF Spec, ImplementsUpdateHistory, History!Spec
=============================================================================

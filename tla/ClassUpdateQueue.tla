------------------------- MODULE ClassUpdateQueue -------------------------
(***************************************************************************)
(* The update queue of a class component or of the root fiber              *)
(* (DevjsFiberClassUpdateQueue.js), and the queue of updates made by       *)
(* concurrent events (DevjsFiberConcurrentUpdates.js) that feeds it.       *)
(*                                                                         *)
(* The fiber has two alternates.  An update first waits in                 *)
(* concurrentQueues, because a render may be in progress; it moves to the  *)
(* shared pending queue when no render is, and from there to the base      *)
(* queues of the fibers when a render processes the queue.  A render       *)
(* applies the updates of its lanes and keeps the others, with a copy of   *)
(* each update it applied after one that it skipped.                       *)
(*                                                                         *)
(* A payload appends the number of its update to the state.  Which lanes   *)
(* are rendered, and when, is left open here; ConcurrentRoot chooses.      *)
(***************************************************************************)
EXTENDS FiberLanes, Subsequences

CONSTANTS UpdateLanes,  \* the lanes updates are made in
          MaxUpdates    \* bound on the number of updates

ASSUME LanesAssumption   == UpdateLanes \subseteq Lane
ASSUME UpdatesAssumption == MaxUpdates \in Nat

VARIABLES
  concurrentQueues,  \* updates not yet in the shared queue
  pending,           \* the shared queue
  current,           \* the fiber on the screen
  workInProgress,    \* its alternate
  renderLanes,       \* the lanes being rendered
  phase,             \* of the render: "none", "prepared", "begun", "completed"
  made,              \* number of updates made so far
  called             \* the callbacks called, oldest first

vars == <<concurrentQueues, pending, current, workInProgress, renderLanes,
          phase, made, called>>

Id == 1..MaxUpdates

\* A copy of an update that was applied has NoLane and no callback.
Update == [id : Id, lane : UpdateLanes \cup {NoLane}, callback : BOOLEAN]

Fiber == [baseState : Seq(Id), baseQueue : Seq(Update), memoizedState : Seq(Id),
          lanes : SUBSET UpdateLanes, callbacks : Seq(Id)]

EmptyFiber == [baseState |-> <<>>, baseQueue |-> <<>>, memoizedState |-> <<>>,
               lanes |-> {}, callbacks |-> <<>>]

Ids(queue)  == [i \in DOMAIN queue |-> queue[i].id]
LanesOf(queue) == {u.lane : u \in Elements(queue)}
ConcurrentlyUpdatedLanes == LanesOf(concurrentQueues)

-----------------------------------------------------------------------------
(* processUpdateQueue *)

\* NoLane is in every set of lanes.
Skips(lanes, update) == update.lane \notin lanes \cup {NoLane}

FirstSkipped(queue, lanes) ==
  CHOOSE n \in 1..Len(queue) + 1 :
    /\ n = Len(queue) + 1 \/ Skips(lanes, queue[n])
    /\ \A i \in 1..n-1 : ~Skips(lanes, queue[i])

Applied(queue, lanes) == Only(queue, {u \in Elements(queue) : ~Skips(lanes, u)})

\* Mutant: the copy of an applied update keeps its callback.
RebasedWithCallback(lanes, update) ==
  IF Skips(lanes, update) THEN update ELSE [update EXCEPT !.lane = NoLane]

\* What the next render starts from: everything from the first skipped update on.
Rebased(lanes, update) ==
  IF Skips(lanes, update) THEN update
  ELSE [update EXCEPT !.lane = NoLane, !.callback = FALSE]

ProcessUpdateQueue(fiber, queue, lanes) ==
  LET first == FirstSkipped(queue, lanes)
      rest  == SubSeq(queue, first, Len(queue))
  IN [baseState     |-> fiber.baseState \o Ids(SubSeq(queue, 1, first - 1)),
      baseQueue     |-> [i \in DOMAIN rest |-> Rebased(lanes, rest[i])],
      memoizedState |-> fiber.baseState \o Ids(Applied(queue, lanes)),
      lanes         |-> {u.lane : u \in {v \in Elements(queue) : Skips(lanes, v)}},
      callbacks     |-> Ids(Only(Applied(queue, lanes),
                                 {u \in Elements(queue) : u.callback}))]

-----------------------------------------------------------------------------
Init == /\ concurrentQueues = <<>> /\ pending = <<>>
        /\ current = EmptyFiber /\ workInProgress = EmptyFiber
        /\ renderLanes = {} /\ phase = "none"
        /\ made = 0 /\ called = <<>>

\* setState: both alternates learn of the lane at once, even in mid-render.
EnqueueUpdate(lane) ==
  /\ made < MaxUpdates
  /\ made' = made + 1
  /\ concurrentQueues' =
       Append(concurrentQueues, [id |-> made + 1, lane |-> lane, callback |-> TRUE])
  /\ current' = [current EXCEPT !.lanes = @ \cup {lane}]
  /\ workInProgress' = [workInProgress EXCEPT !.lanes = @ \cup {lane}]
  /\ UNCHANGED <<pending, renderLanes, phase, called>>

\* Mutant: the lanes of the updates are not marked again.
FinishQueueingUnmarked(cur, wip) ==
  /\ pending' = pending \o concurrentQueues
  /\ concurrentQueues' = <<>>
  /\ current' = cur
  /\ workInProgress' = wip

\* The updates join the shared queue, and their lanes are marked again, because
\* beginWork may have cleared those of the work in progress.
FinishQueueing(cur, wip) ==
  /\ pending' = pending \o concurrentQueues
  /\ concurrentQueues' = <<>>
  /\ current' = [cur EXCEPT !.lanes = @ \cup ConcurrentlyUpdatedLanes]
  /\ workInProgress' = [wip EXCEPT !.lanes = @ \cup ConcurrentlyUpdatedLanes]

\* A render starts, or starts over with other lanes, from the current fiber.
PrepareFreshStack(lanes) ==
  /\ FinishQueueing(current, [current EXCEPT !.callbacks = <<>>])
  /\ renderLanes' = lanes
  /\ phase' = "prepared"
  /\ UNCHANGED <<made, called>>

\* Mutant: a fiber that has work in the lanes bails out.
BailOutUnchecked ==
  /\ phase = "prepared"
  /\ phase' = "begun"
  /\ UNCHANGED <<concurrentQueues, pending, current, workInProgress,
                 renderLanes, made, called>>

\* The current fiber has none of the lanes: the fiber is cloned as it is.
BailOut ==
  /\ phase = "prepared"
  /\ current.lanes \cap renderLanes = {}
  /\ phase' = "begun"
  /\ UNCHANGED <<concurrentQueues, pending, current, workInProgress,
                 renderLanes, made, called>>

\* Mutant: the pending updates go to the work in progress only.
BeginWorkStealing ==
  /\ phase = "prepared"
  /\ current.lanes \cap renderLanes # {}
  /\ workInProgress' = ProcessUpdateQueue(workInProgress,
                          workInProgress.baseQueue \o pending, renderLanes)
  /\ pending' = <<>>
  /\ phase' = "begun"
  /\ UNCHANGED <<concurrentQueues, current, renderLanes, made, called>>

\* The pending updates go to the current fiber's base queue as well, so that
\* they survive this render if it is interrupted.
BeginWork ==
  /\ phase = "prepared"
  /\ current.lanes \cap renderLanes # {}
  /\ workInProgress' = ProcessUpdateQueue(workInProgress,
                          workInProgress.baseQueue \o pending, renderLanes)
  /\ current' = [current EXCEPT !.baseQueue = @ \o pending]
  /\ pending' = <<>>
  /\ phase' = "begun"
  /\ UNCHANGED <<concurrentQueues, renderLanes, made, called>>

\* Nothing is left to render.
CompleteRender ==
  /\ phase = "begun"
  /\ FinishQueueing(current, workInProgress)
  /\ phase' = "completed"
  /\ UNCHANGED <<renderLanes, made, called>>

\* The tree unwinds to the root: what was rendered is dropped.
AbandonRender ==
  /\ phase = "begun"
  /\ FinishQueueing(current, workInProgress)
  /\ phase' = "none"
  /\ UNCHANGED <<renderLanes, made, called>>

\* The lanes that the root still has to render after the commit.
RemainingLanes == workInProgress.lanes \cup ConcurrentlyUpdatedLanes

\* The alternates are swapped, then the callbacks are called.  What the new
\* alternate holds is overwritten before it is read.
Commit ==
  /\ phase = "completed"
  /\ current' = [workInProgress EXCEPT !.callbacks = <<>>]
  /\ workInProgress' = [workInProgress EXCEPT !.callbacks = <<>>]
  /\ called' = called \o workInProgress.callbacks
  /\ renderLanes' = {}
  /\ phase' = "none"
  /\ UNCHANGED <<concurrentQueues, pending, made>>

Next == \/ \E lane \in UpdateLanes : EnqueueUpdate(lane)
        \/ \E lanes \in SUBSET UpdateLanes : PrepareFreshStack(lanes)
        \/ BailOut \/ BeginWork \/ CompleteRender \/ AbandonRender \/ Commit

Spec == Init /\ [][Next]_vars

-----------------------------------------------------------------------------
(* Properties *)

\* The updates that a fiber still has to apply, oldest first.
WaitingFor(fiber) == fiber.baseQueue \o pending \o concurrentQueues

Waiting == WaitingFor(current)

\* Updates that were never applied: the copies of those that were have NoLane.
Unapplied(queue) == {u \in Elements(queue) : u.lane # NoLane}

TypeOK ==
  /\ concurrentQueues \in Seq(Update) /\ pending \in Seq(Update)
  /\ current \in Fiber /\ workInProgress \in Fiber
  /\ renderLanes \subseteq UpdateLanes
  /\ phase \in {"none", "prepared", "begun", "completed"}
  /\ made \in 0..MaxUpdates /\ called \in Seq(Id)

\* No update is lost or applied twice, wherever renders are interrupted: each is
\* either on the screen or, once, in one of the three queues, in order.
NoUpdateLost ==
  /\ {u.id : u \in Unapplied(Waiting)} = (1..made) \ Elements(current.memoizedState)
  /\ \A i, j \in DOMAIN Waiting : i < j => Waiting[i].id < Waiting[j].id

\* The root schedules renders by the lanes of the fibers and by those of the
\* concurrent queue: what a commit leaves behind is known by its lane, and no
\* lane is left without an update.
LanesAreExact ==
  /\ phase = "none" => current.lanes = LanesOf(Waiting) \ {NoLane}
  /\ phase = "completed" =>
       RemainingLanes = LanesOf(WaitingFor(workInProgress)) \ {NoLane}

\* A fiber that bails out, like one that processes its queue, leaves no update
\* of the render's lanes behind: updates of one batch appear together.
BatchIsWhole ==
  phase = "begun" =>
    LanesOf(workInProgress.baseQueue \o pending) \cap renderLanes = {}

\* What a fiber has of n updates made: each is in its base state or waits, once and in
\* order, and its state applies those that do not wait to be applied.
IsWhole(fiber, waiting, n) ==
  /\ Len(fiber.baseState) + Len(waiting) = n
  /\ \A i \in DOMAIN fiber.baseState : fiber.baseState[i] = i
  /\ \A i \in DOMAIN waiting : /\ waiting[i].id = Len(fiber.baseState) + i
                               /\ waiting[i].callback <=> waiting[i].lane # NoLane
  /\ Increasing(fiber.memoizedState)
  /\ Elements(fiber.memoizedState) = (1..n) \ {u.id : u \in Unapplied(waiting)}

\* The fiber on the screen is whole at any time, and knows the lanes of what waits.
CurrentIsWhole ==
  /\ IsWhole(current, Waiting, made)
  /\ current.lanes = LanesOf(Waiting) \ {NoLane}
  /\ ConcurrentlyUpdatedLanes \subseteq current.lanes

\* So is the work in progress during a render, but for lanes that the concurrent queue
\* will mark again, and its callbacks are those of the updates that it adds.
WorkInProgressIsWhole ==
  /\ phase # "none" =>
       /\ IsWhole(workInProgress, WaitingFor(workInProgress), made)
       /\ RemainingLanes = LanesOf(WaitingFor(workInProgress)) \ {NoLane}
       /\ Elements(current.memoizedState) \subseteq Elements(workInProgress.memoizedState)
       /\ Increasing(workInProgress.callbacks)
       /\ Elements(workInProgress.callbacks) =
            Elements(workInProgress.memoizedState) \ Elements(current.memoizedState)
  /\ phase = "prepared" =>
       /\ workInProgress.baseQueue = current.baseQueue
       /\ workInProgress.memoizedState = current.memoizedState
  /\ phase = "completed" => ConcurrentlyUpdatedLanes \subseteq workInProgress.lanes

\* The inductive invariant.
IndInv ==
  /\ TypeOK
  /\ CurrentIsWhole
  /\ WorkInProgressIsWhole
  /\ BatchIsWhole

\* processUpdateQueue keeps the order in which updates were made and calls each
\* callback once, however updates of several lanes are skipped and rebased.
History == INSTANCE UpdateHistory WITH screen <- current.memoizedState
ImplementsUpdateHistory == History!Spec

=============================================================================

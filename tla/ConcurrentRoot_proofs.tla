----------------------- MODULE ConcurrentRoot_proofs -----------------------
(***************************************************************************)
(* The root uses its update queue as ClassUpdateQueue says (QueueIsUsed),  *)
(* so that what ClassUpdateQueue_proofs shows of the queue holds in the    *)
(* root too: however renders yield, suspend, are pinged and wait to be     *)
(* committed, the root knows the lanes of exactly the updates that wait    *)
(* (LanesAreKnown), shows no update without its data (DataIsThere) and     *)
(* has a task or a microtask to come when there is work to do              *)
(* (RootStaysScheduled, TasksFindWork, SyncWorkIsDone), and transitions    *)
(* are shown in the order in which they were made (TransitionsStayInOrder).*)
(***************************************************************************)
EXTENDS ConcurrentRoot, SequenceLemmas

\* The queue's theorems.
P == INSTANCE ClassUpdateQueue_proofs

-----------------------------------------------------------------------------
(* The functions of FiberLanes *)

LEMMA MarkedRoot ==
  ASSUME NEW r \in Root(UpdateLanes), NEW lane \in UpdateLanes
  PROVE  /\ MarkRootUpdated(r, lane) \in Root(UpdateLanes)
         /\ MarkRootUpdated(r, lane).pendingLanes = r.pendingLanes \cup {lane}
  BY DEF MarkRootUpdated, Root

LEMMA MarkedRoots ==
  ASSUME NEW r \in Root(UpdateLanes), NEW lanes \in SUBSET UpdateLanes
  PROVE  /\ MarkRootPinged(r, lanes) \in Root(UpdateLanes)
         /\ MarkRootPinged(r, lanes).pendingLanes = r.pendingLanes
         /\ MarkRootFinished(r, lanes) \in Root(UpdateLanes)
         /\ MarkRootFinished(r, lanes).pendingLanes = lanes
         /\ MarkRootEntangled(r, lanes) \in Root(UpdateLanes)
         /\ MarkRootEntangled(r, lanes).pendingLanes = r.pendingLanes
<1>1. /\ MarkRootPinged(r, lanes) \in Root(UpdateLanes)
      /\ MarkRootPinged(r, lanes).pendingLanes = r.pendingLanes
  BY DEF MarkRootPinged, Root
<1>2. /\ MarkRootFinished(r, lanes) \in Root(UpdateLanes)
      /\ MarkRootFinished(r, lanes).pendingLanes = lanes
  BY DEF MarkRootFinished, Root
<1>3. /\ MarkRootEntangled(r, lanes) \in Root(UpdateLanes)
      /\ MarkRootEntangled(r, lanes).pendingLanes = r.pendingLanes
  BY DEF MarkRootEntangled, Root
<1> QED
  BY <1>1, <1>2, <1>3

LEMMA SuspendedRoot ==
  ASSUME NEW r \in Root(UpdateLanes), NEW lanes \in SUBSET UpdateLanes, NEW entire \in BOOLEAN
  PROVE  /\ MarkRootSuspended(r, lanes, entire) \in Root(UpdateLanes)
         /\ MarkRootSuspended(r, lanes, entire).pendingLanes = r.pendingLanes
  BY DEF MarkRootSuspended, Root

LEMMA StarvedRoot ==
  ASSUME NEW r \in Root(UpdateLanes), NEW late \in SUBSET UpdateLanes
  PROVE  /\ MarkStarvedLanesAsExpired(r, late) \in Root(UpdateLanes)
         /\ MarkStarvedLanesAsExpired(r, late).pendingLanes = r.pendingLanes
  BY DEF MarkStarvedLanesAsExpired, Root

LEMMA EntangledLanes ==
  ASSUME NEW r \in Root(UpdateLanes), NEW lanes \in SUBSET UpdateLanes
  PROVE  GetEntangledLanes(r, lanes) \in SUBSET UpdateLanes
  BY DEF GetEntangledLanes, Root

LEMMA TheNextLanes ==
  ASSUME NEW r \in Root(UpdateLanes), wip.lanes \in SUBSET UpdateLanes
  PROVE  NextLanes(r) \in SUBSET UpdateLanes
<1>1. \A lanes : HighestPriorityLanes(lanes) \subseteq lanes
  BY DEF HighestPriorityLanes
<1>2. ASSUME NEW commits PROVE NextLanesIgnoringWip(r, commits) \in SUBSET UpdateLanes
  BY <1>1 DEF NextLanesIgnoringWip, Root
<1> QED
  BY <1>2 DEF NextLanes, GetNextLanes

LEMMA MostUrgentLane ==
  ASSUME NEW lanes \in SUBSET UpdateLanes, lanes # {}
  PROVE  HighestPriorityLane(lanes) \in lanes
<1>1. lanes \subseteq Nat
  BY LanesAssumption DEF Lane
<1>2. \E l \in lanes : \A other \in lanes : l <= other
  BY <1>1, LeastElement
<1> QED
  BY <1>2 DEF HighestPriorityLane

-----------------------------------------------------------------------------
(* The queue: the proofs' instance of it is the root's. *)

LEMMA QueueAssumptions == UpdateLanes \subseteq P!Lane /\ MaxUpdates \in Nat
  BY LanesAssumption, UpdatesAssumption DEF Lane, P!Lane

LEMMA SameOperators ==
  /\ \A queue : Queue!LanesOf(queue) = P!LanesOf(queue)
  /\ \A s : Queue!Elements(s) = P!Elements(s)
  /\ \A fiber, queue, lanes :
       Queue!ProcessUpdateQueue(fiber, queue, lanes) = P!ProcessUpdateQueue(fiber, queue, lanes)
<1>1. \A s : Queue!Elements(s) = P!Elements(s)
  BY DEF Queue!Elements, P!Elements
<1>2. \A queue : Queue!LanesOf(queue) = P!LanesOf(queue)
  BY DEF Queue!LanesOf, P!LanesOf, Queue!Elements, P!Elements
<1>3. \A lanes, update : /\ Queue!Skips(lanes, update) <=> P!Skips(lanes, update)
                         /\ Queue!Rebased(lanes, update) = P!Rebased(lanes, update)
  BY DEF Queue!Skips, P!Skips, Queue!NoLane, P!NoLane, Queue!Rebased, P!Rebased
<1>4. \A queue, lanes : Queue!FirstSkipped(queue, lanes) = P!FirstSkipped(queue, lanes)
  BY <1>3, Zenon DEF Queue!FirstSkipped, P!FirstSkipped, Queue!Skips, P!Skips,
                     Queue!NoLane, P!NoLane
<1>5. \A s, T : Queue!Only(s, T) = P!Only(s, T)
  BY Zenon DEF Queue!Only, P!Only
<1>6. \A queue : Queue!Ids(queue) = P!Ids(queue)
  BY DEF Queue!Ids, P!Ids
<1>7. \A queue, lanes : Queue!Applied(queue, lanes) = P!Applied(queue, lanes)
  BY <1>1, <1>5, Zenon DEF Queue!Applied, P!Applied, Queue!Skips, P!Skips, Queue!NoLane,
                           P!NoLane, Queue!Elements, P!Elements
<1>8. ASSUME NEW fiber, NEW queue, NEW lanes
      PROVE  Queue!ProcessUpdateQueue(fiber, queue, lanes)
               = P!ProcessUpdateQueue(fiber, queue, lanes)
  BY <1>1, <1>4, <1>5, <1>6, <1>7, Zenon
     DEF Queue!ProcessUpdateQueue, P!ProcessUpdateQueue, Queue!Skips, P!Skips,
         Queue!NoLane, P!NoLane, Queue!Rebased, P!Rebased, Queue!Elements, P!Elements
<1> QED
  BY <1>1, <1>2, <1>8

LEMMA SameSteps ==
  /\ Queue!Init => P!Init
  /\ [Queue!Next]_(Queue!vars) => [P!Next]_(P!vars)
  /\ \A lane : Queue!EnqueueUpdate(lane) => P!EnqueueUpdate(lane)
  /\ \A lanes : Queue!PrepareFreshStack(lanes) => P!PrepareFreshStack(lanes)
  /\ Queue!BeginWork => P!BeginWork
  /\ Queue!CompleteRender \/ Queue!AbandonRender => P!CompleteRender \/ P!AbandonRender
<1>1. Queue!Init => P!Init
  BY Zenon DEF Queue!Init, P!Init, Queue!EmptyFiber, P!EmptyFiber
<1>2. \A lane : Queue!EnqueueUpdate(lane) => P!EnqueueUpdate(lane)
  BY Zenon DEF Queue!EnqueueUpdate, P!EnqueueUpdate
<1>3. \A cur, next : Queue!FinishQueueing(cur, next) => P!FinishQueueing(cur, next)
  BY Zenon
     DEF Queue!FinishQueueing, P!FinishQueueing, Queue!ConcurrentlyUpdatedLanes,
         P!ConcurrentlyUpdatedLanes, Queue!LanesOf, P!LanesOf, Queue!Elements, P!Elements
<1>4. \A lanes : Queue!PrepareFreshStack(lanes) => P!PrepareFreshStack(lanes)
  BY <1>3, Zenon DEF Queue!PrepareFreshStack, P!PrepareFreshStack
<1>5. Queue!BailOut => P!BailOut
  BY Zenon DEF Queue!BailOut, P!BailOut
<1>6. Queue!BeginWork => P!BeginWork
  BY SameOperators, Zenon DEF Queue!BeginWork, P!BeginWork
<1>7. Queue!CompleteRender => P!CompleteRender
  BY <1>3, Zenon DEF Queue!CompleteRender, P!CompleteRender
<1>8. Queue!AbandonRender => P!AbandonRender
  BY <1>3, Zenon DEF Queue!AbandonRender, P!AbandonRender
<1>9. Queue!Commit => P!Commit
  BY Zenon DEF Queue!Commit, P!Commit
<1>10. Queue!vars = P!vars /\ (UNCHANGED Queue!vars => UNCHANGED P!vars)
  BY Zenon DEF Queue!vars, P!vars
<1>11. Queue!Next => P!Next
  BY <1>2, <1>4, <1>5, <1>6, <1>7, <1>8, <1>9, Zenon DEF Queue!Next, P!Next
<1> QED
  BY <1>1, <1>2, <1>4, <1>6, <1>7, <1>8, <1>10, <1>11

LEMMA SameInvariant == (Queue!IndInv <=> P!IndInv) /\ (Queue!IndInv' <=> P!IndInv')
<1> USE DEF Queue!IndInv, P!IndInv, Queue!TypeOK, P!TypeOK, Queue!Update, P!Update,
            Queue!Fiber, P!Fiber, Queue!Id, P!Id, Queue!NoLane, P!NoLane,
            Queue!CurrentIsWhole, P!CurrentIsWhole, Queue!IsWhole, P!IsWhole,
            Queue!WorkInProgressIsWhole, P!WorkInProgressIsWhole,
            Queue!BatchIsWhole, P!BatchIsWhole, Queue!RemainingLanes, P!RemainingLanes,
            Queue!Waiting, P!Waiting, Queue!WaitingFor, P!WaitingFor,
            Queue!ConcurrentlyUpdatedLanes, P!ConcurrentlyUpdatedLanes,
            Queue!LanesOf, P!LanesOf, Queue!Unapplied, P!Unapplied,
            Queue!Elements, P!Elements, Queue!Increasing, P!Increasing
<1>1. Queue!IndInv <=> P!IndInv
  BY Zenon
<1>2. Queue!IndInv' <=> P!IndInv'
  BY Zenon
<1> QED
  BY <1>1, <1>2

\* What waits, in the words of the proofs' instance.
LEMMA SameQueues ==
  /\ Waiting = P!Waiting /\ Waiting' = P!Waiting'
  /\ Queue!WaitingFor(workInProgress) = P!WaitingFor(workInProgress)
  /\ Queue!WaitingFor(workInProgress)' = P!WaitingFor(workInProgress)'
  /\ \A queue : Queue!Unapplied(queue) = P!Unapplied(queue)
<1>1. \A queue : Queue!Unapplied(queue) = P!Unapplied(queue)
  BY DEF Queue!Unapplied, P!Unapplied, Queue!NoLane, P!NoLane, Queue!Elements, P!Elements
<1> QED
  BY <1>1, Zenon DEF Waiting, P!Waiting, Queue!WaitingFor, P!WaitingFor

LEMMA QueueInitially == Queue!Init => Queue!IndInv
  BY QueueAssumptions, SameSteps, SameInvariant, P!Initially

LEMMA QueueStep ==
  ASSUME Queue!IndInv, [Queue!Next]_(Queue!vars)
  PROVE  Queue!IndInv'
  BY QueueAssumptions, SameSteps, SameInvariant, P!Inductive
-----------------------------------------------------------------------------
(* What the operations of the queue do to what the root knows of it.  The lanes of the
   updates that join the shared queue are those of the fiber already. *)

LEMMA FreshQueue ==
  ASSUME Queue!IndInv, NEW lanes, Queue!PrepareFreshStack(lanes)
  PROVE  /\ current'.lanes = current.lanes
         /\ current'.memoizedState = current.memoizedState
         /\ workInProgress'.memoizedState = current.memoizedState
         /\ phase' = "prepared" /\ made' = made
<1>1. current \in Queue!Fiber /\ Queue!ConcurrentlyUpdatedLanes \subseteq current.lanes
  BY DEF Queue!IndInv, Queue!TypeOK, Queue!CurrentIsWhole
<1> QED
  BY <1>1 DEF Queue!PrepareFreshStack, Queue!FinishQueueing, Queue!Fiber

LEMMA ProcessedQueue ==
  ASSUME Queue!IndInv, Queue!BeginWork
  PROVE  /\ current'.lanes = current.lanes
         /\ current'.memoizedState = current.memoizedState
         /\ phase = "prepared" /\ phase' = "begun" /\ made' = made
<1>1. current \in Queue!Fiber
  BY DEF Queue!IndInv, Queue!TypeOK
<1> QED
  BY <1>1 DEF Queue!BeginWork, Queue!Fiber

LEMMA FinishedQueue ==
  ASSUME Queue!IndInv, Queue!CompleteRender \/ Queue!AbandonRender
  PROVE  /\ current'.lanes = current.lanes
         /\ current'.memoizedState = current.memoizedState
         /\ workInProgress'.memoizedState = workInProgress.memoizedState
         /\ Queue!CompleteRender => phase' = "completed"
         /\ Queue!AbandonRender => phase' = "none"
         /\ made' = made
<1>1. /\ current \in Queue!Fiber /\ workInProgress \in Queue!Fiber
      /\ Queue!ConcurrentlyUpdatedLanes \subseteq current.lanes
  BY DEF Queue!IndInv, Queue!TypeOK, Queue!CurrentIsWhole
<1> QED
  BY <1>1 DEF Queue!CompleteRender, Queue!AbandonRender, Queue!FinishQueueing, Queue!Fiber

LEMMA CommittedQueue ==
  ASSUME Queue!IndInv, Queue!Commit
  PROVE  /\ current'.lanes = Queue!RemainingLanes
         /\ current'.memoizedState = workInProgress.memoizedState
         /\ phase = "completed" /\ phase' = "none" /\ made' = made
<1>1. /\ workInProgress \in Queue!Fiber
      /\ phase = "completed" => Queue!ConcurrentlyUpdatedLanes \subseteq workInProgress.lanes
  BY DEF Queue!IndInv, Queue!TypeOK, Queue!WorkInProgressIsWhole
<1> QED
  BY <1>1 DEF Queue!Commit, Queue!RemainingLanes, Queue!Fiber

LEMMA AugmentedQueue ==
  ASSUME Queue!IndInv, NEW lane \in UpdateLanes, Queue!EnqueueUpdate(lane)
  PROVE  /\ current'.lanes = current.lanes \cup {lane}
         /\ current'.memoizedState = current.memoizedState
         /\ workInProgress'.memoizedState = workInProgress.memoizedState
         /\ phase' = phase /\ made' = made + 1 /\ made + 1 \in Id
         /\ concurrentQueues' # <<>>
         /\ concurrentQueues'[Len(concurrentQueues')].lane = lane
<1>1. /\ current \in Queue!Fiber /\ workInProgress \in Queue!Fiber
      /\ concurrentQueues \in Seq(Queue!Update) /\ made \in 0..MaxUpdates
  BY DEF Queue!IndInv, Queue!TypeOK
<1>2. [id |-> made + 1, lane |-> lane, callback |-> TRUE] \in Queue!Update
  BY <1>1, UpdatesAssumption DEF Queue!EnqueueUpdate, Queue!Update, Queue!Id
<1>3. concurrentQueues' = Append(concurrentQueues,
                                 [id |-> made + 1, lane |-> lane, callback |-> TRUE])
  BY DEF Queue!EnqueueUpdate
<1>4. /\ concurrentQueues' # <<>>
      /\ concurrentQueues'[Len(concurrentQueues')].lane = lane
  BY <1>1, <1>2, <1>3
<1> QED
  BY <1>1, <1>4, UpdatesAssumption DEF Queue!EnqueueUpdate, Queue!Fiber, Id

\* The lane of the update that the root is about to learn of.
LEMMA LatestLane ==
  ASSUME IndInv, pc = "schedule"
  PROVE  concurrentQueues[Len(concurrentQueues)].lane \in UpdateLanes
<1>1. /\ concurrentQueues # <<>>
      /\ concurrentQueues[Len(concurrentQueues)].lane \in current.lanes
      /\ current \in Queue!Fiber
  BY DEF IndInv, RootKnowsLanes, Queue!IndInv, Queue!TypeOK
<1> QED
  BY <1>1 DEF Queue!Fiber

-----------------------------------------------------------------------------
(* The root uses the queue as ClassUpdateQueue says. *)

LEMMA FreshStackIsAStep ==
  ASSUME TypeOK, NEW lanes \in SUBSET UpdateLanes, PrepareFreshStack(lanes)
  PROVE  Queue!Next
<1>1. GetEntangledLanes(root, lanes) \in SUBSET UpdateLanes
  BY EntangledLanes DEF TypeOK
<1> QED
  BY <1>1 DEF PrepareFreshStack, Queue!Next

LEMMA WorkIsAStep ==
  ASSUME TypeOK, NEW forceSync, PerformWorkOnRoot(NextLanes(root), forceSync)
  PROVE  Queue!Next \/ UNCHANGED queueVars
<1>1. NextLanes(root) \in SUBSET UpdateLanes
  BY TheNextLanes DEF TypeOK, Wip
<1> QED
  BY <1>1, FreshStackIsAStep DEF PerformWorkOnRoot

LEMMA QueueFollows ==
  ASSUME TypeOK, [Next]_vars
  PROVE  [Queue!Next]_(Queue!vars)
<1> SUFFICES Queue!Next \/ UNCHANGED queueVars
  BY DEF queueVars, Queue!vars
<1>1. CASE Event
  BY <1>1 DEF Event, EnqueueSetState, Resolve, FlushSyncWork, Queue!Next
<1>2. CASE ScheduleUpdateOnFiber
  BY <1>2 DEF ScheduleUpdateOnFiber, Queue!Next
<1>3. CASE \E listener \in pingCache : PingSuspendedRoot(listener[1], listener[2])
  <2>1. PrepareFreshStack({}) => Queue!Next
    BY FreshStackIsAStep
  <2> QED
    BY <1>3, <2>1 DEF PingSuspendedRoot
<1>4. CASE \E late \in SUBSET root.timedLanes :
             ProcessRootScheduleInMicrotask(late) \/ TaskEnd(late)
  BY <1>4 DEF ProcessRootScheduleInMicrotask, TaskEnd
<1>5. CASE FlushSyncWorkAcrossRoots
  BY <1>5, WorkIsAStep DEF FlushSyncWorkAcrossRoots
<1>6. CASE \E forceSync \in BOOLEAN : PerformWorkOnRootViaSchedulerTask(forceSync)
  BY <1>6, WorkIsAStep DEF PerformWorkOnRootViaSchedulerTask
<1>7. CASE TaskWithoutWork \/ RenderChild \/ YieldToHost \/ SuspendOnImmediate
           \/ UnwindSuspended \/ CommitIsReady
  BY <1>7 DEF TaskWithoutWork, RenderChild, YieldToHost, SuspendOnImmediate,
              UnwindSuspended, CommitIsReady
<1>8. CASE BeginWork \/ SuspendSyncRender \/ SuspendAtTheShell \/ CompleteRender \/ CommitRoot
  BY <1>8 DEF BeginWork, SuspendSyncRender, SuspendAtTheShell, CompleteRender, CommitRoot,
              Queue!Next
<1>9. CASE UNCHANGED vars
  BY <1>9 DEF vars
<1> QED
  BY <1>1, <1>2, <1>3, <1>4, <1>5, <1>6, <1>7, <1>8, <1>9 DEF Next, Work
-----------------------------------------------------------------------------
(* Types *)

LEMMA SuspendedRender ==
  ASSUME NEW r \in Root(UpdateLanes), NEW render \in Wip, NEW entire \in BOOLEAN
  PROVE  /\ MarkSuspended(r, render, entire) \in Root(UpdateLanes)
         /\ MarkSuspended(r, render, entire).pendingLanes = r.pendingLanes
<1>1. (render.lanes \ render.pinged) \ render.interleaved \in SUBSET UpdateLanes
  BY DEF Wip
<1> QED
  BY <1>1, SuspendedRoot DEF MarkSuspended

LEMMA Stacks ==
  ASSUME NEW lanes \in SUBSET UpdateLanes
  PROVE  FreshStack(lanes) \in Wip /\ NoWip \in Wip
<1>1. 0 \in 0..End
  BY ChildrenAssumption DEF End
<1>2. ASSUME NEW ls \in SUBSET UpdateLanes PROVE FreshStack(ls) \in Wip
  BY <1>1 DEF FreshStack, Wip
<1>3. NoWip \in Wip
  <2>1. FreshStack({}) \in Wip
    BY <1>2
  <2> QED
    BY <2>1 DEF NoWip, Wip
<1> QED
  BY <1>2, <1>3

LEMMA Callbacks ==
  ASSUME TypeOK, NEW r \in Root(UpdateLanes)
  PROVE  CallbackFor(r) \in [node : {"null", "queued", "running"},
                             priority : UpdateLanes \cup {SyncLane, NoLane}]
<1>1. NextLanes(r) \in SUBSET UpdateLanes
  BY TheNextLanes DEF TypeOK, Wip
<1>2. NextLanes(r) # {} => HighestPriorityLane(NextLanes(r)) \in UpdateLanes
  BY <1>1, MostUrgentLane
<1> QED
  BY <1>2 DEF CallbackFor, NoCallback, TypeOK

LEMMA Entangled ==
  ASSUME TypeOK, NEW r \in Root(UpdateLanes), NEW lane \in UpdateLanes,
         EntangleTransitions(r, lane)
  PROVE  /\ root' \in Root(UpdateLanes) /\ root'.pendingLanes = r.pendingLanes
         /\ queueLanes' \subseteq UpdateLanes
<1> DEFINE lanes == (queueLanes \cap r.pendingLanes) \cup {lane}
<1>1. lanes \in SUBSET UpdateLanes
  BY DEF TypeOK
<1>2. /\ MarkRootEntangled(r, lanes) \in Root(UpdateLanes)
      /\ MarkRootEntangled(r, lanes).pendingLanes = r.pendingLanes
  BY <1>1, MarkedRoots
<1> QED
  BY <1>1, <1>2 DEF EntangleTransitions, TypeOK

\* ScheduleUpdateOnFiber up to the entanglement of the update's lane.
LEMMA UpdatedRoot ==
  ASSUME IndInv, ScheduleUpdateOnFiber
  PROVE  /\ root' \in Root(UpdateLanes) /\ queueLanes' \subseteq UpdateLanes /\ wip' \in Wip
         /\ root'.pendingLanes =
              root.pendingLanes \cup {concurrentQueues[Len(concurrentQueues)].lane}
<1> DEFINE lane    == concurrentQueues[Len(concurrentQueues)].lane
           before  == IF cancelPendingCommit THEN FreshStack({}) ELSE wip
           render  == IF before.root THEN [before EXCEPT !.interleaved = @ \cup {lane}]
                      ELSE before
           updated == MarkRootUpdated(root, lane)
           marked  == IF render.exitStatus = "SuspendedWithDelay"
                      THEN MarkSuspended(updated, render, FALSE) ELSE updated
<1>1. wip' = render /\ EntangleTransitions(marked, lane)
  BY DEF ScheduleUpdateOnFiber
<1>2. lane \in UpdateLanes
  BY LatestLane DEF ScheduleUpdateOnFiber
<1>3. before \in Wip
  BY Stacks DEF IndInv, TypeOK
<1>4. render \in Wip
  BY <1>2, <1>3 DEF Wip
<1>5. /\ updated \in Root(UpdateLanes)
      /\ updated.pendingLanes = root.pendingLanes \cup {lane}
  BY <1>2, MarkedRoot DEF IndInv, TypeOK
<1>6. marked \in Root(UpdateLanes) /\ marked.pendingLanes = updated.pendingLanes
  BY <1>4, <1>5, SuspendedRender
<1> HIDE DEF marked, lane
<1>7. TypeOK
  BY DEF IndInv
<1>8. /\ root' \in Root(UpdateLanes) /\ root'.pendingLanes = marked.pendingLanes
      /\ queueLanes' \subseteq UpdateLanes
  BY <1>1, <1>2, <1>6, <1>7, Entangled
<1> QED
  BY <1>1, <1>4, <1>5, <1>6, <1>8 DEF lane

\* What an operation that works on the root may do to the render in progress.
LEMMA WorkingWip ==
  ASSUME TypeOK, NEW lanes \in SUBSET UpdateLanes, NEW forceSync \in BOOLEAN,
         PerformWorkOnRoot(lanes, forceSync)
  PROVE  wip' \in Wip /\ timeSlice' \in BOOLEAN /\ cancelPendingCommit' \in BOOLEAN
<1>1. wip' \in Wip /\ cancelPendingCommit' \in BOOLEAN
  BY Stacks DEF PerformWorkOnRoot, PrepareFreshStack, TypeOK
<1>2. timeSlice' \in BOOLEAN
  BY DEF PerformWorkOnRoot
<1> QED
  BY <1>1, <1>2
LEMMA RenderProgress ==
  ASSUME NEW render \in Wip, NEW lanes \in SUBSET UpdateLanes
  PROVE  /\ [render EXCEPT !.at = 1, !.skipped = @ \cup lanes] \in Wip
         /\ [render EXCEPT !.suspended = TRUE] \in Wip
         /\ render.at \in Child =>
              /\ [render EXCEPT !.at = @ + 1, !.suspended = FALSE] \in Wip
              /\ [render EXCEPT !.suspended = FALSE, !.exitStatus = "SuspendedWithDelay",
                                !.at = @ + 1] \in Wip
<1>1. 1 \in 0..End /\ (render.at \in Child => render.at + 1 \in 0..End)
  BY ChildrenAssumption DEF End, Child
<1>2. [render EXCEPT !.at = 1, !.skipped = @ \cup lanes] \in Wip
  BY <1>1 DEF Wip
<1>3. [render EXCEPT !.suspended = TRUE] \in Wip
  BY DEF Wip
<1>4. ASSUME render.at \in Child
      PROVE  /\ [render EXCEPT !.at = @ + 1, !.suspended = FALSE] \in Wip
             /\ [render EXCEPT !.suspended = FALSE, !.exitStatus = "SuspendedWithDelay",
                               !.at = @ + 1] \in Wip
  BY <1>1, <1>4 DEF Wip
<1> QED
  BY <1>2, <1>3, <1>4

LEMMA TypesAreKept ==
  ASSUME IndInv, Queue!TypeOK', [Next]_vars
  PROVE  TypeOK'
<1> USE DEF TypeOK
<1>0. TypeOK
  BY DEF IndInv
<1>1. CASE Event
  <2>1. ASSUME NEW lane \in UpdateLanes, NEW data \in DataSets, EnqueueSetState(lane, data)
        PROVE  TypeOK'
    <3>1. needs' \in [Id -> SUBSET Child]
      BY <1>0, <2>1, DataAssumption DEF EnqueueSetState, Child
    <3> QED
      BY <1>0, <2>1, <3>1 DEF EnqueueSetState, taskVars
  <2>2. ASSUME NEW child \in Child, Resolve(child) PROVE TypeOK'
    BY <1>0, <2>2 DEF Resolve, taskVars
  <2>3. CASE FlushSyncWork
    BY <1>0, <2>3 DEF FlushSyncWork, Flush, taskVars, dataVars
  <2> QED
    BY <1>1, <2>1, <2>2, <2>3 DEF Event
<1>2. CASE ScheduleUpdateOnFiber
  BY <1>0, <1>2, UpdatedRoot
     DEF ScheduleUpdateOnFiber, EnsureRootIsScheduled, taskVars, dataVars
<1>3. ASSUME NEW listener \in pingCache, PingSuspendedRoot(listener[1], listener[2])
      PROVE  TypeOK'
  <2> DEFINE lanes == listener[2]
  <2>1. lanes \in SUBSET UpdateLanes
    BY <1>0
  <2>2. MarkRootPinged(root, lanes) \in Root(UpdateLanes)
    BY <1>0, <2>1, MarkedRoots
  <2>3. [wip EXCEPT !.pinged = @ \cup lanes] \in Wip
    BY <1>0, <2>1 DEF Wip
  <2>4. wip' \in Wip /\ cancelPendingCommit' \in BOOLEAN
    BY <1>0, <1>3, <2>3, Stacks, ZenonT(60) DEF PingSuspendedRoot, PrepareFreshStack
  <2> QED
    BY <1>0, <1>3, <2>2, <2>4 DEF PingSuspendedRoot, EnsureRootIsScheduled, taskVars, dataVars
<1>4. ASSUME NEW late \in SUBSET root.timedLanes,
             ProcessRootScheduleInMicrotask(late) \/ TaskEnd(late)
      PROVE  TypeOK'
  <2> DEFINE marked == MarkStarvedLanesAsExpired(root, late)
             new    == CallbackFor(marked)
  <2>1. marked \in Root(UpdateLanes)
    BY <1>0, StarvedRoot DEF Root
  <2>2. new \in [node : {"null", "queued", "running"},
                 priority : UpdateLanes \cup {SyncLane, NoLane}]
    BY <1>0, <2>1, Callbacks
  <2> HIDE DEF marked
  <2>3. CASE ProcessRootScheduleInMicrotask(late)
    <3>1. /\ root' = marked /\ callback' = new
          /\ schedule' \in [inSchedule : BOOLEAN, microtask : BOOLEAN,
                            mightHaveSyncWork : BOOLEAN]
          /\ flushing' \in BOOLEAN /\ pc' \in {"flush", "idle"}
      BY <2>3 DEF ProcessRootScheduleInMicrotask, Flush, marked, IncludesSyncLane
    <3> QED
      BY <1>0, <2>1, <2>2, <2>3, <3>1 DEF ProcessRootScheduleInMicrotask, dataVars
  <2>4. CASE TaskEnd(late)
    <3>1. /\ root' = marked
          /\ callback' \in {new, [new EXCEPT !.node = "queued"]}
          /\ orphans' \in {orphans, [orphans EXCEPT ![task] = @ + 1]}
      BY <2>4 DEF TaskEnd, marked
    <3>2. orphans' \in [Priority -> Nat]
      BY <1>0, <3>1
    <3> QED
      BY <1>0, <2>1, <2>2, <2>4, <3>1, <3>2 DEF TaskEnd, dataVars
  <2> QED
    BY <1>4, <2>3, <2>4
<1>5. NextLanes(root) \in SUBSET UpdateLanes
  BY <1>0, TheNextLanes DEF Wip
<1>6. CASE FlushSyncWorkAcrossRoots
  <2>1. /\ wip' \in Wip /\ timeSlice' \in BOOLEAN /\ cancelPendingCommit' \in BOOLEAN
        /\ flushing' \in BOOLEAN /\ pc' \in {"render", "idle", "taskEnd"}
    <3>1. CASE PerformWorkOnRoot(NextLanes(root), TRUE) /\ UNCHANGED flushing
      <4>1. pc' = "render"
        BY <3>1 DEF PerformWorkOnRoot
      <4> QED
        BY <1>0, <1>5, <3>1, <4>1, WorkingWip
    <3> QED
      BY <1>0, <1>6, <3>1 DEF FlushSyncWorkAcrossRoots
  <2> QED
    BY <1>0, <1>6, <2>1 DEF FlushSyncWorkAcrossRoots, taskVars, dataVars
<1>7. ASSUME NEW p \in Priority, TakeOrphan(p)
      PROVE  orphans' \in [Priority -> Nat] /\ callback' = callback
  BY <1>0, <1>7 DEF TakeOrphan
<1>8. ASSUME NEW forceSync \in BOOLEAN, PerformWorkOnRootViaSchedulerTask(forceSync)
      PROVE  TypeOK'
  <2>1. /\ wip' \in Wip /\ timeSlice' \in BOOLEAN /\ cancelPendingCommit' \in BOOLEAN
        /\ pc' = "render"
    BY <1>0, <1>5, <1>8, WorkingWip DEF PerformWorkOnRootViaSchedulerTask, PerformWorkOnRoot
  <2>2. /\ orphans' \in [Priority -> Nat] /\ task' \in {"none", "own"} \cup Priority
        /\ callback' \in {callback, [callback EXCEPT !.node = "running"]}
    BY <1>0, <1>7, <1>8 DEF PerformWorkOnRootViaSchedulerTask, TakeOwnTask
  <2>3. sameNode' \in BOOLEAN
    BY <1>8 DEF PerformWorkOnRootViaSchedulerTask
  <2> QED
    BY <1>0, <1>8, <2>1, <2>2, <2>3 DEF PerformWorkOnRootViaSchedulerTask, dataVars
<1>9. CASE TaskWithoutWork
  BY <1>0, <1>7, <1>9 DEF TaskWithoutWork, dataVars
<1>10. CASE BeginWork
  <2>1. workInProgress'.lanes \in SUBSET UpdateLanes
    BY DEF Queue!TypeOK, Queue!Fiber
  <2>2. wip' \in Wip
    BY <1>0, <1>10, <2>1, RenderProgress DEF BeginWork
  <2> QED
    BY <1>0, <1>10, <2>2 DEF BeginWork, taskVars, dataVars
<1>11. CASE RenderChild
  <2>1. wip' \in Wip
    BY <1>0, <1>11, RenderProgress DEF RenderChild
  <2> QED
    BY <1>0, <1>11, <2>1 DEF RenderChild, taskVars, dataVars
<1>12. CASE YieldToHost \/ SuspendOnImmediate
  <2>1. wip' \in Wip
    BY <1>0, <1>12, RenderProgress DEF YieldToHost, SuspendOnImmediate
  <2>2. EnsureRootIsScheduled /\ pc' = Caller
    BY <1>12 DEF YieldToHost, SuspendOnImmediate
  <2>3. UNCHANGED <<root, queueLanes, cancelPendingCommit, pingCache, timeSlice, flushing,
                    callback, orphans, task, sameNode, needs, resolved>>
    BY <1>12 DEF YieldToHost, SuspendOnImmediate, taskVars, dataVars
  <2> QED
    BY <1>0, <2>1, <2>2, <2>3 DEF EnsureRootIsScheduled, Caller
<1>13. wip.at \in Child => Suspended \in Wip
  BY <1>0, RenderProgress DEF Suspended
<1>14. ASSUME AttachPingListener, wip.at \in Child
       PROVE  pingCache' \subseteq Child \X SUBSET UpdateLanes
  BY <1>0, <1>14 DEF AttachPingListener, Wip
<1>15. ASSUME NEW entire \in BOOLEAN PROVE MarkSuspended(root, wip, entire) \in Root(UpdateLanes)
  BY <1>0, SuspendedRender
<1>16. CASE UnwindSuspended
  BY <1>0, <1>13, <1>14, <1>15, <1>16, ZenonT(60) DEF UnwindSuspended, taskVars, dataVars
<1>17. NoWip \in Wip
  BY Stacks
<1>18. CASE SuspendSyncRender
  BY <1>0, <1>13, <1>14, <1>15, <1>17, <1>18
     DEF SuspendSyncRender, EnsureRootIsScheduled, Caller, taskVars, dataVars
<1>19. CASE SuspendAtTheShell
  BY <1>0, <1>15, <1>17, <1>19
     DEF SuspendAtTheShell, EnsureRootIsScheduled, Caller, taskVars, dataVars
<1>20. CASE CompleteRender
  <2>1. CASE pc' = "commit" /\ UNCHANGED <<root, cancelPendingCommit, schedule>>
    BY <1>0, <1>17, <1>20, <2>1 DEF CompleteRender, taskVars, dataVars
  <2>2. CASE /\ cancelPendingCommit' = TRUE
             /\ root' = MarkSuspended(root, wip, TRUE)
             /\ EnsureRootIsScheduled
             /\ pc' = Caller
    BY <1>0, <1>15, <1>17, <1>20, <2>2
       DEF CompleteRender, EnsureRootIsScheduled, Caller, taskVars, dataVars
  <2> QED
    BY <1>20, <2>1, <2>2 DEF CompleteRender
<1>21. CASE CommitIsReady
  BY <1>0, <1>21, ZenonT(60) DEF CommitIsReady, taskVars, dataVars
<1>22. CASE CommitRoot
  <2>1. Queue!RemainingLanes \in SUBSET UpdateLanes
    <3>1. current'.lanes = Queue!RemainingLanes
      BY <1>22, CommittedQueue DEF IndInv, CommitRoot
    <3>2. current' \in Queue!Fiber
      BY DEF Queue!TypeOK
    <3> QED
      BY <3>1, <3>2 DEF Queue!Fiber
  <2>2. root' \in Root(UpdateLanes)
    BY <1>0, <1>22, <2>1, MarkedRoots DEF CommitRoot
  <2>3. SchedulerPriority(callback.priority) \in Priority
    BY DEF SchedulerPriority, Priority
  <2>4. orphans' \in [Priority -> Nat]
    BY <1>0, <1>22, <2>3 DEF CommitRoot
  <2>5. callback' \in [node : {"null", "queued", "running"},
                       priority : UpdateLanes \cup {SyncLane, NoLane}]
    BY <1>22 DEF CommitRoot, NoCallback
  <2> QED
    BY <1>0, <1>22, <2>2, <2>4, <2>5 DEF CommitRoot, EnsureRootIsScheduled, Flush, dataVars
<1>23. CASE UNCHANGED vars
  BY <1>0, <1>23 DEF vars, taskVars, dataVars
<1> QED
  BY <1>1, <1>2, <1>3, <1>4, <1>6, <1>8, <1>9, <1>10, <1>11, <1>12, <1>16, <1>18, <1>19,
     <1>20, <1>21, <1>22, <1>23 DEF Next, Work
-----------------------------------------------------------------------------
(* The render follows the queue *)

LEMMA RenderIsKept ==
  ASSUME IndInv, [Next]_vars
  PROVE  RenderFollowsQueue'
<1> USE DEF RenderFollowsQueue
<1>0. TypeOK /\ RenderFollowsQueue /\ Queue!IndInv
  BY DEF IndInv
<1>1. ASSUME NEW lanes, PrepareFreshStack(lanes)
      PROVE  /\ wip'.root /\ wip'.at = 0 /\ phase' = "prepared" /\ cancelPendingCommit' = FALSE
             /\ wip'.exitStatus = "InProgress"
  BY <1>0, <1>1, FreshQueue DEF PrepareFreshStack, FreshStack
<1>2. CASE Event
  <2>1. ASSUME NEW lane \in UpdateLanes, NEW data, EnqueueSetState(lane, data)
        PROVE  RenderFollowsQueue'
    BY <1>0, <2>1, AugmentedQueue DEF EnqueueSetState
  <2>2. CASE FlushSyncWork \/ \E child \in Child : Resolve(child)
    BY <1>0, <2>2 DEF Resolve, FlushSyncWork, Flush, queueVars
  <2> QED
    BY <1>2, <2>1, <2>2 DEF Event
<1>3. CASE ScheduleUpdateOnFiber
  <2>1. CASE cancelPendingCommit
    <3>1. phase' = "prepared"
      BY <1>0, <1>3, <2>1, FreshQueue DEF ScheduleUpdateOnFiber
    <3>2. wip'.at = 0
      BY <1>3, <2>1 DEF ScheduleUpdateOnFiber, FreshStack
    <3> QED
      BY <1>3, <3>1, <3>2 DEF ScheduleUpdateOnFiber
  <2>2. CASE ~cancelPendingCommit
    <3>1. wip \in Wip
      BY <1>0 DEF TypeOK
    <3>2. wip'.root = wip.root /\ wip'.at = wip.at
      BY <1>3, <2>2, <3>1 DEF ScheduleUpdateOnFiber, Wip
    <3> QED
      BY <1>0, <1>3, <2>2, <3>2 DEF ScheduleUpdateOnFiber, queueVars
  <2> QED
    BY <2>1, <2>2
<1>4. ASSUME NEW listener \in pingCache, PingSuspendedRoot(listener[1], listener[2])
      PROVE  RenderFollowsQueue'
  <2>1. CASE PrepareFreshStack({})
    BY <1>1, <1>4, <2>1 DEF PingSuspendedRoot
  <2>2. CASE /\ wip' \in {wip, [wip EXCEPT !.pinged = @ \cup listener[2]]}
             /\ UNCHANGED <<queueVars, cancelPendingCommit>>
    <3>1. wip'.root = wip.root /\ wip'.at = wip.at
      BY <1>0, <2>2 DEF TypeOK, Wip
    <3> QED
      BY <1>0, <1>4, <2>2, <3>1 DEF PingSuspendedRoot, queueVars
  <2> QED
    BY <1>4, <2>1, <2>2 DEF PingSuspendedRoot
<1>5. CASE \E late \in SUBSET root.timedLanes :
             ProcessRootScheduleInMicrotask(late) \/ TaskEnd(late)
  BY <1>0, <1>5 DEF ProcessRootScheduleInMicrotask, TaskEnd, Flush, queueVars
<1>6. ASSUME NEW lanes, NEW forceSync, PerformWorkOnRoot(lanes, forceSync), pc # "commit"
      PROVE  RenderFollowsQueue'
  BY <1>0, <1>1, <1>6 DEF PerformWorkOnRoot, queueVars
<1>7. CASE FlushSyncWorkAcrossRoots
  BY <1>0, <1>6, <1>7 DEF FlushSyncWorkAcrossRoots, queueVars
<1>8. CASE \E forceSync \in BOOLEAN : PerformWorkOnRootViaSchedulerTask(forceSync)
  BY <1>6, <1>8 DEF PerformWorkOnRootViaSchedulerTask
<1>9. CASE BeginWork
  <2>1. wip'.root = wip.root /\ wip'.at = 1
    BY <1>0, <1>9 DEF BeginWork, TypeOK, Wip
  <2> QED
    BY <1>0, <1>9, <2>1, ProcessedQueue DEF BeginWork
<1>10. CASE TaskWithoutWork \/ YieldToHost \/ CommitIsReady
  BY <1>0, <1>10 DEF TaskWithoutWork, YieldToHost, CommitIsReady, Caller, queueVars
<1>11. wip.at \in Child =>
         /\ wip.at # 0 /\ wip.at + 1 # 0
         /\ Suspended.root = wip.root /\ Suspended.at = wip.at + 1
  BY <1>0 DEF TypeOK, Suspended, Wip, Child
<1>12. CASE RenderChild
  <2>1. wip'.root = wip.root /\ wip'.at = wip.at + 1
    BY <1>0, <1>12 DEF RenderChild, TypeOK, Wip
  <2> QED
    BY <1>0, <1>11, <1>12, <2>1 DEF RenderChild, queueVars
<1>13. CASE SuspendOnImmediate
  <2>1. wip'.root = wip.root /\ wip'.at = wip.at
    BY <1>0, <1>13 DEF SuspendOnImmediate, TypeOK, Wip
  <2> QED
    BY <1>0, <1>13, <2>1 DEF SuspendOnImmediate, Caller, queueVars
<1>14. CASE UnwindSuspended
  BY <1>0, <1>11, <1>14 DEF UnwindSuspended, queueVars
<1>15. ~NoWip.root
  BY DEF NoWip, FreshStack
<1>16. CASE SuspendSyncRender
  <2>1. CASE wip' = NoWip /\ Queue!AbandonRender
    BY <1>0, <1>15, <1>16, <2>1 DEF SuspendSyncRender, Caller
  <2>2. CASE wip' = Suspended /\ UNCHANGED queueVars
    BY <1>0, <1>11, <1>16, <2>2 DEF SuspendSyncRender, Caller, queueVars
  <2> QED
    BY <1>16, <2>1, <2>2 DEF SuspendSyncRender
<1>17. CASE SuspendAtTheShell
  BY <1>0, <1>15, <1>17 DEF SuspendAtTheShell, Caller
<1>18. CASE CompleteRender
  <2>1. phase' = "completed" /\ ~wip'.root
    BY <1>0, <1>15, <1>18, FinishedQueue DEF CompleteRender
  <2>2. ~cancelPendingCommit
    BY <1>0, <1>18 DEF CompleteRender
  <2>3. CASE pc' = "commit" /\ UNCHANGED cancelPendingCommit
    BY <2>1, <2>2, <2>3
  <2>4. CASE pc' = Caller
    BY <2>1, <2>4 DEF Caller
  <2> QED
    BY <1>18, <2>3, <2>4 DEF CompleteRender
<1>19. CASE CommitRoot
  BY <1>0, <1>19 DEF CommitRoot, Flush
<1>20. CASE UNCHANGED vars
  BY <1>0, <1>20 DEF vars, queueVars
<1> QED
  BY <1>2, <1>3, <1>4, <1>5, <1>7, <1>8, <1>9, <1>10, <1>12, <1>13, <1>14, <1>16, <1>17,
     <1>18, <1>19, <1>20 DEF Next, Work

-----------------------------------------------------------------------------
(* The root knows the lanes of the fiber *)

LEMMA LanesAreKept ==
  ASSUME IndInv, [Next]_vars
  PROVE  RootKnowsLanes'
<1> USE DEF RootKnowsLanes
<1>0. TypeOK /\ RootKnowsLanes /\ Queue!IndInv
  BY DEF IndInv
\* Most steps change neither.
<1>1. ASSUME pc # "schedule", pc' # "schedule", current'.lanes = current.lanes,
             root'.pendingLanes = root.pendingLanes
      PROVE  RootKnowsLanes'
  BY <1>0, <1>1
<1>2. ASSUME NEW lanes, PrepareFreshStack(lanes) PROVE current'.lanes = current.lanes
  BY <1>0, <1>2, FreshQueue DEF PrepareFreshStack
<1>3. ASSUME NEW entire \in BOOLEAN
      PROVE  MarkSuspended(root, wip, entire).pendingLanes = root.pendingLanes
  BY <1>0, SuspendedRender DEF TypeOK
<1>4. CASE Event
  <2>1. ASSUME NEW lane \in UpdateLanes, NEW data, EnqueueSetState(lane, data)
        PROVE  RootKnowsLanes'
    BY <1>0, <2>1, AugmentedQueue DEF EnqueueSetState
  <2>2. CASE FlushSyncWork \/ \E child \in Child : Resolve(child)
    BY <1>1, <2>2 DEF Resolve, FlushSyncWork, Flush, queueVars
  <2> QED
    BY <1>4, <2>1, <2>2 DEF Event
<1>5. CASE ScheduleUpdateOnFiber
  <2>1. current'.lanes = current.lanes
    BY <1>0, <1>5, FreshQueue DEF ScheduleUpdateOnFiber, queueVars
  <2> QED
    BY <1>0, <1>5, <2>1, UpdatedRoot DEF ScheduleUpdateOnFiber
<1>6. ASSUME NEW listener \in pingCache, PingSuspendedRoot(listener[1], listener[2])
      PROVE  RootKnowsLanes'
  <2>1. listener[2] \in SUBSET UpdateLanes /\ root \in Root(UpdateLanes)
    BY <1>0 DEF TypeOK
  <2>2. root'.pendingLanes = root.pendingLanes
    BY <1>6, <2>1, MarkedRoots DEF PingSuspendedRoot
  <2>3. current'.lanes = current.lanes
    BY <1>2, <1>6 DEF PingSuspendedRoot, queueVars
  <2> QED
    BY <1>1, <1>6, <2>2, <2>3 DEF PingSuspendedRoot
<1>7. ASSUME NEW late \in SUBSET root.timedLanes,
             ProcessRootScheduleInMicrotask(late) \/ TaskEnd(late)
      PROVE  RootKnowsLanes'
  <2>1. root \in Root(UpdateLanes) /\ late \in SUBSET UpdateLanes
    BY <1>0 DEF TypeOK, Root
  <2>2. root'.pendingLanes = root.pendingLanes
    BY <1>7, <2>1, StarvedRoot DEF ProcessRootScheduleInMicrotask, TaskEnd
  <2> QED
    BY <1>1, <1>7, <2>2 DEF ProcessRootScheduleInMicrotask, TaskEnd, Flush, queueVars
<1>8. ASSUME NEW lanes, NEW forceSync, PerformWorkOnRoot(lanes, forceSync)
      PROVE  current'.lanes = current.lanes /\ pc' = "render"
  BY <1>2, <1>8 DEF PerformWorkOnRoot, queueVars
<1>9. CASE FlushSyncWorkAcrossRoots
  BY <1>1, <1>8, <1>9 DEF FlushSyncWorkAcrossRoots, queueVars
<1>10. CASE \E forceSync \in BOOLEAN : PerformWorkOnRootViaSchedulerTask(forceSync)
  BY <1>1, <1>8, <1>10 DEF PerformWorkOnRootViaSchedulerTask
<1>11. CASE BeginWork
  BY <1>0, <1>1, <1>11, ProcessedQueue DEF BeginWork
<1>12. CASE TaskWithoutWork \/ YieldToHost \/ CommitIsReady \/ RenderChild \/ SuspendOnImmediate
  BY <1>1, <1>12 DEF TaskWithoutWork, YieldToHost, CommitIsReady, RenderChild,
                     SuspendOnImmediate, Caller, queueVars
<1>13. CASE UnwindSuspended
  BY <1>1, <1>3, <1>13 DEF UnwindSuspended, queueVars
<1>14. CASE SuspendSyncRender \/ SuspendAtTheShell \/ CompleteRender
  <2>1. current'.lanes = current.lanes
    BY <1>0, <1>14, FinishedQueue
       DEF SuspendSyncRender, SuspendAtTheShell, CompleteRender, queueVars
  <2>2. root'.pendingLanes = root.pendingLanes
    BY <1>3, <1>14 DEF SuspendSyncRender, SuspendAtTheShell, CompleteRender
  <2> QED
    BY <1>1, <1>14, <2>1, <2>2
       DEF SuspendSyncRender, SuspendAtTheShell, CompleteRender, Caller
<1>15. CASE CommitRoot
  <2>1. current'.lanes = Queue!RemainingLanes
    BY <1>0, <1>15, CommittedQueue DEF CommitRoot
  <2>2. root'.pendingLanes = Queue!RemainingLanes
    BY <1>15 DEF CommitRoot, MarkRootFinished
  <2> QED
    BY <1>15, <2>1, <2>2 DEF CommitRoot, Flush
<1>16. CASE UNCHANGED vars
  BY <1>0, <1>16 DEF vars, queueVars
<1> QED
  BY <1>4, <1>5, <1>6, <1>7, <1>9, <1>10, <1>11, <1>12, <1>13, <1>14, <1>15, <1>16
     DEF Next, Work
-----------------------------------------------------------------------------
(* The data *)

\* The state of a fiber is made of updates that were made.
LEMMA StatesAreMade ==
  ASSUME Queue!IndInv
  PROVE  /\ \A id \in Queue!Elements(current.memoizedState) : id \in 1..made
         /\ phase # "none" =>
              \A id \in Queue!Elements(workInProgress.memoizedState) : id \in 1..made
<1>1. \A fiber, waiting : Queue!IsWhole(fiber, waiting, made) =>
        \A id \in Queue!Elements(fiber.memoizedState) : id \in 1..made
  BY DEF Queue!IsWhole
<1>2. Queue!IsWhole(current, Queue!Waiting, made)
  BY DEF Queue!IndInv, Queue!CurrentIsWhole
<1>3. phase # "none" =>
        Queue!IsWhole(workInProgress, Queue!WaitingFor(workInProgress), made)
  BY DEF Queue!IndInv, Queue!WorkInProgressIsWhole
<1> QED
  BY <1>1, <1>2, <1>3

\* Steps that neither render nor commit, nor make an update.
LEMMA OtherSteps ==
  ASSUME RenderHasItsData, ScreenHasItsData,
         current'.memoizedState = current.memoizedState,
         workInProgress'.memoizedState = workInProgress.memoizedState,
         UNCHANGED needs, resolved \subseteq resolved',
         phase' = "completed" => phase = "completed",
         wip'.root /\ wip'.exitStatus = "InProgress" =>
           \/ wip'.at = 0
           \/ wip.root /\ wip.exitStatus = "InProgress" /\ wip'.at = wip.at
  PROVE  RenderHasItsData' /\ ScreenHasItsData'
<1>1. ASSUME NEW child, ~MissingData(child) PROVE ~MissingData(child)'
  BY <1>1 DEF MissingData
<1>2. 1..0 - 1 = {}
  OBVIOUS
<1>3. RenderHasItsData'
  <2>1. ASSUME wip'.root, wip'.exitStatus = "InProgress", NEW child \in 1..wip'.at - 1
        PROVE  ~MissingData(child)'
    BY <1>1, <1>2, <2>1 DEF RenderHasItsData
  <2>2. ASSUME phase' = "completed", NEW child \in Child PROVE ~MissingData(child)'
    BY <1>1, <2>2 DEF RenderHasItsData
  <2> QED
    BY <2>1, <2>2 DEF RenderHasItsData
<1>4. ScreenHasItsData'
  BY DEF ScreenHasItsData, OnScreen
<1> QED
  BY <1>3, <1>4
\* Steps that start a render, or drop one, have nothing to keep but the screen.
LEMMA Restarts ==
  ASSUME ScreenHasItsData, current'.memoizedState = current.memoizedState,
         UNCHANGED needs, resolved \subseteq resolved', phase' # "completed",
         wip'.root /\ wip'.exitStatus = "InProgress" => wip'.at \in {0, 1}
  PROVE  RenderHasItsData' /\ ScreenHasItsData'
<1>1. 1..0 - 1 = {} /\ 1..1 - 1 = {}
  OBVIOUS
<1>2. RenderHasItsData'
  BY <1>1 DEF RenderHasItsData
<1>3. ScreenHasItsData'
  BY DEF ScreenHasItsData, OnScreen
<1> QED
  BY <1>2, <1>3

LEMMA DataIsKept ==
  ASSUME IndInv, [Next]_vars
  PROVE  RenderHasItsData' /\ ScreenHasItsData'
<1>0. /\ TypeOK /\ RenderFollowsQueue /\ Queue!IndInv
      /\ RenderHasItsData /\ ScreenHasItsData
  BY DEF IndInv
<1>1. ASSUME NEW lanes, PrepareFreshStack(lanes), UNCHANGED dataVars
      PROVE  RenderHasItsData' /\ ScreenHasItsData'
  <2>1. /\ current'.memoizedState = current.memoizedState
        /\ phase' = "prepared" /\ wip'.at = 0
    BY <1>0, <1>1, FreshQueue DEF PrepareFreshStack, FreshStack
  <2> QED
    BY <1>0, <1>1, <2>1, Restarts DEF dataVars
<1>2. ASSUME UNCHANGED <<queueVars, dataVars>>,
             wip'.root = wip.root, wip'.exitStatus = wip.exitStatus, wip'.at = wip.at
      PROVE  RenderHasItsData' /\ ScreenHasItsData'
  BY <1>0, <1>2, OtherSteps DEF queueVars, dataVars
<1>3. CASE Event
  <2>1. ASSUME NEW lane \in UpdateLanes, NEW data, EnqueueSetState(lane, data)
        PROVE  RenderHasItsData' /\ ScreenHasItsData'
    <3>1. /\ current'.memoizedState = current.memoizedState
          /\ workInProgress'.memoizedState = workInProgress.memoizedState
          /\ phase' = phase /\ UNCHANGED <<wip, resolved>>
      BY <1>0, <2>1, AugmentedQueue DEF EnqueueSetState
    <3>2. \A id \in 1..made : needs'[id] = needs[id]
      <4>1. made \in Nat
        BY <1>0 DEF Queue!IndInv, Queue!TypeOK
      <4>2. needs \in [Id -> SUBSET Child]
        BY <1>0 DEF TypeOK
      <4>3. made + 1 \in Id
        BY <1>0, <2>1, AugmentedQueue DEF EnqueueSetState
      <4>4. needs' = [needs EXCEPT ![made + 1] = data]
        BY <2>1 DEF EnqueueSetState
      <4> QED
        BY <4>1, <4>2, <4>3, <4>4, UpdatesAssumption DEF Id
    <3>3. ASSUME NEW child, phase # "none", ~MissingData(child)
          PROVE  ~MissingData(child)'
      <4>1. \A id \in Queue!Elements(workInProgress.memoizedState) : needs'[id] = needs[id]
        BY <1>0, <3>2, <3>3, StatesAreMade
      <4> QED
        BY <3>1, <3>3, <4>1 DEF MissingData
    <3>4. wip.root => phase # "none"
      BY <1>0 DEF RenderFollowsQueue
    <3>5. RenderHasItsData'
      BY <1>0, <3>1, <3>3, <3>4 DEF RenderHasItsData
    <3>6. ScreenHasItsData'
      <4>1. \A id \in Queue!Elements(current.memoizedState) : needs'[id] = needs[id]
        BY <1>0, <3>2, StatesAreMade
      <4> QED
        BY <1>0, <3>1, <4>1 DEF ScreenHasItsData, OnScreen
    <3> QED
      BY <3>5, <3>6
  <2>2. ASSUME NEW child \in Child, Resolve(child)
        PROVE  RenderHasItsData' /\ ScreenHasItsData'
    BY <1>0, <2>2, OtherSteps DEF Resolve, queueVars
  <2>3. CASE FlushSyncWork
    BY <1>2, <2>3 DEF FlushSyncWork
  <2> QED
    BY <1>3, <2>1, <2>2, <2>3 DEF Event
<1>4. CASE ScheduleUpdateOnFiber
  <2>1. CASE cancelPendingCommit
    <3>1. phase' = "prepared" /\ current'.memoizedState = current.memoizedState
      BY <1>0, <1>4, <2>1, FreshQueue DEF ScheduleUpdateOnFiber
    <3>2. wip'.at = 0
      BY <1>4, <2>1 DEF ScheduleUpdateOnFiber, FreshStack
    <3> QED
      BY <1>0, <1>4, <3>1, <3>2, Restarts DEF ScheduleUpdateOnFiber, dataVars
  <2>2. CASE ~cancelPendingCommit
    <3>1. wip \in Wip
      BY <1>0 DEF TypeOK
    <3>2. /\ wip'.root = wip.root /\ wip'.at = wip.at
          /\ wip'.exitStatus = wip.exitStatus
      BY <1>4, <2>2, <3>1 DEF ScheduleUpdateOnFiber, Wip
    <3> QED
      BY <1>2, <1>4, <2>2, <3>2 DEF ScheduleUpdateOnFiber
  <2> QED
    BY <2>1, <2>2
<1>5. ASSUME NEW listener \in pingCache, PingSuspendedRoot(listener[1], listener[2])
      PROVE  RenderHasItsData' /\ ScreenHasItsData'
  <2>1. CASE PrepareFreshStack({})
    BY <1>1, <1>5, <2>1 DEF PingSuspendedRoot
  <2>2. CASE /\ wip' \in {wip, [wip EXCEPT !.pinged = @ \cup listener[2]]}
             /\ UNCHANGED <<queueVars, cancelPendingCommit>>
    <3>1. /\ wip'.root = wip.root /\ wip'.at = wip.at
          /\ wip'.exitStatus = wip.exitStatus
      BY <1>0, <2>2 DEF TypeOK, Wip
    <3> QED
      BY <1>2, <1>5, <2>2, <3>1 DEF PingSuspendedRoot
  <2> QED
    BY <1>5, <2>1, <2>2 DEF PingSuspendedRoot
<1>6. CASE \E late \in SUBSET root.timedLanes :
             ProcessRootScheduleInMicrotask(late) \/ TaskEnd(late)
  BY <1>2, <1>6 DEF ProcessRootScheduleInMicrotask, TaskEnd
<1>7. ASSUME NEW lanes, NEW forceSync, PerformWorkOnRoot(lanes, forceSync),
             UNCHANGED dataVars
      PROVE  RenderHasItsData' /\ ScreenHasItsData'
  BY <1>1, <1>2, <1>7 DEF PerformWorkOnRoot
<1>8. CASE FlushSyncWorkAcrossRoots
  BY <1>2, <1>7, <1>8 DEF FlushSyncWorkAcrossRoots
<1>9. CASE \E forceSync \in BOOLEAN : PerformWorkOnRootViaSchedulerTask(forceSync)
  BY <1>7, <1>9 DEF PerformWorkOnRootViaSchedulerTask
<1>10. CASE BeginWork
  <2>1. wip'.at = 1
    BY <1>0, <1>10 DEF BeginWork, TypeOK, Wip
  <2>2. current'.memoizedState = current.memoizedState /\ phase' = "begun"
    BY <1>0, <1>10, ProcessedQueue DEF BeginWork
  <2> QED
    BY <1>0, <1>10, <2>1, <2>2, Restarts DEF BeginWork, dataVars
<1>11. CASE TaskWithoutWork \/ YieldToHost \/ CommitIsReady \/ SuspendOnImmediate
  <2>1. /\ wip'.root = wip.root /\ wip'.at = wip.at
        /\ wip'.exitStatus = wip.exitStatus
    BY <1>0, <1>11 DEF TaskWithoutWork, YieldToHost, CommitIsReady, SuspendOnImmediate,
                       TypeOK, Wip
  <2> QED
    BY <1>2, <1>11, <2>1 DEF TaskWithoutWork, YieldToHost, CommitIsReady, SuspendOnImmediate
<1>12. CASE RenderChild
  <2>1. /\ wip'.root = wip.root /\ wip'.exitStatus = wip.exitStatus
        /\ wip'.at = wip.at + 1 /\ wip.at \in Nat
    BY <1>0, <1>12 DEF RenderChild, TypeOK, Wip, Child
  <2>2. ~MissingData(wip.at)
    BY <1>12 DEF RenderChild, MissingData
  <2>3. UNCHANGED <<workInProgress, needs, resolved>>
    BY <1>12 DEF RenderChild, queueVars, dataVars
  <2>4. ASSUME NEW child, ~MissingData(child) PROVE ~MissingData(child)'
    BY <2>3, <2>4 DEF MissingData
  <2>5. ASSUME wip.root /\ wip.exitStatus = "InProgress", NEW child \in 1..wip'.at - 1
        PROVE  ~MissingData(child)
    <3>1. child = wip.at \/ child \in 1..wip.at - 1
      BY <2>1
    <3> QED
      BY <1>0, <2>2, <2>5, <3>1 DEF RenderHasItsData
  <2>6. UNCHANGED <<phase, current>>
    BY <1>12 DEF RenderChild, queueVars
  <2>7. RenderHasItsData'
    BY <1>0, <2>1, <2>4, <2>5, <2>6 DEF RenderHasItsData
  <2>8. ScreenHasItsData'
    BY <1>0, <2>3, <2>6 DEF ScreenHasItsData, OnScreen
  <2> QED
    BY <2>7, <2>8
<1>13. Suspended.exitStatus = "SuspendedWithDelay"
  BY <1>0 DEF TypeOK, Suspended, Wip
<1>14. ASSUME wip' = Suspended, UNCHANGED <<queueVars, dataVars>>
       PROVE  RenderHasItsData' /\ ScreenHasItsData'
  BY <1>0, <1>13, <1>14, OtherSteps DEF queueVars, dataVars
<1>15. CASE UnwindSuspended
  BY <1>14, <1>15 DEF UnwindSuspended
<1>16. ASSUME wip' = NoWip, Queue!AbandonRender, UNCHANGED dataVars
       PROVE  RenderHasItsData' /\ ScreenHasItsData'
  <2>1. ~wip'.root
    BY <1>16 DEF NoWip, FreshStack
  <2>2. current'.memoizedState = current.memoizedState /\ phase' = "none"
    BY <1>0, <1>16, FinishedQueue
  <2> QED
    BY <1>0, <1>16, <2>1, <2>2, Restarts DEF dataVars
<1>17. CASE SuspendSyncRender
  BY <1>14, <1>16, <1>17 DEF SuspendSyncRender
<1>18. CASE SuspendAtTheShell
  BY <1>16, <1>18 DEF SuspendAtTheShell
<1>19. CASE CompleteRender
  <2>1. wip.root /\ wip.exitStatus = "InProgress" /\ wip.at = End
    BY <1>0, <1>19 DEF CompleteRender, RenderFollowsQueue
  <2>2. \A child \in Child : ~MissingData(child)
    <3>1. Child = 1..wip.at - 1
      BY <2>1, ChildrenAssumption DEF Child, End
    <3> QED
      BY <1>0, <2>1, <3>1 DEF RenderHasItsData
  <2>3. /\ current'.memoizedState = current.memoizedState
        /\ workInProgress'.memoizedState = workInProgress.memoizedState
    BY <1>0, <1>19, FinishedQueue DEF CompleteRender
  <2>4. UNCHANGED <<needs, resolved>> /\ ~wip'.root
    BY <1>19 DEF CompleteRender, dataVars, NoWip, FreshStack
  <2>5. RenderHasItsData'
    BY <2>2, <2>3, <2>4 DEF RenderHasItsData, MissingData
  <2>6. ScreenHasItsData'
    BY <1>0, <2>3, <2>4 DEF ScreenHasItsData, OnScreen
  <2> QED
    BY <2>5, <2>6
<1>20. CASE CommitRoot
  <2>1. /\ phase = "completed" /\ phase' = "none"
        /\ current'.memoizedState = workInProgress.memoizedState
    BY <1>0, <1>20, CommittedQueue DEF CommitRoot
  <2>2. ~wip'.root /\ UNCHANGED <<needs, resolved>>
    BY <1>0, <1>20 DEF CommitRoot, RenderFollowsQueue, dataVars
  <2>3. RenderHasItsData'
    BY <2>1, <2>2 DEF RenderHasItsData
  <2>4. \A child \in Child : ~MissingData(child)
    BY <1>0, <2>1 DEF RenderHasItsData
  <2>5. needs \in [Id -> SUBSET Child]
    BY <1>0 DEF TypeOK
  <2>6. ScreenHasItsData'
    BY <2>1, <2>2, <2>4, <2>5 DEF ScreenHasItsData, OnScreen, MissingData
  <2> QED
    BY <2>3, <2>6
<1>21. CASE UNCHANGED vars
  BY <1>2, <1>21 DEF vars
<1> QED
  BY <1>3, <1>4, <1>5, <1>6, <1>8, <1>9, <1>10, <1>11, <1>12, <1>15, <1>17, <1>18, <1>19,
     <1>20, <1>21 DEF Next, Work

-----------------------------------------------------------------------------
(* The scheduling of the root *)

\* Neither an event nor a task that finds nothing changes what the root is to do.
LEMMA SettledStays ==
  ASSUME WorkIsScheduled, UNCHANGED <<root, wip, cancelPendingCommit, callback, schedule>>,
         pc = "idle", pc' \in {"idle", "schedule", "flush"}
  PROVE  WorkIsScheduled'
<1>1. NextLanes(root)' = NextLanes(root)
  BY DEF NextLanes
<1> QED
  BY <1>1 DEF WorkIsScheduled

\* What the microtask and the end of a task make of the root's callback.
LEMMA ChosenCallback ==
  ASSUME TypeOK, NEW r \in Root(UpdateLanes)
  PROVE  /\ NextLanes(r) = {} \/ cancelPendingCommit => CallbackFor(r) = NoCallback
         /\ NextLanes(r) # {} /\ ~cancelPendingCommit =>
              /\ CallbackFor(r).priority \in Lane
              /\ IF IsSyncWork(r, NextLanes(r))
                 THEN CallbackFor(r) = [node |-> "null", priority |-> SyncLane]
                 ELSE \/ /\ CallbackFor(r) = callback
                         /\ callback.priority \in NextLanes(r)
                      \/ CallbackFor(r).node = "queued"
<1> DEFINE next == NextLanes(r)
<1>1. next \in SUBSET UpdateLanes
  BY TheNextLanes DEF TypeOK, Wip
<1>2. next # {} => HighestPriorityLane(next) \in next
  BY <1>1, MostUrgentLane
<1>3. UpdateLanes \subseteq Lane /\ SyncLane \in Lane
  BY LanesAssumption DEF Lane, SyncLane
<1>4. callback \in [node : {"null", "queued", "running"},
                    priority : UpdateLanes \cup {SyncLane, NoLane}]
  BY DEF TypeOK
<1> HIDE DEF next
<1>5. CASE next = {} \/ cancelPendingCommit
  BY <1>5 DEF CallbackFor, next
<1>6. CASE next # {} /\ ~cancelPendingCommit
  <2>1. CASE IsSyncWork(r, next)
    BY <1>3, <1>6, <2>1 DEF CallbackFor, next
  <2>2. CASE ~IsSyncWork(r, next) /\ HighestPriorityLane(next) = callback.priority
    BY <1>1, <1>2, <1>3, <1>6, <2>2 DEF CallbackFor, next
  <2>3. CASE ~IsSyncWork(r, next) /\ HighestPriorityLane(next) # callback.priority
    <3>1. CallbackFor(r) = [node |-> "queued", priority |-> HighestPriorityLane(next)]
      BY <1>6, <2>3 DEF CallbackFor, next
    <3> QED
      BY <1>1, <1>2, <1>3, <1>6, <2>3, <3>1 DEF next
  <2> QED
    BY <2>1, <2>2, <2>3
<1> QED
  BY <1>5, <1>6 DEF next

LEMMA MicrotaskIsAsked == EnsureRootIsScheduled => schedule'.microtask
  BY DEF EnsureRootIsScheduled

LEMMA TasksAreKept ==
  ASSUME IndInv, [Next]_vars
  PROVE  TasksAreKnown'
<1> USE DEF TasksAreKnown
<1>0. TypeOK /\ TasksAreKnown
  BY DEF IndInv
<1>1. ASSUME NEW late \in SUBSET root.timedLanes
      PROVE  MarkStarvedLanesAsExpired(root, late) \in Root(UpdateLanes)
  BY <1>0, StarvedRoot DEF TypeOK, Root
<1>2. ASSUME NEW r \in Root(UpdateLanes)
      PROVE  /\ CallbackFor(r).node = "null" => CallbackFor(r).priority \in {SyncLane, NoLane}
             /\ CallbackFor(r).node = "running" => CallbackFor(r) = callback
  <2>1. CASE NextLanes(r) = {} \/ cancelPendingCommit
    BY <1>0, <2>1, ChosenCallback DEF NoCallback
  <2>2. CASE NextLanes(r) # {} /\ ~cancelPendingCommit
    BY <1>0, <2>2, ChosenCallback
  <2> QED
    BY <2>1, <2>2
<1>3. CASE Event
  BY <1>0, <1>3 DEF Event, EnqueueSetState, Resolve, FlushSyncWork, Flush, taskVars
<1>4. CASE ScheduleUpdateOnFiber \/ TaskWithoutWork \/ CommitIsReady
  BY <1>0, <1>4 DEF ScheduleUpdateOnFiber, TaskWithoutWork, TakeOrphan, CommitIsReady,
                    taskVars
<1>5. CASE \E listener \in pingCache : PingSuspendedRoot(listener[1], listener[2])
  BY <1>0, <1>5 DEF PingSuspendedRoot, taskVars
<1>6. ASSUME NEW late \in SUBSET root.timedLanes, ProcessRootScheduleInMicrotask(late)
      PROVE  TasksAreKnown'
  BY <1>0, <1>1, <1>2, <1>6 DEF ProcessRootScheduleInMicrotask, Flush
<1>7. ASSUME NEW late \in SUBSET root.timedLanes, TaskEnd(late)
      PROVE  TasksAreKnown'
  <2> DEFINE new       == CallbackFor(MarkStarvedLanesAsExpired(root, late))
             continues == sameNode /\ new = callback /\ new.node # "null"
  <2>1. /\ callback' = IF continues /\ task = "own" THEN [new EXCEPT !.node = "queued"]
                       ELSE new
        /\ task' = "none" /\ pc' = "idle"
    BY <1>7 DEF TaskEnd
  <2>2. /\ new.node = "null" => new.priority \in {SyncLane, NoLane}
        /\ new.node = "running" => continues /\ task = "own"
    BY <1>0, <1>1, <1>2
  <2>3. new \in [node : {"null", "queued", "running"},
                 priority : UpdateLanes \cup {SyncLane, NoLane}]
    BY <1>0, <1>1, Callbacks
  <2> HIDE DEF new
  <2>4. callback'.node # "running"
    BY <2>1, <2>2, <2>3
  <2>5. callback'.node = "null" => callback'.priority \in {SyncLane, NoLane}
    BY <2>1, <2>2, <2>3
  <2> QED
    BY <2>1, <2>4, <2>5
<1>8. CASE FlushSyncWorkAcrossRoots
  BY <1>0, <1>8 DEF FlushSyncWorkAcrossRoots, PerformWorkOnRoot, taskVars
<1>9. ASSUME NEW forceSync \in BOOLEAN, PerformWorkOnRootViaSchedulerTask(forceSync)
      PROVE  TasksAreKnown'
  <2>1. pc' = "render"
    BY <1>9 DEF PerformWorkOnRootViaSchedulerTask, PerformWorkOnRoot
  <2>2. CASE TakeOwnTask /\ task' = "own"
    <3>1. callback'.node = "running" /\ sameNode'
      BY <1>0, <1>9, <2>2 DEF PerformWorkOnRootViaSchedulerTask, TakeOwnTask, TypeOK
    <3> QED
      BY <2>1, <2>2, <3>1
  <2>3. CASE \E p \in Priority : TakeOrphan(p) /\ task' = p
    <3>1. callback'.node # "running" /\ callback' = callback
      BY <1>0, <1>9, <2>3 DEF PerformWorkOnRootViaSchedulerTask, TakeOrphan
    <3> QED
      BY <1>0, <2>1, <3>1
  <2> QED
    BY <1>9, <2>2, <2>3 DEF PerformWorkOnRootViaSchedulerTask
<1>10. CASE BeginWork \/ RenderChild \/ UnwindSuspended
  BY <1>0, <1>10 DEF BeginWork, RenderChild, UnwindSuspended, taskVars
\* What ends a slice asks for a microtask.
<1>11. CASE YieldToHost \/ SuspendOnImmediate \/ SuspendSyncRender \/ SuspendAtTheShell
  BY <1>0, <1>11, MicrotaskIsAsked
     DEF YieldToHost, SuspendOnImmediate, SuspendSyncRender, SuspendAtTheShell, Caller,
         taskVars
<1>12. CASE CompleteRender
  <2>1. /\ pc' = "commit" \/ (pc' \in {"flush", "taskEnd"} /\ schedule'.microtask)
        /\ UNCHANGED <<callback, task, sameNode>>
    BY <1>12, MicrotaskIsAsked DEF CompleteRender, Caller, taskVars
  <2> QED
    BY <1>0, <1>12, <2>1 DEF CompleteRender
<1>13. CASE CommitRoot
  BY <1>0, <1>13 DEF CommitRoot, EnsureRootIsScheduled, Flush, NoCallback
<1>14. CASE UNCHANGED vars
  BY <1>0, <1>14 DEF vars, taskVars
<1> QED
  BY <1>3, <1>4, <1>5, <1>6, <1>7, <1>8, <1>9, <1>10, <1>11, <1>12, <1>13, <1>14
     DEF Next, Work

LEMMA WorkStaysScheduled ==
  ASSUME IndInv, [Next]_vars
  PROVE  WorkIsScheduled'
<1>0. TypeOK /\ TasksAreKnown /\ WorkIsScheduled
  BY DEF IndInv
\* A microtask is to come, or the thread has yet to ask for one.
<1>1. ASSUME schedule'.microtask \/ pc' \notin {"idle", "schedule", "flush"}
      PROVE  WorkIsScheduled'
  BY <1>1 DEF WorkIsScheduled
<1>2. CASE Event
  BY <1>0, <1>2, SettledStays
     DEF Event, EnqueueSetState, Resolve, FlushSyncWork, Flush, taskVars
<1>3. CASE ScheduleUpdateOnFiber \/ YieldToHost \/ SuspendOnImmediate \/ SuspendSyncRender
           \/ SuspendAtTheShell \/ CommitRoot
  BY <1>1, <1>3, MicrotaskIsAsked
     DEF ScheduleUpdateOnFiber, YieldToHost, SuspendOnImmediate, SuspendSyncRender,
         SuspendAtTheShell, CommitRoot
<1>4. CASE \E listener \in pingCache : PingSuspendedRoot(listener[1], listener[2])
  BY <1>1, <1>4, MicrotaskIsAsked DEF PingSuspendedRoot
<1>5. ASSUME NEW late \in SUBSET root.timedLanes, ProcessRootScheduleInMicrotask(late)
      PROVE  WorkIsScheduled'
  <2> DEFINE marked == MarkStarvedLanesAsExpired(root, late)
             next   == NextLanes(marked)
             new    == CallbackFor(marked)
             isSync == IncludesSyncLane({new.priority})
  <2>1. marked \in Root(UpdateLanes)
    BY <1>0, StarvedRoot DEF TypeOK, Root
  <2>2. /\ root' = marked /\ callback' = new
        /\ schedule'.inSchedule = (new.priority # NoLane)
        /\ pc' = IF isSync THEN "flush" ELSE "idle"
        /\ UNCHANGED <<wip, cancelPendingCommit>>
        /\ pc = "idle"
    BY <1>5 DEF ProcessRootScheduleInMicrotask, Flush
  <2>3. NextLanes(root)' = next
    BY <2>2 DEF NextLanes
  <2>4. callback.node # "running"
    BY <1>0, <2>2 DEF TasksAreKnown
  <2> HIDE DEF marked
  <2>5. CASE next = {} \/ cancelPendingCommit
    <3>1. new.node = "null"
      BY <1>0, <2>1, <2>5, ChosenCallback DEF NoCallback
    <3> QED
      BY <2>2, <2>3, <2>5, <3>1 DEF WorkIsScheduled
  <2>6. CASE next # {} /\ ~cancelPendingCommit
    <3>1. schedule'.inSchedule
      <4>1. new.priority \in Lane
        BY <1>0, <2>1, <2>6, ChosenCallback
      <4>2. new.priority # NoLane
        BY <4>1 DEF Lane, NoLane
      <4> QED
        BY <2>2, <4>2
    <3>2. CASE IsSyncWork(marked, next)
      <4>1. new = [node |-> "null", priority |-> SyncLane]
        BY <1>0, <2>1, <2>6, <3>2, ChosenCallback
      <4>2. isSync
        <5>1. new.priority = SyncLane
          BY <4>1
        <5>2. IncludesSyncLane({SyncLane})
          BY DEF IncludesSyncLane
        <5> QED
          BY <5>1, <5>2
      <4>3. pc' = "flush"
        BY <2>2, <4>2
      <4> QED
        BY <2>2, <2>3, <2>6, <3>1, <3>2, <4>1, <4>3 DEF WorkIsScheduled
    <3>3. CASE ~IsSyncWork(marked, next)
      <4>1. new.node = "queued" \/ (new = callback /\ callback.priority \in next)
        BY <1>0, <2>1, <2>6, <3>3, ChosenCallback
      <4>2. CASE new = callback /\ callback.priority \in next /\ callback.node = "null"
        <5>1. callback.priority # NoLane
          <6>1. next \subseteq Lane
            BY <1>0, <2>1, TheNextLanes, LanesAssumption DEF TypeOK, Wip
          <6> QED
            BY <4>2, <6>1 DEF Lane, NoLane
        <5>2. callback.priority = SyncLane
          BY <1>0, <4>2, <5>1 DEF TasksAreKnown
        <5>3. IsPrerendering(marked, next)
          BY <3>3, <4>2, <5>2 DEF IsSyncWork, IncludesSyncLane
        <5> QED
          BY <2>2, <2>3, <2>6, <3>1, <3>3, <4>2, <5>3 DEF WorkIsScheduled
      <4>3. CASE new.node = "queued"
        BY <2>2, <2>3, <2>6, <3>1, <3>3, <4>3 DEF WorkIsScheduled
      <4>4. callback.node \in {"null", "queued"}
        BY <1>0, <2>4 DEF TypeOK
      <4> QED
        BY <4>1, <4>2, <4>3, <4>4
    <3> QED
      BY <3>2, <3>3
  <2> QED
    BY <2>5, <2>6
<1>6. CASE \E late \in SUBSET root.timedLanes : TaskEnd(late)
  BY <1>0, <1>1, <1>6 DEF TaskEnd, TasksAreKnown
<1>7. CASE FlushSyncWorkAcrossRoots
  <2>1. CASE PerformWorkOnRoot(NextLanes(root), TRUE)
    BY <1>1, <2>1 DEF PerformWorkOnRoot
  <2>2. CASE /\ ~(schedule.inSchedule /\ IsSyncWork(root, NextLanes(root)))
             /\ pc' = IF task = "none" THEN "idle" ELSE "taskEnd"
             /\ UNCHANGED <<wip, cancelPendingCommit>>
    <3>1. CASE schedule.microtask
      BY <1>1, <1>7, <3>1 DEF FlushSyncWorkAcrossRoots
    <3>2. CASE ~schedule.microtask
      <4>1. pc = "flush" /\ pc' = "idle" /\ UNCHANGED <<root, callback, schedule>>
        BY <1>0, <1>7, <2>2, <3>2 DEF FlushSyncWorkAcrossRoots, TasksAreKnown, taskVars
      <4>2. NextLanes(root)' = NextLanes(root)
        BY <2>2, <4>1 DEF NextLanes
      <4> QED
        BY <1>0, <2>2, <3>2, <4>1, <4>2 DEF WorkIsScheduled
    <3> QED
      BY <3>1, <3>2
  <2> QED
    BY <1>7, <2>1, <2>2 DEF FlushSyncWorkAcrossRoots
<1>8. CASE \E forceSync \in BOOLEAN : PerformWorkOnRootViaSchedulerTask(forceSync)
  BY <1>1, <1>8 DEF PerformWorkOnRootViaSchedulerTask, PerformWorkOnRoot
<1>9. CASE TaskWithoutWork
  BY <1>0, <1>9, SettledStays DEF TaskWithoutWork, TakeOrphan
<1>10. CASE BeginWork \/ RenderChild \/ UnwindSuspended \/ CommitIsReady
  BY <1>1, <1>10 DEF BeginWork, RenderChild, UnwindSuspended, CommitIsReady
<1>11. CASE CompleteRender
  BY <1>1, <1>11, MicrotaskIsAsked DEF CompleteRender
<1>12. CASE UNCHANGED vars
  <2>1. NextLanes(root)' = NextLanes(root)
    BY <1>12 DEF NextLanes, vars
  <2> QED
    BY <1>0, <1>12, <2>1 DEF WorkIsScheduled, vars, taskVars
<1> QED
  BY <1>2, <1>3, <1>4, <1>5, <1>6, <1>7, <1>8, <1>9, <1>10, <1>11, <1>12 DEF Next, Work

-----------------------------------------------------------------------------
(* The pings.  An idle update does not unblock what is suspended, so these hold where no
   update is idle. *)

LEMMA SomeLaneIsNext ==
  ASSUME UpdateLanes \subseteq NonIdleLanes, NEW lanes \in SUBSET UpdateLanes, lanes # {}
  PROVE  HighestPriorityLanes(lanes) # {}
<1> DEFINE first == HighestPriorityLane(lanes)
<1>1. first \in lanes
  BY MostUrgentLane
<1>2. first \in NonIdleLanes
  BY <1>1
<1> HIDE DEF first
<1>3. first \in Batch(first)
  BY <1>2 DEF Batch, NonIdleLanes, DeferredLane, TransitionUpdateLanes,
              TransitionDeferredLanes, RetryLanes
<1> QED
  BY <1>1, <1>3 DEF HighestPriorityLanes, first

\* There is always something to do but for what is warm and what waits to be committed.
LEMMA NextLanesAreKnown ==
  ASSUME UpdateLanes \subseteq NonIdleLanes, NEW r \in Root(UpdateLanes),
         r.warmLanes \subseteq r.suspendedLanes \ r.pingedLanes,
         wip.lanes \subseteq r.pendingLanes
  PROVE  /\ NextLanes(r) \subseteq r.pendingLanes
         /\ NextLanes(r) = {} /\ ~cancelPendingCommit => r.pendingLanes \subseteq r.warmLanes
         /\ NextLanes(r) # {} /\ cancelPendingCommit /\ wip.lanes = {} =>
              ~(r.pendingLanes \subseteq r.warmLanes)
<1> DEFINE pendings  == r.pendingLanes
           unblocked == pendings \ r.suspendedLanes
           pinged    == pendings \cap r.pingedLanes
           toPrewarm == IF cancelPendingCommit THEN {} ELSE pendings \ r.warmLanes
           choice    == IF unblocked # {} THEN unblocked
                        ELSE IF pinged # {} THEN pinged ELSE toPrewarm
           next      == NextLanesIgnoringWip(r, cancelPendingCommit)
<1>1. pendings \in SUBSET UpdateLanes
  BY DEF Root
<1>2. pendings \cap NonIdleLanes = pendings
  BY <1>1
<1>3. pendings # {} => next = HighestPriorityLanes(choice)
  BY <1>2 DEF NextLanesIgnoringWip
<1>4. choice \in SUBSET pendings
  OBVIOUS
<1>5. pendings # {} => next \subseteq choice
  BY <1>3 DEF HighestPriorityLanes
<1>6. choice # {} => next # {}
  BY <1>1, <1>3, <1>4, SomeLaneIsNext
<1>7. NextLanes(r) = IF pendings = {} \/ next = {} THEN {}
                     ELSE IF KeepsWorking(r, wip.lanes, next) THEN wip.lanes ELSE next
  BY DEF NextLanes, GetNextLanes
<1>8. KeepsWorking(r, wip.lanes, next) => wip.lanes # {}
  BY DEF KeepsWorking
<1> HIDE DEF next
<1>9. NextLanes(r) \subseteq pendings
  BY <1>4, <1>5, <1>7
<1>10. ASSUME NextLanes(r) = {}, ~cancelPendingCommit PROVE pendings \subseteq r.warmLanes
  BY <1>6, <1>7, <1>8, <1>10
<1>11. ASSUME NextLanes(r) # {}, cancelPendingCommit, wip.lanes = {}
       PROVE  ~(pendings \subseteq r.warmLanes)
  BY <1>5, <1>7, <1>8, <1>11
<1> QED
  BY <1>9, <1>10, <1>11

\* Steps that suspend lanes at most, keep the listeners, and render nothing new.
LEMMA OtherListeners ==
  ASSUME SuspensionsHaveListeners,
         root'.pendingLanes = root.pendingLanes, root'.warmLanes = root.warmLanes,
         root.suspendedLanes \ root.pingedLanes \subseteq root'.suspendedLanes \ root'.pingedLanes,
         pingCache \subseteq pingCache',
         pc = "commit" \/ cancelPendingCommit => pc' = "commit" \/ cancelPendingCommit',
         wip'.lanes \in {wip.lanes, {}}, ~wip'.root => wip'.lanes = {} \/ ~wip.root,
         wip'.root /\ wip'.exitStatus = "SuspendedWithDelay" =>
           /\ wip'.lanes = wip.lanes
           /\ \/ wip.root /\ wip.exitStatus = "SuspendedWithDelay"
              \/ \E child \in Child : <<child, wip.lanes>> \in pingCache'
  PROVE  SuspensionsHaveListeners'
<1> USE DEF SuspensionsHaveListeners
<1>1. RenderIsPending'
  BY DEF RenderIsPending
<1>2. SuspendedRenderHasListener'
  BY DEF SuspendedRenderHasListener
<1>3. WarmLanesAreSuspended'
  BY DEF WarmLanesAreSuspended
<1>4. WarmRootHasListener'
  BY DEF WarmRootHasListener
<1> QED
  BY <1>1, <1>2, <1>3, <1>4

LEMMA SuspendedLanes ==
  ASSUME TypeOK, NEW entire \in BOOLEAN, root' = MarkSuspended(root, wip, entire)
  PROVE  LET lanes == (wip.lanes \ wip.pinged) \ wip.interleaved
         IN /\ root'.pendingLanes = root.pendingLanes
            /\ root'.suspendedLanes = root.suspendedLanes \cup lanes
            /\ root'.pingedLanes = root.pingedLanes \ lanes
            /\ root'.warmLanes = IF entire THEN root.warmLanes \cup lanes ELSE root.warmLanes
  BY DEF TypeOK, MarkSuspended, MarkRootSuspended, Root

\* A render that restarts what a waiting commit did has something that is not warm to do.
LEMMA WorkHasListeners ==
  ASSUME UpdateLanes \subseteq NonIdleLanes, IndInv, SuspensionsHaveListeners,
         pc \in {"idle", "flush"}, NextLanes(root) # {}, NEW forceSync,
         PerformWorkOnRoot(NextLanes(root), forceSync), UNCHANGED <<root, pingCache>>
  PROVE  SuspensionsHaveListeners'
<1> USE DEF SuspensionsHaveListeners
<1>0. TypeOK /\ RenderFollowsQueue
  BY DEF IndInv
<1>1. /\ NextLanes(root) \subseteq root.pendingLanes
      /\ cancelPendingCommit => ~(root.pendingLanes \subseteq root.warmLanes)
  BY <1>0, NextLanesAreKnown
     DEF TypeOK, RenderFollowsQueue, RenderIsPending, WarmLanesAreSuspended
<1>2. CASE wip.root /\ wip.lanes = NextLanes(root)
  <2>1. UNCHANGED <<wip, cancelPendingCommit>>
    BY <1>2 DEF PerformWorkOnRoot
  <2> QED
    BY <2>1, OtherListeners
<1>3. CASE ~(wip.root /\ wip.lanes = NextLanes(root))
  <2>1. /\ wip'.root /\ wip'.lanes = NextLanes(root)
        /\ wip'.exitStatus = "InProgress"
    BY <1>3 DEF PerformWorkOnRoot, PrepareFreshStack, FreshStack
  <2>2. RenderIsPending' /\ SuspendedRenderHasListener' /\ WarmLanesAreSuspended'
    BY <1>1, <2>1 DEF RenderIsPending, SuspendedRenderHasListener, WarmLanesAreSuspended
  <2>3. WarmRootHasListener'
    BY <1>1 DEF WarmRootHasListener
  <2> QED
    BY <2>2, <2>3
<1> QED
  BY <1>2, <1>3

LEMMA ListenersAreKept ==
  ASSUME UpdateLanes \subseteq NonIdleLanes, IndInv, SuspensionsHaveListeners, [Next]_vars
  PROVE  SuspensionsHaveListeners'
<1> USE DEF SuspensionsHaveListeners
<1>0. TypeOK /\ RenderFollowsQueue
  BY DEF IndInv
<1>1. ASSUME UNCHANGED <<root, wip, pingCache>>,
             pc = "commit" \/ cancelPendingCommit => pc' = "commit" \/ cancelPendingCommit'
      PROVE  SuspensionsHaveListeners'
  BY <1>1, OtherListeners
<1>2. CASE Event
  BY <1>1, <1>2 DEF Event, EnqueueSetState, Resolve, FlushSyncWork
<1>3. CASE ScheduleUpdateOnFiber
  <2> DEFINE lane    == concurrentQueues[Len(concurrentQueues)].lane
             before  == IF cancelPendingCommit THEN FreshStack({}) ELSE wip
             render  == IF before.root THEN [before EXCEPT !.interleaved = @ \cup {lane}]
                        ELSE before
             updated == MarkRootUpdated(root, lane)
             marked  == IF render.exitStatus = "SuspendedWithDelay"
                        THEN MarkSuspended(updated, render, FALSE) ELSE updated
  <2>1. /\ wip' = render /\ EntangleTransitions(marked, lane) /\ pingCache' = pingCache
        /\ pc' = "idle" /\ ~cancelPendingCommit'
    BY <1>3 DEF ScheduleUpdateOnFiber
  <2>2. lane \in UpdateLanes
    BY <1>3, LatestLane DEF ScheduleUpdateOnFiber
  <2> HIDE DEF lane
  <2>3. before \in Wip
    BY <1>0, Stacks DEF TypeOK
  <2>4. /\ render.root = before.root /\ render.lanes = before.lanes
        /\ render.exitStatus = before.exitStatus
    BY <2>3 DEF Wip
  <2>5. lane # IdleLane
    BY <2>2 DEF NonIdleLanes, IdleLane
  <2>6. updated.warmLanes = {} /\ updated.pendingLanes = root.pendingLanes \cup {lane}
    BY <1>0, <2>5 DEF MarkRootUpdated, TypeOK, Root
  <2>7. updated \in Root(UpdateLanes)
    BY <1>0, <2>2, MarkedRoot DEF TypeOK
  <2> HIDE DEF updated
  <2>8. marked.warmLanes = {} /\ marked.pendingLanes = updated.pendingLanes
    BY <2>6, <2>7 DEF MarkSuspended, MarkRootSuspended, Root
  <2>9. marked \in Root(UpdateLanes)
    <3>1. render \in Wip
      BY <2>2, <2>3 DEF Wip
    <3> QED
      BY <2>7, <3>1, SuspendedRender
  <2> HIDE DEF marked
  <2>10. root'.warmLanes = {} /\ root'.pendingLanes = root.pendingLanes \cup {lane}
    BY <2>1, <2>6, <2>8, <2>9 DEF EntangleTransitions, MarkRootEntangled, Root
  <2>11. /\ before.lanes \subseteq root.pendingLanes /\ (~before.root => before.lanes = {})
         /\ before.exitStatus = "SuspendedWithDelay" => before = wip
    BY DEF FreshStack, RenderIsPending
  <2> HIDE DEF before, render
  <2>12. RenderIsPending'
    BY <2>1, <2>4, <2>10, <2>11 DEF RenderIsPending
  <2>13. SuspendedRenderHasListener'
    BY <2>1, <2>4, <2>11 DEF SuspendedRenderHasListener
  <2>14. WarmLanesAreSuspended' /\ WarmRootHasListener'
    BY <2>10 DEF WarmLanesAreSuspended, WarmRootHasListener
  <2> QED
    BY <2>12, <2>13, <2>14
<1>4. ASSUME NEW listener \in pingCache, PingSuspendedRoot(listener[1], listener[2])
      PROVE  SuspensionsHaveListeners'
  <2> DEFINE child == listener[1]
             lanes == listener[2]
  <2>1. /\ pingCache' = pingCache \ {listener} /\ pc = "idle" /\ pc' = "idle"
        /\ root' = MarkRootPinged(root, lanes)
    BY <1>0, <1>4 DEF PingSuspendedRoot, TypeOK
  <2>2. /\ root'.pendingLanes = root.pendingLanes
        /\ root'.suspendedLanes = root.suspendedLanes
        /\ root'.pingedLanes = root.pingedLanes \cup (root.suspendedLanes \cap lanes)
        /\ root'.warmLanes = root.warmLanes \ lanes
    BY <1>0, <2>1 DEF MarkRootPinged, TypeOK, Root
  <2>3. WarmLanesAreSuspended'
    BY <2>2 DEF WarmLanesAreSuspended
  <2>4. CASE wip.root /\ lanes \subseteq wip.lanes /\ wip.exitStatus = "SuspendedWithDelay"
    <3>1. wip' = FreshStack({}) /\ ~cancelPendingCommit
      BY <1>0, <1>4, <2>4 DEF PingSuspendedRoot, PrepareFreshStack, RenderFollowsQueue
    <3>2. RenderIsPending' /\ SuspendedRenderHasListener'
      BY <2>2, <3>1 DEF FreshStack, RenderIsPending, SuspendedRenderHasListener
    <3>3. WarmRootHasListener'
      BY <2>1, <2>2, <3>1 DEF WarmRootHasListener
    <3> QED
      BY <2>3, <3>2, <3>3
  <2>5. CASE ~(wip.root /\ lanes \subseteq wip.lanes /\ wip.exitStatus = "SuspendedWithDelay")
    <3>1. /\ wip'.root = wip.root /\ wip'.lanes = wip.lanes
          /\ wip'.exitStatus = wip.exitStatus /\ cancelPendingCommit' = cancelPendingCommit
      BY <1>0, <1>4, <2>5 DEF PingSuspendedRoot, TypeOK, Wip
    <3>2. RenderIsPending'
      BY <2>2, <3>1 DEF RenderIsPending
    <3>3. SuspendedRenderHasListener'
      <4> SUFFICES ASSUME wip.root, wip.exitStatus = "SuspendedWithDelay"
                   PROVE  \E c \in Child : <<c, wip.lanes>> \in pingCache'
        BY <3>1 DEF SuspendedRenderHasListener
      <4>1. PICK c \in Child : <<c, wip.lanes>> \in pingCache
        BY DEF SuspendedRenderHasListener
      <4>2. listener # <<c, wip.lanes>>
        BY <2>5
      <4> QED
        BY <2>1, <4>1, <4>2
    <3>4. WarmRootHasListener'
      BY <2>1, <2>2, <3>1 DEF WarmRootHasListener
    <3> QED
      BY <2>3, <3>2, <3>3, <3>4
  <2> QED
    BY <2>4, <2>5
<1>5. ASSUME NEW late \in SUBSET root.timedLanes,
             ProcessRootScheduleInMicrotask(late) \/ TaskEnd(late)
      PROVE  SuspensionsHaveListeners'
  <2>1. /\ root' = MarkStarvedLanesAsExpired(root, late) /\ pc # "commit"
        /\ UNCHANGED <<wip, pingCache, cancelPendingCommit>>
    BY <1>5 DEF ProcessRootScheduleInMicrotask, TaskEnd
  <2>2. /\ root'.pendingLanes = root.pendingLanes /\ root'.warmLanes = root.warmLanes
        /\ root'.suspendedLanes = root.suspendedLanes
        /\ root'.pingedLanes = root.pingedLanes
    BY <1>0, <2>1 DEF MarkStarvedLanesAsExpired, TypeOK, Root
  <2> QED
    BY <2>1, <2>2, OtherListeners
<1>6. CASE FlushSyncWorkAcrossRoots
  <2>1. CASE schedule.inSchedule /\ IsSyncWork(root, NextLanes(root))
    <3>1. NextLanes(root) # {}
      BY <2>1 DEF IsSyncWork, IncludesSyncLane
    <3> QED
      BY <1>6, <2>1, <3>1, WorkHasListeners DEF FlushSyncWorkAcrossRoots
  <2>2. CASE ~(schedule.inSchedule /\ IsSyncWork(root, NextLanes(root)))
    BY <1>1, <1>6, <2>2 DEF FlushSyncWorkAcrossRoots
  <2> QED
    BY <2>1, <2>2
<1>7. CASE \E forceSync \in BOOLEAN : PerformWorkOnRootViaSchedulerTask(forceSync)
  BY <1>7, WorkHasListeners DEF PerformWorkOnRootViaSchedulerTask
<1>8. CASE TaskWithoutWork \/ YieldToHost \/ CommitIsReady
  BY <1>1, <1>8 DEF TaskWithoutWork, YieldToHost, CommitIsReady
<1>9. CASE BeginWork \/ RenderChild \/ SuspendOnImmediate
  <2>1. /\ wip'.root = wip.root /\ wip'.lanes = wip.lanes /\ wip'.exitStatus = wip.exitStatus
        /\ UNCHANGED <<root, pingCache, cancelPendingCommit>> /\ pc # "commit"
    BY <1>0, <1>9 DEF BeginWork, RenderChild, SuspendOnImmediate, TypeOK, Wip
  <2> QED
    BY <2>1, OtherListeners
<1>10. CASE UnwindSuspended \/ SuspendSyncRender
  <2>1. /\ wip.at \in Child /\ pingCache' = pingCache \cup {<<wip.at, wip.lanes>>}
        /\ cancelPendingCommit' = cancelPendingCommit /\ pc # "commit"
        /\ root' = root \/ root' = MarkSuspended(root, wip, FALSE)
        /\ wip' = Suspended \/ wip' = NoWip
    BY <1>10 DEF UnwindSuspended, SuspendSyncRender, AttachPingListener
  <2>2. /\ root'.pendingLanes = root.pendingLanes /\ root'.warmLanes = root.warmLanes
        /\ root.suspendedLanes \ root.pingedLanes
             \subseteq root'.suspendedLanes \ root'.pingedLanes
    BY <1>0, <2>1, SuspendedLanes
  <2>3. /\ Suspended.lanes = wip.lanes /\ Suspended.root = wip.root
        /\ NoWip.lanes = {} /\ ~NoWip.root
    BY <1>0 DEF Suspended, NoWip, FreshStack, TypeOK, Wip
  <2>4. \E child \in Child : <<child, wip.lanes>> \in pingCache'
    BY <2>1
  <2> QED
    BY <2>1, <2>2, <2>3, <2>4, OtherListeners
<1>11. CASE SuspendAtTheShell
  <2>1. /\ root' = MarkSuspended(root, wip, TRUE) /\ wip' = NoWip /\ pingCache' = pingCache
        /\ wip.root /\ wip.exitStatus = "SuspendedWithDelay" /\ pc # "commit"
        /\ cancelPendingCommit' = cancelPendingCommit
    BY <1>0, <1>11 DEF SuspendAtTheShell, RenderFollowsQueue
  <2>2. PICK child \in Child : <<child, wip.lanes>> \in pingCache
    BY <2>1 DEF SuspendedRenderHasListener
  <2> DEFINE lanes == (wip.lanes \ wip.pinged) \ wip.interleaved
  <2>3. /\ root'.pendingLanes = root.pendingLanes
        /\ root'.suspendedLanes = root.suspendedLanes \cup lanes
        /\ root'.pingedLanes = root.pingedLanes \ lanes
        /\ root'.warmLanes = root.warmLanes \cup lanes
    BY <1>0, <2>1, SuspendedLanes
  <2>4. RenderIsPending' /\ SuspendedRenderHasListener' /\ WarmLanesAreSuspended'
    BY <2>1, <2>3 DEF NoWip, FreshStack, RenderIsPending, SuspendedRenderHasListener,
                      WarmLanesAreSuspended
  <2>5. WarmRootHasListener'
    <3>1. lanes # {} => <<child, wip.lanes>>[2] \cap root'.pendingLanes # {}
      BY <2>3 DEF RenderIsPending
    <3>2. lanes = {} => root'.warmLanes = root.warmLanes
      BY <2>3
    <3> HIDE DEF lanes
    <3>3. CASE lanes = {}
      BY <2>1, <2>3, <3>2, <3>3 DEF WarmRootHasListener
    <3>4. CASE lanes # {}
      BY <2>1, <2>2, <3>1, <3>4 DEF WarmRootHasListener
    <3> QED
      BY <3>3, <3>4
  <2> QED
    BY <2>4, <2>5
<1>12. CASE CompleteRender
  <2>1. /\ wip' = NoWip /\ pingCache' = pingCache
        /\ \/ pc' = "commit" /\ UNCHANGED root
           \/ root' = MarkSuspended(root, wip, TRUE) /\ cancelPendingCommit'
    BY <1>12 DEF CompleteRender
  <2>2. /\ root'.pendingLanes = root.pendingLanes
        /\ WarmLanesAreSuspended'
    BY <1>0, <2>1, SuspendedLanes DEF WarmLanesAreSuspended
  <2>3. RenderIsPending' /\ SuspendedRenderHasListener'
    BY <2>1 DEF NoWip, FreshStack, RenderIsPending, SuspendedRenderHasListener
  <2> QED
    BY <2>1, <2>2, <2>3 DEF WarmRootHasListener
<1>13. CASE CommitRoot
  <2>1. root' = MarkRootFinished(root, Queue!RemainingLanes) /\ UNCHANGED <<wip, pingCache>>
    BY <1>13 DEF CommitRoot
  <2>2. root'.warmLanes = {}
    BY <2>1 DEF MarkRootFinished
  <2>3. ~wip.root
    BY <1>0, <1>13 DEF CommitRoot, RenderFollowsQueue
  <2> QED
    BY <2>1, <2>2, <2>3 DEF RenderIsPending, SuspendedRenderHasListener,
                            WarmLanesAreSuspended, WarmRootHasListener
<1>14. CASE UNCHANGED vars
  BY <1>1, <1>14 DEF vars
<1> QED
  BY <1>2, <1>3, <1>4, <1>5, <1>6, <1>7, <1>8, <1>9, <1>10, <1>11, <1>12, <1>13, <1>14
     DEF Next, Work

-----------------------------------------------------------------------------
(* The order of transitions *)

\* The lanes that are pending and how they are entangled.
SameEntanglement(r, s) ==
  /\ r.pendingLanes = s.pendingLanes /\ r.entangledLanes = s.entangledLanes
  /\ r.entanglements = s.entanglements

\* What suspends, pings or expires lanes leaves their entanglement alone.
LEMMA EntanglementStays ==
  ASSUME NEW r \in Root(UpdateLanes), NEW lanes \in SUBSET UpdateLanes, NEW entire \in BOOLEAN
  PROVE  /\ SameEntanglement(MarkRootSuspended(r, lanes, entire), r)
         /\ SameEntanglement(MarkRootPinged(r, lanes), r)
         /\ SameEntanglement(MarkStarvedLanesAsExpired(r, lanes), r)
  BY DEF SameEntanglement, MarkRootSuspended, MarkRootPinged, MarkStarvedLanesAsExpired, Root

LEMMA SuspensionEntanglesNothing ==
  ASSUME NEW r \in Root(UpdateLanes), NEW render \in Wip, NEW entire \in BOOLEAN
  PROVE  SameEntanglement(MarkSuspended(r, render, entire), r)
<1>1. (render.lanes \ render.pinged) \ render.interleaved \in SUBSET UpdateLanes
  BY DEF Wip
<1> QED
  BY <1>1, EntanglementStays DEF MarkSuspended

\* The lanes that an update joins are the pending transitions.
LEMMA UpdatesAreEntangled ==
  ASSUME IndInv, ScheduleUpdateOnFiber
  PROVE  TransitionsAreEntangled'
<1> DEFINE lane    == concurrentQueues[Len(concurrentQueues)].lane
           before  == IF cancelPendingCommit THEN FreshStack({}) ELSE wip
           render  == IF before.root THEN [before EXCEPT !.interleaved = @ \cup {lane}]
                      ELSE before
           updated == MarkRootUpdated(root, lane)
           marked  == IF render.exitStatus = "SuspendedWithDelay"
                      THEN MarkSuspended(updated, render, FALSE) ELSE updated
<1>1. EntangleTransitions(marked, lane)
  BY DEF ScheduleUpdateOnFiber
<1>2. lane \in UpdateLanes
  BY LatestLane DEF ScheduleUpdateOnFiber
<1>3. TypeOK /\ TransitionsAreEntangled /\ root \in Root(UpdateLanes)
  BY DEF IndInv, TypeOK
<1> HIDE DEF lane
<1>4. before \in Wip
  BY <1>3, Stacks DEF TypeOK
<1>5. render \in Wip
  BY <1>2, <1>4 DEF Wip
<1> HIDE DEF render
<1>6. /\ updated \in Root(UpdateLanes) /\ updated.pendingLanes = root.pendingLanes \cup {lane}
      /\ updated.entangledLanes = root.entangledLanes
      /\ updated.entanglements = root.entanglements
  BY <1>2, <1>3 DEF MarkRootUpdated, Root
<1> HIDE DEF updated
<1>7. /\ marked \in Root(UpdateLanes) /\ marked.pendingLanes = root.pendingLanes \cup {lane}
      /\ marked.entangledLanes = root.entangledLanes
      /\ marked.entanglements = root.entanglements
  BY <1>5, <1>6, SuspendedRender, SuspensionEntanglesNothing DEF SameEntanglement
<1> HIDE DEF marked
<1> DEFINE new == (queueLanes \cap marked.pendingLanes) \cup {lane}
<1>8. CASE lane \notin TransitionLanes
  <2>1. root' = marked /\ queueLanes' = queueLanes
    BY <1>1, <1>8 DEF EntangleTransitions
  <2>2. root'.pendingLanes \cap TransitionLanes = root.pendingLanes \cap TransitionLanes
    BY <1>7, <1>8, <2>1
  <2> QED
    BY <1>3, <1>7, <2>1, <2>2 DEF TransitionsAreEntangled
<1>9. CASE lane \in TransitionLanes
  <2>1. root' = MarkRootEntangled(marked, new) /\ queueLanes' = new
    BY <1>1, <1>9 DEF EntangleTransitions
  <2>2. /\ new = (root.pendingLanes \cap TransitionLanes) \cup {lane}
        /\ new \subseteq TransitionLanes /\ new \subseteq UpdateLanes
        /\ root.entangledLanes \cup new = new
    BY <1>2, <1>3, <1>7, <1>9 DEF TransitionsAreEntangled, Root
  <2> HIDE DEF new
  <2>3. /\ root'.pendingLanes = root.pendingLanes \cup {lane}
        /\ root'.entangledLanes = new
        /\ \A l \in new : new \subseteq root'.entanglements[l]
    BY <1>7, <2>1, <2>2 DEF MarkRootEntangled, Root
  <2> QED
    BY <1>9, <2>1, <2>2, <2>3 DEF TransitionsAreEntangled
<1> QED
  BY <1>8, <1>9

\* A commit leaves no lane pending that was not.
LEMMA RemainingWerePending ==
  ASSUME IndInv, pc = "commit"
  PROVE  Queue!RemainingLanes \subseteq root.pendingLanes
<1>1. phase = "completed"
  BY DEF IndInv, RenderFollowsQueue
<1>2. /\ Queue!RemainingLanes = Queue!LanesOf(Queue!WaitingFor(workInProgress)) \ {NoLane}
      /\ root.pendingLanes = Queue!LanesOf(Waiting) \ {NoLane}
  BY <1>1 DEF IndInv, RootKnowsLanes, Queue!IndInv, Queue!WorkInProgressIsWhole,
              Queue!CurrentIsWhole, Queue!NoLane, NoLane, Waiting, Queue!Waiting,
              Queue!WaitingFor
<1>3. Queue!Unapplied(Queue!WaitingFor(workInProgress)) \subseteq Queue!Unapplied(Waiting)
  BY <1>1 DEF IndInv, RenderKeepsOrder
<1>4. \A queue : Queue!LanesOf(queue) \ {NoLane} = {u.lane : u \in Queue!Unapplied(queue)}
  BY DEF Queue!LanesOf, Queue!Unapplied, Queue!NoLane, NoLane
<1> QED
  BY <1>2, <1>3, <1>4

LEMMA CommitKeepsEntanglement ==
  ASSUME IndInv, CommitRoot
  PROVE  TransitionsAreEntangled'
<1> DEFINE remaining == Queue!RemainingLanes
<1>1. /\ TransitionsAreEntangled /\ root \in Root(UpdateLanes)
      /\ root' = MarkRootFinished(root, remaining) /\ queueLanes' = queueLanes
  BY DEF IndInv, TypeOK, CommitRoot
<1>2. remaining \subseteq root.pendingLanes
  BY RemainingWerePending DEF CommitRoot
<1> HIDE DEF remaining
<1>3. /\ root'.pendingLanes = remaining
      /\ root'.entangledLanes = root.entangledLanes \cap remaining
      /\ \A l \in remaining : root'.entanglements[l] = root.entanglements[l]
  BY <1>1, <1>2 DEF MarkRootFinished, Root
<1> QED
  BY <1>1, <1>2, <1>3 DEF TransitionsAreEntangled

LEMMA TransitionsStayEntangled ==
  ASSUME IndInv, [Next]_vars
  PROVE  TransitionsAreEntangled'
<1>0. /\ TypeOK /\ TransitionsAreEntangled /\ root \in Root(UpdateLanes) /\ wip \in Wip
      /\ root.timedLanes \subseteq UpdateLanes
  BY DEF IndInv, TypeOK, Root
<1>1. ASSUME SameEntanglement(root', root), UNCHANGED queueLanes
      PROVE  TransitionsAreEntangled'
  BY <1>0, <1>1 DEF SameEntanglement, TransitionsAreEntangled
<1>2. ASSUME UNCHANGED <<root, queueLanes>> PROVE TransitionsAreEntangled'
  BY <1>1, <1>2 DEF SameEntanglement
<1>3. CASE Event \/ TaskWithoutWork \/ BeginWork \/ RenderChild \/ YieldToHost
           \/ SuspendOnImmediate \/ CommitIsReady
  BY <1>2, <1>3 DEF Event, EnqueueSetState, Resolve, FlushSyncWork, TaskWithoutWork, BeginWork,
                    RenderChild, YieldToHost, SuspendOnImmediate, CommitIsReady
<1>4. CASE ScheduleUpdateOnFiber
  BY <1>4, UpdatesAreEntangled
<1>5. ASSUME NEW listener \in pingCache, PingSuspendedRoot(listener[1], listener[2])
      PROVE  TransitionsAreEntangled'
  <2>1. listener[2] \in SUBSET UpdateLanes
    BY <1>0 DEF TypeOK
  <2> QED
    BY <1>0, <1>1, <1>5, <2>1, EntanglementStays DEF PingSuspendedRoot
<1>6. ASSUME NEW late \in SUBSET root.timedLanes,
             ProcessRootScheduleInMicrotask(late) \/ TaskEnd(late)
      PROVE  TransitionsAreEntangled'
  <2>1. root' = MarkStarvedLanesAsExpired(root, late) /\ UNCHANGED queueLanes
    BY <1>6 DEF ProcessRootScheduleInMicrotask, TaskEnd
  <2>2. late \in SUBSET UpdateLanes
    BY <1>0
  <2> QED
    BY <1>0, <1>1, <2>1, <2>2, EntanglementStays
<1>7. CASE \/ FlushSyncWorkAcrossRoots
           \/ \E forceSync \in BOOLEAN : PerformWorkOnRootViaSchedulerTask(forceSync)
  BY <1>2, <1>7 DEF FlushSyncWorkAcrossRoots, PerformWorkOnRootViaSchedulerTask
<1>8. CASE UnwindSuspended \/ SuspendSyncRender \/ SuspendAtTheShell \/ CompleteRender
  <2>1. /\ \/ root' = root
           \/ \E entire \in BOOLEAN : root' = MarkSuspended(root, wip, entire)
        /\ UNCHANGED queueLanes
    BY <1>8 DEF UnwindSuspended, SuspendSyncRender, SuspendAtTheShell, CompleteRender
  <2> QED
    BY <1>0, <1>1, <1>2, <2>1, SuspensionEntanglesNothing
<1>9. CASE CommitRoot
  BY <1>9, CommitKeepsEntanglement
<1>10. CASE UNCHANGED vars
  BY <1>2, <1>10 DEF vars
<1> QED
  BY <1>3, <1>4, <1>5, <1>6, <1>7, <1>8, <1>9, <1>10 DEF Next, Work

LEMMA FreshStackWaiting ==
  ASSUME Queue!IndInv, NEW lanes \in SUBSET UpdateLanes, Queue!PrepareFreshStack(lanes)
  PROVE  (Queue!LanesOf(current.baseQueue \o pending))' = Queue!LanesOf(Waiting)
<1>1. (P!LanesOf(current.baseQueue \o pending))' = P!LanesOf(P!Waiting)
  BY QueueAssumptions, SameSteps, SameInvariant, P!FreshWaiting
<1> QED
  BY <1>1, SameOperators, SameQueues

\* getEntangledLanes adds all the transitions that wait to a render that has one of them.
LEMMA FreshRenderTakesAll ==
  ASSUME IndInv, pc # "schedule", NEW lanes \in SUBSET UpdateLanes, PrepareFreshStack(lanes)
  PROVE  RenderTakesAllTransitions'
<1> DEFINE render == GetEntangledLanes(root, lanes)
<1>1. TypeOK /\ Queue!IndInv /\ TransitionsAreEntangled
  BY DEF IndInv
<1>2. Queue!PrepareFreshStack(render) /\ renderLanes' = render
  BY DEF PrepareFreshStack, Queue!PrepareFreshStack
<1>3. render \in SUBSET UpdateLanes
  BY <1>1, EntangledLanes DEF TypeOK
<1>4. (Queue!LanesOf(current.baseQueue \o pending))' = Queue!LanesOf(Waiting)
  BY <1>1, <1>2, <1>3, FreshStackWaiting
<1>5. Queue!LanesOf(Waiting) \cap TransitionLanes = root.entangledLanes
  <2>1. root.pendingLanes = Queue!LanesOf(Waiting) \ {NoLane}
    BY DEF IndInv, RootKnowsLanes, Queue!IndInv, Queue!CurrentIsWhole, Queue!NoLane, NoLane,
           Waiting, Queue!Waiting, Queue!WaitingFor
  <2>2. NoLane \notin TransitionLanes
    BY DEF NoLane, TransitionLanes, TransitionUpdateLanes, TransitionDeferredLanes
  <2> QED
    BY <1>1, <2>1, <2>2 DEF TransitionsAreEntangled
<1>6. root.entangledLanes \subseteq render \/ root.entangledLanes \cap render = {}
  <2>1. render = lanes \cup UNION {root.entanglements[l] : l \in lanes \cap root.entangledLanes}
    BY DEF GetEntangledLanes
  <2>2. CASE lanes \cap root.entangledLanes = {}
    BY <2>1, <2>2
  <2>3. ASSUME NEW l \in lanes \cap root.entangledLanes
        PROVE  root.entangledLanes \subseteq render
    BY <1>1, <2>1 DEF TransitionsAreEntangled
  <2> QED
    BY <2>2, <2>3
<1> HIDE DEF render
<1> QED
  BY <1>2, <1>4, <1>5, <1>6 DEF RenderTakesAllTransitions

LEMMA FreshStackTakesAll ==
  ASSUME IndInv, pc # "schedule", NEW forceSync, PerformWorkOnRoot(NextLanes(root), forceSync)
  PROVE  RenderTakesAllTransitions'
<1>1. NextLanes(root) \in SUBSET UpdateLanes
  BY TheNextLanes DEF IndInv, TypeOK, Wip
<1>2. CASE PrepareFreshStack(NextLanes(root))
  BY <1>1, <1>2, FreshRenderTakesAll
<1>3. CASE UNCHANGED queueVars
  BY <1>3 DEF IndInv, RenderTakesAllTransitions, queueVars, Queue!LanesOf, Queue!Elements
<1> QED
  BY <1>2, <1>3 DEF PerformWorkOnRoot

LEMMA RendersTakeAll ==
  ASSUME IndInv, [Next]_vars
  PROVE  RenderTakesAllTransitions'
<1>0. TypeOK /\ Queue!IndInv /\ RenderTakesAllTransitions
  BY DEF IndInv
<1>1. ASSUME phase' # "prepared" PROVE RenderTakesAllTransitions'
  BY <1>1 DEF RenderTakesAllTransitions
<1>2. ASSUME UNCHANGED queueVars PROVE RenderTakesAllTransitions'
  BY <1>0, <1>2 DEF RenderTakesAllTransitions, queueVars, Queue!LanesOf, Queue!Elements
<1>3. ASSUME NEW lane \in UpdateLanes, NEW data \in DataSets, EnqueueSetState(lane, data)
      PROVE  RenderTakesAllTransitions'
  <2>1. current \in Queue!Fiber
    BY <1>0 DEF Queue!IndInv, Queue!TypeOK
  <2>2. current'.baseQueue = current.baseQueue /\ UNCHANGED <<pending, renderLanes, phase>>
    BY <1>3, <2>1 DEF EnqueueSetState, Queue!EnqueueUpdate, Queue!Fiber
  <2> QED
    BY <1>0, <2>2 DEF RenderTakesAllTransitions, Queue!LanesOf, Queue!Elements
<1>4. CASE ScheduleUpdateOnFiber
  <2>1. CASE Queue!PrepareFreshStack({})
    <3>1. renderLanes' = {}
      BY <2>1 DEF Queue!PrepareFreshStack
    <3> QED
      BY <3>1 DEF RenderTakesAllTransitions
  <2> QED
    BY <1>2, <1>4, <2>1 DEF ScheduleUpdateOnFiber
<1>5. CASE \E listener \in pingCache : PingSuspendedRoot(listener[1], listener[2])
  <2>1. pc = "idle" /\ (PrepareFreshStack({}) \/ UNCHANGED queueVars)
    BY <1>5 DEF PingSuspendedRoot
  <2> QED
    BY <1>2, <2>1, FreshRenderTakesAll
<1>6. CASE FlushSyncWorkAcrossRoots
  BY <1>2, <1>6, FreshStackTakesAll DEF FlushSyncWorkAcrossRoots
<1>7. CASE \E forceSync \in BOOLEAN : PerformWorkOnRootViaSchedulerTask(forceSync)
  BY <1>7, FreshStackTakesAll DEF PerformWorkOnRootViaSchedulerTask
<1>8. CASE BeginWork \/ SuspendAtTheShell \/ CompleteRender \/ CommitRoot
  BY <1>0, <1>1, <1>8, ProcessedQueue, FinishedQueue, CommittedQueue
     DEF BeginWork, SuspendAtTheShell, CompleteRender, CommitRoot
<1>9. CASE SuspendSyncRender
  <2>1. Queue!AbandonRender \/ UNCHANGED queueVars
    BY <1>9 DEF SuspendSyncRender
  <2> QED
    BY <1>0, <1>1, <1>2, <2>1, FinishedQueue
<1>10. CASE \/ (\E child \in Child : Resolve(child)) \/ FlushSyncWork
            \/ \E late \in SUBSET root.timedLanes :
                 ProcessRootScheduleInMicrotask(late) \/ TaskEnd(late)
            \/ TaskWithoutWork \/ RenderChild \/ YieldToHost \/ SuspendOnImmediate
            \/ UnwindSuspended \/ CommitIsReady \/ UNCHANGED vars
  BY <1>2, <1>10 DEF Resolve, FlushSyncWork, ProcessRootScheduleInMicrotask, TaskEnd,
                     TaskWithoutWork, RenderChild, YieldToHost, SuspendOnImmediate,
                     UnwindSuspended, CommitIsReady, vars
<1> QED
  BY <1>3, <1>4, <1>5, <1>6, <1>7, <1>8, <1>9, <1>10 DEF Next, Event, Work

\* What waits for a transition is not on the screen, and an update that waits is known by
\* its number.
LEMMA WaitingTransition ==
  ASSUME Queue!IndInv, NEW id \in Id, WaitsIn(id, TransitionLanes)
  PROVE  /\ \E u \in Queue!Elements(Waiting) :
              u.id = id /\ u.lane \in TransitionLanes /\ u \in Queue!Unapplied(Waiting)
         /\ ~OnScreen(id) /\ id \in 1..made
<1>1. PICK u \in Queue!Elements(Waiting) : u.id = id /\ u.lane \in TransitionLanes
  BY DEF WaitsIn
<1>2. u \in Queue!Unapplied(Waiting)
  BY <1>1 DEF Queue!Unapplied, Queue!NoLane, TransitionLanes, TransitionUpdateLanes,
              TransitionDeferredLanes
<1>3. {v.id : v \in Queue!Unapplied(Waiting)} = (1..made) \ Queue!Elements(current.memoizedState)
  BY QueueAssumptions, SameInvariant, SameQueues, SameOperators, P!WaitingIsNumbered
     DEF P!NoUpdateLost
<1> QED
  BY <1>1, <1>2, <1>3 DEF OnScreen

\* A fiber that was not processed applies nothing that waits.
LEMMA OrderAtFirst ==
  ASSUME Queue!IndInv, workInProgress'.memoizedState = current.memoizedState,
         Waiting' = Waiting
  PROVE  AppliesInOrder'
<1> SUFFICES ASSUME NEW i \in Id, NEW j \in Id, WaitsIn(j, TransitionLanes)',
                    j \in Queue!Elements(workInProgress.memoizedState)'
             PROVE  FALSE
  BY DEF AppliesInOrder
<1>1. WaitsIn(j, TransitionLanes)
  BY DEF WaitsIn, Queue!Elements
<1>2. OnScreen(j)
  BY DEF OnScreen, Queue!Elements
<1> QED
  BY <1>1, <1>2, WaitingTransition

\* The fiber applies a transition only with the earlier ones that it finds, because the lanes
\* of the render include all of theirs; those that came later have greater numbers.
LEMMA OrderAfterBeginWork ==
  ASSUME Queue!IndInv, Queue!IndInv', RenderTakesAllTransitions, Queue!BeginWork
  PROVE  RenderKeepsOrder'
<1> DEFINE queue == current.baseQueue \o pending
           left == Queue!Unapplied(Queue!WaitingFor(workInProgress))
<1>1. /\ phase = "prepared" /\ phase' = "begun" /\ UNCHANGED <<concurrentQueues, made>>
  BY DEF Queue!BeginWork
<1>2. /\ Waiting' = Waiting
      /\ left' = {u \in Queue!Unapplied(Waiting) :
                    u \in Queue!Elements(concurrentQueues) \/ u.lane \notin renderLanes}
      /\ Queue!Elements(workInProgress.memoizedState)' = (1..made) \ {u.id : u \in left'}
  BY QueueAssumptions, SameSteps, SameInvariant, SameQueues, SameOperators, P!TakenUpdates
     DEF P!UnappliedIds
<1>3. /\ Queue!Elements(Waiting) = Queue!Elements(queue) \cup Queue!Elements(concurrentQueues)
      /\ \A u, v \in Queue!Elements(Waiting) : u.id = v.id => u = v
      /\ \A u \in Queue!Elements(queue), v \in Queue!Elements(concurrentQueues) : u.id < v.id
      /\ \A u \in Queue!Elements(Waiting) : u.id \in Nat
  BY QueueAssumptions, SameInvariant, SameQueues, SameOperators, P!WaitingParts,
     P!WaitingIsDistinct
<1> HIDE DEF left, queue
<1>4. left' \subseteq Queue!Unapplied(Waiting)'
  BY <1>2 DEF Queue!Unapplied, Queue!Elements
<1>5. ASSUME NEW i \in Id, NEW j \in Id, i < j,
             WaitsIn(i, TransitionLanes), WaitsIn(j, TransitionLanes),
             j \in Queue!Elements(workInProgress.memoizedState)'
      PROVE  i \in Queue!Elements(workInProgress.memoizedState)'
  <2>1. PICK u \in Queue!Elements(Waiting) : u.id = i /\ u.lane \in TransitionLanes
    BY <1>5 DEF WaitsIn
  <2>2. PICK v \in Queue!Elements(Waiting) :
          v.id = j /\ v.lane \in TransitionLanes /\ v \in Queue!Unapplied(Waiting)
    BY <1>5, WaitingTransition
  <2>3. v \notin left'
    BY <1>2, <1>5, <2>2
  <2>4. v \in Queue!Elements(queue) /\ v.lane \in renderLanes
    BY <1>2, <1>3, <2>2, <2>3
  <2>5. u \in Queue!Elements(queue)
    BY <1>3, <1>5, <2>1, <2>2, <2>4
  <2>6. u.lane \in renderLanes
    BY <1>1, <2>1, <2>2, <2>4, <2>5 DEF RenderTakesAllTransitions, Queue!LanesOf, queue
  <2>7. u \notin Queue!Elements(concurrentQueues)
    <3>1. u \in Queue!Elements(concurrentQueues) => u.id < u.id
      BY <1>3, <2>5
    <3> QED
      BY <1>3, <2>1, <3>1
  <2>8. ASSUME NEW w \in left' PROVE w.id # i
    <3>1. w \in Queue!Elements(Waiting) /\ w # u
      BY <1>2, <2>6, <2>7 DEF Queue!Unapplied
    <3> QED
      BY <1>3, <2>1, <3>1
  <2>9. i \in 1..made
    BY <1>5, WaitingTransition
  <2> QED
    BY <1>2, <2>8, <2>9
<1>6. AppliesInOrder'
  <2>1. \A id \in Id : WaitsIn(id, TransitionLanes)' <=> WaitsIn(id, TransitionLanes)
    BY <1>2 DEF WaitsIn, Queue!Elements
  <2> QED
    BY <1>5, <2>1 DEF AppliesInOrder
<1> QED
  BY <1>4, <1>6 DEF RenderKeepsOrder, left

LEMMA OrderAfterEnqueueUpdate ==
  ASSUME Queue!IndInv, RenderKeepsOrder, NEW lane \in UpdateLanes, Queue!EnqueueUpdate(lane)
  PROVE  RenderKeepsOrder'
<1> DEFINE u == [id |-> made + 1, lane |-> lane, callback |-> TRUE]
<1>1. /\ Queue!Elements(Waiting)' = Queue!Elements(Waiting) \cup {u}
      /\ Queue!Elements(Queue!WaitingFor(workInProgress))'
           = Queue!Elements(Queue!WaitingFor(workInProgress)) \cup {u}
  BY QueueAssumptions, SameSteps, SameInvariant, SameQueues, SameOperators, P!QueuedUpdate
<1>2. /\ workInProgress'.memoizedState = workInProgress.memoizedState /\ phase' = phase
      /\ made \in Nat
  BY AugmentedQueue, UpdatesAssumption DEF Queue!IndInv, Queue!TypeOK
<1>3. u.id = made + 1
  OBVIOUS
<1> HIDE DEF u
<1>4. phase' # "none" =>
        (Queue!Unapplied(Queue!WaitingFor(workInProgress)))' \subseteq (Queue!Unapplied(Waiting))'
  BY <1>1, <1>2 DEF RenderKeepsOrder, Queue!Unapplied
<1>5. ASSUME phase' \in {"begun", "completed"}, NEW i \in Id, NEW j \in Id, i < j,
             WaitsIn(i, TransitionLanes)', WaitsIn(j, TransitionLanes)',
             j \in Queue!Elements(workInProgress.memoizedState)'
      PROVE  i \in Queue!Elements(workInProgress.memoizedState)'
  <2>1. j \in Queue!Elements(workInProgress.memoizedState)
    BY <1>2, <1>5 DEF Queue!Elements
  <2>2. j \in 1..made
    BY <1>2, <1>5, <2>1 DEF Queue!IndInv, Queue!WorkInProgressIsWhole, Queue!IsWhole
  <2>3. i # made + 1 /\ j # made + 1
    BY <1>2, <1>5, <2>2 DEF Id
  <2>4. WaitsIn(i, TransitionLanes) /\ WaitsIn(j, TransitionLanes)
    BY <1>1, <1>3, <1>5, <2>3 DEF WaitsIn
  <2>5. i \in Queue!Elements(workInProgress.memoizedState)
    BY <1>2, <1>5, <2>1, <2>4 DEF RenderKeepsOrder, AppliesInOrder
  <2> QED
    BY <1>2, <2>5 DEF Queue!Elements
<1> QED
  BY <1>4, <1>5 DEF RenderKeepsOrder, AppliesInOrder

LEMMA OrderIsKept ==
  ASSUME Queue!IndInv, RenderTakesAllTransitions, RenderKeepsOrder,
         [Queue!Next]_(Queue!vars)
  PROVE  RenderKeepsOrder'
<1>0. Queue!IndInv'
  BY QueueStep
<1> DEFINE left == Queue!Unapplied(Queue!WaitingFor(workInProgress))
<1>1. ASSUME Waiting' = Waiting,
             Queue!WaitingFor(workInProgress)' = Queue!WaitingFor(workInProgress),
             workInProgress'.memoizedState = workInProgress.memoizedState,
             phase' # "none" => phase # "none",
             phase' \in {"begun", "completed"} => phase \in {"begun", "completed"}
      PROVE  RenderKeepsOrder'
  <2>1. \A id \in Id : WaitsIn(id, TransitionLanes)' <=> WaitsIn(id, TransitionLanes)
    BY <1>1 DEF WaitsIn, Queue!Elements
  <2>2. left' = left /\ Queue!Unapplied(Waiting)' = Queue!Unapplied(Waiting)
    BY <1>1 DEF Queue!Unapplied, Queue!Elements
  <2>3. AppliesInOrder => AppliesInOrder'
    BY <1>1, <2>1 DEF AppliesInOrder, Queue!Elements
  <2> HIDE DEF left
  <2> QED
    BY <1>1, <2>2, <2>3 DEF RenderKeepsOrder, left
<1>2. ASSUME NEW lane \in UpdateLanes, Queue!EnqueueUpdate(lane) PROVE RenderKeepsOrder'
  BY <1>2, OrderAfterEnqueueUpdate
<1>3. ASSUME NEW lanes \in SUBSET UpdateLanes, Queue!PrepareFreshStack(lanes)
      PROVE  RenderKeepsOrder'
  <2>1. Waiting' = Waiting /\ Queue!WaitingFor(workInProgress)' = Waiting /\ phase' = "prepared"
    BY <1>3, QueueAssumptions, SameSteps, SameInvariant, SameQueues, P!FreshWaiting, FreshQueue
  <2>2. left' = Queue!Unapplied(Waiting)'
    BY <2>1 DEF Queue!Unapplied, Queue!Elements
  <2> HIDE DEF left
  <2> QED
    BY <2>1, <2>2 DEF RenderKeepsOrder, left
<1>4. CASE Queue!BailOut
  <2>1. /\ phase = "prepared" /\ phase' = "begun"
        /\ UNCHANGED <<concurrentQueues, pending, current, workInProgress>>
        /\ workInProgress.memoizedState = current.memoizedState
    BY <1>4 DEF Queue!BailOut, Queue!IndInv, Queue!WorkInProgressIsWhole
  <2>2. Waiting' = Waiting
    BY <2>1 DEF Waiting
  <2>3. AppliesInOrder'
    BY <2>1, <2>2, OrderAtFirst
  <2>4. left' = left /\ Queue!Unapplied(Waiting)' = Queue!Unapplied(Waiting)
    BY <2>1, <2>2 DEF Queue!Unapplied, Queue!Elements, Queue!WaitingFor
  <2> HIDE DEF left
  <2> QED
    BY <2>1, <2>3, <2>4 DEF RenderKeepsOrder, left
<1>5. CASE Queue!BeginWork
  BY <1>0, <1>5, OrderAfterBeginWork
<1>6. CASE Queue!CompleteRender \/ Queue!AbandonRender
  <2>1. Waiting' = Waiting /\ Queue!WaitingFor(workInProgress)' = Queue!WaitingFor(workInProgress)
    BY <1>6, QueueAssumptions, SameSteps, SameInvariant, SameQueues, P!FinishedWaiting
  <2>2. phase = "begun"
    BY <1>6 DEF Queue!CompleteRender, Queue!AbandonRender
  <2> QED
    BY <1>1, <1>6, <2>1, <2>2, FinishedQueue
<1>7. CASE Queue!Commit
  BY <1>7, CommittedQueue DEF RenderKeepsOrder
<1>8. CASE UNCHANGED Queue!vars
  BY <1>1, <1>8 DEF Queue!vars, Waiting, Queue!WaitingFor
<1> QED
  BY <1>2, <1>3, <1>4, <1>5, <1>6, <1>7, <1>8 DEF Queue!Next

-----------------------------------------------------------------------------
(* The theorems *)

LEMMA Initially == Init => IndInv
<1> SUFFICES ASSUME Init PROVE IndInv
  OBVIOUS
<1>1. Queue!IndInv
  BY QueueInitially DEF Init
<1>2. TypeOK
  <2>1. Queue!TypeOK
    BY <1>1 DEF Queue!IndInv
  <2>2. root \in Root(UpdateLanes)
    BY DEF Init, IdleRoot, Root
  <2>3. wip \in Wip
    BY Stacks DEF Init
  <2>4. orphans \in [Priority -> Nat] /\ needs \in [Id -> SUBSET Child]
    BY DEF Init
  <2>5. callback \in [node : {"null", "queued", "running"},
                      priority : UpdateLanes \cup {SyncLane, NoLane}]
    BY DEF Init, NoCallback
  <2> QED
    BY <2>1, <2>2, <2>3, <2>4, <2>5 DEF Init, TypeOK
<1>3. RenderFollowsQueue /\ RootKnowsLanes
  BY DEF Init, RenderFollowsQueue, RootKnowsLanes, NoWip, FreshStack, IdleRoot,
         Queue!Init, Queue!EmptyFiber
<1>4. RenderHasItsData
  BY DEF Init, RenderHasItsData, NoWip, FreshStack, Queue!Init
<1>5. ScreenHasItsData
  BY DEF Init, ScreenHasItsData, OnScreen, Queue!Init, Queue!EmptyFiber, Queue!Elements
<1>6. TasksAreKnown /\ WorkIsScheduled
  <2>1. callback = NoCallback /\ pc = "idle" /\ task = "none"
    BY DEF Init
  <2>2. NextLanes(root) = {}
    <3>1. HighestPriorityLanes({}) = {}
      BY DEF HighestPriorityLanes
    <3>2. root.pendingLanes = {} /\ root.pingedLanes = {}
      BY DEF Init, IdleRoot
    <3>3. NextLanesIgnoringWip(root, cancelPendingCommit) = {}
      BY <3>1, <3>2 DEF NextLanesIgnoringWip
    <3> QED
      BY <3>3 DEF NextLanes, GetNextLanes
  <2> QED
    BY <2>1, <2>2 DEF TasksAreKnown, WorkIsScheduled, NoCallback
<1>7. TransitionsAreEntangled /\ RenderTakesAllTransitions /\ RenderKeepsOrder
  BY DEF Init, Queue!Init, IdleRoot, TransitionsAreEntangled, RenderTakesAllTransitions,
         RenderKeepsOrder
<1> QED
  BY <1>1, <1>2, <1>3, <1>4, <1>5, <1>6, <1>7 DEF IndInv

LEMMA Inductive ==
  ASSUME IndInv, [Next]_vars
  PROVE  IndInv'
<1>1. Queue!IndInv'
  BY QueueFollows, QueueStep DEF IndInv
<1>2. Queue!TypeOK'
  BY <1>1 DEF Queue!IndInv
<1>3. RenderKeepsOrder'
  BY QueueFollows, OrderIsKept DEF IndInv
<1> QED
  BY <1>1, <1>2, <1>3, TypesAreKept, RenderIsKept, LanesAreKept, DataIsKept, TasksAreKept,
     WorkStaysScheduled, TransitionsStayEntangled, RendersTakeAll DEF IndInv

\* However updates, yields, suspensions, pings and commits follow one another, the render
\* in progress, the queue and the root's lanes agree.
THEOREM Invariance == Spec => []IndInv
<1>1. IndInv /\ [Next]_vars => IndInv'
  BY Inductive
<1> QED
  BY <1>1, Initially, PTL DEF Spec

\* The work loop uses the update queue in no way but those of ClassUpdateQueue, whose
\* theorems hold of the root for that reason.
THEOREM QueueIsUsed == Spec => Queue!Spec
<1>1. Init => Queue!Init
  BY DEF Init
<1>2. IndInv /\ [Next]_vars => [Queue!Next]_(Queue!vars)
  BY QueueFollows DEF IndInv
<1> QED
  BY <1>1, <1>2, Invariance, PTL DEF Spec, Queue!Spec

\* The root's pendingLanes, from which markRootFinished and getNextLanes decide what is left
\* to do, are those of the updates that wait.
THEOREM LanesAreKnown == Spec => []PendingLanesAreExact
<1>1. IndInv => PendingLanesAreExact
  BY DEF IndInv, RootKnowsLanes, PendingLanesAreExact, Queue!IndInv, Queue!CurrentIsWhole,
         Queue!Waiting, Queue!WaitingFor, Waiting, Queue!NoLane, NoLane
<1> QED
  BY <1>1, Invariance, PTL

\* No tree in which a child is suspended is committed.
THEOREM DataIsThere == Spec => []ScreenHasItsData
<1>1. IndInv => ScreenHasItsData
  BY DEF IndInv
<1> QED
  BY <1>1, Invariance, PTL

\* A root that can make progress has a microtask or a task to come, although commits forget
\* its callbackNode and the microtask reuses it by its priority alone.
THEOREM RootStaysScheduled == Spec => []RootIsScheduled
<1>1. IndInv => RootIsScheduled
  BY DEF IndInv, TypeOK, WorkIsScheduled, RootIsScheduled, MayRender
<1> QED
  BY <1>1, Invariance, PTL

\* A Scheduler task is never performed in vain while the root refers to it, and left behind.
THEOREM TasksFindWork == Spec => []ScheduledTaskHasWork
<1>1. IndInv => ScheduledTaskHasWork
  BY DEF IndInv, WorkIsScheduled, ScheduledTaskHasWork
<1> QED
  BY <1>1, Invariance, PTL

\* The flushes leave no synchronous work behind, whether they are called from an event, from
\* the microtask or from a commit in another flush.
THEOREM SyncWorkIsDone == Spec => []SyncWorkIsFlushed
<1>1. IndInv => SyncWorkIsFlushed
  BY DEF IndInv, WorkIsScheduled, SyncWorkIsFlushed, MayRender
<1> QED
  BY <1>1, Invariance, PTL

\* A transition is not shown before an earlier one of the same queue, although each commits
\* when its data has arrived: they are in lanes that are entangled, and a render takes all of
\* them or none.
THEOREM TransitionsStayInOrder == Spec => TransitionsInOrder
<1> DEFINE InOrder == \A i, j \in Id :
                        i < j /\ WaitsIn(i, TransitionLanes) /\ WaitsIn(j, TransitionLanes)
                          /\ OnScreen(j)' => OnScreen(i)'
<1>1. IndInv /\ [Next]_vars => InOrder
  <2> SUFFICES ASSUME IndInv, [Next]_vars, NEW i \in Id, NEW j \in Id, i < j,
                      WaitsIn(i, TransitionLanes), WaitsIn(j, TransitionLanes), OnScreen(j)'
               PROVE  OnScreen(i)'
    OBVIOUS
  <2>1. Queue!IndInv /\ [Queue!Next]_(Queue!vars)
    BY QueueFollows DEF IndInv
  <2>2. current'.memoizedState # current.memoizedState
    BY <2>1, WaitingTransition DEF OnScreen, Queue!Elements
  <2>3. \/ \E lane \in UpdateLanes : Queue!EnqueueUpdate(lane)
        \/ \E lanes \in SUBSET UpdateLanes : Queue!PrepareFreshStack(lanes)
        \/ Queue!BeginWork \/ Queue!CompleteRender \/ Queue!AbandonRender
        \/ UNCHANGED current \/ Queue!Commit
    BY <2>1 DEF Queue!Next, Queue!BailOut, Queue!vars
  <2>4. Queue!Commit
    BY <2>1, <2>2, <2>3, AugmentedQueue, FreshQueue, ProcessedQueue, FinishedQueue
  <2>5. phase = "completed" /\ current'.memoizedState = workInProgress.memoizedState
    BY <2>1, <2>4, CommittedQueue
  <2> QED
    BY <2>5 DEF IndInv, RenderKeepsOrder, AppliesInOrder, OnScreen, Queue!Elements
<1>2. IndInv /\ [Next]_vars => [InOrder]_vars
  BY <1>1
<1> QED
  BY <1>2, Invariance, PTL DEF Spec, TransitionsInOrder

\* When updates are not idle, a root that leaves suspended work alone has a listener attached
\* to one of the wakeables it waits for, whichever pings were called too early, too late or
\* during a render of other lanes.
THEOREM PingsAreKept ==
  ASSUME UpdateLanes \subseteq NonIdleLanes
  PROVE  Spec => [](SuspensionsHaveListeners /\ PingIsPending)
<1>1. Init => SuspensionsHaveListeners
  BY DEF Init, IdleRoot, NoWip, FreshStack, SuspensionsHaveListeners, RenderIsPending,
         SuspendedRenderHasListener, WarmLanesAreSuspended, WarmRootHasListener
<1>2. IndInv /\ SuspensionsHaveListeners /\ [Next]_vars => SuspensionsHaveListeners'
  BY ListenersAreKept
<1>3. IndInv /\ SuspensionsHaveListeners => PingIsPending
  <2> SUFFICES ASSUME IndInv, SuspensionsHaveListeners, pc = "idle", ~cancelPendingCommit,
                      root.pendingLanes # {}, NextLanes(root) = {}
               PROVE  \E listener \in pingCache : listener[2] \cap root.pendingLanes # {}
    BY DEF PingIsPending
  <2>1. root.pendingLanes \subseteq root.warmLanes
    BY NextLanesAreKnown DEF IndInv, TypeOK, SuspensionsHaveListeners, RenderIsPending,
                             WarmLanesAreSuspended
  <2> QED
    BY <2>1 DEF SuspensionsHaveListeners, WarmRootHasListener
<1> QED
  BY <1>1, <1>2, <1>3, Invariance, PTL DEF Spec
=============================================================================

--------------------------- MODULE ConcurrentRoot ---------------------------
(***************************************************************************)
(* One concurrent root of the reconciler: how updates are scheduled,       *)
(* rendered, suspended, pinged and committed (DevjsFiberWorkLoop.js and    *)
(* DevjsFiberRootScheduler.js), on the lanes of FiberLanes and over the    *)
(* update queue of ClassUpdateQueue.                                       *)
(*                                                                         *)
(* The tree is one fiber with an update queue and a child per wakeable.    *)
(* An update needs some of the wakeables; a child suspends while its       *)
(* wakeable is unresolved and the state rendered needs it.  There is no    *)
(* Suspense boundary, so a render in which a child suspends does not       *)
(* commit.                                                                 *)
(*                                                                         *)
(* The code runs to completion between the points where it returns to the  *)
(* host: events, microtasks, Scheduler tasks and pings start only when pc  *)
(* is "idle", and the steps in between follow each other through pc.       *)
(***************************************************************************)
EXTENDS FiberLanes, Sequences

CONSTANTS UpdateLanes,   \* the lanes updates are made in
          MaxUpdates,    \* bound on the number of updates
          LastChild,     \* the children, and their wakeables, are 1..LastChild
          DataSets       \* what an update may need: sets of wakeables

ASSUME LanesAssumption   == UpdateLanes \subseteq Lane
ASSUME UpdatesAssumption == MaxUpdates \in Nat
ASSUME ChildrenAssumption == LastChild \in Nat
ASSUME DataAssumption == DataSets \subseteq SUBSET (1..LastChild)

VARIABLES
  \* the queue, see ClassUpdateQueue
  concurrentQueues, pending, current, workInProgress, renderLanes, phase, made, called,
  \* the root
  root,                 \* its lane fields
  queueLanes,           \* shared.lanes: the transitions that updated the queue
  cancelPendingCommit,  \* a finished tree waits to be committed
  pingCache,            \* the listeners <<wakeable, lanes>> that were attached
  callback,             \* callbackNode and callbackPriority
  \* the render in progress
  wip,
  timeSlice,            \* this part of it may yield to the host
  \* the root scheduler
  schedule,
  flushing,             \* isFlushingWork
  orphans,              \* how many tasks of a priority the root has forgotten
  task,                 \* the Scheduler task being performed
  sameNode,             \* callbackNode is the one that the task found
  \* control, and the data outside
  pc, needs, resolved

queueVars == <<concurrentQueues, pending, current, workInProgress, renderLanes,
               phase, made, called>>
dataVars  == <<needs, resolved>>
taskVars  == <<callback, orphans, task, sameNode>>

vars == <<queueVars, root, queueLanes, cancelPendingCommit, pingCache, wip, timeSlice,
          schedule, flushing, taskVars, pc, dataVars>>

Queue == INSTANCE ClassUpdateQueue

Id    == 1..MaxUpdates
Child == 1..LastChild
End   == LastChild + 1   \* past the last child

\* workInProgressRoot and what goes with it; at is the unit of work, the fiber
\* being 0.  The fields are not read once root is FALSE.
Wip == [root : BOOLEAN, lanes : SUBSET UpdateLanes, at : 0..End,
        exitStatus : {"InProgress", "SuspendedWithDelay"}, suspended : BOOLEAN,
        skipped : SUBSET UpdateLanes, interleaved : SUBSET UpdateLanes,
        pinged : SUBSET UpdateLanes]

FreshStack(lanes) ==
  [root |-> TRUE, lanes |-> lanes, at |-> 0, exitStatus |-> "InProgress",
   suspended |-> FALSE, skipped |-> {}, interleaved |-> {}, pinged |-> {}]

NoWip == [FreshStack({}) EXCEPT !.root = FALSE]

NoCallback == [node |-> "null", priority |-> NoLane]

\* The Scheduler's priorities, and which come no later than one of them.
Priority == {"UserBlocking", "Normal", "Idle"}

SchedulerPriority(lane) ==
  CASE lane <= InputContinuousLane -> "UserBlocking"
    [] lane \in DefaultLane..26     -> "Normal"
    [] OTHER                        -> "Idle"

AtLeast(priority) ==
  CASE priority = "UserBlocking" -> {"UserBlocking"}
    [] priority = "Normal"       -> {"UserBlocking", "Normal"}
    [] priority = "Idle"         -> Priority

-----------------------------------------------------------------------------
NextLanes(r) == GetNextLanes(r, wip.lanes, cancelPendingCommit)

IsSyncWork(r, lanes) == IncludesSyncLane(lanes) /\ ~IsPrerendering(r, lanes)

\* Lanes pinged or updated during the render are not suspended.
MarkSuspended(r, render, didAttemptEntireTree) ==
  MarkRootSuspended(r, (render.lanes \ render.pinged) \ render.interleaved,
                    didAttemptEntireTree)

MissingData(child) ==
  /\ child \notin resolved
  /\ \E id \in Queue!Elements(workInProgress.memoizedState) : child \in needs[id]

\* Mutant: a root in the list is taken to have its microtask.
EnsureRootIsScheduledOnce ==
  schedule' = IF schedule.inSchedule THEN schedule
              ELSE [inSchedule |-> TRUE, microtask |-> TRUE, mightHaveSyncWork |-> TRUE]

\* In the list of roots; a microtask will process the list; there might be
\* synchronous work in it.
EnsureRootIsScheduled ==
  schedule' = [inSchedule |-> TRUE, microtask |-> TRUE, mightHaveSyncWork |-> TRUE]

\* Mutant: synchronous work is left for later.
FlushLater(isSync) == flushing' = FALSE /\ pc' = "idle"

Flush(isSync) ==
  /\ flushing' = isSync
  /\ pc' = IF isSync THEN "flush" ELSE "idle"

\* Mutant: no listener is attached.
AttachNoPingListener == UNCHANGED pingCache

AttachPingListener == pingCache' = pingCache \cup {<<wip.at, wip.lanes>>}

PrepareFreshStack(lanes) ==
  /\ wip' = FreshStack(lanes)
  /\ cancelPendingCommit' = FALSE
  /\ Queue!PrepareFreshStack(GetEntangledLanes(root, lanes))

\* Where performWorkOnRoot returns to.
Caller == IF flushing THEN "flush" ELSE "taskEnd"

Init ==
  /\ Queue!Init
  /\ root = IdleRoot(UpdateLanes) /\ queueLanes = {}
  /\ cancelPendingCommit = FALSE /\ pingCache = {} /\ callback = NoCallback
  /\ wip = NoWip /\ timeSlice = FALSE
  /\ schedule = [inSchedule |-> FALSE, microtask |-> FALSE, mightHaveSyncWork |-> FALSE]
  /\ flushing = FALSE /\ orphans = [p \in Priority |-> 0] /\ task = "none" /\ sameNode = FALSE
  /\ pc = "idle" /\ needs = [id \in Id |-> {}] /\ resolved = {}

-----------------------------------------------------------------------------
(* Events *)

\* enqueueSetState puts the update in the queue, then schedules it.
EnqueueSetState(lane, data) ==
  /\ pc = "idle"
  /\ Queue!EnqueueUpdate(lane)
  /\ needs' = [needs EXCEPT ![made + 1] = data]
  /\ pc' = "schedule"
  /\ UNCHANGED <<root, queueLanes, cancelPendingCommit, pingCache, wip, timeSlice,
                 schedule, flushing, taskVars, resolved>>

\* Mutant: a transition is entangled with no other.
EntangleTransitionsAlone(r, lane) ==
  LET newQueueLanes == (queueLanes \cap r.pendingLanes) \cup {lane}
  IN IF lane \in TransitionLanes
     THEN /\ queueLanes' = newQueueLanes
          /\ root' = MarkRootEntangled(r, {lane})
     ELSE /\ queueLanes' = queueLanes
          /\ root' = r

EntangleTransitions(r, lane) ==
  LET newQueueLanes == (queueLanes \cap r.pendingLanes) \cup {lane}
  IN IF lane \in TransitionLanes
     THEN /\ queueLanes' = newQueueLanes
          /\ root' = MarkRootEntangled(r, newQueueLanes)
     ELSE /\ queueLanes' = queueLanes
          /\ root' = r

\* An update cancels a pending commit.  If the render has already suspended, it
\* gives way to the update.
ScheduleUpdateOnFiber ==
  /\ pc = "schedule"
  /\ LET lane    == concurrentQueues[Len(concurrentQueues)].lane
         before  == IF cancelPendingCommit THEN FreshStack({}) ELSE wip
         render  == IF before.root THEN [before EXCEPT !.interleaved = @ \cup {lane}]
                    ELSE before
         updated == MarkRootUpdated(root, lane)
     IN /\ wip' = render
        /\ EntangleTransitions(IF render.exitStatus = "SuspendedWithDelay"
                               THEN MarkSuspended(updated, render, FALSE) ELSE updated, lane)
  /\ cancelPendingCommit' = FALSE
  /\ IF cancelPendingCommit THEN Queue!PrepareFreshStack({}) ELSE UNCHANGED queueVars
  /\ EnsureRootIsScheduled
  /\ pc' = "idle"
  /\ UNCHANGED <<pingCache, timeSlice, flushing, taskVars, dataVars>>

Resolve(child) ==
  /\ pc = "idle"
  /\ child \notin resolved
  /\ resolved' = resolved \cup {child}
  /\ UNCHANGED <<queueVars, root, queueLanes, cancelPendingCommit, pingCache, wip,
                 timeSlice, schedule, flushing, taskVars, pc, needs>>

\* A listener of a resolved wakeable is called.  A render of its lanes that has
\* suspended starts over; one that has not remembers the ping.
PingSuspendedRoot(child, lanes) ==
  /\ pc = "idle"
  /\ child \in resolved
  /\ <<child, lanes>> \in pingCache
  /\ pingCache' = pingCache \ {<<child, lanes>>}
  /\ root' = MarkRootPinged(root, lanes)
  /\ IF wip.root /\ lanes \subseteq wip.lanes /\ wip.exitStatus = "SuspendedWithDelay"
     THEN PrepareFreshStack({})
     ELSE /\ wip' = IF wip.root /\ lanes \subseteq wip.lanes
                    THEN [wip EXCEPT !.pinged = @ \cup lanes] ELSE wip
          /\ UNCHANGED <<queueVars, cancelPendingCommit>>
  /\ EnsureRootIsScheduled
  /\ UNCHANGED <<queueLanes, timeSlice, flushing, taskVars, pc, dataVars>>

-----------------------------------------------------------------------------
(* Scheduling *)

\* Mutant: the task of a root that is suspended is not cancelled.
CallbackForUncancelled(r) ==
  LET next == NextLanes(r)
  IN IF next = {} \/ cancelPendingCommit THEN callback
     ELSE IF IsSyncWork(r, next) THEN [node |-> "null", priority |-> SyncLane]
     ELSE IF HighestPriorityLane(next) = callback.priority THEN callback
     ELSE [node |-> "queued", priority |-> HighestPriorityLane(next)]

\* scheduleTaskForRootDuringMicrotask: the callback that the root should have.
CallbackFor(r) ==
  LET next == NextLanes(r)
  IN IF next = {} \/ cancelPendingCommit THEN NoCallback
     ELSE IF IsSyncWork(r, next) THEN [node |-> "null", priority |-> SyncLane]
     ELSE IF HighestPriorityLane(next) = callback.priority THEN callback
     ELSE [node |-> "queued", priority |-> HighestPriorityLane(next)]

\* late: the lanes whose expiration time has passed.
ProcessRootScheduleInMicrotask(late) ==
  /\ pc = "idle"
  /\ schedule.microtask
  /\ LET marked == MarkStarvedLanesAsExpired(root, late)
         new    == CallbackFor(marked)
         isSync == IncludesSyncLane({new.priority})
     IN /\ root' = marked
        /\ callback' = new
        /\ schedule' = [inSchedule |-> new.priority # NoLane, microtask |-> FALSE,
                        mightHaveSyncWork |-> isSync]
        /\ Flush(isSync)
  /\ UNCHANGED <<queueVars, queueLanes, cancelPendingCommit, pingCache, wip, timeSlice,
                 orphans, task, sameNode, dataVars>>

\* flushSync, called from an event.
FlushSyncWork ==
  /\ pc = "idle"
  /\ schedule.mightHaveSyncWork
  /\ Flush(TRUE)
  /\ UNCHANGED <<queueVars, root, queueLanes, cancelPendingCommit, pingCache, wip,
                 timeSlice, schedule, taskVars, dataVars>>

\* performWorkOnRoot up to the work loop: a render of other lanes starts over.
PerformWorkOnRoot(lanes, forceSync) ==
  /\ timeSlice' = \/ /\ ~forceSync
                     /\ lanes \cap BlockingLanes = {}
                     /\ lanes \cap root.expiredLanes = {}
                  \/ IsPrerendering(root, lanes)
  /\ pc' = "render"
  /\ IF wip.root /\ wip.lanes = lanes
     THEN UNCHANGED <<wip, cancelPendingCommit, queueVars>>
     ELSE PrepareFreshStack(lanes)

\* One turn of the loop of flushSyncWorkAcrossRoots_impl.
FlushSyncWorkAcrossRoots ==
  /\ pc = "flush"
  /\ IF schedule.inSchedule /\ IsSyncWork(root, NextLanes(root))
     THEN /\ PerformWorkOnRoot(NextLanes(root), TRUE)
          /\ UNCHANGED flushing
     ELSE /\ flushing' = FALSE
          /\ pc' = IF task = "none" THEN "idle" ELSE "taskEnd"
          /\ UNCHANGED <<wip, cancelPendingCommit, queueVars, timeSlice>>
  /\ UNCHANGED <<root, queueLanes, pingCache, schedule, taskVars, dataVars>>

\* The Scheduler takes the root's task, or one that the root has forgotten.  Those
\* are older, and precede the root's task unless it is more urgent.
TakeOwnTask ==
  /\ callback.node = "queued"
  /\ \A p \in AtLeast(SchedulerPriority(callback.priority)) : orphans[p] = 0
  /\ callback' = [callback EXCEPT !.node = "running"]
  /\ UNCHANGED orphans

TakeOrphan(p) ==
  /\ orphans[p] > 0
  /\ orphans' = [orphans EXCEPT ![p] = @ - 1]
  /\ UNCHANGED callback

PerformWorkOnRootViaSchedulerTask(forceSync) ==
  /\ pc = "idle"
  /\ NextLanes(root) # {}
  /\ \/ TakeOwnTask /\ task' = "own"
     \/ \E p \in Priority : TakeOrphan(p) /\ task' = p
  /\ sameNode' = (callback.node # "null")
  /\ PerformWorkOnRoot(NextLanes(root), forceSync)
  /\ UNCHANGED <<root, queueLanes, pingCache, schedule, flushing, dataVars>>

\* There is nothing to do; a task that the root refers to never comes here, because the
\* microtask cancels it first (ScheduledTaskHasWork).
TaskWithoutWork ==
  /\ pc = "idle"
  /\ NextLanes(root) = {}
  /\ \E p \in Priority : TakeOrphan(p)
  /\ UNCHANGED <<queueVars, root, queueLanes, cancelPendingCommit, pingCache, wip,
                 timeSlice, schedule, flushing, task, sameNode, pc, dataVars>>

\* The task ends like a microtask, and continues if the root's callback is the
\* same as when it began.
TaskEnd(late) ==
  /\ pc = "taskEnd"
  /\ LET marked    == MarkStarvedLanesAsExpired(root, late)
         new       == CallbackFor(marked)
         continues == sameNode /\ new = callback /\ new.node # "null"
     IN /\ root' = marked
        /\ callback' = IF continues /\ task = "own" THEN [new EXCEPT !.node = "queued"]
                       ELSE new
        /\ orphans' = IF continues /\ task # "own" THEN [orphans EXCEPT ![task] = @ + 1]
                      ELSE orphans
  /\ task' = "none" /\ sameNode' = FALSE
  /\ pc' = "idle"
  /\ UNCHANGED <<queueVars, queueLanes, cancelPendingCommit, pingCache, wip, timeSlice,
                 schedule, flushing, dataVars>>

-----------------------------------------------------------------------------
(* Rendering *)

\* The fiber has an update in every pending lane of the root (PendingLanesAreExact),
\* so that it never bails out.
BeginWork ==
  /\ pc = "render" /\ wip.at = 0
  /\ Queue!BeginWork
  /\ wip' = [wip EXCEPT !.at = 1, !.skipped = @ \cup workInProgress'.lanes]
  /\ UNCHANGED <<root, queueLanes, cancelPendingCommit, pingCache, timeSlice, schedule,
                 flushing, taskVars, pc, dataVars>>

\* A child renders, or is replayed now that its data has arrived.
RenderChild ==
  /\ pc = "render" /\ wip.at \in Child
  /\ IF wip.suspended THEN timeSlice /\ wip.at \in resolved ELSE ~MissingData(wip.at)
  /\ wip' = [wip EXCEPT !.at = @ + 1, !.suspended = FALSE]
  /\ UNCHANGED <<queueVars, root, queueLanes, cancelPendingCommit, pingCache, timeSlice,
                 schedule, flushing, taskVars, pc, dataVars>>

\* The work loop gives way to the host.
YieldToHost ==
  /\ pc = "render" /\ timeSlice /\ wip.at \in 0..LastChild /\ ~wip.suspended
  /\ EnsureRootIsScheduled
  /\ pc' = Caller
  /\ UNCHANGED <<queueVars, root, queueLanes, cancelPendingCommit, pingCache, wip,
                 timeSlice, flushing, taskVars, dataVars>>

\* A child throws its wakeable: a concurrent render first gives it the time of a
\* microtask to resolve.
SuspendOnImmediate ==
  /\ pc = "render" /\ timeSlice /\ wip.at \in Child
  /\ ~wip.suspended /\ MissingData(wip.at)
  /\ wip' = [wip EXCEPT !.suspended = TRUE]
  /\ EnsureRootIsScheduled
  /\ pc' = Caller
  /\ UNCHANGED <<queueVars, root, queueLanes, cancelPendingCommit, pingCache,
                 timeSlice, flushing, taskVars, dataVars>>

\* Mutant: the render does not know that it suspended.
SuspendedSilently == [wip EXCEPT !.suspended = FALSE, !.at = @ + 1]

\* throwException and renderDidSuspendDelayIfPossible.  Without a boundary the
\* siblings are not skipped.
Suspended == [wip EXCEPT !.suspended = FALSE, !.exitStatus = "SuspendedWithDelay",
                         !.at = @ + 1]

\* The wakeable of a resumed child has not resolved in time (a synchronous render
\* does not look).
UnwindSuspended ==
  /\ pc = "render" /\ wip.at \in Child
  /\ wip.suspended /\ (timeSlice => wip.at \notin resolved)
  /\ AttachPingListener
  /\ wip' = Suspended
  /\ root' = IF (wip.skipped \cup wip.interleaved) \cap NonIdleLanes # {}
             THEN MarkSuspended(root, wip, FALSE) ELSE root
  /\ UNCHANGED <<queueVars, queueLanes, cancelPendingCommit, timeSlice, schedule,
                 flushing, taskVars, pc, dataVars>>

\* A child throws in a synchronous render, which ends at once: the lanes are
\* suspended, to be prerendered concurrently.
SuspendSyncRender ==
  /\ pc = "render" /\ ~timeSlice /\ wip.at \in Child
  /\ ~wip.suspended /\ MissingData(wip.at)
  /\ AttachPingListener
  /\ root' = MarkSuspended(root, wip, FALSE)
  /\ IF wip.at = LastChild
     THEN wip' = NoWip /\ Queue!AbandonRender
     ELSE wip' = Suspended /\ UNCHANGED queueVars
  /\ EnsureRootIsScheduled
  /\ pc' = Caller
  /\ UNCHANGED <<queueLanes, cancelPendingCommit, timeSlice, flushing, taskVars, dataVars>>

\* Every sibling was attempted and one suspended: the tree unwinds to the root.
SuspendAtTheShell ==
  /\ pc = "render" /\ wip.at = End
  /\ wip.exitStatus = "SuspendedWithDelay"
  /\ root' = MarkSuspended(root, wip, TRUE)
  /\ wip' = NoWip
  /\ Queue!AbandonRender
  /\ EnsureRootIsScheduled
  /\ pc' = Caller
  /\ UNCHANGED <<queueLanes, cancelPendingCommit, pingCache, timeSlice, flushing,
                 taskVars, dataVars>>

\* The tree is complete.  The commit of a transition may wait for the host, and
\* its lanes are suspended meanwhile.
CompleteRender ==
  /\ pc = "render" /\ wip.at = End
  /\ wip.exitStatus = "InProgress"
  /\ Queue!CompleteRender
  /\ wip' = NoWip
  /\ \/ pc' = "commit" /\ UNCHANGED <<root, cancelPendingCommit, schedule>>
     \/ /\ wip.lanes \subseteq TransitionLanes \cup RetryLanes
        /\ cancelPendingCommit' = TRUE
        /\ root' = MarkSuspended(root, wip, TRUE)
        /\ EnsureRootIsScheduled
        /\ pc' = Caller
  /\ UNCHANGED <<queueLanes, pingCache, timeSlice, flushing, taskVars, dataVars>>

\* The host is ready for the commit that waits.
CommitIsReady ==
  /\ pc = "idle" /\ cancelPendingCommit
  /\ cancelPendingCommit' = FALSE
  /\ pc' = "commit"
  /\ UNCHANGED <<queueVars, root, queueLanes, pingCache, wip, timeSlice, schedule,
                 flushing, taskVars, dataVars>>

\* The root forgets its callback without cancelling it, and synchronous work is
\* flushed before the commit returns.
CommitRoot ==
  /\ pc = "commit"
  /\ root' = MarkRootFinished(root, Queue!RemainingLanes)
  /\ Queue!Commit
  /\ callback' = NoCallback
  /\ orphans' = IF callback.node = "queued"
                THEN [orphans EXCEPT ![SchedulerPriority(callback.priority)] = @ + 1]
                ELSE orphans
  /\ sameNode' = FALSE
  /\ EnsureRootIsScheduled
  /\ Flush(TRUE)
  /\ UNCHANGED <<queueLanes, cancelPendingCommit, pingCache, wip, timeSlice, task, dataVars>>

-----------------------------------------------------------------------------
Event == \/ \E lane \in UpdateLanes, data \in DataSets : EnqueueSetState(lane, data)
         \/ \E child \in Child : Resolve(child)
         \/ FlushSyncWork

Work == \/ ScheduleUpdateOnFiber
        \/ \E listener \in pingCache : PingSuspendedRoot(listener[1], listener[2])
        \/ \E late \in SUBSET root.timedLanes :
             ProcessRootScheduleInMicrotask(late) \/ TaskEnd(late)
        \/ FlushSyncWorkAcrossRoots
        \/ \E forceSync \in BOOLEAN : PerformWorkOnRootViaSchedulerTask(forceSync)
        \/ TaskWithoutWork
        \/ BeginWork \/ RenderChild \/ YieldToHost \/ SuspendOnImmediate
        \/ UnwindSuspended \/ SuspendSyncRender \/ SuspendAtTheShell
        \/ CompleteRender \/ CommitIsReady \/ CommitRoot

Next == Event \/ Work

Spec == Init /\ [][Next]_vars

\* The host gets round to its microtasks, its tasks and its listeners, whatever the
\* events in between; data arrives; and a render that yields is not always stopped
\* before its next unit of work.  Events need not happen.
FairSpec ==
  /\ Spec
  /\ WF_vars(Work /\ ~YieldToHost)
  /\ SF_vars(BeginWork \/ RenderChild \/ SuspendOnImmediate)
  /\ SF_vars(\E late \in SUBSET root.timedLanes : ProcessRootScheduleInMicrotask(late))
  /\ SF_vars(\E forceSync \in BOOLEAN : PerformWorkOnRootViaSchedulerTask(forceSync))
  /\ SF_vars(CommitIsReady)
  /\ \A child \in Child :
       /\ SF_vars(Resolve(child))
       /\ SF_vars(\E lanes \in SUBSET UpdateLanes : PingSuspendedRoot(child, lanes))

-----------------------------------------------------------------------------
TypeOK ==
  /\ Queue!TypeOK
  /\ root \in Root(UpdateLanes) /\ queueLanes \subseteq UpdateLanes
  /\ cancelPendingCommit \in BOOLEAN
  /\ pingCache \subseteq Child \X SUBSET UpdateLanes
  /\ callback \in [node : {"null", "queued", "running"},
                   priority : UpdateLanes \cup {SyncLane, NoLane}]
  /\ wip \in Wip /\ timeSlice \in BOOLEAN
  /\ schedule \in [inSchedule : BOOLEAN, microtask : BOOLEAN, mightHaveSyncWork : BOOLEAN]
  /\ flushing \in BOOLEAN /\ orphans \in [Priority -> Nat]
  /\ task \in {"none", "own"} \cup Priority /\ sameNode \in BOOLEAN
  /\ pc \in {"idle", "schedule", "flush", "render", "commit", "taskEnd"}
  /\ needs \in [Id -> SUBSET Child] /\ resolved \subseteq Child

-----------------------------------------------------------------------------
(* Properties *)

Waiting == current.baseQueue \o pending \o concurrentQueues
WaitsIn(id, lanes) == \E u \in Queue!Elements(Waiting) : u.id = id /\ u.lane \in lanes
OnScreen(id) == id \in Queue!Elements(current.memoizedState)

\* Nothing holds up the root: no render or commit is waiting for the host.
MayRender == pc = "idle" /\ ~cancelPendingCommit /\ NextLanes(root) # {}

\* The root has a pending lane exactly when an update in that lane waits: a commit
\* that computes remainingLanes forgets no update, not even one made while it was
\* being rendered, and keeps no lane for which there is nothing to do.
PendingLanesAreExact ==
  pc # "schedule" => root.pendingLanes = Queue!LanesOf(Waiting) \ {NoLane}

\* A tree in which a child suspended is not committed: all the data that the state
\* on the screen needs has arrived, whatever was retried, prerendered or pinged.
ScreenHasItsData ==
  \A id \in Id : OnScreen(id) => needs[id] \subseteq resolved

\* When pending work is left alone because all of it is suspended, a listener is
\* still to be called for one of its lanes: the last ping is never lost.
PingIsPending ==
  /\ pc = "idle" /\ ~cancelPendingCommit
  /\ root.pendingLanes # {} /\ NextLanes(root) = {}
  => \E listener \in pingCache : listener[2] \cap root.pendingLanes # {}

\* A root that has work other than a prerender has a microtask or a task to come,
\* although callbackNode is forgotten by commits, reused for work of the same
\* priority and cancelled for work of another.
RootIsScheduled ==
  MayRender /\ ~IsPrerendering(root, NextLanes(root))
    => schedule.microtask \/ callback.node = "queued"

\* The task that the root refers to finds work whenever it is performed, which is after
\* the microtask.  If it found none it would return null, the root would go on referring
\* to it, and later work of the same priority would reuse it and never be done.
ScheduledTaskHasWork ==
  pc = "idle" /\ ~schedule.microtask /\ callback.node = "queued" => NextLanes(root) # {}

\* Synchronous work does not outlive the microtask: between two tasks there is
\* none, unless the microtask is still to come.
SyncWorkIsFlushed ==
  MayRender /\ ~schedule.microtask => ~IsSyncWork(root, NextLanes(root))

\* Transitions of one queue are entangled: a later one is not shown before an
\* earlier one, whichever of them suspends, is pinged or interrupts the other.
TransitionsInOrder ==
  [][\A i, j \in Id :
       i < j /\ WaitsIn(i, TransitionLanes) /\ WaitsIn(j, TransitionLanes) /\ OnScreen(j)'
         => OnScreen(i)']_vars

\* What is known of the render in progress wherever it yields, suspends or completes: the
\* queue is processed when the fiber was visited, and what is complete is not rendered.
RenderFollowsQueue ==
  /\ wip.root => phase = IF wip.at = 0 THEN "prepared" ELSE "begun"
  /\ pc = "render" => wip.root
  /\ pc = "commit" \/ cancelPendingCommit => phase = "completed" /\ ~wip.root
  /\ pc = "commit" => ~cancelPendingCommit

\* The root learns of an update after the fiber.
RootKnowsLanes ==
  IF pc = "schedule"
  THEN /\ concurrentQueues # <<>>
       /\ current.lanes
            = root.pendingLanes \cup {concurrentQueues[Len(concurrentQueues)].lane}
  ELSE current.lanes = root.pendingLanes

\* A render that has not suspended has the data of the children that it went past.
RenderHasItsData ==
  /\ wip.root /\ wip.exitStatus = "InProgress" =>
       \A child \in 1..wip.at - 1 : ~MissingData(child)
  /\ phase = "completed" => \A child \in Child : ~MissingData(child)

\* A task runs to its end without being interrupted, and finds its own callbackNode there
\* unless it committed.  Only synchronous work has no task; a slice that ends has asked for
\* a microtask.
TasksAreKnown ==
  /\ task # "none" => pc \in {"render", "commit", "flush", "taskEnd"}
  /\ callback.node = "running" => task = "own" /\ sameNode
  /\ callback.node = "null" => callback.priority \in {SyncLane, NoLane}
  /\ pc = "taskEnd" \/ (pc = "flush" /\ task # "none") => schedule.microtask

\* When no microtask is to come, the last one has found out what there is to do.
WorkIsScheduled ==
  ~schedule.microtask /\ pc \in {"idle", "schedule", "flush"} =>
    /\ callback.node = "queued" => NextLanes(root) # {}
    /\ ~cancelPendingCommit /\ NextLanes(root) # {} =>
         /\ schedule.inSchedule
         /\ IsSyncWork(root, NextLanes(root)) => pc = "flush"
         /\ \/ IsPrerendering(root, NextLanes(root))
            \/ IsSyncWork(root, NextLanes(root))
            \/ callback.node = "queued"

\* The transitions that are pending are those that the root has entangled, each with each
\* other, and the queue knows them.
TransitionsAreEntangled ==
  /\ root.entangledLanes = root.pendingLanes \cap TransitionLanes
  /\ \A lane \in root.entangledLanes : root.entangledLanes \subseteq root.entanglements[lane]
  /\ root.entangledLanes \subseteq queueLanes /\ queueLanes \subseteq TransitionLanes

\* A render starts with all the transitions that wait in the queue or with none of them.
RenderTakesAllTransitions ==
  phase = "prepared" =>
    LET lanes == Queue!LanesOf(current.baseQueue \o pending) \cap TransitionLanes
    IN  lanes \subseteq renderLanes \/ lanes \cap renderLanes = {}

\* Of the transitions that wait on the screen the render applies none without the earlier ones.
AppliesInOrder ==
  \A i, j \in Id :
    /\ i < j /\ WaitsIn(i, TransitionLanes) /\ WaitsIn(j, TransitionLanes)
    /\ j \in Queue!Elements(workInProgress.memoizedState)
    => i \in Queue!Elements(workInProgress.memoizedState)

\* What a render leaves waiting waited before, and it keeps transitions in order.
RenderKeepsOrder ==
  /\ phase # "none" =>
       Queue!Unapplied(Queue!WaitingFor(workInProgress)) \subseteq Queue!Unapplied(Waiting)
  /\ phase \in {"begun", "completed"} => AppliesInOrder

\* The inductive invariant.
IndInv ==
  /\ TypeOK
  /\ Queue!IndInv
  /\ RenderFollowsQueue
  /\ RootKnowsLanes
  /\ RenderHasItsData
  /\ ScreenHasItsData
  /\ TasksAreKnown
  /\ WorkIsScheduled
  /\ TransitionsAreEntangled
  /\ RenderTakesAllTransitions
  /\ RenderKeepsOrder

\* The render in progress is of lanes that are pending.
RenderIsPending ==
  wip.lanes \subseteq root.pendingLanes /\ (~wip.root => wip.lanes = {})

\* A render that suspended has a listener for its lanes.
SuspendedRenderHasListener ==
  wip.root /\ wip.exitStatus = "SuspendedWithDelay" =>
    \E child \in Child : <<child, wip.lanes>> \in pingCache

\* Lanes are warm when a render of them tried the whole tree and suspended, and they were
\* neither pinged nor unblocked since.  A commit that waits for the host has warm lanes too,
\* but those are done again, or no longer all there is to do, if it is cancelled.
WarmLanesAreSuspended == root.warmLanes \subseteq root.suspendedLanes \ root.pingedLanes

WarmRootHasListener ==
  /\ pc # "commit" /\ ~cancelPendingCommit
  /\ root.pendingLanes # {} /\ root.pendingLanes \subseteq root.warmLanes
  => \E listener \in pingCache : listener[2] \cap root.pendingLanes # {}

\* Why the last ping is not lost.
SuspensionsHaveListeners ==
  /\ RenderIsPending
  /\ SuspendedRenderHasListener
  /\ WarmLanesAreSuspended
  /\ WarmRootHasListener

\* Every update is shown in the end: no order of events, yields, suspensions, pings
\* and commits leaves the root asleep with an update to show.
EveryUpdateIsShown == \A id \in Id : made >= id ~> OnScreen(id)
=============================================================================

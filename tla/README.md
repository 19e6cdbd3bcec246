# Dev.js: a TLA+ development

Dev.js is a user-interface runtime: components are functions of state, a
*reconciler* renders them to a tree of fibers in interruptible slices, and a
*scheduler* decides when those slices run. This directory models the part of
it that decides **what is done when**: the Scheduler package, the lanes, the
update queues and the work loop of a concurrent root, external stores, async
actions, the client of a Flight stream and the streaming server renderer. TLC
checks the models on small instances; TLAPS proves the theorems listed below for
all of them.

Every definition is translated from `src/`; `PROJECT.json` ("map") names the
lines. The modules can be read in the order of the table in section 3.

Contents: 1 the system, 2 hazards, 3 the modules, 4 the models and the code,
5 the runs, 6 fairness, 7 what is proved, 8 where the code and its comments
disagree, 9 what is not modelled, 10 the plan.

## 1. The system

### 1.1 Components

| component | state | operations | interacts with |
|---|---|---|---|
| Scheduler (`packages/scheduler/src/forks/Scheduler.js`) | `taskQueue`, `timerQueue` (heaps), `currentTask`, the flags `isPerformingWork`, `isHostCallbackScheduled`, `isHostTimeoutScheduled`, `isMessageLoopRunning`, `needsPaint`, `frameInterval` | schedule, cancel, `flushWork`/`workLoop`, `handleTimeout`, `shouldYieldToHost`, `requestPaint`, `forceFrameRate` | the host's message channel and `setTimeout`; calls its clients' callbacks, which call it back |
| Task heap (`SchedulerMinHeap.js`) | an array | `push`, `pop`, `peek` | the Scheduler |
| Lanes (`devjs-reconciler/src/DevjsFiberLane.js`) | bit sets in each root: pending, suspended, pinged, warm, expired, entangled, `entanglements`, `expirationTimes` | `getNextLanes`, `getEntangledLanes`, `markRoot*` | every part of the reconciler |
| Class update queue (`DevjsFiberClassUpdateQueue.js`) | per fiber a base state and base queue, shared `pending` and `lanes` | `enqueueUpdate`, `processUpdateQueue`, `entangleTransitions`, `commitCallbacks` | concurrent updates, begin work, commit |
| Concurrent updates (`DevjsFiberConcurrentUpdates.js`) | `concurrentQueues`, `concurrentlyUpdatedLanes` | enqueue, `finishQueueingConcurrentUpdates` | all queues, the commit |
| Root scheduler (`DevjsFiberRootScheduler.js`) | list of roots, `didScheduleMicrotask`, `mightHavePendingSyncWork`, `isFlushingWork`; per root `callbackNode`, `callbackPriority` | `ensureRootIsScheduled`, the microtask, the flush of synchronous work, the Scheduler task | Scheduler, lanes, work loop |
| Work loop (`DevjsFiberWorkLoop.js`) | `workInProgressRoot`, its lanes, exit status, suspended reason, skipped, pinged and interleaved lanes; per root `cancelPendingCommit`, `pingCache` | `scheduleUpdateOnFiber`, `performWorkOnRoot`, the two work loops, `prepareFreshStack`, `commitRoot`, `pingSuspendedRoot` | all of the above, components, host |
| Hooks, effects, contexts, child reconciliation, begin/complete/commit of each fiber type | the fiber tree | one case per fiber type | the work loop |
| Async actions (`DevjsFiberAsyncAction.js`, `DevjsFiberTransition.js`, `useTransition` and `useOptimistic` in `DevjsFiberHooks.js`) | `currentEntangledListeners`, its count, lane and thenable; the queues of the hooks | `startTransition`, `entangleAsyncAction`, `pingEngtangledActionScope`, dispatch, rebase | root scheduler, lanes, work loop |
| External stores (`useSyncExternalStore` in `DevjsFiberHooks.js`) | per component the value shown, the store instance, the subscription | render, check on commit, subscribe, force a render | work loop, passive effects, the store |
| Suspense, errors, `use`, hydration, gestures | boundaries, thenables | throw, capture, retry | the work loop, lanes |
| Host renderers (`devjs-dom-bindings`, native, art, test, noop) | the host tree | host configuration, events | the work loop calls them; events call the reconciler |
| Fizz server (`devjs-server/src/DevjsFizzServer.js`) | per request: tasks, segments, boundaries, counters of pending tasks, four queues of what is to be written, status | render, suspend, ping, finish, fail, flush, `startFlowing`, `abort` | components, application callbacks, the destination stream |
| Flight client (`devjs-client/src/DevjsFlightClient.js`) | chunks with status and listeners, handlers that count missing references | resolve a row, initialize, wake, reject, report a global error | the stream, the application that reads |
| Flight server (`DevjsFlightServer.js`), bundler bindings (`devjs-server-dom-*`) | requests, tasks, rows | render, ping, flush, abort | streams |
| Shims and caches (`use-sync-external-store`, `use-subscription`, `devjs-cache`) | a memoised selector, an LRU list | subscribe, evict | hooks, Scheduler |
| Tools (`devjs-refresh`, `devjs-devtools-*`, `devjs-debug-tools`, `eslint-plugin-devjs-hooks`, `compiler`, `scripts`, `fixtures`) | their own | | development only |

### 1.2 How an update travels

1. An event calls `setState`. The update is put in `concurrentQueues`, its lane
   is added to both alternates of the fiber, and `scheduleUpdateOnFiber` adds it
   to the root's pending lanes and makes sure a microtask is coming.
2. The microtask computes the next lanes of the root. Synchronous work is
   rendered at once; for other work a Scheduler task is created, kept or
   cancelled.
3. The task renders. It moves the queued updates to their queues, processes the
   queue of each fiber for the render lanes, and gives way to the host between
   units of work.
4. A component may lack its data. It throws a thenable, a listener is attached,
   and when the tree has been tried the lanes are suspended. A ping makes them
   eligible again.
5. A complete tree is committed, at once or when the host is ready. Lanes
   without work are finished, and what the commit leaves is scheduled.

Between any two of these steps other events, pings, tasks and microtasks run.

### 1.3 What is hard, and what makes each component correct

* **Scheduler.** A callback re-enters the Scheduler: it schedules, cancels
  (itself too), throws or asks to continue. Three flags keep one message
  outstanding; timeouts are replaced, left over or fire early.
  *Correct:* no task is lost or run twice, the loop is posted exactly when there
  is work, a timer is always covered by a timeout, the most urgent task starts
  first, an expired one is not deferred, every task runs.
* **Heap.** In-place sifting. *Correct:* the head is the least node.
* **Lanes and entanglement.** Sets that many functions add to and remove from.
  *Correct:* updates of one queue made in transitions are rendered together.
* **Update queues.** Updates are made while a render is in progress, renders are
  thrown away after they have taken updates, and updates of low priority are
  skipped and rebased. *Correct:* none lost, none applied twice, always in the
  order in which they were made, each callback called once.
* **Root scheduler.** `callbackNode` and `callbackPriority` are a cache of what
  the Scheduler holds, and go stale. *Correct:* a root with work has a microtask
  or task to come; a task finds work; synchronous work does not wait.
* **Work loop.** Pings, updates and commits that arrive in mid-render.
  *Correct:* pending lanes are exactly the updates that wait, an incomplete tree
  is not shown, no ping is lost, every update is shown in the end.
* **External stores.** User code changes a store between two slices of a render,
  between render and commit, and between commit and subscription. *Correct:* no
  change is missed, a commit of a render that yielded does not tear, subscriptions
  follow the screen, which catches up.
* **Async actions.** Actions that overlap share one scope, and optimistic updates
  are rebased in every render until it closes. *Correct:* what the actions did is
  shown at once when the last has settled; an optimistic value lasts until then.
* **Flight client.** Rows in any order, cycles, failures in the middle of a stream.
  *Correct:* nobody reads a hole, no listener is dropped or called twice, nobody
  waits when the stream has ended, what was read stays.
* **Fizz server.** Tasks spawn, finish, fail, are pinged and aborted while others
  are worked on; callbacks of the application start a flush from the depth of
  `finishedTask`; a full destination stops a flush between two writes. *Correct:*
  the counters are exact, every instruction finds what it refers to, the page is
  whole when the stream ends, and it ends.

## 2. Hazards

`PROJECT.json` ("hazards") lists them at their lines, with the properties that
would fail. Two have no property. A task that is cancelled while it runs and then
returns a continuation is called again, and nothing says whether it should be. And
a continuous update is not entangled with a default one, as section 8 tells. Of
the parts that are not modelled the hazards are named in section 9.

## 3. The modules

| module | what it is | extends / instantiates |
|---|---|---|
| `TaskPriorityQueue` | abstract priority queue of tasks: insert, remove the least | |
| `SchedulerMinHeap` | the array and the sift loops, one action per iteration | implements `TaskPriorityQueue` |
| `SchedulerMinHeap_proofs` | proofs about it | |
| `TaskExecution` | what the Scheduler promises its clients: when a task may start, that tasks run one at a time, what cancelling and continuing mean | |
| `Scheduler` | the Scheduler, its host and its re-entrant clients | implements `TaskExecution` |
| `Scheduler_proofs` | proofs about it | |
| `FiberLanes` | lanes as sets, the lane fields of a root as a record, one operator per function of `DevjsFiberLane.js` | |
| `TransitionEntanglement` | several queues share the lanes of a root | extends `FiberLanes` |
| `TransitionEntanglement_proofs` | proofs about it | |
| `Subsequences` | what a filter keeps of a sequence, as a recursive function | |
| `SequenceLemmas` | induction on the prefixes of a sequence, and what filters and concatenations keep | extends `Subsequences` |
| `UpdateHistory` | what an update queue promises | extends `Subsequences` |
| `ClassUpdateQueue` | the queues of one fiber and its alternate | extends `FiberLanes` and `Subsequences`, implements `UpdateHistory` |
| `ClassUpdateQueue_proofs` | proofs about it | extends `SequenceLemmas` |
| `ConcurrentRoot` | a root: scheduling, rendering, suspension, pings, commits | extends `FiberLanes`, composes `ClassUpdateQueue` |
| `ConcurrentRoot_proofs` | proofs about it | instantiates `ClassUpdateQueue_proofs` |
| `ExternalStore` | components that read external stores: sliced and synchronous renders, effects, user code that changes stores | |
| `ExternalStore_proofs` | proofs about it | |
| `AsyncAction` | overlapping async actions, `useState`, `useOptimistic` and `useTransition` of one component | extends `FiberLanes` and `Subsequences` |
| `AsyncAction_proofs` | proofs about it | extends `SequenceLemmas` |
| `FlightClient` | the chunks of a response and those who wait for them | |
| `FizzServer` | a request of the streaming server renderer, its destination and its application | |
| `MC*` | the constants of the runs | extend the module they check |

Definitions named *Mutant* in a comment are not part of a specification: each is
a plausible mistake in the definition that follows it, and shows that a property
notices. `IndInv`, in the modules that are proved, is the inductive invariant: the
type invariant and the conjuncts that relate the parts of the state, named and
commented one by one. The runs check it as well (that of
`TransitionEntanglement` is stated with its proof, and no run has it). `Consistency` is its counterpart
in the modules that are only model-checked.

## 4. The models and the code

### 4.1 Scheduler

The state is that of the module's variables; a heap is the set of its tasks, and
its head the task that precedes the others (`SchedulerMinHeap` shows that the
array provides this). Priorities are their timeouts. The code is sequential and
re-entrant, so control is a `pc`: while a task's callback runs, every operation
of the API is enabled, as it is from the host between messages. The host is the
set of timeouts that are set and the clock; a timeout fires once it is due, as
late as it likes; `MaxTime` bounds the clock and `MaxDrift` the time that passes
between two of the work loop's own reads of it. The early
return of `performWorkUntilDeadline` when `isMessageLoopRunning` is false cannot
be reached and is left out; `MessageLoop` says why: no message is outstanding
then.

### 4.2 Lanes

A lane is the index of its bit; a set of lanes is a set. `expirationTimes` is
abstracted to the lanes that have a time, and whether it has passed is chosen
when `markStarvedLanesAsExpired` looks. The feature flags have the values of
`packages/shared/DevjsFeatureFlags.js`.

### 4.3 ClassUpdateQueue

An update is its number, its lane and whether it has a callback; its payload
appends its number to the state, which tells apart any two orders of application.
The circular lists are sequences. The base queue of the current fiber and the
pending queue are separate, as in the code, because an interrupted render must
leave the first with what it took from the second. What happens to the alternate
after a commit is overwritten by `PrepareFreshStack` before it is read.

### 4.4 ConcurrentRoot

One root, one fiber with a queue, and below it a child per wakeable
(`1..LastChild`). An update needs some of the data; a child suspends if the state
rendered needs its data and that has not arrived. `DataSets` is what an update may need.

| code | actions |
|---|---|
| `enqueueSetState`, `scheduleUpdateOnFiber`, `entangleTransitions` | `EnqueueSetState`, `ScheduleUpdateOnFiber` |
| `processRootScheduleInMicrotask`, `scheduleTaskForRootDuringMicrotask` | `ProcessRootScheduleInMicrotask`, `CallbackFor` |
| `flushSyncWork`, `flushSyncWorkAcrossRoots_impl` | `FlushSyncWork`, `FlushSyncWorkAcrossRoots` |
| `performWorkOnRootViaSchedulerTask` | `PerformWorkOnRootViaSchedulerTask`, `TaskWithoutWork`, `TaskEnd` |
| `performWorkOnRoot`, `renderRootSync`, `renderRootConcurrent` | `PerformWorkOnRoot`, `BeginWork`, `RenderChild`, `YieldToHost`, `SuspendOnImmediate`, `UnwindSuspended`, `SuspendSyncRender`, `SuspendAtTheShell`, `CompleteRender` |
| `attachPingListener`, `pingSuspendedRoot` | `AttachPingListener`, `PingSuspendedRoot` |
| `commitRootWhenReady`, `commitRoot` | `CompleteRender`, `CommitIsReady`, `CommitRoot` |

Points where the model abstracts:

* Events, microtasks, tasks and pings start when `pc` is `"idle"`, in any order.
  The host runs microtasks before tasks; the properties hold without it, and
  `ScheduledTaskHasWork` speaks of what a task finds when it comes after them.
* `workInProgressRoot` and its companions are a record that is normalised when
  there is no work in progress, because the code does not read it then.
* A commit forgets the root's Scheduler task without cancelling it. `orphans`
  counts such tasks by priority; the Scheduler's order (proved in
  `MostUrgentFirst`) says when the root's own task may run before them.
* The bail-out of the fiber is unreachable with a single queue, and
  `ClassUpdateQueue` has it. `workInProgressRootIsPrerendering` is always true
  when it is read without a boundary.
* Without a Suspense boundary every suspension is `SuspendedWithDelay`; retries,
  fallbacks and throttling do not arise.

### 4.5 TransitionEntanglement

Entanglement matters when several queues share lanes, which one fiber cannot
show. Here there are several queues, and a batch of lanes is rendered and
committed in one step: everything between is in `ConcurrentRoot`.

### 4.6 ExternalStore

Components in tree order read one store each; an update may give a component another
store, mount or unmount it. The screen (`current`), the instance that the store's
listener compares with (`inst`) and the subscription (`listening`) are three
variables because the code writes them at different times: the first in the commit,
the others in the passive effects, which unsubscribe in one pass over the tree and
set the instance and subscribe in a second.
`pc` is the thread: an event, a synchronous render, layout effects, the two passes of
passive effects, a slice of a transition. `Mutate` is user code that changes a store; it is enabled wherever user
code runs (`RunsUserCode`), and calls the listeners at once. A render of a transition
yields between components (`YieldToHost`); whether it was time sliced when it
completed decides on the consistency check, as in `performWorkOnRoot`.

### 4.7 AsyncAction

One component with `useState`, `useOptimistic` over that state and `useTransition`,
the only way in which the scope can be reached from the screen. An action is started
with or without the hook and makes updates until it settles; updates outside of
actions come between. Queues are those of hooks (`updateReducerImpl`): skipping,
reverting and rebasing are operators named after the branch they stand for. A render
and its commit are one step, as `ConcurrentRoot` has what comes between. Transition
lanes are used again after `NumLanes`.

### 4.8 FlightClient

One row makes the client parse, fulfil, wake and reject as much as it can within a
call, so operators take and return the state of the client, and a step is a row,
a read, the loading of a module or the end of the stream. A model is its references;
its handler counts the slots that are still empty. The application calls `then` at
most `MaxListeners` times. All responses of three rows with at
most two references each are checked, in every order of arrival.

### 4.9 FizzServer

The page is a tree of leaves (components) and Suspense boundaries; content and
fallback are arrays. What rendering a leaf does is chosen at first and when data
arrives: it returns, suspends, fails, or calls `abort()`. A segment is named by what
is written to it, and a task by its segment. As in 4.8 the code is synchronous
between its awaits, so operators take and return `s`, the state of the request.

| code | definitions |
|---|---|
| `renderNode`, `renderSuspenseBoundary`, `spawnNewSuspendedRenderTask`, `retryRenderTask` | `RenderNode`, `RenderSuspenseBoundary`, `SpawnNewSuspendedTask`, `RetryRenderTask` |
| `finishedTask`, `erroredTask`, `abortTask`, `abortTaskSoft`, `queueCompletedSegment` | `FinishedTask` with `FinishedRootTask`, `FinishedContent` and `FinishedPart`, `ErroredTask`, `AbortTask`, `AbortFallback`, `QueueCompletedSegment` |
| `flushCompletedQueues` and the functions it calls | `FlushCompletedQueues`, `FlushQueues`, `Flush*`, `FlushEnd` |
| `performWork`, `pingTask`, `startFlowing`, `abort`, `fatalError` | actions `PerformWork`, `Settle`, `Pipe`, `AbortRequest`, and `FatalError` |

The destination is `room`, how many instructions it takes before it is full, chosen
for each flush; the write that finds it full is made all the same. The application
pipes in `onShellReady`, in `onAllReady` (deep in `finishedTask`) or at any other
time. What is written is a sequence of records, which the properties read as a
browser would. Sizes are three: a boundary is small, eligible for outlining, or
outlined when it is flushed.

## 5. The runs

| run | question | constants |
|---|---|---|
| `heap` | is the array a heap between operations, and a priority queue? | six nodes, three sort indices |
| `scheduler` | safety and refinement of the Scheduler, and does every task run? | two priorities, 3 tasks, one delay, two frame intervals, time to 1 |
| `update_queue` | no update lost, order kept, lanes exact, batches whole | lanes of three kinds, 4 updates |
| `entanglement` | is a batch whole for every queue? | three transition lanes, two queues |
| `root` | scheduling, lanes, flushing, suspension, pings, the order of transitions | synchronous lane and two transitions, 2 updates, 2 children; an update needs all data or none |
| `root_liveness` | is every update shown? | synchronous lane and a transition, 2 updates, 1 child |
| `external_store` | is a change missed, does a commit tear, does the screen catch up? | 3 components, two stores of two values, 3 changes, 3 updates |
| `async_action` | are actions batched, optimistic values kept, and is everything shown in the end? | two transition lanes, 3 actions, 2 updates |
| `flight_client` | holes, lost listeners, deadlock, order of failures | all responses of 3 rows, 2 callbacks |
| `fizz` | counters, instructions, whole pages, and do requests end? | 2 boundaries, 4 leaves, six pages, up to two writes at once |
| `store_tearing`, `fizz_internal` | promises of comments and messages that the code does not keep, section 8 | the smallest that show it |

Why the bounds are enough. *Six nodes* make three levels of which the last is
incomplete, so that a node has two children, one or none, and three indices make
ties. *Three tasks*: one that runs, one that overtakes it
and one that waits or is cancelled; two priorities and one delay give every order
of start, expiry and timer; one unit of time lets the urgent priority expire and
the other not. *Four updates*: one skipped, one applied after it and
rebased, one that arrives in mid-render and one more that is enqueued after the
rebase. *Two updates on the root*: one in progress or on the screen and one that
interrupts; two transitions are the fewest that can be entangled, the
synchronous lane the one that never yields. *Two children*: the first suspends
and the second is reached as its sibling; with one child `UnwindSuspended` is
always followed by the shell. An update that needs some of the data behaves like
one that needs all of it when the rest has arrived, which is one of the orders in
which data arrives. *Three components* of a store: one rendered before a
yield, one after it and one that was on the screen; three changes are one in each
of the stages in which a value is held. *Three actions*: two that overlap and one
that starts when the scope of the first has closed; with two lanes the third takes
the lane of the first again. *Three rows* make cycles of one, two and three, with
a row outside that is waited for. *The pages of `fizz`*: a boundary in a boundary
has a parent that may be written, failed or aborted before it, and two side by side
compete for the room of the destination; each has a leaf before another one in its
content, and leaves in fallbacks. Its sizes cover each decision about outlining.

Runs that do not check for deadlock belong to systems that rightly stop: when all
updates, changes or rows that the bounds allow have been made and dealt with.

Where a module is proved the bounds matter less: the safety properties of the
Scheduler, the heap, the queue, entanglement, the root, the stores and async actions
hold for all values of the constants (section 7). The runs found the wrong invariants
before anybody tried to prove them.

The feature flags have their values in the default build. `AlwaysYield`
(`enableAlwaysYieldScheduler`) is a constant of `Scheduler`, FALSE in the runs; the
theorems hold for both values.

The three lanes of `entanglement` and two queues are the fewest for which a lane is
entangled with two others through different queues. That run has no bound: its
582 states are all there are.

## 6. Fairness

Only the liveness properties assume any. Where a formula writes weak fairness out as
"the condition that enables the action is false again and again, or the action is
taken again and again", the condition is the action's own guard and the action
changes the state whenever it holds.

* `scheduler`: the host delivers messages and timeouts, its clock runs,
  and the work loop is code that keeps going (weak fairness). The work of a task is
  finite: a callback that is called over and over ends or throws in the end
  (strong fairness of `TaskCompletes \/ TaskThrows`, since the callback is left and
  entered again); it may ask to be continued as often as it likes until then.
* `root_liveness`: the host gets round to its microtasks, tasks and listeners
  although events keep coming (strong fairness, since an event may disable and
  enable them again: an update cancels a commit that was ready), and data arrives.
  `YieldToHost` is not fair, and the units of work are strongly fair: a render is
  not stopped before every unit for ever, because a slice begins with a new frame
  (`startTime` is set in `performWorkUntilDeadline`) and the loop does a unit of
  work before it looks at the clock. Events are not fair: none need happen.
* `external_store`: the event loop runs microtasks, tasks and effects (weak
  fairness of `Work`), and a slice renders a component although events come between
  slices (strong fairness of `PerformUnitOfWork`). Stores need not change.
* `async_action`: the host runs the microtask and the task, and the promise of an
  action settles: the property is about actions that end. Updates are not fair.
* `fizz`: the host runs `performWork` when it is scheduled; the application pipes
  the request, and a destination that was full drains; what a component waits for
  arrives in the end, although it may wait for several things one after another
  (strong fairness). Nobody has to abort.

## 7. What is proved

All theorems hold for every value of the constants that satisfies the assumptions
named in the modules (a timeout is an integer, a lane is a lane, and so on).

| theorem | property |
|---|---|
| `SchedulerMinHeap_proofs!Invariance` | `IndInv`, the inductive invariant |
| `SchedulerMinHeap_proofs!HeapOrderHolds` | `HeapOrder`: outside an operation every node follows its parent |
| `SchedulerMinHeap_proofs!Refinement` | `SchedulerMinHeap` implements `TaskPriorityQueue` |
| `Scheduler_proofs!Invariance` | `IndInv`, the inductive invariant |
| `Scheduler_proofs!TypeCorrectness` | `TypeOK` |
| `Scheduler_proofs!LoopInvHolds` | `LoopInv` |
| `Scheduler_proofs!TasksAreKept` | `NoTaskLost` |
| `Scheduler_proofs!MessageLoopHolds` | `MessageLoop` |
| `Scheduler_proofs!NeverStalls` | `NoStall` |
| `Scheduler_proofs!TimersAreCovered` | `TimerCovered` |
| `Scheduler_proofs!TimeoutHandleIsKnown` | `TimeoutHandleKnown` |
| `Scheduler_proofs!MostUrgentFirst` | `StartsMostUrgent`, an action property |
| `Scheduler_proofs!ExpiredTasksAreNotDeferred` | `NoExpiredTaskLeft` |
| `Scheduler_proofs!Refinement` | `Scheduler` implements `TaskExecution` |
| `TransitionEntanglement_proofs!TypeCorrectness` | `TypeOK` |
| `TransitionEntanglement_proofs!QueuesAreWhole` | `QueueIsWhole` |
| `ClassUpdateQueue_proofs!Invariance` | `IndInv`, the inductive invariant |
| `ClassUpdateQueue_proofs!NothingIsLost` | `NoUpdateLost` |
| `ClassUpdateQueue_proofs!BatchesAreWhole` | `BatchIsWhole` |
| `ClassUpdateQueue_proofs!ExactLanes` | `LanesAreExact` |
| `ClassUpdateQueue_proofs!Refinement` | `ClassUpdateQueue` implements `UpdateHistory` |
| `ConcurrentRoot_proofs!Invariance` | `IndInv`, the inductive invariant |
| `ConcurrentRoot_proofs!QueueIsUsed` | `ConcurrentRoot` implements `ClassUpdateQueue` |
| `ConcurrentRoot_proofs!LanesAreKnown` | `PendingLanesAreExact` |
| `ConcurrentRoot_proofs!DataIsThere` | `ScreenHasItsData` |
| `ConcurrentRoot_proofs!RootStaysScheduled` | `RootIsScheduled` |
| `ConcurrentRoot_proofs!TasksFindWork` | `ScheduledTaskHasWork` |
| `ConcurrentRoot_proofs!SyncWorkIsDone` | `SyncWorkIsFlushed` |
| `ConcurrentRoot_proofs!TransitionsStayInOrder` | `TransitionsInOrder`, an action property |
| `ConcurrentRoot_proofs!PingsAreKept` | `PingIsPending`, if no update is idle |
| `ExternalStore_proofs!Invariance` | `IndInv`, the inductive invariant |
| `ExternalStore_proofs!NothingIsMissed` | `NoChangeMissed` |
| `ExternalStore_proofs!WholeCommits` | `CommitsAreWhole`, an action property |
| `AsyncAction_proofs!Invariance` | `IndInv`, the inductive invariant |
| `AsyncAction_proofs!PendingLasts` | `PendingIsShown` |
| `AsyncAction_proofs!ActionsAreTogether` | `ActionsAreBatched`, an action property |
| `AsyncAction_proofs!OptimisticValuesLast` | `OptimisticUntilDone`, an action property |

**Scheduler.** The inductive invariant is `TypeOK /\ LoopInv /\ NoTaskLost /\
MessageLoop /\ NoStall /\ TimerCovered /\ TimeoutHandleKnown`. None of the parts
is inductive alone: that the loop does not stall when a task throws needs that
the message loop runs, which needs the flags to agree with `pc` (`LoopInv`);
that timers are covered needs that tasks and timers are where `NoTaskLost` says.
The proofs go action by action; the re-entrant API is one case, used from the
host and from a task. `MostUrgentFirst`, `ExpiredTasksAreNotDeferred` and the
refinement follow from the invariant.

**Heap.** During a sift the order is broken in one place at most. `SiftUpInv` and
`SiftDownInv` say where, and that the grandparent still precedes the
grandchildren; with `TypeOK` they are inductive (`HeapInv`). `DistinctIds` makes the
order total. That the first node is the least (`FirstIsLeast`) is an induction
on positions, from a node to its parent; with it each operation is a step of
`TaskPriorityQueue` and each swap a stutter.

**Entanglement.** `QueueIsWhole` speaks of `getEntangledLanes`, and the invariant
gives what that reads: a queue knows the lanes in which it has updates
(`KnowsItsLanes`), those are pending (`PendingIsWaiting`), and any two of them
are entangled with each other (`IsEntangled`). The last survives
`markRootFinished`, which resets only lanes in which no queue waits. Closure
under entanglement with lanes of other queues is neither needed nor true (section 8).

**Update queue.** `NoUpdateLost` is not inductive: the alternate that a commit
makes current must be known to be right before. `IsWhole` says of a fiber that its base
state, its base queue and the shared queues hold the updates 1, 2, 3, ... in this
order, and that its state applies those that do not wait. `CurrentIsWhole` claims it at
any time, `WorkInProgressIsWhole` during a render, with the lanes and the callbacks
that belong to it. `processUpdateQueue` moves the border between base state and base
queue to the first update that it skips, and gives the later ones `NoLane`
(LEMMA `Process`). `UpdateHistory` speaks of what the screen shows in order, which
increasing sequences determine (`IncreasingIsUnique`).

**Root.** A step of the root leaves its queue alone or is a step of `ClassUpdateQueue`
(`QueueIsUsed`), so that the proof of the queue, instantiated, gives that part of the
invariant. Of the rest, `RenderFollowsQueue` ties the progress of the render to the
phase of the queue, `RootKnowsLanes` the lanes of the root to those of the fiber,
`RenderHasItsData` what was rendered to the data that it needs. `TasksAreKnown` and
`WorkIsScheduled` say what `callbackNode` may be when it is stale: `RootIsScheduled`
alone is not inductive, because the microtask keeps a task by its priority and must
know that the task still finds work.

For `TransitionsInOrder` the invariant says that the pending transitions are the root's
entangled lanes, each entangled with each other (`TransitionsAreEntangled`; a commit
leaves no lane pending that was not, so `markRootFinished` keeps this). A render
therefore takes all transitions that wait or none (`RenderTakesAllTransitions`), and the
transitions that it applies are applied in order (`RenderKeepsOrder`). Updates made
during the render come later than those, and are left for the next one.

`PingsAreKept` needs four more facts, inductive together with `IndInv`
(`SuspensionsHaveListeners`): a render that suspended attached a listener for its own
lanes, warm lanes are suspended and not pinged, and when all pending lanes are warm a
listener waits for one of them. They hold when `UpdateLanes` has no idle lane, and
not otherwise: section 8 says what an idle update does to them.

**External stores.** Three stages write what a component shows, what its listener
compares with and what it listens to. `StagesAgree` says that they agree, but for
what an effect that is still to run brings up to date; `RenderIsSound` says the same
of what a render holds and of the commit to come. With these `NoChangeMissed`
is inductive although the listener compares with an instance that is written late.

**Async actions.** All three properties rest on one fact: while the scope is open, a
render that includes its lane suspends if the queue of some hook has an update of the
scope (LEMMA `ScopeIsNotCommitted`). The code suspends only when the state
of the hook changed, so the invariant must say that such an update changes it: a waiting
update of `useState` is not in its state (`WaitingIsNotShown`), and in the queue of
`useTransition` nothing follows the update that began the action but others like it and
those that wait for the scope (`PendingStands`), none of which is applied yet
(`RunningIsNotApplied`). A synchronous render reads no update of the scope
(`OptimisticIsSync`, `SyncWorkIsQueued`), so that it never suspends on it. `LanesAreExact`
says that each lane is worth rendering, for the update or for the revert that waits in
it, and `SuspendedHasListener` that closing the scope finds those who wait.

**How it is done.** The provers have no induction over an operator; induction here
is on a set of numbers (`LeastElement`, `InductionUpTo`), which they handle. Filters are
`Only`, a recursive function on prefixes, and what they keep, in which order, is proved
once in `SequenceLemmas`.

**Only model-checked.** Liveness, which the prover does not reach. The safety properties
of `FlightClient` and `FizzServer`, which follow code that recurses over its own state
and use recursive operators, which the prover does not handle.

## 8. Where the code and its comments disagree

Two runs end in a counterexample.

1. `store_tearing`: only a render whose *last* slice was time sliced is checked for
   consistency with the stores. One that yielded and is then finished synchronously,
   because its lanes expired or its task timed out, is committed unchecked, and
   may show two snapshots of one store until the passive effects repair it. The comment
   at `DevjsFiberWorkLoop.js` 1197 asks for the check if the render "may have yielded".
2. `fizz_internal`: `flushPartialBoundary` does not look at the status of its
   boundary. If a full destination leaves a boundary in `partialBoundaries` and one
   of its components then fails, the next flush tells the client to render the
   boundary and goes on to write its failed segment: `flushSubtree` throws "This is a
   bug in Devjs", and the whole request ends with a fatal error.

The others were met while modelling. They have no run; the models do what the code does.

* `RootScheduler.js` 463: after a synchronous render flushed by the microtask has
  suspended, `callbackPriority` is `SyncLane` without a task. The next microtask
  takes it for a task that can be reused, and the prerender of the siblings is not
  scheduled; it waits for the next ping or update. `ConcurrentRoot` reaches this state
  with one update and one child.
* `DevjsFiberLane.js` 435: `entangledLanes |= entangledLanes & DefaultLane` adds
  nothing, so a continuous update that interrupts a suspended default update is
  rendered without it, although the comment above says that they "render in the same
  batch".
* `Scheduler.js` 138 and 254 set a host timeout without the flag that lets
  `flushWork` cancel it. Left-over timeouts fire with nothing to do; no task is
  affected (`TimerCovered` holds).
* A task forgotten by a commit (`DevjsFiberWorkLoop.js` 3798) may render while a later
  commit waits for the host, and cancels it. The work is done again.
* `processUpdateQueue` never resets `shared.lanes` (its test of `firstBaseUpdate`,
  `DevjsFiberClassUpdateQueue.js` 674, is inside the branch in which it is not null).
  `entangleTransitions` intersects them with the pending lanes, and
  `TransitionEntanglement`, which never resets them either, shows that this is enough.
* Entanglement is not transitive: with A and B in one queue and B and C in another,
  C may be entangled with B and the batch of C include B and not A.
  `QueueIsWhole` is what remains true.
* `DevjsFizzServer.js` 6125: `abort` "puts all pending boundaries in client rendered
  state", but the tasks of a fallback are in a set of their boundary, which abort
  reaches only through tasks of its content. If the content has failed or is complete,
  a suspended fallback keeps the request pending. `onShellError` may be called twice
  when two tasks of the shell fail.
* An update of `IdleLane` cancels a commit that waits for the host
  (`DevjsFiberWorkLoop.js` 994, "Interrupt the current attempt and restart from the
  top"), but `markRootUpdated` (`DevjsFiberLane.js` 841) leaves the suspended and warm
  lanes alone for idle updates. The transition whose commit was cancelled is suspended
  and warm and nothing pings it: neither it nor the idle update, which waits behind
  it, is rendered until there is another update. TLC reaches this in 11 steps when
  `UpdateLanes` is a transition and `IdleLane`, with two updates and one child, and it
  is why `PingsAreKept` assumes that no update is idle. (`root_liveness` has none.)
* A Flight model in a cycle is handed to those who wait for it before its own slots are
  filled (`DevjsFlightClient.js` 1045); `ReadValuesAreWhole` says what remains true.

## 9. What is not modelled

* Scheduler: the ambient priority, profiling, `didUserCallbackTimeout`.
* Lanes: allocation from the pools, hydration, hidden, deferred and gesture lanes.
* Queues: `replaceState`, `forceUpdate`, captured updates, updates made by a
  reducer; eager state and render phase updates of hooks.
* Root: several roots, Suspense boundaries and retries, errors and recovery (the
  hazard there: lanes updated while an error is being recovered,
  `DevjsFiberThrow.js` 364), hydration, eager rendering of a `popstate` transition, `act`.
  Effects are in `ExternalStore` only.
* External stores: hidden trees. Revealing one subscribes again without the effect
  that compares the snapshots (`DevjsFiberCommitWork.js` 4294).
* Async actions: actions that fail, `useActionState`, the default indicator.
* Flight client: text, binary and stream rows, paths into models, models that throw
  while they are parsed (`DevjsFlightClient.js` 1080), the byte parser.
* Fizz: prerendering and resuming, `SuspenseList`, preambles and hoisted resources,
  boundaries in fallbacks, deferred boundaries.
* Thenables of `use` (`DevjsFiberThenable.js` 107), the LRU cache (its eviction loop
  holds list nodes while it calls `onDelete`, `LRU.js` 82), the mock and the PostTask
  Schedulers (`SchedulerMock.js` 632, `SchedulerPostTask.js` 117), the Flight server.
* The other components of section 1; `PROJECT.json` gives a reason for each. The
  compiler, the lint rules and the developer tools are separate programs.

## 10. The plan

Done: the Scheduler and its heap, the class update queue, the concurrent root,
entanglement, external stores and async actions (modelled, checked, proved); lanes, the
Flight client, the Fizz server (modelled and checked).

Next, in this order:

1. `FlightClient` and `FizzServer` with an explicit stack of calls in place of recursive
   operators, so that their invariants can be proved.
2. `SuspenseBoundary`: fallbacks, retry lanes, throttled commits, errors and the
   synchronous recovery, over the operators of `FiberLanes`.
3. `RootSchedule`: several roots in the list, composed with the abstract
   Scheduler instead of `orphans`.
4. The Flight server: tasks and pings as in `FizzServer`, rows to the `FlightClient`.
5. `LruCache` (abstract: a recency list; proof that the links form one cycle),
   `SchedulerMock`, `SchedulerPostTask`, `TrackedThenables`.
6. Child reconciliation as an operator checked against a reference.

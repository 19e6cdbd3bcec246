---------------------------- MODULE AsyncAction ----------------------------
(***************************************************************************)
(* Async actions: startTransition with a function that returns a promise.  *)
(* All the actions that overlap share one scope (DevjsFiberAsyncAction.js):*)
(* one count, one transition lane, one thenable that settles when the last *)
(* of them has.  A render that reads an update of the scope's lane         *)
(* suspends on that thenable.                                              *)
(*                                                                         *)
(* The tree is one component with three hooks whose queues are processed   *)
(* in this order: useState, useOptimistic over that state, and             *)
(* useTransition, whose isPending is itself an optimistic update followed  *)
(* by an update to a thenable.  A state is the set of the updates applied  *)
(* to it: every update is new, so that it always changes the state.        *)
(* A render and its commit are one step; ConcurrentRoot takes them apart.  *)
(***************************************************************************)
EXTENDS FiberLanes, FiniteSets, Subsequences

CONSTANTS
  NumLanes,     \* transition lanes before they are used again
  MaxActions,   \* bound on the actions started
  MaxUpdates    \* bound on the updates made by user code

ASSUME AsyncActionAssumption ==
  /\ NumLanes \in 1..10
  /\ MaxActions \in Nat
  /\ MaxUpdates \in Nat

UsedTransitionLanes == 8..(7 + NumLanes)
Lanes == {SyncLane} \cup UsedTransitionLanes
Actions == 1..MaxActions
Updates == 1..MaxUpdates
Hooks == {"state", "optimistic", "transition"}

\* What useTransition holds, if it is not the thenable of an action.
Idle == 0
Pending == -1

VARIABLES
  root,         \* the lane fields of the root
  hooks,        \* the committed hooks and their queues
  scope,        \* the entangled action scope
  eventLane,    \* currentEventTransitionLane
  claimed,      \* how often a transition lane was claimed
  microtask,    \* a root schedule microtask is queued
  running,      \* the actions whose promise has not settled
  hooked,       \* those of all actions started by the useTransition hook
  pings,        \* listeners: what they wait for, and the lanes they ping
  started, updates

vars == <<root, hooks, scope, eventLane, claimed, microtask, running, hooked,
          pings, started, updates>>

-----------------------------------------------------------------------------
(* The scope *)

NoScope == [open |-> FALSE, count |-> 0, lane |-> NoLane]
Scope == 0   \* what a listener of the scope's thenable waits for

\* The transition lane of this event: that of the scope while one is open.
RequestTransitionLane ==
  IF eventLane # NoLane THEN eventLane
  ELSE IF scope.open THEN scope.lane
  ELSE 8 + (claimed % NumLanes)

\* The lane is cached until the microtask at the end of the event.
CacheEventLane ==
  /\ eventLane' = RequestTransitionLane
  /\ claimed' = IF eventLane = NoLane /\ ~scope.open THEN claimed + 1 ELSE claimed

EntangleAsyncAction(lane) ==
  scope' = IF scope.open THEN [scope EXCEPT !.count = @ + 1]
           ELSE [open |-> TRUE, count |-> 1, lane |-> lane]

-----------------------------------------------------------------------------
(* Queueing updates.  "added" is what is queued on each hook, in order;    *)
(* optimistic updates have a revert lane and do not entangle.              *)

Update(lane, revertLane, action) ==
  [lane |-> lane, revertLane |-> revertLane, action |-> action]

LanesOf(queue) == {u.lane : u \in Elements(queue)}

Entangles(queue) == LanesOf(queue) \cap TransitionLanes # {}

\* The lanes of a hook's queue that are still pending, and the new ones.
QueueLanes(h, added, pendingLanes) ==
  (hooks[h].lanes \cap pendingLanes) \cup (LanesOf(added[h]) \cap TransitionLanes)

EntangleTransitionUpdate(r, h, added) ==
  IF Entangles(added[h])
  THEN MarkRootEntangled(r, QueueLanes(h, added, r.pendingLanes))
  ELSE r

Dispatch(added) ==
  LET lanes == UNION {LanesOf(added[h]) : h \in Hooks}
      updated == [MarkRootUpdated(root, HighestPriorityLane(lanes)) EXCEPT
                    !.pendingLanes = @ \cup lanes]
  IN  IF lanes = {} THEN UNCHANGED <<root, hooks, microtask>>
      ELSE /\ root' = EntangleTransitionUpdate(
                        EntangleTransitionUpdate(updated, "state", added),
                        "transition", added)
           /\ hooks' = [h \in Hooks |-> [hooks[h] EXCEPT
                !.queue = @ \o added[h],
                !.lanes = IF Entangles(added[h])
                          THEN QueueLanes(h, added, updated.pendingLanes)
                          ELSE @]]
           /\ microtask' = TRUE

\* The calls that a callback makes under startTransition: at most one setState
\* and one setOptimistic, that of the value it expects.
CallbackUpdates(lane, setsState, setsOptimistic) ==
  LET u == updates + 1
  IN  [h \in Hooks |->
         IF h = "state" /\ setsState THEN <<Update(lane, NoLane, u)>>
         ELSE IF h = "optimistic" /\ setsOptimistic THEN <<Update(SyncLane, lane, u)>>
         ELSE <<>>]

\* startTransition of the hook, or that of the isomorphic package, with an
\* async callback.
StartAction ==
  /\ started < MaxActions
  /\ \E setsState, setsOptimistic, byHook \in BOOLEAN :
       LET lane == RequestTransitionLane
           a == started + 1
       IN  /\ setsState \/ setsOptimistic => updates < MaxUpdates
           /\ Dispatch([CallbackUpdates(lane, setsState, setsOptimistic) EXCEPT
                !["transition"] =
                  IF byHook THEN <<Update(SyncLane, lane, Pending),
                                   Update(lane, NoLane, a)>>
                  ELSE @])
           /\ EntangleAsyncAction(lane)
           /\ updates' = IF setsState \/ setsOptimistic THEN updates + 1 ELSE updates
           /\ hooked' = IF byHook THEN hooked \cup {a} ELSE hooked
           /\ running' = running \cup {a}
           /\ started' = a
  /\ CacheEventLane
  /\ UNCHANGED pings

\* startTransition with a callback that is not async, on its own or after an
\* await of an action.
TransitionUpdate ==
  /\ updates < MaxUpdates
  /\ \E setsOptimistic \in BOOLEAN :
       Dispatch(CallbackUpdates(RequestTransitionLane, TRUE, setsOptimistic))
  /\ CacheEventLane
  /\ updates' = updates + 1
  /\ UNCHANGED <<scope, running, hooked, pings, started>>

UrgentUpdate ==
  /\ updates < MaxUpdates
  /\ Dispatch([h \in Hooks |->
       IF h = "state" THEN <<Update(SyncLane, NoLane, updates + 1)>> ELSE <<>>])
  /\ updates' = updates + 1
  /\ UNCHANGED <<scope, eventLane, claimed, running, hooked, pings, started>>

-----------------------------------------------------------------------------
(* A promise settles: pingEntangledActionScope, then the thenable chained  *)
(* to it for isPending.  A rejection counts down like a fulfilment.        *)

Called(what) == {p \in pings : p.on = what}

\* Mutant: the ping does not mark the lanes.
PingSuspendedRootUnmarked(called) ==
  /\ pings' = pings \ called
  /\ microtask' = (microtask \/ called # {})
  /\ UNCHANGED root

PingSuspendedRoot(called) ==
  /\ root' = MarkRootPinged(root, UNION {p.lanes : p \in called})
  /\ pings' = pings \ called
  /\ microtask' = (microtask \/ called # {})

Settle(a) ==
  /\ a \in running
  /\ running' = running \ {a}
  /\ IF scope.count = 1
       THEN /\ scope' = NoScope
            /\ PingSuspendedRoot(Called(Scope) \cup Called(a))
       ELSE /\ scope' = [scope EXCEPT !.count = @ - 1]
            /\ PingSuspendedRoot(Called(a))
  /\ UNCHANGED <<hooks, eventLane, claimed, hooked, started, updates>>

-----------------------------------------------------------------------------
(* Rendering *)

\* updateReducerImpl.  An update whose lane is not rendered is skipped, one
\* whose revert lane is rendered is dropped, the others are applied.  From the
\* first that is skipped, or optimistic, the queue is kept to be rebased; what
\* was applied stays in it without a lane, never to be skipped again.
Skips(u, renderLanes) == u.lane # NoLane /\ u.lane \notin renderLanes
\* Mutant: an optimistic update is reverted by the next render.
RevertsAtNextRender(u, renderLanes) ==
  ~Skips(u, renderLanes) /\ u.revertLane # NoLane /\ u.lane = NoLane

Reverts(u, renderLanes) == ~Skips(u, renderLanes) /\ u.revertLane \in renderLanes
Applies(u, renderLanes) == ~Skips(u, renderLanes) /\ ~Reverts(u, renderLanes)

IsRebased(u, renderLanes) ==
  Skips(u, renderLanes) \/ (Applies(u, renderLanes) /\ u.revertLane # NoLane)

RebasedFrom(queue, renderLanes) ==
  CHOOSE n \in 1..Len(queue) + 1 :
    /\ n = Len(queue) + 1 \/ IsRebased(queue[n], renderLanes)
    /\ \A i \in 1..n-1 : ~IsRebased(queue[i], renderLanes)

Rebase(u, renderLanes) ==
  IF Skips(u, renderLanes) THEN u ELSE [u EXCEPT !.lane = NoLane]

\* Mutant: the lane that reverts an optimistic update is forgotten.
RemainingLaneOfSkipped(u, renderLanes) ==
  IF Skips(u, renderLanes) THEN u.lane ELSE NoLane

RemainingLane(u, renderLanes) ==
  IF Skips(u, renderLanes) THEN u.lane
  ELSE IF Applies(u, renderLanes) THEN u.revertLane ELSE NoLane

\* Mutant: no update is known to be part of the scope.
ReadsNoScope(u, renderLanes) == FALSE

\* Mutant: only optimistic updates are known to be part of the scope.
ReadsScopeOfOptimistic(u, renderLanes) ==
  scope.open /\ Reverts(u, renderLanes) /\ u.revertLane = scope.lane

ReadsScope(u, renderLanes) ==
  /\ scope.open /\ ~Skips(u, renderLanes)
  /\ scope.lane = IF u.revertLane = NoLane THEN u.lane ELSE u.revertLane
  /\ u.revertLane # NoLane => Reverts(u, renderLanes)

\* The reducers: an action is added to the state, or replaces it.
Reduce(h, state, applied) ==
  IF h # "transition" THEN state \cup {u.action : u \in Elements(applied)}
  ELSE IF applied = <<>> THEN state ELSE applied[Len(applied)].action

UpdateReducer(h, baseState, renderLanes) ==
  LET hook == hooks[h]
      queue == hook.queue
      from == RebasedFrom(queue, renderLanes)
      applied == {u \in Elements(queue) : Applies(u, renderLanes)}
      kept == Only(SubSeq(queue, from, Len(queue)),
                   {u \in Elements(queue) : ~Reverts(u, renderLanes)})
      state == Reduce(h, baseState, Only(queue, applied))
  IN  [hook |-> [memoizedState |-> state,
                 baseState |-> Reduce(h, baseState, Only(SubSeq(queue, 1, from - 1), applied)),
                 queue |-> [i \in DOMAIN kept |-> Rebase(kept[i], renderLanes)],
                 lanes |-> IF queue = <<>> THEN {} ELSE hook.lanes],
       lanes |-> {RemainingLane(u, renderLanes) : u \in Elements(queue)} \ {NoLane},
       suspends |-> /\ state # hook.memoizedState
                    /\ \E u \in Elements(queue) : ReadsScope(u, renderLanes)]

\* The three hooks of the component, rendered in order: the optimistic updates are made
\* to what the state is then.
RenderHooks(renderLanes) ==
  LET state == UpdateReducer("state", hooks["state"].baseState, renderLanes)
  IN  [h \in Hooks |->
         UpdateReducer(h, IF h = "optimistic" THEN state.hook.memoizedState
                          ELSE hooks[h].baseState, renderLanes)]

\* What the render suspends on: the scope, or the thenable of the last action
\* of useTransition, which the hook unwraps with use.
SuspendsOn(result) ==
  IF \E h \in Hooks : result[h].suspends THEN {Scope}
  ELSE {result["transition"].hook.memoizedState} \cap running

Render(lanes) ==
  LET renderLanes == GetEntangledLanes(root, lanes)
      result == RenderHooks(renderLanes)
      on == SuspendsOn(result)
  IN  IF on # {}
        THEN /\ root' = MarkRootSuspended(root, renderLanes, TRUE)
             /\ pings' = pings \cup {[on |-> w, lanes |-> renderLanes] : w \in on}
             /\ UNCHANGED hooks
        ELSE /\ hooks' = [h \in Hooks |-> result[h].hook]
             /\ root' = MarkRootFinished(root, UNION {result[h].lanes : h \in Hooks})
             /\ UNCHANGED pings

\* The microtask ends the event and renders what is synchronous.
ProcessRootScheduleInMicrotask ==
  /\ microtask
  /\ microtask' = FALSE
  /\ eventLane' = NoLane
  /\ IF SyncLane \in root.pendingLanes
       THEN Render({SyncLane})
       ELSE UNCHANGED <<root, hooks, pings>>
  /\ UNCHANGED <<scope, claimed, running, hooked, started, updates>>

\* The task of the root.
PerformWorkOnRoot ==
  LET lanes == GetNextLanes(root, {}, FALSE)
  IN  /\ ~microtask
      /\ lanes # {}
      /\ Render(lanes)
      /\ UNCHANGED <<scope, eventLane, claimed, microtask, running, hooked,
                     started, updates>>

-----------------------------------------------------------------------------
Hook(state) ==
  [memoizedState |-> state, baseState |-> state, queue |-> <<>>, lanes |-> {}]

Init ==
  /\ root = IdleRoot(Lanes)
  /\ hooks = [h \in Hooks |-> IF h = "transition" THEN Hook(Idle) ELSE Hook({})]
  /\ scope = NoScope
  /\ eventLane = NoLane
  /\ claimed = 0
  /\ microtask = FALSE
  /\ running = {}
  /\ hooked = {}
  /\ pings = {}
  /\ started = 0
  /\ updates = 0

Next ==
  \/ StartAction \/ TransitionUpdate \/ UrgentUpdate
  \/ \E a \in Actions : Settle(a)
  \/ ProcessRootScheduleInMicrotask
  \/ PerformWorkOnRoot

Spec == Init /\ [][Next]_vars

\* The host runs microtasks and tasks, and every action settles.  This is weak
\* fairness of the three actions, with the conditions that enable them written
\* out: each of them changes the state whenever its guard holds.
HasWork == ~microtask /\ GetNextLanes(root, {}, FALSE) # {}

FairSpec ==
  /\ Spec
  /\ []<>~microtask \/ []<><<ProcessRootScheduleInMicrotask>>_vars
  /\ []<>~HasWork \/ []<><<PerformWorkOnRoot>>_vars
  /\ []<>(running = {}) \/ []<><<\E a \in Actions : Settle(a)>>_vars

-----------------------------------------------------------------------------
(* Properties *)

Shown(h) == hooks[h].memoizedState

Queued(h) == Elements(hooks[h].queue)

StatesOf(h) ==
  IF h = "transition" THEN 1..started \cup {Idle, Pending} ELSE SUBSET (1..updates)

UpdatesOf(h) ==
  [lane : Lanes \cup {NoLane}, revertLane : UsedTransitionLanes \cup {NoLane},
   action : IF h = "transition" THEN 1..started \cup {Pending} ELSE 1..updates]

TypeOK ==
  /\ root \in Root(Lanes) /\ root.entangledLanes \subseteq UsedTransitionLanes
  /\ hooks = [h \in Hooks |-> hooks[h]]
  /\ \A h \in Hooks :
       hooks[h] \in [memoizedState : StatesOf(h), baseState : StatesOf(h),
                     queue : Seq(UpdatesOf(h)), lanes : SUBSET UsedTransitionLanes]
  /\ scope \in [open : BOOLEAN, count : Nat, lane : UsedTransitionLanes \cup {NoLane}]
  /\ eventLane \in UsedTransitionLanes \cup {NoLane} /\ claimed \in Nat
  /\ microtask \in BOOLEAN
  /\ running \subseteq 1..started /\ hooked \subseteq 1..started
  /\ pings \subseteq [on : Actions \cup {Scope}, lanes : SUBSET Lanes]
  /\ started \in 0..MaxActions /\ updates \in 0..MaxUpdates

\* The scope is open exactly while one of its actions runs, however actions
\* overlap: closed too early it would show half an action, too late it would
\* leave the transition suspended for ever.
ScopeCountsActions ==
  /\ scope.open <=> running # {}
  /\ scope.count = Cardinality(running)
  /\ scope.open <=> scope.lane # NoLane

\* Nobody waits for a thenable that has settled, and a suspended lane that
\* was not pinged has a listener: closing the scope and suspending on it
\* never miss each other.
SuspendedHasListener ==
  /\ \A p \in pings : IF p.on = Scope THEN scope.open ELSE p.on \in running
  /\ \A l \in root.suspendedLanes \ root.pingedLanes : \E p \in pings : l \in p.lanes

\* The lanes in which an update is to be applied, or reverted once it is.
WaitsFor(u) == IF u.lane = SyncLane THEN {SyncLane} ELSE {u.lane, u.revertLane} \ {NoLane}

\* A lane that is pending has an update in some queue, to apply or to revert,
\* and the other way round.
LanesAreExact ==
  root.pendingLanes = UNION {WaitsFor(u) : u \in UNION {Queued(h) : h \in Hooks}}

\* All that an event does in transitions is in the lane of the scope, if that is open.
EventIsInScope == scope.open /\ eventLane # NoLane => eventLane = scope.lane

\* What is synchronous does not outlive the microtask.
SyncWorkIsQueued == SyncLane \in root.pendingLanes => microtask

\* Optimistic updates are synchronous, and those of the state are not optimistic.
OptimisticIsSync ==
  \A h \in Hooks : \A u \in Queued(h) : u.revertLane # NoLane =>
    h # "state" /\ u.lane \in {SyncLane, NoLane}

\* An update of the state is shown once it is applied and not before, whatever
\* else was applied and rebased around it.
WaitingIsNotShown ==
  \A u \in Queued("state") :
    /\ u.lane # NoLane => u.action \notin hooks["state"].baseState \cup Shown("state")
    /\ \A v \in Queued("state") : u.action = v.action => u = v

\* useTransition does not hold an action that runs, not even in its base state:
\* the update to it waits in the scope's lane.
RunningIsNotApplied ==
  /\ hooks["transition"].baseState \notin running
  /\ \A u \in Queued("transition") : u.action \in running =>
       u.action \in hooked /\ u.lane = scope.lane /\ u.revertLane = NoLane

\* The updates by which isPending becomes TRUE and FALSE in the scope.
Begins(u)   == u.revertLane = scope.lane /\ u.action = Pending
Finishes(u) == u.revertLane = NoLane /\ u.lane = scope.lane /\ u.action # Pending

\* While an action of the hook runs, nothing comes after the update that made it
\* pending but updates that wait for the scope, and others like it.
PendingStands ==
  running \cap hooked # {} =>
    /\ \E i \in DOMAIN hooks["transition"].queue :
         LET queue == hooks["transition"].queue
             after == i+1..Len(queue)
         IN  /\ Begins(queue[i])
             /\ \A j \in after : Begins(queue[j]) \/ Finishes(queue[j])
             /\ \E j \in after : Finishes(queue[j])
    /\ SyncLane \notin root.pendingLanes => Shown("transition") = Pending

\* The inductive invariant: the scope, the lanes of the root, its listeners and the queues
\* of the hooks, which four files write, agree with one another.
IndInv ==
  /\ TypeOK
  /\ ScopeCountsActions
  /\ SuspendedHasListener
  /\ LanesAreExact
  /\ EventIsInScope
  /\ SyncWorkIsQueued
  /\ OptimisticIsSync
  /\ WaitingIsNotShown
  /\ RunningIsNotApplied
  /\ PendingStands

\* Once the microtask has run, isPending is shown while an action that the hook
\* started runs, whatever other actions, updates and renders come between.
PendingIsShown ==
  ~microtask /\ running \cap hooked # {} => Shown("transition") = Pending

\* No update in the scope's lane is shown before the last action of the scope
\* has settled: all that the actions do is shown in one commit.
ActionsAreBatched ==
  [][scope.open =>
       \A u \in Queued("state") :
         u.lane = scope.lane => u.action \notin Shown("state")']_vars

\* An optimistic value is not taken back before what it stood for is shown:
\* its scope has closed, and the commit that drops it applies the updates
\* made in the same transition.
Reverted == {u \in Queued("optimistic") : u.lane = NoLane
                                          /\ u.action \in Shown("optimistic")
                                          /\ u.action \notin Shown("optimistic")'}

OptimisticUntilDone ==
  [][\A o \in Reverted :
       /\ ~(scope.open /\ o.revertLane = scope.lane)
       /\ \A u \in Queued("state") :
            u.lane = o.revertLane => u.action \in Shown("state")']_vars

\* When users and actions come to rest, everything is shown, no optimistic
\* value is left over and isPending is false.
EverythingIsShown ==
  <>[](/\ root.pendingLanes = {}
       /\ Shown("optimistic") = Shown("state")
       /\ Shown("transition") # Pending)
=============================================================================

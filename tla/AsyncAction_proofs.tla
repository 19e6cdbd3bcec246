------------------------- MODULE AsyncAction_proofs -------------------------
(***************************************************************************)
(* What overlapping async actions do is shown at once when the last of     *)
(* them settles, optimistic values last until then, and isPending too, for *)
(* any number of lanes, actions and updates: THEOREMS ActionsAreTogether,  *)
(* OptimisticValuesLast and PendingLasts.                                  *)
(*                                                                         *)
(* A render that includes the scope's lane suspends if there is an update  *)
(* of the scope in the queue of some hook, because the scope is open and   *)
(* the update changes the state: WaitingIsNotShown says why for useState,  *)
(* PendingStands for useTransition.                                        *)
(***************************************************************************)
EXTENDS AsyncAction, SequenceLemmas, FiniteSetTheorems

-----------------------------------------------------------------------------
(* Lanes and roots *)

LEMMA LaneFacts ==
  /\ UsedTransitionLanes \subseteq TransitionLanes
  /\ Lanes = {SyncLane} \cup UsedTransitionLanes /\ Lanes \subseteq Nat
  /\ SyncLane \notin TransitionLanes /\ SyncLane # NoLane
  /\ NoLane \notin Lanes /\ IdleLane \notin Lanes
<1>1. UsedTransitionLanes \subseteq 8..17
  BY AsyncActionAssumption DEF UsedTransitionLanes
<1> QED
  BY <1>1 DEF TransitionLanes, TransitionUpdateLanes, TransitionDeferredLanes, Lanes, SyncLane,
              NoLane, IdleLane

LEMMA RequestedLane ==
  ASSUME TypeOK, ScopeCountsActions
  PROVE  /\ RequestTransitionLane \in UsedTransitionLanes
         /\ scope.open /\ EventIsInScope => RequestTransitionLane = scope.lane
<1>1. claimed % NumLanes \in 0..NumLanes - 1
  BY AsyncActionAssumption DEF TypeOK
<1>2. 8 + (claimed % NumLanes) \in UsedTransitionLanes
  BY <1>1, AsyncActionAssumption DEF UsedTransitionLanes
<1>3. /\ eventLane \in UsedTransitionLanes \cup {NoLane}
      /\ scope.lane \in UsedTransitionLanes \cup {NoLane}
  BY DEF TypeOK
<1>4. ASSUME scope.open, EventIsInScope
      PROVE  RequestTransitionLane = scope.lane
  BY <1>4 DEF RequestTransitionLane, EventIsInScope
<1> QED
  BY <1>2, <1>3, <1>4 DEF RequestTransitionLane, ScopeCountsActions

LEMMA MostUrgentLane ==
  ASSUME NEW lanes, lanes \subseteq Lanes, lanes # {}
  PROVE  HighestPriorityLane(lanes) \in lanes
<1>1. \E l \in lanes : \A other \in lanes : l <= other
  BY LaneFacts, LeastElement
<1> QED
  BY <1>1 DEF HighestPriorityLane

\* An update makes whatever is suspended eligible again.
LEMMA UpdatedRoot ==
  ASSUME NEW r \in Root(Lanes), NEW lanes, lanes \subseteq Lanes, lanes # {},
         NEW u, u = [MarkRootUpdated(r, HighestPriorityLane(lanes)) EXCEPT
                       !.pendingLanes = @ \cup lanes]
  PROVE  /\ u \in Root(Lanes) /\ u.pendingLanes = r.pendingLanes \cup lanes
         /\ u.suspendedLanes = {} /\ u.entangledLanes = r.entangledLanes
<1> DEFINE l == HighestPriorityLane(lanes)
<1>1. l \in lanes /\ l # IdleLane
  BY MostUrgentLane, LaneFacts
<1> HIDE DEF l
<1>2. l \in Lanes
  BY <1>1
<1> DEFINE marked == MarkRootUpdated(r, l)
<1>3. /\ marked \in Root(Lanes) /\ marked.pendingLanes = r.pendingLanes \cup {l}
      /\ marked.suspendedLanes = {} /\ marked.entangledLanes = r.entangledLanes
  BY <1>1, <1>2 DEF MarkRootUpdated, Root
<1>4. u = [marked EXCEPT !.pendingLanes = @ \cup lanes]
  BY DEF l
<1> HIDE DEF marked
<1> QED
  BY <1>1, <1>3, <1>4, ZenonT(60) DEF Root

LEMMA EntangledRoot ==
  ASSUME NEW r \in Root(Lanes), r.entangledLanes \subseteq UsedTransitionLanes,
         NEW lanes, lanes \subseteq UsedTransitionLanes
  PROVE  /\ MarkRootEntangled(r, lanes) \in Root(Lanes)
         /\ MarkRootEntangled(r, lanes).pendingLanes = r.pendingLanes
         /\ MarkRootEntangled(r, lanes).suspendedLanes = r.suspendedLanes
         /\ MarkRootEntangled(r, lanes).entangledLanes \subseteq UsedTransitionLanes
  BY LaneFacts DEF MarkRootEntangled, Root

-----------------------------------------------------------------------------
(* Queueing updates *)

LEMMA Singles ==
  /\ Elements(<<>>) = {}
  /\ \A x : Elements(<<x>>) = {x}
  /\ \A x, y : Elements(<<x, y>>) = {x, y}
<1>1. \A x : DOMAIN <<x>> = 1..1 /\ <<x>>[1] = x
  OBVIOUS
<1>2. \A x, y : DOMAIN <<x, y>> = 1..2 /\ <<x, y>>[1] = x /\ <<x, y>>[2] = y
  OBVIOUS
<1> QED
  BY <1>1, <1>2 DEF Elements

LEMMA AddedLanes ==
  ASSUME TypeOK, NEW h \in Hooks, NEW added, LanesOf(added[h]) \subseteq Lanes,
         NEW r \in Root(Lanes), r.entangledLanes \subseteq UsedTransitionLanes
  PROVE  /\ \A pending : QueueLanes(h, added, pending) \subseteq UsedTransitionLanes
         /\ EntangleTransitionUpdate(r, h, added) \in Root(Lanes)
         /\ EntangleTransitionUpdate(r, h, added).pendingLanes = r.pendingLanes
         /\ EntangleTransitionUpdate(r, h, added).suspendedLanes = r.suspendedLanes
         /\ EntangleTransitionUpdate(r, h, added).entangledLanes \subseteq UsedTransitionLanes
<1>1. \A pending : QueueLanes(h, added, pending) \subseteq UsedTransitionLanes
  BY LaneFacts DEF QueueLanes, TypeOK
<1> QED
  BY <1>1, EntangledRoot DEF EntangleTransitionUpdate

\* What a dispatch does to the root and to the hooks.
LEMMA AfterDispatch ==
  ASSUME TypeOK, NEW S, NEW added, Dispatch(added),
         \A h \in Hooks : added[h] \in Seq(S) /\ LanesOf(added[h]) \subseteq Lanes
  PROVE  /\ root' \in Root(Lanes) /\ root'.entangledLanes \subseteq UsedTransitionLanes
         /\ root'.pendingLanes = root.pendingLanes \cup UNION {LanesOf(added[h]) : h \in Hooks}
         /\ root'.suspendedLanes = {} \/ root' = root
         /\ hooks' = [h \in Hooks |-> hooks'[h]]
         /\ \A h \in Hooks : \E lanes \in SUBSET UsedTransitionLanes :
              hooks'[h] = [hooks[h] EXCEPT !.queue = @ \o added[h], !.lanes = lanes]
         /\ microtask' \in BOOLEAN /\ (microtask => microtask')
         /\ \A h \in Hooks : LanesOf(added[h]) # {} => microtask'
<1> DEFINE lanes == UNION {LanesOf(added[h]) : h \in Hooks}
           updated == [MarkRootUpdated(root, HighestPriorityLane(lanes)) EXCEPT
                         !.pendingLanes = @ \cup lanes]
<1>1. CASE lanes = {}
  <2>1. UNCHANGED <<root, hooks, microtask>>
    BY <1>1 DEF Dispatch
  <2>2. ASSUME NEW h \in Hooks
        PROVE  \E ls \in SUBSET UsedTransitionLanes :
                 hooks[h] = [hooks[h] EXCEPT !.queue = @ \o added[h], !.lanes = ls]
    <3>1. LanesOf(added[h]) = {}
      BY <1>1
    <3>2. added[h] = <<>>
      <4>1. added[h] \in Seq(S)
        OBVIOUS
      <4>2. Len(added[h]) \in 1..Len(added[h]) => added[h][Len(added[h])].lane \in LanesOf(added[h])
        BY <4>1 DEF LanesOf, Elements
      <4> HIDE DEF lanes, updated
      <4>3. Len(added[h]) = 0
        BY <3>1, <4>1, <4>2
      <4> QED
        BY <4>1, <4>3
    <3>3. hooks[h] \in [memoizedState : StatesOf(h), baseState : StatesOf(h),
                        queue : Seq(UpdatesOf(h)), lanes : SUBSET UsedTransitionLanes]
      BY DEF TypeOK
    <3>4. hooks[h].queue \o <<>> = hooks[h].queue
      BY <3>3
    <3> QED
      BY <3>2, <3>3, <3>4
  <2>3. hooks' = hooks /\ hooks = [h \in Hooks |-> hooks[h]]
    BY <2>1 DEF TypeOK
  <2>4. hooks' = [h \in Hooks |-> hooks'[h]]
    BY <2>3
  <2>5. \A h \in Hooks : LanesOf(added[h]) = {}
    BY <1>1
  <2>6. /\ root' \in Root(Lanes) /\ root'.entangledLanes \subseteq UsedTransitionLanes
        /\ microtask' = microtask /\ microtask' \in BOOLEAN
        /\ root'.pendingLanes = root.pendingLanes \cup lanes
    BY <1>1, <2>1 DEF TypeOK
  <2>7. root' = root /\ (microtask => microtask')
    BY <2>1
  <2>8. \A h \in Hooks : \E ls \in SUBSET UsedTransitionLanes :
          hooks'[h] = [hooks[h] EXCEPT !.queue = @ \o added[h], !.lanes = ls]
    BY <2>2, <2>3
  <2>9. root'.pendingLanes = root.pendingLanes \cup UNION {LanesOf(added[h]) : h \in Hooks}
    BY <2>6
  <2> HIDE DEF lanes, updated
  <2> QED
    BY <2>4, <2>5, <2>6, <2>7, <2>8, <2>9
<1>2. CASE lanes # {}
  <2>1. /\ root' = EntangleTransitionUpdate(EntangleTransitionUpdate(updated, "state", added),
                                            "transition", added)
        /\ hooks' = [h \in Hooks |-> [hooks[h] EXCEPT
             !.queue = @ \o added[h],
             !.lanes = IF Entangles(added[h]) THEN QueueLanes(h, added, updated.pendingLanes)
                       ELSE @]]
        /\ microtask' = TRUE
    BY <1>2 DEF Dispatch
  <2>2. lanes \subseteq Lanes
    OBVIOUS
  <2> HIDE DEF lanes
  <2>3. /\ updated \in Root(Lanes) /\ updated.pendingLanes = root.pendingLanes \cup lanes
        /\ updated.suspendedLanes = {} /\ updated.entangledLanes = root.entangledLanes
    BY <1>2, <2>2, UpdatedRoot DEF TypeOK
  <2> HIDE DEF updated
  <2> DEFINE first == EntangleTransitionUpdate(updated, "state", added)
  <2>4. /\ first \in Root(Lanes) /\ first.pendingLanes = updated.pendingLanes
        /\ first.suspendedLanes = {} /\ first.entangledLanes \subseteq UsedTransitionLanes
    <3>1. root.entangledLanes \subseteq UsedTransitionLanes
      BY DEF TypeOK
    <3> QED
      BY <2>3, <3>1, AddedLanes DEF Hooks
  <2> HIDE DEF first
  <2>5. /\ root' \in Root(Lanes) /\ root'.pendingLanes = first.pendingLanes
        /\ root'.suspendedLanes = {} /\ root'.entangledLanes \subseteq UsedTransitionLanes
    <3>1. root' = EntangleTransitionUpdate(first, "transition", added)
      BY <2>1 DEF first
    <3> QED
      BY <2>4, <3>1, AddedLanes DEF Hooks
  <2>6. ASSUME NEW h \in Hooks
        PROVE  \E ls \in SUBSET UsedTransitionLanes :
                 hooks'[h] = [hooks[h] EXCEPT !.queue = @ \o added[h], !.lanes = ls]
    <3> DEFINE ls == IF Entangles(added[h]) THEN QueueLanes(h, added, updated.pendingLanes)
                     ELSE hooks[h].lanes
    <3>1. /\ QueueLanes(h, added, updated.pendingLanes) \subseteq UsedTransitionLanes
          /\ hooks[h].lanes \subseteq UsedTransitionLanes
      BY <2>3, AddedLanes DEF TypeOK
    <3>2. ls \in SUBSET UsedTransitionLanes
      BY <3>1
    <3>3. hooks'[h] = [hooks[h] EXCEPT !.queue = @ \o added[h], !.lanes = ls]
      BY <2>1
    <3> QED
      BY <3>2, <3>3
  <2> QED
    BY <2>1, <2>3, <2>4, <2>5, <2>6 DEF lanes
<1> QED
  BY <1>1, <1>2

\* The types of what is there do not shrink.
LEMMA MoreUpdates ==
  ASSUME TypeOK, started' \in Nat, started <= started', updates' \in Nat, updates <= updates',
         NEW h \in Hooks
  PROVE  StatesOf(h) \subseteq StatesOf(h)' /\ UpdatesOf(h) \subseteq UpdatesOf(h)'
<1>1. 1..started \subseteq 1..started' /\ 1..updates \subseteq 1..updates'
  BY DEF TypeOK
<1> QED
  BY <1>1 DEF StatesOf, UpdatesOf

\* What is added to the hooks by an event.
IsAdded(added) ==
  /\ \A h \in Hooks : \A u \in Elements(added[h]) :
       u.lane # NoLane /\ (u.revertLane # NoLane => h # "state" /\ u.lane = SyncLane)
  /\ \A u \in Elements(added["state"]) :
       u.action = updates + 1 /\ \A v \in Elements(added["state"]) : u = v

AllLanes(added) == UNION {LanesOf(added[h]) : h \in Hooks}

LEMMA AddedUpdates ==
  ASSUME TypeOK, NEW added, Dispatch(added), IsAdded(added),
         \A h \in Hooks : added[h] \in Seq(UpdatesOf(h)'),
         started' \in Nat, started <= started', updates' \in Nat, updates <= updates'
  PROVE  /\ \A h \in Hooks : LanesOf(added[h]) \subseteq Lanes
         /\ root' \in Root(Lanes) /\ root'.entangledLanes \subseteq UsedTransitionLanes
         /\ root'.pendingLanes = root.pendingLanes \cup AllLanes(added)
         /\ root'.suspendedLanes = {} \/ root' = root
         /\ microtask' \in BOOLEAN /\ (microtask => microtask')
         /\ \A h \in Hooks : LanesOf(added[h]) # {} => microtask'
         /\ hooks' = [h \in Hooks |-> hooks'[h]]
         /\ \A h \in Hooks :
              /\ hooks'[h] \in [memoizedState : StatesOf(h)', baseState : StatesOf(h)',
                                queue : Seq(UpdatesOf(h)'), lanes : SUBSET UsedTransitionLanes]
              /\ hooks'[h].memoizedState = hooks[h].memoizedState
              /\ hooks'[h].baseState = hooks[h].baseState
              /\ hooks'[h].queue = hooks[h].queue \o added[h]
              /\ Queued(h)' = Queued(h) \cup Elements(added[h])
<1> DEFINE S == UNION {UpdatesOf(h)' : h \in Hooks}
<1>1. ASSUME NEW h \in Hooks
      PROVE  added[h] \in Seq(S) /\ LanesOf(added[h]) \subseteq Lanes
  <2>1. added[h] \in Seq(UpdatesOf(h)') /\ UpdatesOf(h)' \subseteq S
    OBVIOUS
  <2> HIDE DEF S
  <2>2. added[h] \in Seq(S) /\ \A u \in Elements(added[h]) : u \in UpdatesOf(h)'
    BY <2>1 DEF Elements
  <2>3. \A u \in Elements(added[h]) : u.lane \in Lanes
    BY <2>2 DEF IsAdded, UpdatesOf
  <2> QED
    BY <2>2, <2>3 DEF LanesOf
<1> HIDE DEF S
<1>2. /\ root' \in Root(Lanes) /\ root'.entangledLanes \subseteq UsedTransitionLanes
      /\ root'.pendingLanes = root.pendingLanes \cup AllLanes(added)
      /\ root'.suspendedLanes = {} \/ root' = root
      /\ hooks' = [h \in Hooks |-> hooks'[h]]
      /\ \A h \in Hooks : \E lanes \in SUBSET UsedTransitionLanes :
           hooks'[h] = [hooks[h] EXCEPT !.queue = @ \o added[h], !.lanes = lanes]
      /\ microtask' \in BOOLEAN /\ (microtask => microtask')
      /\ \A h \in Hooks : LanesOf(added[h]) # {} => microtask'
  BY <1>1, AfterDispatch DEF AllLanes
<1>3. ASSUME NEW h \in Hooks
      PROVE  /\ hooks'[h] \in [memoizedState : StatesOf(h)', baseState : StatesOf(h)',
                                queue : Seq(UpdatesOf(h)'), lanes : SUBSET UsedTransitionLanes]
             /\ hooks'[h].memoizedState = hooks[h].memoizedState
             /\ hooks'[h].baseState = hooks[h].baseState
             /\ hooks'[h].queue = hooks[h].queue \o added[h]
             /\ Queued(h)' = Queued(h) \cup Elements(added[h])
  <2>1. PICK lanes \in SUBSET UsedTransitionLanes :
          hooks'[h] = [hooks[h] EXCEPT !.queue = @ \o added[h], !.lanes = lanes]
    BY <1>2
  <2>2. hooks[h] \in [memoizedState : StatesOf(h), baseState : StatesOf(h),
                      queue : Seq(UpdatesOf(h)), lanes : SUBSET UsedTransitionLanes]
    BY DEF TypeOK
  <2>3. StatesOf(h) \subseteq StatesOf(h)' /\ UpdatesOf(h) \subseteq UpdatesOf(h)'
    BY MoreUpdates
  <2> DEFINE T == UpdatesOf(h)'
             old == hooks[h].queue
             new == old \o added[h]
  <2>4. old \in Seq(T) /\ added[h] \in Seq(T)
    BY <2>2, <2>3
  <2> HIDE DEF T, old
  <2>5. new \in Seq(T) /\ Elements(new) = Elements(old) \cup Elements(added[h])
    BY <2>4, Concatenation
  <2> HIDE DEF new
  <2>6. hooks'[h] = [hooks[h] EXCEPT !.queue = new, !.lanes = lanes]
    BY <2>1 DEF new, old
  <2>7. /\ hooks'[h].memoizedState = hooks[h].memoizedState
        /\ hooks'[h].baseState = hooks[h].baseState
        /\ hooks'[h].queue = new /\ hooks'[h].lanes = lanes
        /\ hooks'[h] \in [memoizedState : StatesOf(h), baseState : StatesOf(h),
                          queue : Seq(T), lanes : SUBSET UsedTransitionLanes]
    BY <2>2, <2>5, <2>6
  <2>8. hooks'[h] \in [memoizedState : StatesOf(h)', baseState : StatesOf(h)',
                       queue : Seq(T), lanes : SUBSET UsedTransitionLanes]
    BY <2>3, <2>7
  <2>9. Queued(h)' = Elements(new)
    BY <2>7 DEF Queued
  <2> QED
    BY <2>5, <2>7, <2>8, <2>9 DEF new, old, T, Queued
<1> QED
  BY <1>1, <1>2, <1>3

\* What an event queues: the lanes, the listeners and the states of the hooks agree
\* as before.
LEMMA Queueing ==
  ASSUME IndInv, NEW added, Dispatch(added), IsAdded(added),
         \A h \in Hooks : added[h] \in Seq(UpdatesOf(h)'),
         started' \in Nat, started <= started', updates' \in Nat, updates <= updates'
  PROVE  /\ LanesAreExact' /\ SyncWorkIsQueued' /\ OptimisticIsSync' /\ WaitingIsNotShown'
         /\ \A l \in root'.suspendedLanes \ root'.pingedLanes : \E p \in pings : l \in p.lanes
<1>0. /\ TypeOK /\ SuspendedHasListener /\ LanesAreExact /\ SyncWorkIsQueued
      /\ OptimisticIsSync /\ WaitingIsNotShown
  BY DEF IndInv
<1>1. /\ root'.pendingLanes = root.pendingLanes \cup AllLanes(added)
      /\ root'.suspendedLanes = {} \/ root' = root
  <2>1. root'.pendingLanes = root.pendingLanes \cup AllLanes(added)
    BY <1>0, AddedUpdates, Zenon
  <2>2. root'.suspendedLanes = {} \/ root' = root
    BY <1>0, AddedUpdates, Zenon
  <2> QED
    BY <2>1, <2>2
<1>2. /\ microtask => microtask'
      /\ \A h \in Hooks : LanesOf(added[h]) # {} => microtask'
  BY <1>0, AddedUpdates, Zenon
<1>3. ASSUME NEW h \in Hooks
      PROVE  /\ hooks'[h].memoizedState = hooks[h].memoizedState
             /\ hooks'[h].baseState = hooks[h].baseState
             /\ Queued(h)' = Queued(h) \cup Elements(added[h])
  BY <1>0, AddedUpdates, Zenon
<1>4. LanesAreExact'
  <2>1. ASSUME NEW h \in Hooks
        PROVE  LanesOf(added[h]) = UNION {WaitsFor(u) : u \in Elements(added[h])}
    <3>1. \A u \in Elements(added[h]) : WaitsFor(u) = {u.lane}
      BY DEF IsAdded, WaitsFor
    <3> QED
      BY <3>1 DEF LanesOf
  <2> DEFINE old == UNION {Queued(h) : h \in Hooks}
             new == UNION {Elements(added[h]) : h \in Hooks}
  <2>2. UNION {Queued(h)' : h \in Hooks} = old \cup new
    BY <1>3
  <2>3. AllLanes(added) = UNION {WaitsFor(u) : u \in new}
    BY <2>1 DEF AllLanes
  <2>4. root.pendingLanes = UNION {WaitsFor(u) : u \in old}
    BY <1>0 DEF LanesAreExact
  <2> HIDE DEF old, new
  <2>5. root'.pendingLanes = UNION {WaitsFor(u) : u \in old \cup new}
    BY <1>1, <2>3, <2>4
  <2> QED
    BY <2>2, <2>5 DEF LanesAreExact
<1>5. SyncWorkIsQueued'
  <2>1. ASSUME SyncLane \in root'.pendingLanes
        PROVE  SyncLane \in root.pendingLanes \/ \E h \in Hooks : LanesOf(added[h]) # {}
    BY <1>1, <2>1 DEF AllLanes
  <2> QED
    BY <1>0, <1>2, <2>1, Zenon DEF SyncWorkIsQueued
<1>6. OptimisticIsSync'
  <2>1. ASSUME NEW h \in Hooks, NEW u \in Queued(h)', u.revertLane # NoLane
        PROVE  h # "state" /\ u.lane \in {SyncLane, NoLane}
    <3>1. u \in Queued(h) \/ u \in Elements(added[h])
      BY <1>3
    <3> QED
      BY <1>0, <2>1, <3>1 DEF OptimisticIsSync, IsAdded
  <2> QED
    BY <2>1 DEF OptimisticIsSync
<1>7. WaitingIsNotShown'
  <2> DEFINE T == Elements(added["state"])
  <2>1. /\ "state" \in Hooks
        /\ Queued("state")' = Queued("state") \cup T
        /\ hooks'["state"].baseState = hooks["state"].baseState
        /\ Shown("state")' = Shown("state")
    BY <1>3 DEF Hooks, Shown
  <2>2. hooks["state"] \in [memoizedState : StatesOf("state"), baseState : StatesOf("state"),
                            queue : Seq(UpdatesOf("state")), lanes : SUBSET UsedTransitionLanes]
    BY <1>0, <2>1 DEF TypeOK
  <2>3. /\ hooks["state"].baseState \subseteq 1..updates /\ Shown("state") \subseteq 1..updates
        /\ hooks["state"].queue \in Seq(UpdatesOf("state"))
    BY <2>2 DEF StatesOf, Shown
  <2>4. \A u \in Queued("state") : u \in UpdatesOf("state")
    BY <2>3 DEF Queued, Elements
  <2>5. \A u \in Queued("state") : u.action \in 1..updates
    BY <2>4 DEF UpdatesOf
  <2>6. \A u \in T : u.action = updates + 1 /\ \A v \in T : u = v
    BY DEF IsAdded
  <2>7. updates \in Nat
    BY <1>0 DEF TypeOK
  <2> HIDE DEF T
  <2>8. updates + 1 \notin 1..updates
    BY <2>7
  <2>9. ASSUME NEW u \in Queued("state") \cup T
         PROVE  /\ u.lane # NoLane => u.action \notin hooks["state"].baseState \cup Shown("state")
                /\ \A v \in Queued("state") \cup T : u.action = v.action => u = v
    <3>1. CASE u \in Queued("state")
      BY <2>5, <1>0, <2>6, <2>8, <3>1 DEF WaitingIsNotShown
    <3>2. CASE u \in T
      BY <2>3, <2>5, <2>6, <2>8, <3>2
    <3> QED
      BY <3>1, <3>2
  <2> QED
    BY <2>1, <2>9 DEF WaitingIsNotShown
<1>8. \A l \in root'.suspendedLanes \ root'.pingedLanes : \E p \in pings : l \in p.lanes
  BY <1>0, <1>1 DEF SuspendedHasListener
<1> QED
  BY <1>4, <1>5, <1>6, <1>7, <1>8

-----------------------------------------------------------------------------
(* The reducer *)

LEMMA HookTypes ==
  ASSUME TypeOK, NEW h \in Hooks
  PROVE  /\ hooks[h] \in [memoizedState : StatesOf(h), baseState : StatesOf(h),
                          queue : Seq(UpdatesOf(h)), lanes : SUBSET UsedTransitionLanes]
         /\ hooks[h].memoizedState \in StatesOf(h) /\ hooks[h].baseState \in StatesOf(h)
         /\ hooks[h].queue \in Seq(UpdatesOf(h))
         /\ Queued(h) \subseteq UpdatesOf(h)
         /\ Queued(h) = {hooks[h].queue[i] : i \in 1..Len(hooks[h].queue)}
<1>1. hooks[h] \in [memoizedState : StatesOf(h), baseState : StatesOf(h),
                   queue : Seq(UpdatesOf(h)), lanes : SUBSET UsedTransitionLanes]
  BY DEF TypeOK
<1>2. hooks[h].queue \in Seq(UpdatesOf(h))
  BY <1>1
<1> QED
  BY <1>1, <1>2 DEF Queued, Elements

\* Where the queue that is kept begins.
LEMMA RebasedFromFirst ==
  ASSUME NEW queue, Len(queue) \in Nat, NEW R
  PROVE  /\ RebasedFrom(queue, R) \in 1..Len(queue) + 1
         /\ \A i \in 1..RebasedFrom(queue, R) - 1 : ~IsRebased(queue[i], R)
         /\ \A i \in 1..Len(queue) : IsRebased(queue[i], R) => RebasedFrom(queue, R) <= i
<1> DEFINE T == {n \in 1..Len(queue) + 1 : n = Len(queue) + 1 \/ IsRebased(queue[n], R)}
           IsFirst(n) == /\ n = Len(queue) + 1 \/ IsRebased(queue[n], R)
                         /\ \A i \in 1..n-1 : ~IsRebased(queue[i], R)
<1>1. T \subseteq Nat /\ Len(queue) + 1 \in T
  OBVIOUS
<1>2. PICK n \in T : \A m \in T : n <= m
  <2> HIDE DEF T
  <2> QED
    BY <1>1, LeastElement
<1>3. n \in 1..Len(queue) + 1 /\ IsFirst(n)
  BY <1>2
<1>4. RebasedFrom(queue, R) = CHOOSE m \in 1..Len(queue) + 1 : IsFirst(m)
  BY DEF RebasedFrom
<1> HIDE DEF IsFirst, T
<1>5. RebasedFrom(queue, R) \in 1..Len(queue) + 1 /\ IsFirst(RebasedFrom(queue, R))
  BY <1>3, <1>4
<1> QED
  BY <1>5 DEF IsFirst

\* What a rendered update still waits for.
LEMMA RebasedUpdate ==
  ASSUME NEW h \in Hooks, NEW u \in UpdatesOf(h), NEW R \in SUBSET Lanes,
         u.revertLane # NoLane => h # "state" /\ u.lane \in {SyncLane, NoLane}
  PROVE  /\ Rebase(u, R) \in UpdatesOf(h)
         /\ Rebase(u, R).revertLane = u.revertLane /\ Rebase(u, R).action = u.action
         /\ Rebase(u, R).lane = IF Skips(u, R) THEN u.lane ELSE NoLane
         /\ ~Reverts(u, R) => WaitsFor(Rebase(u, R)) = {RemainingLane(u, R)} \ {NoLane}
         /\ RemainingLane(u, R) # NoLane => ~Reverts(u, R) /\ IsRebased(u, R)
         /\ RemainingLane(u, R) \in Lanes \cup {NoLane}
         /\ RemainingLane(u, R) = SyncLane => SyncLane \notin R /\ SyncLane \in WaitsFor(u)
<1>1. /\ u.lane \in Lanes \cup {NoLane} /\ u.revertLane \in UsedTransitionLanes \cup {NoLane}
      /\ u = [lane |-> u.lane, revertLane |-> u.revertLane, action |-> u.action]
  BY DEF UpdatesOf
<1>2. /\ SyncLane # NoLane /\ SyncLane \notin UsedTransitionLanes /\ NoLane \notin Lanes
      /\ UsedTransitionLanes \subseteq Lanes
  BY LaneFacts
<1>3. NoLane \notin R
  BY <1>2
<1>4. CASE Skips(u, R)
  <2>1. /\ Rebase(u, R) = u /\ RemainingLane(u, R) = u.lane /\ ~Reverts(u, R)
        /\ IsRebased(u, R) /\ u.lane # NoLane /\ u.lane \notin R
    BY <1>4 DEF Rebase, RemainingLane, Reverts, IsRebased, Skips
  <2>2. WaitsFor(u) = {u.lane}
    BY <1>1, <1>2, <2>1 DEF WaitsFor
  <2> QED
    BY <1>1, <1>2, <1>4, <2>1, <2>2
<1>5. CASE ~Skips(u, R)
  <2> DEFINE v == [u EXCEPT !.lane = NoLane]
  <2>1. /\ Rebase(u, R) = v /\ v \in UpdatesOf(h)
        /\ v.lane = NoLane /\ v.revertLane = u.revertLane /\ v.action = u.action
    BY <1>1, <1>5 DEF Rebase, UpdatesOf
  <2> HIDE DEF v
  <2>2. WaitsFor(v) = {u.revertLane} \ {NoLane}
    BY <1>2, <2>1 DEF WaitsFor
  <2>3. CASE Reverts(u, R)
    <3>1. RemainingLane(u, R) = NoLane
      BY <1>5, <2>3 DEF RemainingLane, Applies
    <3> QED
      BY <1>2, <1>5, <2>1, <2>3, <3>1
  <2>4. CASE ~Reverts(u, R)
    <3>1. RemainingLane(u, R) = u.revertLane /\ (u.revertLane # NoLane => IsRebased(u, R))
      BY <1>5, <2>4 DEF RemainingLane, Applies, IsRebased
    <3> QED
      BY <1>1, <1>2, <1>5, <2>1, <2>2, <2>4, <3>1
  <2> QED
    BY <2>3, <2>4
<1> QED
  BY <1>4, <1>5

\* The states of a reducer: every applied update in a set, the last one for useTransition.
LEMMA Reduced ==
  ASSUME NEW h \in Hooks, NEW base \in StatesOf(h), NEW s \in Seq(UpdatesOf(h)), NEW T
  PROVE  /\ Reduce(h, base, Only(s, T)) \in StatesOf(h)
         /\ h # "transition" =>
              Reduce(h, base, Only(s, T)) = base \cup {u.action : u \in Elements(s) \cap T}
         /\ h = "transition" =>
              \/ Reduce(h, base, Only(s, T)) = base
              \/ \E u \in Elements(s) \cap T : Reduce(h, base, Only(s, T)) = u.action
<1> DEFINE kept == Only(s, T)
<1>1. kept \in Seq(UpdatesOf(h)) /\ Elements(kept) = Elements(s) \cap T
  BY OnlyKeeps, OnlyElements
<1> HIDE DEF kept
<1>2. \A u \in Elements(kept) : u \in UpdatesOf(h)
  BY <1>1 DEF Elements
<1>3. CASE h # "transition"
  <2>1. Reduce(h, base, kept) = base \cup {u.action : u \in Elements(kept)}
    BY <1>3 DEF Reduce
  <2>2. base \subseteq 1..updates /\ \A u \in Elements(kept) : u.action \in 1..updates
    BY <1>2, <1>3 DEF StatesOf, UpdatesOf
  <2>3. Reduce(h, base, kept) \subseteq 1..updates
    BY <2>1, <2>2
  <2>4. Reduce(h, base, kept) \in StatesOf(h)
    BY <1>3, <2>3 DEF StatesOf
  <2>5. Reduce(h, base, kept) = base \cup {u.action : u \in Elements(s) \cap T}
    BY <1>1, <2>1
  <2> QED
    BY <1>3, <2>4, <2>5 DEF kept
<1>4. CASE h = "transition"
  <2>1. Reduce(h, base, kept) = IF kept = <<>> THEN base ELSE kept[Len(kept)].action
    BY <1>4 DEF Reduce
  <2>2. CASE kept = <<>>
    BY <1>4, <2>1, <2>2 DEF kept
  <2>3. CASE kept # <<>>
    <3>1. Len(kept) \in 1..Len(kept) /\ kept[Len(kept)] \in Elements(kept)
      BY <1>1, <2>3 DEF Elements
    <3>2. kept[Len(kept)].action \in 1..started \cup {Pending}
      BY <1>2, <1>4, <3>1 DEF UpdatesOf
    <3>3. kept[Len(kept)].action \in StatesOf(h)
      BY <1>4, <3>2 DEF StatesOf
    <3> QED
      BY <1>1, <1>4, <2>1, <2>3, <3>1, <3>3 DEF kept
  <2> QED
    BY <2>2, <2>3
<1> QED
  BY <1>3, <1>4 DEF kept

\* The states that a render computes: what is applied, and what of it comes before
\* everything that is kept.
LEMMA RenderedStates ==
  ASSUME TypeOK, NEW h \in Hooks, NEW base \in StatesOf(h), NEW R \in SUBSET Lanes,
         NEW hook, hook = UpdateReducer(h, base, R).hook
  PROVE  /\ hook.memoizedState \in StatesOf(h) /\ hook.baseState \in StatesOf(h)
         /\ h # "transition" =>
              /\ hook.memoizedState = base \cup {u.action : u \in {v \in Queued(h) : Applies(v, R)}}
              /\ hook.baseState \subseteq hook.memoizedState
         /\ h = "transition" =>
              \A state \in {hook.memoizedState, hook.baseState} :
                state = base \/ \E u \in Queued(h) : Applies(u, R) /\ state = u.action
<1> DEFINE queue == hooks[h].queue
           from == RebasedFrom(queue, R)
           applied == {u \in Elements(queue) : Applies(u, R)}
           first == SubSeq(queue, 1, from - 1)
<1>1. queue \in Seq(UpdatesOf(h)) /\ Queued(h) = Elements(queue)
  BY HookTypes DEF Queued
<1>2. /\ hook.memoizedState = Reduce(h, base, Only(queue, applied))
      /\ hook.baseState = Reduce(h, base, Only(first, applied))
  BY DEF UpdateReducer
<1> HIDE DEF queue
<1>3. Len(queue) \in Nat /\ from \in 1..Len(queue) + 1
  BY <1>1, RebasedFromFirst
<1> HIDE DEF from
<1>4. /\ first \in Seq(UpdatesOf(h)) /\ Elements(first) = {queue[i] : i \in 1..from - 1}
  BY <1>1, <1>3, Parts
<1>5. Elements(first) \subseteq Elements(queue)
  <2>1. DOMAIN queue = 1..Len(queue) /\ 1..from - 1 \subseteq 1..Len(queue)
    BY <1>1, <1>3
  <2> QED
    BY <1>4, <2>1 DEF Elements
<1> HIDE DEF first
<1>6. Elements(queue) \cap applied = applied /\ Elements(first) \cap applied \subseteq applied
  OBVIOUS
<1>7. \A u \in applied : u \in Queued(h) /\ Applies(u, R)
  BY <1>1
<1>8. applied = {v \in Queued(h) : Applies(v, R)}
  BY <1>1
<1> HIDE DEF applied
<1>9. hook.memoizedState \in StatesOf(h) /\ hook.baseState \in StatesOf(h)
  BY <1>1, <1>2, <1>4, Reduced
<1>10. CASE h # "transition"
  <2>1. /\ hook.memoizedState = base \cup {u.action : u \in Elements(queue) \cap applied}
        /\ hook.baseState = base \cup {u.action : u \in Elements(first) \cap applied}
    BY <1>1, <1>2, <1>4, <1>10, Reduced
  <2> QED
    BY <1>6, <1>8, <1>9, <1>10, <2>1
<1>11. CASE h = "transition"
  <2>1. \/ hook.memoizedState = base
        \/ \E u \in Elements(queue) \cap applied : hook.memoizedState = u.action
    BY <1>1, <1>2, <1>11, Reduced
  <2>2. \/ hook.baseState = base
        \/ \E u \in Elements(first) \cap applied : hook.baseState = u.action
    BY <1>2, <1>4, <1>11, Reduced
  <2> QED
    BY <1>6, <1>7, <1>9, <1>11, <2>1, <2>2
<1> QED
  BY <1>10, <1>11

\* What is left of an update that is not reverted.
Survives(v, h, R) == \E u \in Queued(h) : ~Reverts(u, R) /\ v = Rebase(u, R)

\* The positions in the queue of what a render leaves of it.
Rebases(at, new, queue, R) ==
  /\ at \in [1..Len(new) -> 1..Len(queue)]
  /\ \A i, j \in DOMAIN at : i < j => at[i] < at[j]
  /\ \A i \in DOMAIN at : new[i] = Rebase(queue[at[i]], R)
  /\ \A i \in 1..Len(queue) :
       /\ ~Reverts(queue[i], R)
       /\ \E j \in 1..i : IsRebased(queue[j], R)
       => \E k \in DOMAIN at : at[k] = i

\* The queue that a render leaves: what is not reverted, rebased, from the first update
\* that is skipped or optimistic.
LEMMA RenderedQueue ==
  ASSUME TypeOK, OptimisticIsSync, NEW h \in Hooks, NEW base \in StatesOf(h),
         NEW R \in SUBSET Lanes, NEW r, r = UpdateReducer(h, base, R)
  PROVE  /\ r.hook.queue \in Seq(UpdatesOf(h))
         /\ \A v \in Elements(r.hook.queue) : Survives(v, h, R)
         /\ \A u \in Queued(h) :
              IsRebased(u, R) => Rebase(u, R) \in Elements(r.hook.queue)
         /\ \E at : Rebases(at, r.hook.queue, hooks[h].queue, R)
<1> DEFINE queue == hooks[h].queue
           from == RebasedFrom(queue, R)
           T == {u \in Elements(queue) : ~Reverts(u, R)}
           last == SubSeq(queue, from, Len(queue))
           kept == Only(last, T)
           new == [i \in DOMAIN kept |-> Rebase(kept[i], R)]
<1>1. queue \in Seq(UpdatesOf(h)) /\ Queued(h) = Elements(queue)
  BY HookTypes DEF Queued
<1>2. r.hook.queue = new
  BY DEF UpdateReducer
<1>3. \A u \in Queued(h) : Rebase(u, R) \in UpdatesOf(h)
  BY HookTypes, RebasedUpdate DEF OptimisticIsSync
<1> HIDE DEF queue
<1>4. /\ Len(queue) \in Nat /\ from \in 1..Len(queue) + 1
      /\ \A i \in 1..Len(queue) : IsRebased(queue[i], R) => from <= i
  BY <1>1, RebasedFromFirst
<1>5. DOMAIN queue = 1..Len(queue) /\ \A i \in 1..Len(queue) : queue[i] \in Elements(queue)
  BY <1>1 DEF Elements
<1> HIDE DEF from
<1>6. /\ last \in Seq(UpdatesOf(h)) /\ Len(last) = Len(queue) + 1 - from
      /\ \A i \in 1..Len(last) : last[i] = queue[from - 1 + i]
  BY <1>1, <1>4, Parts
<1> HIDE DEF last
<1>7. kept \in Seq(UpdatesOf(h)) /\ \E e : Keeps(e, kept, last, Len(last), T)
  BY <1>6, OnlyKeeps
<1> HIDE DEF kept
<1>8. PICK e : Keeps(e, kept, last, Len(last), T)
  BY <1>7
<1>9. DOMAIN kept = 1..Len(kept) /\ Len(kept) \in Nat
  BY <1>7
<1> DEFINE at == [k \in 1..Len(kept) |-> from - 1 + e[k]]
<1>10. ASSUME NEW k \in 1..Len(kept)
       PROVE  /\ at[k] \in 1..Len(queue) /\ e[k] \in 1..Len(last) /\ at[k] = from - 1 + e[k]
              /\ kept[k] = queue[at[k]] /\ queue[at[k]] \in T
  <2>1. e[k] \in 1..Len(last) /\ kept[k] = last[e[k]] /\ last[e[k]] \in T
    BY <1>8 DEF Keeps
  <2>2. at[k] = from - 1 + e[k]
    OBVIOUS
  <2> HIDE DEF at, T
  <2>3. last[e[k]] = queue[at[k]]
    BY <1>6, <2>1, <2>2
  <2>4. at[k] \in 1..Len(queue)
    BY <1>4, <1>6, <2>1, <2>2, SMTT(30)
  <2> QED
    BY <2>1, <2>2, <2>3, <2>4
<1>11. T \subseteq Queued(h) /\ \A u \in T : ~Reverts(u, R)
  BY <1>1
<1>12. ASSUME NEW i \in 1..Len(queue), queue[i] \in T, from <= i
       PROVE  \E k \in 1..Len(kept) : at[k] = i
  <2>1. i + 1 - from \in 1..Len(last) /\ last[i + 1 - from] = queue[i]
    BY <1>4, <1>6, <1>12
  <2>2. PICK k \in 1..Len(kept) : e[k] = i + 1 - from
    BY <1>8, <1>12, <2>1 DEF Keeps
  <2> QED
    BY <1>4, <2>2
<1>13. /\ \A k \in 1..Len(kept) : kept[k] \in Queued(h)
       /\ \A k \in 1..Len(kept) : Rebase(kept[k], R) \in UpdatesOf(h)
  BY <1>3, <1>10, <1>11
<1>14. /\ new \in Seq(UpdatesOf(h)) /\ Len(new) = Len(kept) /\ DOMAIN new = 1..Len(kept)
       /\ \A k \in 1..Len(kept) : new[k] = Rebase(kept[k], R)
  BY <1>9, <1>13
<1> HIDE DEF new
<1>15. \A v \in Elements(new) : Survives(v, h, R)
  BY <1>10, <1>11, <1>14 DEF Elements, Survives
<1>16. ASSUME NEW u \in Queued(h), IsRebased(u, R)
       PROVE  Rebase(u, R) \in Elements(new)
  <2>1. PICK i \in 1..Len(queue) : queue[i] = u
    BY <1>1, <1>5 DEF Elements
  <2>2. from <= i
    BY <1>4, <1>16, <2>1
  <2>3. u \in T
    BY <1>1, <1>16 DEF IsRebased, Reverts, Applies
  <2> HIDE DEF at
  <2>4. PICK k \in 1..Len(kept) : at[k] = i
    BY <1>12, <2>1, <2>2, <2>3
  <2>5. kept[k] = u
    BY <1>10, <2>1, <2>4
  <2> QED
    BY <1>14, <2>5 DEF Elements
<1>17. /\ at \in [1..Len(new) -> 1..Len(queue)]
       /\ \A i, j \in DOMAIN at : i < j => at[i] < at[j]
       /\ \A i \in DOMAIN at : new[i] = Rebase(queue[at[i]], R)
  <2>1. \A i, j \in 1..Len(kept) : i < j => e[i] < e[j]
    BY <1>8 DEF Keeps
  <2>2. \A i, j \in 1..Len(kept) : i < j => at[i] < at[j]
    BY <1>4, <1>6, <1>10, <2>1
  <2>3. DOMAIN at = 1..Len(kept) /\ at \in [1..Len(kept) -> 1..Len(queue)]
    BY <1>10
  <2> HIDE DEF at
  <2>4. \A i \in 1..Len(kept) : new[i] = Rebase(queue[at[i]], R)
    BY <1>10, <1>14
  <2> QED
    BY <1>14, <2>2, <2>3, <2>4
<1>18. ASSUME NEW i \in 1..Len(queue), ~Reverts(queue[i], R),
              NEW j \in 1..i, IsRebased(queue[j], R)
       PROVE  \E k \in DOMAIN at : at[k] = i
  <2>1. j \in 1..Len(queue) /\ from <= j /\ from <= i
    BY <1>4, <1>18
  <2>2. queue[i] \in T
    BY <1>5, <1>18
  <2>3. DOMAIN at = 1..Len(kept)
    OBVIOUS
  <2> HIDE DEF at
  <2> QED
    BY <1>12, <2>1, <2>2, <2>3
<1> HIDE DEF at
<1>19. Rebases(at, new, queue, R)
  BY <1>17, <1>18 DEF Rebases
<1> QED
  BY <1>2, <1>14, <1>15, <1>16, <1>19 DEF queue

\* The lanes that a hook leaves to the root are those its queue still waits for.
LEMMA RenderedLanes ==
  ASSUME TypeOK, OptimisticIsSync, NEW h \in Hooks, NEW base \in StatesOf(h),
         NEW R \in SUBSET Lanes, NEW r, r = UpdateReducer(h, base, R)
  PROVE  /\ r.lanes = UNION {WaitsFor(v) : v \in Elements(r.hook.queue)}
         /\ r.lanes \subseteq Lanes
         /\ SyncLane \in r.lanes =>
              SyncLane \notin R /\ \E u \in Queued(h) : SyncLane \in WaitsFor(u)
<1> DEFINE new == Elements(r.hook.queue)
<1>1. r.lanes = {RemainingLane(u, R) : u \in Queued(h)} \ {NoLane}
  BY DEF UpdateReducer, Queued
<1>2. /\ \A v \in new : \E u \in Queued(h) : ~Reverts(u, R) /\ v = Rebase(u, R)
      /\ \A u \in Queued(h) : IsRebased(u, R) => Rebase(u, R) \in new
  <2>1. \A v \in Elements(r.hook.queue) : Survives(v, h, R)
    BY RenderedQueue, Zenon
  <2>2. \A u \in Queued(h) : IsRebased(u, R) => Rebase(u, R) \in Elements(r.hook.queue)
    BY RenderedQueue, Zenon
  <2> QED
    BY <2>1, <2>2 DEF Survives
<1> HIDE DEF new
<1>3. ASSUME NEW u \in Queued(h)
      PROVE  /\ ~Reverts(u, R) => WaitsFor(Rebase(u, R)) = {RemainingLane(u, R)} \ {NoLane}
             /\ RemainingLane(u, R) # NoLane => ~Reverts(u, R) /\ IsRebased(u, R)
             /\ RemainingLane(u, R) \in Lanes \cup {NoLane}
             /\ RemainingLane(u, R) = SyncLane => SyncLane \notin R /\ SyncLane \in WaitsFor(u)
  BY HookTypes, RebasedUpdate DEF OptimisticIsSync
<1>4. r.lanes \subseteq UNION {WaitsFor(v) : v \in new}
  BY <1>1, <1>2, <1>3
<1>5. UNION {WaitsFor(v) : v \in new} \subseteq r.lanes
  BY <1>1, <1>2, <1>3
<1>6. r.lanes \subseteq Lanes
  BY <1>1, <1>3
<1>7. SyncLane \in r.lanes => SyncLane \notin R /\ \E u \in Queued(h) : SyncLane \in WaitsFor(u)
  BY <1>1, <1>3
<1> QED
  BY <1>4, <1>5, <1>6, <1>7 DEF new

LEMMA RenderedHook ==
  ASSUME TypeOK, OptimisticIsSync, NEW h \in Hooks, NEW base \in StatesOf(h),
         NEW R \in SUBSET Lanes, NEW r, r = UpdateReducer(h, base, R)
  PROVE  /\ r.hook \in [memoizedState : StatesOf(h), baseState : StatesOf(h),
                        queue : Seq(UpdatesOf(h)), lanes : SUBSET UsedTransitionLanes]
         /\ r.suspends <=> /\ r.hook.memoizedState # Shown(h)
                           /\ \E u \in Queued(h) : ReadsScope(u, R)
<1>1. /\ r.hook = [memoizedState |-> r.hook.memoizedState, baseState |-> r.hook.baseState,
                  queue |-> r.hook.queue, lanes |-> r.hook.lanes]
      /\ r.hook.lanes \in {{}, hooks[h].lanes}
  BY DEF UpdateReducer
<1>2. r.hook.memoizedState \in StatesOf(h) /\ r.hook.baseState \in StatesOf(h)
  BY RenderedStates
<1>3. r.hook.queue \in Seq(UpdatesOf(h))
  BY RenderedQueue
<1>4. hooks[h].lanes \subseteq UsedTransitionLanes
  BY HookTypes
<1>5. r.hook \in [memoizedState : StatesOf(h), baseState : StatesOf(h),
                 queue : Seq(UpdatesOf(h)), lanes : SUBSET UsedTransitionLanes]
  BY <1>1, <1>2, <1>3, <1>4
<1>6. r.suspends <=> /\ r.hook.memoizedState # Shown(h)
                     /\ \E u \in Queued(h) : ReadsScope(u, R)
  BY DEF UpdateReducer, Shown, Queued
<1> QED
  BY <1>5, <1>6

-----------------------------------------------------------------------------
(* A render of the lanes R suspends or is committed *)

Suspended(R) ==
  LET on == SuspendsOn(RenderHooks(R))
  IN  /\ on # {}
      /\ root' = MarkRootSuspended(root, R, TRUE)
      /\ pings' = pings \cup {[on |-> w, lanes |-> R] : w \in on}
      /\ hooks' = hooks

Committed(R) ==
  LET result == RenderHooks(R)
  IN  /\ SuspendsOn(result) = {}
      /\ hooks' = [h \in Hooks |-> result[h].hook]
      /\ root' = MarkRootFinished(root, UNION {result[h].lanes : h \in Hooks})
      /\ pings' = pings

LEMMA RenderOutcomes ==
  ASSUME TypeOK, NEW lanes \in SUBSET Lanes, Render(lanes)
  PROVE  /\ GetEntangledLanes(root, lanes) \in SUBSET Lanes
         /\ lanes = {SyncLane} => GetEntangledLanes(root, lanes) = {SyncLane}
         /\ \/ Suspended(GetEntangledLanes(root, lanes))
            \/ Committed(GetEntangledLanes(root, lanes))
<1>1. GetEntangledLanes(root, lanes) \in SUBSET Lanes
  <2>1. root.entanglements \in [Lanes -> SUBSET Lanes]
    BY DEF TypeOK, Root
  <2>2. InputContinuousLane \notin Lanes
    BY LaneFacts DEF InputContinuousLane, SyncLane, TransitionLanes, TransitionUpdateLanes,
                     TransitionDeferredLanes
  <2> QED
    BY <2>1, <2>2 DEF GetEntangledLanes
<1>2. ASSUME lanes = {SyncLane}
      PROVE  GetEntangledLanes(root, lanes) = {SyncLane}
  <2>1. SyncLane \notin root.entangledLanes
    BY LaneFacts DEF TypeOK
  <2>2. InputContinuousLane \notin lanes
    BY <1>2 DEF InputContinuousLane, SyncLane
  <2> QED
    BY <1>2, <2>1, <2>2 DEF GetEntangledLanes
<1>3. \/ Suspended(GetEntangledLanes(root, lanes))
      \/ Committed(GetEntangledLanes(root, lanes))
  BY DEF Render, Suspended, Committed
<1> QED
  BY <1>1, <1>2, <1>3

LEMMA NextLanes ==
  ASSUME TypeOK
  PROVE  GetNextLanes(root, {}, FALSE) \subseteq root.pendingLanes
<1>1. root.pendingLanes \cap NonIdleLanes = root.pendingLanes
  <2>1. Lanes \subseteq NonIdleLanes
    BY AsyncActionAssumption DEF Lanes, UsedTransitionLanes, SyncLane, NonIdleLanes
  <2> QED
    BY <2>1 DEF TypeOK, Root
<1>2. \A lanes : HighestPriorityLanes(lanes) \subseteq lanes
  BY DEF HighestPriorityLanes
<1>3. CASE root.pendingLanes # {}
  <2>1. NextLanesIgnoringWip(root, FALSE) \subseteq root.pendingLanes
    BY <1>1, <1>2, <1>3 DEF NextLanesIgnoringWip
  <2> QED
    BY <2>1 DEF GetNextLanes, KeepsWorking
<1>4. CASE root.pendingLanes = {}
  BY <1>4 DEF GetNextLanes
<1> QED
  BY <1>3, <1>4

\* Each hook is rendered from its base state, the optimistic one from the state.
LEMMA RenderedHooks ==
  ASSUME TypeOK, NEW R \in SUBSET Lanes, NEW h \in Hooks
  PROVE  \E base \in StatesOf(h) :
           /\ RenderHooks(R)[h] = UpdateReducer(h, base, R)
           /\ h # "optimistic" => base = hooks[h].baseState
<1>1. CASE h # "optimistic"
  <2>1. hooks[h].baseState \in StatesOf(h)
    BY HookTypes
  <2>2. RenderHooks(R)[h] = UpdateReducer(h, hooks[h].baseState, R)
    BY <1>1 DEF RenderHooks
  <2> QED
    BY <2>1, <2>2
<1>2. CASE h = "optimistic"
  <2> DEFINE base == UpdateReducer("state", hooks["state"].baseState, R).hook.memoizedState
  <2>1. "state" \in Hooks /\ hooks["state"].baseState \in StatesOf("state")
    BY HookTypes DEF Hooks
  <2>2. base \in StatesOf("state")
    BY <2>1, RenderedStates
  <2>3. RenderHooks(R)[h] = UpdateReducer(h, base, R)
    BY <1>2 DEF RenderHooks
  <2> HIDE DEF base
  <2>4. base \in StatesOf(h)
    BY <1>2, <2>2 DEF StatesOf
  <2> QED
    BY <1>2, <2>3, <2>4
<1> QED
  BY <1>1, <1>2

\* What a commit shows of a hook: nothing in it made the render suspend.
LEMMA CommittedHook ==
  ASSUME TypeOK, OptimisticIsSync, NEW R \in SUBSET Lanes, Committed(R), NEW h \in Hooks
  PROVE  \E base \in StatesOf(h) :
           /\ hooks'[h] = UpdateReducer(h, base, R).hook
           /\ h # "optimistic" => base = hooks[h].baseState
           /\ hooks'[h].memoizedState # Shown(h) => \A u \in Queued(h) : ~ReadsScope(u, R)
<1>1. PICK base \in StatesOf(h) :
        /\ RenderHooks(R)[h] = UpdateReducer(h, base, R)
        /\ h # "optimistic" => base = hooks[h].baseState
  BY RenderedHooks
<1> DEFINE r == RenderHooks(R)[h]
<1>2. hooks'[h] = r.hook
  BY DEF Committed
<1>3. ~r.suspends
  <2>1. ASSUME \E g \in Hooks : RenderHooks(R)[g].suspends
        PROVE  FALSE
    <3>1. SuspendsOn(RenderHooks(R)) = {Scope}
      BY <2>1, Zenon DEF SuspendsOn
    <3>2. SuspendsOn(RenderHooks(R)) = {}
      BY DEF Committed
    <3> QED
      BY <3>1, <3>2
  <2> QED
    BY <2>1, Zenon
<1>4. r = UpdateReducer(h, base, R)
  BY <1>1
<1> HIDE DEF r
<1>5. r.suspends <=> r.hook.memoizedState # Shown(h) /\ \E u \in Queued(h) : ReadsScope(u, R)
  BY <1>4, RenderedHook, Zenon
<1>6. hooks'[h].memoizedState # Shown(h) => \A u \in Queued(h) : ~ReadsScope(u, R)
  BY <1>2, <1>3, <1>5, Zenon
<1>7. hooks'[h] = UpdateReducer(h, base, R).hook
  BY <1>2, <1>4
<1> QED
  BY <1>1, <1>6, <1>7

\* A commit leaves the lanes pending that the queues wait for, and no listener waits
\* for what is suspended.
LEMMA CommittedLanes ==
  ASSUME TypeOK, OptimisticIsSync, LanesAreExact, NEW R \in SUBSET Lanes, Committed(R)
  PROVE  /\ root' \in Root(Lanes) /\ root'.entangledLanes \subseteq UsedTransitionLanes
         /\ root'.suspendedLanes = {} /\ LanesAreExact'
         /\ SyncLane \in root'.pendingLanes => SyncLane \notin R /\ SyncLane \in root.pendingLanes
<1> DEFINE remaining == UNION {RenderHooks(R)[h].lanes : h \in Hooks}
<1>1. ASSUME NEW h \in Hooks
      PROVE  /\ RenderHooks(R)[h].lanes = UNION {WaitsFor(v) : v \in Queued(h)'}
             /\ RenderHooks(R)[h].lanes \subseteq Lanes
             /\ SyncLane \in RenderHooks(R)[h].lanes =>
                  SyncLane \notin R /\ \E u \in Queued(h) : SyncLane \in WaitsFor(u)
  <2>1. PICK base \in StatesOf(h) : RenderHooks(R)[h] = UpdateReducer(h, base, R)
    BY RenderedHooks
  <2> DEFINE r == RenderHooks(R)[h]
  <2>2. Queued(h)' = Elements(r.hook.queue)
    BY DEF Committed, Queued
  <2>3. r = UpdateReducer(h, base, R)
    BY <2>1
  <2> HIDE DEF r
  <2>4. /\ r.lanes = UNION {WaitsFor(v) : v \in Elements(r.hook.queue)}
        /\ r.lanes \subseteq Lanes
        /\ SyncLane \in r.lanes =>
             SyncLane \notin R /\ \E u \in Queued(h) : SyncLane \in WaitsFor(u)
    BY <2>3, RenderedLanes
  <2> QED
    BY <2>2, <2>4 DEF r
<1>2. root' = MarkRootFinished(root, remaining)
  BY DEF Committed
<1>3. remaining = UNION {WaitsFor(v) : v \in UNION {Queued(h)' : h \in Hooks}}
  BY <1>1
<1>4. remaining \subseteq Lanes
  BY <1>1
<1>5. SyncLane \in remaining => SyncLane \notin R /\ SyncLane \in root.pendingLanes
  BY <1>1 DEF LanesAreExact
<1> HIDE DEF remaining
<1>6. root \in Root(Lanes) /\ root.entangledLanes \subseteq UsedTransitionLanes
  BY DEF TypeOK
<1>7. /\ root' \in Root(Lanes) /\ root'.entangledLanes \subseteq UsedTransitionLanes
      /\ root'.suspendedLanes = {} /\ root'.pendingLanes = remaining
  BY <1>2, <1>4, <1>6 DEF MarkRootFinished, Root
<1>8. LanesAreExact'
  BY <1>3, <1>7 DEF LanesAreExact
<1> QED
  BY <1>5, <1>7, <1>8

LEMMA CommittedQueue ==
  ASSUME TypeOK, OptimisticIsSync, NEW R \in SUBSET Lanes, Committed(R), NEW h \in Hooks
  PROVE  /\ hooks'[h] \in [memoizedState : StatesOf(h), baseState : StatesOf(h),
                           queue : Seq(UpdatesOf(h)), lanes : SUBSET UsedTransitionLanes]
         /\ \A v \in Queued(h)' : Survives(v, h, R)
         /\ \E at : Rebases(at, hooks'[h].queue, hooks[h].queue, R)
<1>1. PICK base \in StatesOf(h) : hooks'[h] = UpdateReducer(h, base, R).hook
  BY CommittedHook
<1> DEFINE r == UpdateReducer(h, base, R)
<1>2. hooks'[h] = r.hook /\ Queued(h)' = Elements(r.hook.queue)
  BY <1>1 DEF Queued
<1>3. r = UpdateReducer(h, base, R)
  OBVIOUS
<1> HIDE DEF r
<1>4. r.hook \in [memoizedState : StatesOf(h), baseState : StatesOf(h),
                 queue : Seq(UpdatesOf(h)), lanes : SUBSET UsedTransitionLanes]
  BY <1>3, RenderedHook, Zenon
<1>5. \A v \in Elements(r.hook.queue) : Survives(v, h, R)
  BY <1>3, RenderedQueue, Zenon
<1>6. \E at : Rebases(at, r.hook.queue, hooks[h].queue, R)
  BY <1>3, RenderedQueue, Zenon
<1> QED
  BY <1>2, <1>4, <1>5, <1>6

LEMMA SurvivingUpdate ==
  ASSUME TypeOK, OptimisticIsSync, NEW R \in SUBSET Lanes, NEW h \in Hooks, NEW v,
         Survives(v, h, R)
  PROVE  \E u \in Queued(h) :
           /\ v = Rebase(u, R) /\ ~Reverts(u, R) /\ v.action = u.action
           /\ v.revertLane = u.revertLane /\ v.lane = IF Skips(u, R) THEN u.lane ELSE NoLane
<1>1. PICK u \in Queued(h) : ~Reverts(u, R) /\ v = Rebase(u, R)
  BY DEF Survives
<1>2. /\ Rebase(u, R).revertLane = u.revertLane /\ Rebase(u, R).action = u.action
      /\ Rebase(u, R).lane = IF Skips(u, R) THEN u.lane ELSE NoLane
  BY HookTypes, RebasedUpdate DEF OptimisticIsSync
<1> QED
  BY <1>1, <1>2

LEMMA CommittedOptimistic ==
  ASSUME TypeOK, OptimisticIsSync, NEW R \in SUBSET Lanes, Committed(R)
  PROVE  OptimisticIsSync'
<1>1. ASSUME NEW h \in Hooks, NEW v \in Queued(h)', v.revertLane # NoLane
      PROVE  h # "state" /\ v.lane \in {SyncLane, NoLane}
  <2>1. Survives(v, h, R)
    BY CommittedQueue, Zenon
  <2>2. PICK u \in Queued(h) :
          /\ v.revertLane = u.revertLane
          /\ v.lane = IF Skips(u, R) THEN u.lane ELSE NoLane
    BY <2>1, SurvivingUpdate
  <2> QED
    BY <1>1, <2>2 DEF OptimisticIsSync
<1> QED
  BY <1>1 DEF OptimisticIsSync

LEMMA CommittedState ==
  ASSUME TypeOK, OptimisticIsSync, WaitingIsNotShown, NEW R \in SUBSET Lanes, Committed(R)
  PROVE  WaitingIsNotShown'
<1> DEFINE applied == {v \in Queued("state") : Applies(v, R)}
<1>1. "state" \in Hooks
  BY DEF Hooks
<1>2. /\ hooks'["state"].memoizedState
             = hooks["state"].baseState \cup {u.action : u \in applied}
      /\ hooks'["state"].baseState \subseteq hooks'["state"].memoizedState
  <2>1. PICK base \in StatesOf("state") :
          /\ hooks'["state"] = UpdateReducer("state", base, R).hook
          /\ "state" # "optimistic" => base = hooks["state"].baseState
    BY <1>1, CommittedHook
  <2>2. base = hooks["state"].baseState
    BY <2>1
  <2> DEFINE hook == hooks'["state"]
  <2>3. hook = UpdateReducer("state", base, R).hook
    BY <2>1
  <2> HIDE DEF hook
  <2>4. "state" # "transition" => /\ hook.memoizedState = base \cup
                                       {u.action : u \in {v \in Queued("state") : Applies(v, R)}}
                                  /\ hook.baseState \subseteq hook.memoizedState
    BY <1>1, <2>3, RenderedStates
  <2> QED
    BY <2>2, <2>4 DEF hook
<1>3. ASSUME NEW v \in Queued("state")'
      PROVE  \E u \in Queued("state") :
               /\ v = Rebase(u, R) /\ v.action = u.action
               /\ v.lane = IF Skips(u, R) THEN u.lane ELSE NoLane
  <2>1. Survives(v, "state", R)
    BY <1>1, CommittedQueue, Zenon
  <2> QED
    BY <1>1, <2>1, SurvivingUpdate
<1>4. ASSUME NEW v \in Queued("state")', v.lane # NoLane
      PROVE  v.action \notin hooks'["state"].baseState \cup Shown("state")'
  <2>1. PICK u \in Queued("state") :
          /\ v = Rebase(u, R) /\ v.action = u.action
          /\ v.lane = IF Skips(u, R) THEN u.lane ELSE NoLane
    BY <1>3
  <2>2. Skips(u, R) /\ u.lane # NoLane
    BY <1>4, <2>1
  <2>3. u.action \notin hooks["state"].baseState
    BY <2>2 DEF WaitingIsNotShown
  <2>4. \A w \in applied : w.action # u.action
    BY <2>2 DEF WaitingIsNotShown, Applies
  <2> QED
    BY <1>2, <2>1, <2>3, <2>4 DEF Shown
<1>5. ASSUME NEW v \in Queued("state")', NEW w \in Queued("state")', v.action = w.action
      PROVE  v = w
  BY <1>3, <1>5 DEF WaitingIsNotShown
<1> QED
  BY <1>4, <1>5 DEF WaitingIsNotShown

\* The updates of the scope are kept while it is not rendered.
LEMMA ScopeUpdate ==
  ASSUME IndInv, scope.open, NEW R \in SUBSET Lanes, NEW u \in Queued("transition")
  PROVE  /\ Finishes(u) /\ scope.lane \in R => Applies(u, R) /\ ReadsScope(u, R)
         /\ Begins(u) /\ scope.lane \in R => ~Applies(u, R)
         /\ scope.lane \notin R /\ Finishes(u) => Skips(u, R) /\ Rebase(u, R) = u
         /\ scope.lane \notin R /\ Begins(u) =>
              ~Reverts(u, R) /\ IsRebased(u, R) /\ Begins(Rebase(u, R))
<1>1. "transition" \in Hooks /\ TypeOK /\ OptimisticIsSync /\ ScopeCountsActions
  BY DEF Hooks, IndInv
<1>2. scope.lane \in UsedTransitionLanes /\ scope.lane # NoLane /\ NoLane \notin R
  BY <1>1, LaneFacts DEF ScopeCountsActions, TypeOK
<1>3. u \in UpdatesOf("transition")
  BY <1>1, HookTypes
<1>4. Rebase(u, R).revertLane = u.revertLane /\ Rebase(u, R).action = u.action
  BY <1>1, <1>3, RebasedUpdate DEF OptimisticIsSync
<1>5. CASE scope.lane \in R
  BY <1>2, <1>5 DEF Finishes, Begins, Applies, Skips, Reverts, ReadsScope
<1>6. CASE scope.lane \notin R
  <2>1. Finishes(u) => Skips(u, R) /\ Rebase(u, R) = u
    BY <1>2, <1>6 DEF Finishes, Skips, Rebase
  <2>2. Begins(u) => ~Reverts(u, R) /\ IsRebased(u, R)
    BY <1>2, <1>6 DEF Begins, IsRebased, Applies, Reverts
  <2>3. Begins(u) => Begins(Rebase(u, R))
    BY <1>4 DEF Begins
  <2> QED
    BY <1>6, <2>1, <2>2, <2>3
<1> QED
  BY <1>5, <1>6

\* What useTransition shows after the updates from position i on were rendered.
LEMMA LastApplied ==
  ASSUME TypeOK, OptimisticIsSync, NEW R \in SUBSET Lanes, Committed(R),
         NEW i \in 1..Len(hooks["transition"].queue), Applies(hooks["transition"].queue[i], R)
  PROVE  \E j \in i..Len(hooks["transition"].queue) :
           /\ Applies(hooks["transition"].queue[j], R)
           /\ Shown("transition")' = hooks["transition"].queue[j].action
<1>1. "transition" \in Hooks
  BY DEF Hooks
<1>2. PICK base \in StatesOf("transition") :
        hooks'["transition"] = UpdateReducer("transition", base, R).hook
  BY <1>1, CommittedHook
<1> DEFINE queue == hooks["transition"].queue
           applied == {u \in Elements(queue) : Applies(u, R)}
           kept == Only(queue, applied)
<1>3. Shown("transition")' = Reduce("transition", base, kept)
  BY <1>2 DEF UpdateReducer, Shown
<1>4. queue \in Seq(UpdatesOf("transition")) /\ queue[i] \in applied
  <2>1. queue \in Seq(UpdatesOf("transition"))
    BY <1>1, HookTypes
  <2>2. queue[i] \in Elements(queue)
    BY <2>1 DEF Elements
  <2> QED
    BY <2>1, <2>2
<1>5. \A u \in applied : Applies(u, R)
  OBVIOUS
<1> HIDE DEF queue, applied
<1>6. i \in 1..Len(queue)
  BY DEF queue
<1>7. kept # <<>> /\ \E j \in i..Len(queue) : queue[j] \in applied /\ kept[Len(kept)] = queue[j]
  BY <1>4, <1>6, LastKept
<1> HIDE DEF kept
<1>8. Shown("transition")' = kept[Len(kept)].action
  BY <1>3, <1>7 DEF Reduce
<1> QED
  BY <1>5, <1>7, <1>8 DEF queue

\* A render of the scope's lane suspends while an action of the hook runs: it would show
\* that the last action is done.
LEMMA ScopeIsNotCommitted ==
  ASSUME IndInv, NEW R \in SUBSET Lanes, Committed(R), running \cap hooked # {},
         SyncLane \notin root.pendingLanes
  PROVE  scope.lane \notin R
<1> SUFFICES ASSUME scope.lane \in R
             PROVE  FALSE
  OBVIOUS
<1>1. /\ "transition" \in Hooks /\ TypeOK /\ OptimisticIsSync /\ ScopeCountsActions
      /\ PendingStands
  BY DEF Hooks, IndInv
<1> DEFINE queue == hooks["transition"].queue
<1>2. /\ scope.open /\ Shown("transition") = Pending
      /\ \E i \in DOMAIN queue :
           /\ \A j \in i+1..Len(queue) : Begins(queue[j]) \/ Finishes(queue[j])
           /\ \E j \in i+1..Len(queue) : Finishes(queue[j])
  BY <1>1 DEF ScopeCountsActions, PendingStands
<1>3. DOMAIN queue = 1..Len(queue) /\ Len(queue) \in Nat
  BY <1>1, HookTypes
<1>4. \A k \in 1..Len(queue) : queue[k] \in Queued("transition")
  BY <1>1, HookTypes
<1>5. PICK i \in 1..Len(queue) :
        /\ \A k \in i+1..Len(queue) : Begins(queue[k]) \/ Finishes(queue[k])
        /\ \E j \in i+1..Len(queue) : Finishes(queue[j])
  BY <1>2, <1>3
<1>6. PICK j \in i+1..Len(queue) : Finishes(queue[j])
  BY <1>5
<1>7. j \in 1..Len(queue) /\ Applies(queue[j], R) /\ ReadsScope(queue[j], R)
  <2>1. j \in 1..Len(queue)
    BY <1>3
  <2> QED
    BY <1>2, <1>4, <1>6, <2>1, ScopeUpdate
<1>8. PICK k \in j..Len(queue) :
        /\ Applies(queue[k], R)
        /\ Shown("transition")' = queue[k].action
  BY <1>1, <1>7, LastApplied
<1>9. k \in 1..Len(queue) /\ k \in i+1..Len(queue)
  BY <1>3, <1>6, <1>7, <1>8
<1>10. Finishes(queue[k])
  <2>1. queue[k] \in Queued("transition")
    BY <1>4, <1>9
  <2>2. Begins(queue[k]) \/ Finishes(queue[k])
    BY <1>5, <1>9
  <2> QED
    BY <1>2, <1>8, <2>1, <2>2, ScopeUpdate
<1>11. Shown("transition")' # Shown("transition")
  BY <1>2, <1>8, <1>10 DEF Finishes
<1>12. \A u \in Queued("transition") : ~ReadsScope(u, R)
  <2>1. hooks'["transition"].memoizedState # Shown("transition")
    BY <1>11 DEF Shown
  <2> QED
    BY <1>1, <2>1, CommittedHook
<1> QED
  BY <1>4, <1>7, <1>12

LEMMA CommittedRunning ==
  ASSUME IndInv, NEW R \in SUBSET Lanes, Committed(R),
         running \cap hooked # {} => scope.lane \notin R,
         UNCHANGED <<scope, running, hooked>>
  PROVE  RunningIsNotApplied'
<1>1. /\ "transition" \in Hooks /\ TypeOK /\ OptimisticIsSync /\ ScopeCountsActions
      /\ RunningIsNotApplied
  BY DEF Hooks, IndInv
<1>2. ASSUME NEW u \in Queued("transition"), u.action \in running
      PROVE  u.action \in hooked /\ u.lane = scope.lane /\ u.revertLane = NoLane /\ Skips(u, R)
  <2>1. u.action \in hooked /\ u.lane = scope.lane /\ u.revertLane = NoLane
    BY <1>1, <1>2 DEF RunningIsNotApplied
  <2>2. scope.lane \notin R /\ scope.lane # NoLane
    BY <1>1, <1>2, <2>1 DEF ScopeCountsActions
  <2> QED
    BY <2>1, <2>2 DEF Skips
<1>3. hooks'["transition"].baseState \notin running
  <2>1. PICK base \in StatesOf("transition") :
          /\ hooks'["transition"] = UpdateReducer("transition", base, R).hook
          /\ "transition" # "optimistic" => base = hooks["transition"].baseState
    BY <1>1, CommittedHook
  <2> DEFINE hook == hooks'["transition"]
  <2>2. hook = UpdateReducer("transition", base, R).hook /\ base \notin running
    BY <1>1, <2>1 DEF RunningIsNotApplied
  <2> HIDE DEF hook
  <2>3. \/ hook.baseState = base
        \/ \E u \in Queued("transition") : Applies(u, R) /\ hook.baseState = u.action
    BY <1>1, <2>2, RenderedStates
  <2> QED
    BY <1>2, <2>2, <2>3 DEF hook, Applies
<1>4. ASSUME NEW v \in Queued("transition")', v.action \in running
      PROVE  v.action \in hooked /\ v.lane = scope.lane /\ v.revertLane = NoLane
  <2>1. Survives(v, "transition", R)
    BY <1>1, CommittedQueue, Zenon
  <2>2. PICK u \in Queued("transition") :
          /\ v.action = u.action /\ v.revertLane = u.revertLane
          /\ v.lane = IF Skips(u, R) THEN u.lane ELSE NoLane
    BY <1>1, <2>1, SurvivingUpdate
  <2> QED
    BY <1>2, <1>4, <2>2
<1> QED
  BY <1>3, <1>4 DEF RunningIsNotApplied

\* The update that made the hook pending survives a commit, with all that came after.
LEMMA CommittedPending ==
  ASSUME IndInv, NEW R \in SUBSET Lanes, Committed(R),
         running \cap hooked # {} => scope.lane \notin R,
         UNCHANGED <<scope, running, hooked>>
  PROVE  PendingStands'
<1> SUFFICES ASSUME running \cap hooked # {}
             PROVE  PendingStands'
  BY DEF PendingStands
<1>1. /\ "transition" \in Hooks /\ TypeOK /\ OptimisticIsSync /\ ScopeCountsActions
      /\ PendingStands /\ LanesAreExact
  BY DEF Hooks, IndInv
<1> DEFINE queue == hooks["transition"].queue
           new == hooks'["transition"].queue
<1>2. scope.open /\ scope.lane \notin R
  BY <1>1 DEF ScopeCountsActions
<1>3. DOMAIN queue = 1..Len(queue) /\ Len(queue) \in Nat
  BY <1>1, HookTypes
<1>4. \A k \in 1..Len(queue) : queue[k] \in Queued("transition")
  BY <1>1, HookTypes
<1>5. PICK i \in 1..Len(queue) :
        /\ Begins(queue[i])
        /\ \A k \in i+1..Len(queue) : Begins(queue[k]) \/ Finishes(queue[k])
        /\ \E j \in i+1..Len(queue) : Finishes(queue[j])
  BY <1>1, <1>3 DEF PendingStands
<1>6. PICK j \in i+1..Len(queue) : Finishes(queue[j])
  BY <1>5
<1>7. PICK at : Rebases(at, new, queue, R)
  BY <1>1, CommittedQueue
<1>8. Len(new) \in Nat /\ DOMAIN new = 1..Len(new)
  <2>1. hooks'["transition"] \in [memoizedState : StatesOf("transition"),
           baseState : StatesOf("transition"), queue : Seq(UpdatesOf("transition")),
           lanes : SUBSET UsedTransitionLanes]
    BY <1>1, CommittedQueue
  <2> QED
    BY <2>1
<1>9. /\ ~Reverts(queue[i], R) /\ IsRebased(queue[i], R)
      /\ ~Reverts(queue[j], R) /\ j \in 1..Len(queue) /\ i \in 1..j /\ i \in 1..i
  <2>1. j \in 1..Len(queue) /\ i \in 1..j /\ i \in 1..i
    BY <1>3
  <2>2. ~Reverts(queue[i], R) /\ IsRebased(queue[i], R)
    BY <1>2, <1>4, <1>5, ScopeUpdate
  <2>3. Skips(queue[j], R)
    BY <1>2, <1>4, <1>6, <2>1, ScopeUpdate
  <2> QED
    BY <2>1, <2>2, <2>3 DEF Reverts
<1>10. \A k \in i+1..Len(queue) : k \in 1..Len(queue)
  BY <1>3
<1> HIDE DEF queue, new
<1>11. /\ DOMAIN at = 1..Len(new)
       /\ \A k \in 1..Len(new) : at[k] \in 1..Len(queue) /\ new[k] = Rebase(queue[at[k]], R)
       /\ \A k, m \in 1..Len(new) : k < m => at[k] < at[m]
  BY <1>7 DEF Rebases
<1>12. PICK x \in 1..Len(new) : at[x] = i
  BY <1>7, <1>9, <1>11 DEF Rebases
<1>13. PICK y \in 1..Len(new) : at[y] = j
  BY <1>7, <1>9, <1>11 DEF Rebases
<1>14. y \in x+1..Len(new)
  <2>1. i < j /\ i \in Int /\ j \in Int
    BY <1>3
  <2>2. x # y
    BY <1>12, <1>13, <2>1
  <2>3. ~(y < x)
    BY <1>11, <1>12, <1>13, <2>1
  <2> QED
    BY <1>8, <2>2, <2>3
<1>15. Begins(new[x])
  BY <1>2, <1>4, <1>5, <1>11, <1>12, ScopeUpdate, SMTT(30) DEF queue
<1>16. Finishes(new[y])
  <2>1. queue[j] \in Queued("transition")
    BY <1>4, <1>9 DEF queue
  <2> QED
    BY <1>2, <1>6, <1>11, <1>13, <2>1, ScopeUpdate
<1>17. ASSUME NEW k \in x+1..Len(new)
       PROVE  Begins(new[k]) \/ Finishes(new[k])
  <2>1. k \in 1..Len(new) /\ x < k
    BY <1>8
  <2>2. at[k] \in i+1..Len(queue)
    BY <1>3, <1>11, <1>12, <2>1 DEF queue
  <2>3. queue[at[k]] \in Queued("transition") /\ new[k] = Rebase(queue[at[k]], R)
    BY <1>4, <1>11, <2>1 DEF queue
  <2>4. Begins(queue[at[k]]) \/ Finishes(queue[at[k]])
    BY <1>5, <2>2
  <2> QED
    BY <1>2, <2>3, <2>4, ScopeUpdate
<1>18. ASSUME SyncLane \notin root'.pendingLanes
       PROVE  Shown("transition")' = Pending
  <2>1. queue[i] \in Queued("transition")
    BY <1>4 DEF queue
  <2>2. ~Skips(queue[i], R)
    <3> SUFFICES ASSUME Skips(queue[i], R)
                 PROVE  FALSE
      OBVIOUS
    <3>1. scope.lane # NoLane
      BY <1>1, <1>2 DEF ScopeCountsActions
    <3>2. queue[i].lane = SyncLane
      BY <1>1, <1>5, <2>1, <3>1 DEF OptimisticIsSync, Skips, Begins
    <3>3. new[x] = queue[i]
      BY <1>11, <1>12 DEF Rebase
    <3>4. new[x] \in Queued("transition")'
      BY <1>8 DEF Queued, Elements, new
    <3>5. SyncLane \in WaitsFor(new[x])
      BY <3>2, <3>3 DEF WaitsFor
    <3>6. LanesAreExact'
      BY <1>1, CommittedLanes
    <3> QED
      BY <1>1, <1>18, <3>4, <3>5, <3>6 DEF LanesAreExact
  <2>3. Applies(queue[i], R)
    BY <1>9, <2>2 DEF Applies
  <2>4. PICK k \in i..Len(queue) :
          /\ Applies(queue[k], R)
          /\ Shown("transition")' = queue[k].action
    BY <1>1, <2>3, LastApplied DEF queue
  <2>5. k = i \/ k \in i+1..Len(queue)
    BY <1>3 DEF queue
  <2>6. Begins(queue[k]) \/ Finishes(queue[k])
    BY <1>5, <2>5
  <2>7. queue[k] \in Queued("transition")
    BY <1>4, <1>10, <2>5 DEF queue
  <2>8. Begins(queue[k])
    BY <1>2, <2>4, <2>6, <2>7, ScopeUpdate DEF Applies
  <2> QED
    BY <2>4, <2>8 DEF Begins
<1>19. DOMAIN new = 1..Len(new) /\ x \in DOMAIN new
  BY <1>8 DEF new
<1>20. PendingStands'
  BY <1>14, <1>15, <1>16, <1>17, <1>18, <1>19 DEF PendingStands, Begins, Finishes, new
<1> QED
  BY <1>20

-----------------------------------------------------------------------------
(* Steps *)

LEMMA RunningIsFinite ==
  ASSUME TypeOK
  PROVE  IsFiniteSet(running) /\ Cardinality(running) \in Nat
<1>1. 1..started \in SUBSET Nat /\ started \in Nat /\ running \subseteq 1..started
  BY DEF TypeOK
<1>2. IsFiniteSet(1..started)
  BY <1>1, FS_Interval
<1>3. IsFiniteSet(running)
  BY <1>1, <1>2, FS_Subset
<1> QED
  BY <1>3, FS_CardinalityType

\* A suspended render leaves a listener of what it waits for.
LEMMA SuspendedRender ==
  ASSUME IndInv, NEW R \in SUBSET Lanes, Suspended(R),
         UNCHANGED <<scope, running, hooked, started, updates>>
  PROVE  /\ root' \in Root(Lanes) /\ root'.entangledLanes \subseteq UsedTransitionLanes
         /\ pings' \subseteq [on : Actions \cup {Scope}, lanes : SUBSET Lanes]
         /\ root'.pendingLanes = root.pendingLanes /\ SuspendedHasListener'
<1> DEFINE on == SuspendsOn(RenderHooks(R))
<1>1. TypeOK /\ OptimisticIsSync /\ SuspendedHasListener
  BY DEF IndInv
<1>2. /\ root' = MarkRootSuspended(root, R, TRUE) /\ on # {}
      /\ pings' = pings \cup {[on |-> w, lanes |-> R] : w \in on}
  BY DEF Suspended
<1>3. ASSUME NEW w \in on
      PROVE  IF w = Scope THEN scope.open ELSE w \in running
  <2>1. CASE \E h \in Hooks : RenderHooks(R)[h].suspends
    <3>1. PICK h \in Hooks : RenderHooks(R)[h].suspends
      BY <2>1
    <3>2. PICK base \in StatesOf(h) : RenderHooks(R)[h] = UpdateReducer(h, base, R)
      BY <1>1, RenderedHooks
    <3>3. \E u \in Queued(h) : ReadsScope(u, R)
      BY <1>1, <3>1, <3>2, RenderedHook
    <3>4. scope.open
      BY <3>3, Zenon DEF ReadsScope
    <3>5. on = {Scope}
      BY <2>1, Zenon DEF SuspendsOn
    <3> QED
      BY <3>4, <3>5, Zenon
  <2>2. CASE ~\E h \in Hooks : RenderHooks(R)[h].suspends
    <3>1. w \in running
      BY <2>2 DEF SuspendsOn
    <3>2. w # Scope
      BY <1>1, <3>1 DEF TypeOK, Scope
    <3> QED
      BY <3>1, <3>2
  <2> QED
    BY <2>1, <2>2
<1> HIDE DEF on
<1>4. on \subseteq Actions \cup {Scope}
  <2>1. running \subseteq Actions
    BY <1>1, AsyncActionAssumption DEF TypeOK, Actions
  <2> QED
    BY <1>3, <2>1
<1>5. pings' \subseteq [on : Actions \cup {Scope}, lanes : SUBSET Lanes]
  BY <1>1, <1>2, <1>4 DEF TypeOK
<1>6. /\ root' \in Root(Lanes) /\ root'.entangledLanes \subseteq UsedTransitionLanes
      /\ root'.pendingLanes = root.pendingLanes
      /\ root'.suspendedLanes = root.suspendedLanes \cup R
      /\ root'.pingedLanes = root.pingedLanes \ R
  BY <1>1, <1>2 DEF TypeOK, MarkRootSuspended, Root
<1>7. ASSUME NEW p \in pings'
      PROVE  IF p.on = Scope THEN scope.open ELSE p.on \in running
  <2>1. CASE p \in pings
    BY <1>1, <2>1 DEF SuspendedHasListener
  <2>2. CASE p \notin pings
    <3>1. PICK w \in on : p = [on |-> w, lanes |-> R]
      BY <1>2, <2>2
    <3>2. p.on = w
      BY <3>1
    <3> QED
      BY <1>3, <3>2
  <2> QED
    BY <2>1, <2>2
<1>8. ASSUME NEW l \in root'.suspendedLanes \ root'.pingedLanes
      PROVE  \E p \in pings' : l \in p.lanes
  <2>1. CASE l \in R
    <3>1. PICK w \in on : [on |-> w, lanes |-> R] \in pings'
      BY <1>2
    <3>2. [on |-> w, lanes |-> R].lanes = R
      OBVIOUS
    <3> QED
      BY <2>1, <3>1, <3>2
  <2>2. CASE l \notin R
    BY <1>1, <1>2, <1>6, <2>2 DEF SuspendedHasListener
  <2> QED
    BY <2>1, <2>2
<1>9. SuspendedHasListener'
  BY <1>7, <1>8 DEF SuspendedHasListener
<1> QED
  BY <1>5, <1>6, <1>9

\* Nothing synchronous is in the scope: a synchronous render does not suspend.
LEMMA SyncRenderCommits ==
  ASSUME IndInv
  PROVE  SuspendsOn(RenderHooks({SyncLane})) = {}
<1> DEFINE R == {SyncLane}
<1>1. /\ TypeOK /\ OptimisticIsSync /\ ScopeCountsActions /\ RunningIsNotApplied
      /\ "transition" \in Hooks /\ R \in SUBSET Lanes
  BY LaneFacts DEF IndInv, Hooks
<1>2. /\ SyncLane \notin UsedTransitionLanes /\ SyncLane # NoLane
      /\ scope.open => scope.lane # SyncLane /\ scope.lane # NoLane
  BY <1>1, LaneFacts DEF TypeOK, ScopeCountsActions
<1>3. ASSUME NEW h \in Hooks, NEW u \in Queued(h)
      PROVE  ~ReadsScope(u, R)
  <2>1. u \in UpdatesOf(h)
    BY <1>1, HookTypes
  <2>2. u.revertLane # SyncLane
    BY <1>2, <2>1 DEF UpdatesOf
  <2> QED
    BY <1>2, <2>2 DEF ReadsScope, Reverts, Skips
<1> HIDE DEF R
<1>4. ASSUME NEW h \in Hooks
      PROVE  ~RenderHooks(R)[h].suspends
  <2>1. PICK base \in StatesOf(h) : RenderHooks(R)[h] = UpdateReducer(h, base, R)
    BY <1>1, RenderedHooks
  <2> QED
    BY <1>1, <1>3, <2>1, RenderedHook
<1>5. RenderHooks(R)["transition"].hook.memoizedState \notin running
  <2>1. PICK base \in StatesOf("transition") :
          /\ RenderHooks(R)["transition"] = UpdateReducer("transition", base, R)
          /\ "transition" # "optimistic" => base = hooks["transition"].baseState
    BY <1>1, RenderedHooks
  <2> DEFINE hook == RenderHooks(R)["transition"].hook
  <2>2. hook = UpdateReducer("transition", base, R).hook /\ base \notin running
    BY <1>1, <2>1 DEF RunningIsNotApplied
  <2> HIDE DEF hook
  <2>3. \/ hook.memoizedState = base
        \/ \E u \in Queued("transition") : Applies(u, R) /\ hook.memoizedState = u.action
    BY <1>1, <2>2, RenderedStates
  <2>4. ASSUME NEW u \in Queued("transition"), u.action \in running
        PROVE  ~Applies(u, R)
    <3>1. u.lane = scope.lane /\ scope.open
      BY <1>1, <2>4 DEF RunningIsNotApplied, ScopeCountsActions
    <3> QED
      BY <1>2, <3>1 DEF Applies, Skips, R
  <2> QED
    BY <2>2, <2>3, <2>4 DEF hook
<1> QED
  BY <1>4, <1>5 DEF SuspendsOn, R

\* The invariant, without what only events change.
LEMMA RenderStep ==
  ASSUME IndInv, NEW lanes \in SUBSET Lanes, Render(lanes),
         lanes = {SyncLane} \/ SyncLane \notin root.pendingLanes,
         UNCHANGED <<scope, claimed, running, hooked, started, updates>>,
         eventLane' \in {eventLane, NoLane}, microtask' \in BOOLEAN
  PROVE  IndInv'
<1>1. /\ TypeOK /\ ScopeCountsActions /\ SuspendedHasListener /\ LanesAreExact /\ EventIsInScope
      /\ OptimisticIsSync /\ WaitingIsNotShown /\ RunningIsNotApplied /\ PendingStands
  BY DEF IndInv
<1>2. PICK R \in SUBSET Lanes :
        /\ lanes = {SyncLane} => R = {SyncLane}
        /\ Suspended(R) \/ Committed(R)
  BY <1>1, RenderOutcomes
<1>3. ScopeCountsActions' /\ EventIsInScope'
  BY <1>1 DEF ScopeCountsActions, EventIsInScope
<1>4. \A h \in Hooks : StatesOf(h)' = StatesOf(h) /\ UpdatesOf(h)' = UpdatesOf(h)
  BY DEF StatesOf, UpdatesOf
<1>5. ASSUME /\ root' \in Root(Lanes) /\ root'.entangledLanes \subseteq UsedTransitionLanes
             /\ pings' \subseteq [on : Actions \cup {Scope}, lanes : SUBSET Lanes]
             /\ hooks' = [h \in Hooks |-> hooks'[h]],
             \A h \in Hooks :
               hooks'[h] \in [memoizedState : StatesOf(h), baseState : StatesOf(h),
                             queue : Seq(UpdatesOf(h)), lanes : SUBSET UsedTransitionLanes]
      PROVE  TypeOK'
  <2>1. \A h \in Hooks :
          hooks'[h] \in [memoizedState : StatesOf(h)', baseState : StatesOf(h)',
                        queue : Seq(UpdatesOf(h)'), lanes : SUBSET UsedTransitionLanes]
    BY <1>4, <1>5
  <2>2. /\ scope' \in [open : BOOLEAN, count : Nat, lane : UsedTransitionLanes \cup {NoLane}]
        /\ eventLane' \in UsedTransitionLanes \cup {NoLane} /\ claimed' \in Nat
        /\ running' \subseteq 1..started' /\ hooked' \subseteq 1..started'
        /\ started' \in 0..MaxActions /\ updates' \in 0..MaxUpdates
    BY <1>1 DEF TypeOK
  <2> QED
    BY <1>5, <2>1, <2>2, Zenon DEF TypeOK
<1>6. CASE Suspended(R)
  <2>1. SyncLane \notin root.pendingLanes
    <3>1. lanes # {SyncLane}
      BY <1>2, <1>6, SyncRenderCommits DEF Suspended
    <3> QED
      BY <3>1
  <2>2. hooks' = hooks
    BY <1>6 DEF Suspended
  <2>3. /\ root' \in Root(Lanes) /\ root'.entangledLanes \subseteq UsedTransitionLanes
        /\ pings' \subseteq [on : Actions \cup {Scope}, lanes : SUBSET Lanes]
        /\ root'.pendingLanes = root.pendingLanes /\ SuspendedHasListener'
    BY <1>6, SuspendedRender
  <2>4. TypeOK'
    <3>1. \A h \in Hooks :
            hooks'[h] \in [memoizedState : StatesOf(h), baseState : StatesOf(h),
                          queue : Seq(UpdatesOf(h)), lanes : SUBSET UsedTransitionLanes]
      BY <1>1, <2>2, HookTypes
    <3>2. hooks' = [h \in Hooks |-> hooks'[h]]
      BY <1>1, <2>2 DEF TypeOK
    <3> QED
      BY <1>5, <2>3, <3>1, <3>2
  <2>5. LanesAreExact' /\ SyncWorkIsQueued'
    BY <1>1, <2>1, <2>2, <2>3 DEF LanesAreExact, SyncWorkIsQueued, Queued
  <2>6. OptimisticIsSync' /\ WaitingIsNotShown' /\ RunningIsNotApplied'
    BY <1>1, <2>2 DEF OptimisticIsSync, WaitingIsNotShown, RunningIsNotApplied, Queued, Shown
  <2>7. PendingStands'
    BY <1>1, <2>2, <2>3 DEF PendingStands, Begins, Finishes, Shown
  <2> QED
    BY <1>3, <2>3, <2>4, <2>5, <2>6, <2>7 DEF IndInv
<1>7. CASE Committed(R)
  <2>1. /\ root' \in Root(Lanes) /\ root'.entangledLanes \subseteq UsedTransitionLanes
        /\ root'.suspendedLanes = {} /\ LanesAreExact'
        /\ SyncLane \in root'.pendingLanes => SyncLane \notin R /\ SyncLane \in root.pendingLanes
    BY <1>1, <1>7, CommittedLanes
  <2>2. SyncWorkIsQueued'
    BY <1>2, <2>1 DEF SyncWorkIsQueued
  <2>3. pings' = pings /\ hooks' = [h \in Hooks |-> RenderHooks(R)[h].hook]
    BY <1>7 DEF Committed
  <2>4. TypeOK'
    <3>1. \A h \in Hooks :
            hooks'[h] \in [memoizedState : StatesOf(h), baseState : StatesOf(h),
                          queue : Seq(UpdatesOf(h)), lanes : SUBSET UsedTransitionLanes]
      BY <1>1, <1>7, CommittedQueue
    <3>2. hooks' = [h \in Hooks |-> hooks'[h]]
      BY <2>3
    <3>3. pings' \subseteq [on : Actions \cup {Scope}, lanes : SUBSET Lanes]
      BY <1>1, <2>3 DEF TypeOK
    <3> QED
      BY <1>5, <2>1, <3>1, <3>2, <3>3
  <2>5. SuspendedHasListener'
    BY <1>1, <2>1, <2>3 DEF SuspendedHasListener
  <2>6. OptimisticIsSync' /\ WaitingIsNotShown'
    BY <1>1, <1>7, CommittedOptimistic, CommittedState
  <2>7. running \cap hooked # {} => scope.lane \notin R
    <3>1. CASE lanes = {SyncLane}
      BY <1>1, <1>2, <3>1, LaneFacts DEF TypeOK
    <3>2. CASE SyncLane \notin root.pendingLanes
      BY <1>7, <3>2, ScopeIsNotCommitted
    <3> QED
      BY <3>1, <3>2
  <2>8. RunningIsNotApplied'
    BY <1>7, <2>7, CommittedRunning
  <2>9. PendingStands'
    BY <1>7, <2>7, CommittedPending
  <2> QED
    BY <1>3, <2>1, <2>2, <2>4, <2>5, <2>6, <2>8, <2>9 DEF IndInv
<1> QED
  BY <1>2, <1>6, <1>7

\* What an event queues keeps the invariant if the scope and the hook of the action are
\* as they should be.
LEMMA EventStep ==
  ASSUME IndInv, NEW added, Dispatch(added), IsAdded(added),
         \A h \in Hooks : added[h] \in Seq(UpdatesOf(h)'),
         started' \in started..MaxActions, updates' \in updates..MaxUpdates,
         scope' \in [open : BOOLEAN, count : Nat, lane : UsedTransitionLanes \cup {NoLane}],
         eventLane' \in UsedTransitionLanes \cup {NoLane}, claimed' \in Nat,
         running' \subseteq 1..started', hooked' \subseteq 1..started', pings' = pings,
         running \subseteq running', scope.open => scope'.open,
         ScopeCountsActions', EventIsInScope', RunningIsNotApplied', PendingStands'
  PROVE  IndInv'
<1>1. TypeOK /\ SuspendedHasListener
  BY DEF IndInv
<1>2. /\ started' \in Nat /\ started <= started' /\ updates' \in Nat /\ updates <= updates'
      /\ started' \in 0..MaxActions /\ updates' \in 0..MaxUpdates
  BY <1>1, AsyncActionAssumption DEF TypeOK
<1>3. /\ LanesAreExact' /\ SyncWorkIsQueued' /\ OptimisticIsSync' /\ WaitingIsNotShown'
      /\ \A l \in root'.suspendedLanes \ root'.pingedLanes : \E p \in pings : l \in p.lanes
  BY <1>2, Queueing, Zenon
<1>4. TypeOK'
  <2>1. root' \in Root(Lanes) /\ root'.entangledLanes \subseteq UsedTransitionLanes
    BY <1>1, <1>2, AddedUpdates, Zenon
  <2>2. microtask' \in BOOLEAN
    BY <1>1, <1>2, AddedUpdates, Zenon
  <2>3. hooks' = [h \in Hooks |-> hooks'[h]]
    BY <1>1, <1>2, AddedUpdates, Zenon
  <2>4. \A h \in Hooks :
          hooks'[h] \in [memoizedState : StatesOf(h)', baseState : StatesOf(h)',
                        queue : Seq(UpdatesOf(h)'), lanes : SUBSET UsedTransitionLanes]
    BY <1>1, <1>2, AddedUpdates, Zenon
  <2>5. pings' \subseteq [on : Actions \cup {Scope}, lanes : SUBSET Lanes]
    BY <1>1 DEF TypeOK
  <2> QED
    BY <1>2, <2>1, <2>2, <2>3, <2>4, <2>5, Zenon DEF TypeOK
<1>5. SuspendedHasListener'
  BY <1>1, <1>3 DEF SuspendedHasListener
<1> QED
  BY <1>3, <1>4, <1>5 DEF IndInv

\* An event that does not touch useTransition.
LEMMA TransitionUntouched ==
  ASSUME IndInv, NEW added, Dispatch(added), IsAdded(added), added["transition"] = <<>>,
         \A h \in Hooks : added[h] \in Seq(UpdatesOf(h)'),
         started' \in Nat, started <= started', updates' \in Nat, updates <= updates'
  PROVE  /\ hooks'["transition"].queue = hooks["transition"].queue
         /\ Queued("transition")' = Queued("transition")
         /\ hooks'["transition"].baseState = hooks["transition"].baseState
         /\ Shown("transition")' = Shown("transition")
         /\ root.pendingLanes \subseteq root'.pendingLanes
<1>1. TypeOK /\ "transition" \in Hooks
  BY DEF IndInv, Hooks
<1>2. /\ hooks'["transition"].memoizedState = hooks["transition"].memoizedState
      /\ hooks'["transition"].baseState = hooks["transition"].baseState
      /\ hooks'["transition"].queue = hooks["transition"].queue \o added["transition"]
  BY <1>1, AddedUpdates, Zenon
<1>3. root'.pendingLanes = root.pendingLanes \cup AllLanes(added)
  BY <1>1, AddedUpdates, Zenon
<1>4. hooks["transition"].queue \o <<>> = hooks["transition"].queue
  BY <1>1, HookTypes
<1>5. hooks'["transition"].queue = hooks["transition"].queue
  BY <1>2, <1>4
<1> QED
  BY <1>2, <1>3, <1>5 DEF Queued, Shown

\* The updates of a callback are typed and new.
LEMMA CallbackFacts ==
  ASSUME TypeOK, NEW lane \in UsedTransitionLanes, NEW setsState, NEW setsOptimistic,
         updates' = IF setsState \/ setsOptimistic THEN updates + 1 ELSE updates,
         NEW added, added = CallbackUpdates(lane, setsState, setsOptimistic)
  PROVE  /\ added = [h \in Hooks |-> added[h]] /\ added["transition"] = <<>>
         /\ IsAdded(added) /\ \A h \in Hooks : added[h] \in Seq(UpdatesOf(h)')
<1>1. /\ added = [h \in Hooks |-> added[h]] /\ added["transition"] = <<>>
      /\ added["state"] = IF setsState THEN <<Update(lane, NoLane, updates + 1)>> ELSE <<>>
      /\ added["optimistic"] = IF setsOptimistic THEN <<Update(SyncLane, lane, updates + 1)>>
                               ELSE <<>>
  BY DEF CallbackUpdates, Hooks
<1>2. /\ lane \in Lanes /\ lane # NoLane /\ SyncLane \in Lanes /\ SyncLane # NoLane
      /\ updates \in Nat
  BY LaneFacts DEF TypeOK
<1>3. IsAdded(added)
  <2>1. Elements(added["transition"]) = {}
    BY <1>1, Singles
  <2>2. /\ \A u \in Elements(added["state"]) : u = Update(lane, NoLane, updates + 1)
        /\ \A u \in Elements(added["optimistic"]) : u = Update(SyncLane, lane, updates + 1)
    BY <1>1, Singles
  <2> QED
    BY <1>2, <2>1, <2>2 DEF IsAdded, Update, Hooks
<1>4. ASSUME NEW h \in Hooks
      PROVE  added[h] \in Seq(UpdatesOf(h)')
  <2>1. \A S : <<>> \in Seq(S) /\ \A x \in S : <<x>> \in Seq(S)
    OBVIOUS
  <2>2. CASE added[h] = <<>>
    BY <2>1, <2>2
  <2>3. CASE h = "state" /\ setsState
    <3>1. Update(lane, NoLane, updates + 1) \in UpdatesOf(h)'
      BY <1>2, <2>3 DEF Update, UpdatesOf
    <3>2. added[h] = <<Update(lane, NoLane, updates + 1)>>
      BY <1>1, <2>3
    <3> QED
      BY <2>1, <3>1, <3>2
  <2>4. CASE h = "optimistic" /\ setsOptimistic
    <3>1. Update(SyncLane, lane, updates + 1) \in UpdatesOf(h)'
      BY <1>2, <2>4 DEF Update, UpdatesOf
    <3>2. added[h] = <<Update(SyncLane, lane, updates + 1)>>
      BY <1>1, <2>4
    <3> QED
      BY <2>1, <3>1, <3>2
  <2>5. added[h] = <<>> \/ (h = "state" /\ setsState) \/ (h = "optimistic" /\ setsOptimistic)
    BY <1>1 DEF Hooks
  <2> QED
    BY <2>2, <2>3, <2>4, <2>5
<1> QED
  BY <1>1, <1>3, <1>4

LEMMA CachedLane ==
  ASSUME TypeOK, ScopeCountsActions, CacheEventLane
  PROVE  eventLane' \in UsedTransitionLanes \cup {NoLane} /\ claimed' \in Nat
<1>1. RequestTransitionLane \in UsedTransitionLanes /\ claimed \in Nat
  BY RequestedLane DEF TypeOK
<1> QED
  BY <1>1 DEF CacheEventLane

\* An event outside useTransition leaves its hook and its scope as they were.
LEMMA PlainEvent ==
  ASSUME IndInv, NEW added, Dispatch(added), IsAdded(added), added["transition"] = <<>>,
         \A h \in Hooks : added[h] \in Seq(UpdatesOf(h)'),
         updates' \in updates..MaxUpdates,
         eventLane' \in UsedTransitionLanes \cup {NoLane}, claimed' \in Nat, EventIsInScope',
         UNCHANGED <<scope, running, hooked, pings, started>>
  PROVE  IndInv'
<1>1. /\ TypeOK /\ ScopeCountsActions /\ RunningIsNotApplied /\ PendingStands
      /\ started' \in Nat /\ started <= started' /\ updates' \in Nat /\ updates <= updates'
  BY DEF IndInv, TypeOK
<1>2. /\ hooks'["transition"].queue = hooks["transition"].queue
      /\ Queued("transition")' = Queued("transition")
      /\ hooks'["transition"].baseState = hooks["transition"].baseState
      /\ Shown("transition")' = Shown("transition")
      /\ root.pendingLanes \subseteq root'.pendingLanes
  BY <1>1, TransitionUntouched
<1>3. ScopeCountsActions'
  BY <1>1 DEF ScopeCountsActions
<1>4. RunningIsNotApplied'
  BY <1>1, <1>2 DEF RunningIsNotApplied
<1>5. PendingStands'
  BY <1>1, <1>2 DEF PendingStands, Begins, Finishes
<1>6. /\ started' \in started..MaxActions
      /\ running' \subseteq 1..started' /\ hooked' \subseteq 1..started'
      /\ scope' \in [open : BOOLEAN, count : Nat, lane : UsedTransitionLanes \cup {NoLane}]
      /\ running \subseteq running'
  BY <1>1 DEF TypeOK
<1>7. scope.open => scope'.open
  OBVIOUS
<1> QED
  BY <1>3, <1>4, <1>5, <1>6, <1>7, EventStep, Zenon

LEMMA TransitionUpdateStep ==
  ASSUME IndInv, TransitionUpdate
  PROVE  IndInv'
<1>1. TypeOK /\ ScopeCountsActions /\ EventIsInScope
  BY DEF IndInv
<1>2. PICK setsOptimistic \in BOOLEAN :
        Dispatch(CallbackUpdates(RequestTransitionLane, TRUE, setsOptimistic))
  BY Zenon DEF TransitionUpdate
<1> DEFINE lane == RequestTransitionLane
           added == CallbackUpdates(lane, TRUE, setsOptimistic)
<1>3. /\ lane \in UsedTransitionLanes
      /\ scope.open => lane = scope.lane
  BY <1>1, RequestedLane
<1>4. /\ updates' = updates + 1 /\ updates' \in updates..MaxUpdates
      /\ eventLane' = lane /\ UNCHANGED <<scope, running, hooked, pings, started>>
      /\ CacheEventLane
  <2>1. updates' = updates + 1 /\ updates' \in updates..MaxUpdates
    BY <1>1, AsyncActionAssumption DEF TransitionUpdate, TypeOK
  <2> QED
    BY <2>1, Zenon DEF TransitionUpdate, CacheEventLane
<1> HIDE DEF lane
<1>5. updates' = IF TRUE \/ setsOptimistic THEN updates + 1 ELSE updates
  BY <1>4
<1>6. /\ added["transition"] = <<>> /\ IsAdded(added)
      /\ \A h \in Hooks : added[h] \in Seq(UpdatesOf(h)')
  BY <1>1, <1>3, <1>5, CallbackFacts, Zenon
<1>7. eventLane' \in UsedTransitionLanes \cup {NoLane} /\ claimed' \in Nat
  BY <1>1, <1>4, CachedLane
<1>8. EventIsInScope'
  BY <1>3, <1>4 DEF EventIsInScope
<1>9. Dispatch(added)
  BY <1>2 DEF lane
<1> HIDE DEF added
<1> QED
  BY <1>4, <1>6, <1>7, <1>8, <1>9, PlainEvent, Zenon

LEMMA UrgentUpdateStep ==
  ASSUME IndInv, UrgentUpdate
  PROVE  IndInv'
<1> DEFINE u == Update(SyncLane, NoLane, updates + 1)
           added == [h \in Hooks |-> IF h = "state" THEN <<u>> ELSE <<>>]
<1>1. TypeOK /\ EventIsInScope
  BY DEF IndInv
<1>2. /\ Dispatch(added) /\ updates' = updates + 1 /\ updates' \in updates..MaxUpdates
      /\ UNCHANGED <<scope, running, hooked, pings, started, eventLane, claimed>>
  BY <1>1, AsyncActionAssumption DEF UrgentUpdate, TypeOK
<1>3. /\ u.lane = SyncLane /\ u.revertLane = NoLane /\ u.action = updates + 1
      /\ u \in UpdatesOf("state")'
  BY <1>1, <1>2, LaneFacts DEF Update, UpdatesOf, TypeOK
<1> HIDE DEF u
<1>4. /\ added["transition"] = <<>> /\ added["optimistic"] = <<>> /\ added["state"] = <<u>>
  BY DEF Hooks
<1>5. \A S : <<>> \in Seq(S) /\ \A x \in S : <<x>> \in Seq(S)
  OBVIOUS
<1>6. \A h \in Hooks : h = "state" \/ added[h] = <<>>
  OBVIOUS
<1> HIDE DEF added
<1>7. \A h \in Hooks : added[h] \in Seq(UpdatesOf(h)')
  BY <1>3, <1>4, <1>5, <1>6
<1>8. IsAdded(added)
  <2>1. /\ Elements(added["transition"]) = {} /\ Elements(added["optimistic"]) = {}
        /\ Elements(added["state"]) = {u}
    BY <1>4, Singles
  <2> QED
    BY <1>3, <2>1, LaneFacts DEF IsAdded, Hooks
<1>9. eventLane' \in UsedTransitionLanes \cup {NoLane} /\ claimed' \in Nat /\ EventIsInScope'
  BY <1>1, <1>2 DEF TypeOK, EventIsInScope
<1> QED
  BY <1>2, <1>4, <1>7, <1>8, <1>9, PlainEvent, Zenon

LEMMA SettleStep ==
  ASSUME IndInv, NEW a, Settle(a)
  PROVE  IndInv'
<1>1. /\ TypeOK /\ ScopeCountsActions /\ SuspendedHasListener /\ LanesAreExact /\ EventIsInScope
      /\ SyncWorkIsQueued /\ OptimisticIsSync /\ WaitingIsNotShown /\ RunningIsNotApplied
      /\ PendingStands
  BY DEF IndInv
<1>2. /\ a \in running /\ running' = running \ {a}
      /\ UNCHANGED <<hooks, eventLane, claimed, hooked, started, updates>>
  BY DEF Settle
<1>3. PICK called \in SUBSET pings :
        /\ PingSuspendedRoot(called)
        /\ \A p \in pings \ called : p.on # a
        /\ \/ /\ scope.count = 1 /\ scope' = NoScope
              /\ \A p \in pings \ called : p.on # Scope
           \/ scope.count # 1 /\ scope' = [scope EXCEPT !.count = @ - 1]
  <2>1. CASE scope.count = 1
    <3> DEFINE called == Called(Scope) \cup Called(a)
    <3>1. called \in SUBSET pings /\ \A p \in pings \ called : p.on # a /\ p.on # Scope
      BY DEF Called
    <3>2. PingSuspendedRoot(called) /\ scope' = NoScope
      BY <2>1 DEF Settle
    <3> QED
      BY <2>1, <3>1, <3>2
  <2>2. CASE scope.count # 1
    <3> DEFINE called == Called(a)
    <3>1. called \in SUBSET pings /\ \A p \in pings \ called : p.on # a
      BY DEF Called
    <3>2. PingSuspendedRoot(called) /\ scope' = [scope EXCEPT !.count = @ - 1]
      BY <2>2 DEF Settle
    <3> QED
      BY <2>2, <3>1, <3>2
  <2> QED
    BY <2>1, <2>2
<1>4. /\ root' = MarkRootPinged(root, UNION {p.lanes : p \in called})
      /\ pings' = pings \ called
  BY <1>3 DEF PingSuspendedRoot
<1>5. microtask' \in BOOLEAN /\ (microtask => microtask')
  <2>1. microtask' = (microtask \/ called # {})
    BY <1>3 DEF PingSuspendedRoot
  <2>2. microtask \in BOOLEAN
    BY <1>1 DEF TypeOK
  <2> QED
    BY <2>1, <2>2, Zenon
<1>6. /\ root' \in Root(Lanes) /\ root'.entangledLanes = root.entangledLanes
      /\ root'.pendingLanes = root.pendingLanes /\ root'.suspendedLanes = root.suspendedLanes
      /\ root'.pingedLanes = root.pingedLanes \cup (root.suspendedLanes \cap
                                                     UNION {p.lanes : p \in called})
  BY <1>1, <1>4 DEF MarkRootPinged, Root, TypeOK
<1>7. /\ Cardinality(running') = scope.count - 1 /\ Cardinality(running') \in Nat
      /\ Cardinality(running') = 0 <=> running' = {}
      /\ running' \subseteq running
  <2>1. IsFiniteSet(running) /\ Cardinality(running) = scope.count
    BY <1>1, RunningIsFinite DEF ScopeCountsActions
  <2>2. Cardinality(running \ {a}) = Cardinality(running) - 1 /\ IsFiniteSet(running \ {a})
    BY <1>2, <2>1, FS_RemoveElement
  <2>3. /\ Cardinality(running \ {a}) \in Nat
        /\ Cardinality(running \ {a}) = 0 <=> running \ {a} = {}
    BY <2>2, FS_CardinalityType, FS_EmptySet
  <2> QED
    BY <1>2, <2>1, <2>2, <2>3
<1>8. scope \in [open : BOOLEAN, count : Nat, lane : UsedTransitionLanes \cup {NoLane}]
  BY <1>1 DEF TypeOK
<1>9. /\ scope' \in [open : BOOLEAN, count : Nat, lane : UsedTransitionLanes \cup {NoLane}]
      /\ scope'.count = Cardinality(running')
      /\ \/ scope' = NoScope /\ running' = {} /\ \A p \in pings' : p.on # Scope
         \/ /\ running' # {} /\ scope.open
            /\ scope'.lane = scope.lane /\ scope'.open = scope.open
  <2>1. scope.open
    BY <1>1, <1>2, Zenon DEF ScopeCountsActions
  <2>2. CASE scope.count = 1
    <3>1. scope' = NoScope /\ \A p \in pings' : p.on # Scope
      BY <1>3, <1>4, <2>2
    <3>2. running' = {} /\ Cardinality(running') = 0
      BY <1>7, <2>2
    <3>3. NoScope \in [open : BOOLEAN, count : Nat, lane : UsedTransitionLanes \cup {NoLane}]
      BY DEF NoScope
    <3>4. NoScope.count = 0
      BY DEF NoScope
    <3> QED
      BY <3>1, <3>2, <3>3, <3>4
  <2>3. CASE scope.count # 1
    <3>1. scope' = [scope EXCEPT !.count = scope.count - 1]
      BY <1>3, <2>3
    <3>2. scope.count - 1 = Cardinality(running') /\ scope.count - 1 \in Nat /\ running' # {}
      BY <1>7, <1>8, <2>3
    <3> DEFINE n == scope.count - 1
    <3> HIDE DEF n
    <3>3. scope' = [scope EXCEPT !.count = n] /\ n \in Nat
      BY <3>1, <3>2 DEF n
    <3>4. /\ scope' \in [open : BOOLEAN, count : Nat, lane : UsedTransitionLanes \cup {NoLane}]
          /\ scope'.count = n /\ scope'.lane = scope.lane /\ scope'.open = scope.open
      BY <1>8, <3>3
    <3> QED
      BY <2>1, <3>2, <3>4 DEF n
  <2> QED
    BY <2>2, <2>3
<1>10. /\ ~NoScope.open /\ NoScope.lane = NoLane
       /\ \/ scope' = NoScope /\ running' = {} /\ \A p \in pings' : p.on # Scope
          \/ /\ running' # {} /\ scope.open
             /\ scope'.lane = scope.lane /\ scope'.open = scope.open
  BY <1>9 DEF NoScope
<1>11. ScopeCountsActions'
  BY <1>1, <1>9, <1>10 DEF ScopeCountsActions
<1>12. EventIsInScope'
  BY <1>1, <1>2, <1>10 DEF EventIsInScope
<1>13. TypeOK'
  <2>1. hooks' = [h \in Hooks |-> hooks'[h]]
    BY <1>1, <1>2 DEF TypeOK
  <2>2. \A h \in Hooks :
          hooks'[h] \in [memoizedState : StatesOf(h)', baseState : StatesOf(h)',
                        queue : Seq(UpdatesOf(h)'), lanes : SUBSET UsedTransitionLanes]
    <3>1. \A h \in Hooks : StatesOf(h)' = StatesOf(h) /\ UpdatesOf(h)' = UpdatesOf(h)
      BY <1>2 DEF StatesOf, UpdatesOf
    <3> QED
      BY <1>1, <1>2, <3>1, HookTypes
  <2>3. /\ eventLane' \in UsedTransitionLanes \cup {NoLane} /\ claimed' \in Nat
        /\ running' \subseteq 1..started' /\ hooked' \subseteq 1..started'
        /\ pings' \subseteq [on : Actions \cup {Scope}, lanes : SUBSET Lanes]
        /\ started' \in 0..MaxActions /\ updates' \in 0..MaxUpdates
    BY <1>1, <1>2, <1>4 DEF TypeOK
  <2>4. root'.entangledLanes \subseteq UsedTransitionLanes
    BY <1>1, <1>6 DEF TypeOK
  <2> QED
    BY <1>5, <1>6, <1>9, <2>1, <2>2, <2>3, <2>4, Zenon DEF TypeOK
<1>14. SuspendedHasListener'
  <2>1. ASSUME NEW p \in pings'
        PROVE  IF p.on = Scope THEN scope'.open ELSE p.on \in running'
    <3>1. /\ p \in pings /\ p.on # a
          /\ p.on = Scope => scope.open
          /\ p.on # Scope => p.on \in running
      BY <1>1, <1>3, <1>4, <2>1 DEF SuspendedHasListener
    <3>2. CASE p.on = Scope
      BY <1>10, <2>1, <3>1, <3>2
    <3>3. CASE p.on # Scope
      BY <1>2, <3>1, <3>3
    <3> QED
      BY <3>2, <3>3
  <2>2. \A l \in root'.suspendedLanes \ root'.pingedLanes : \E p \in pings' : l \in p.lanes
    BY <1>1, <1>4, <1>6 DEF SuspendedHasListener
  <2> QED
    BY <2>1, <2>2 DEF SuspendedHasListener
<1>15. LanesAreExact'
  BY <1>1, <1>2, <1>6 DEF LanesAreExact, Queued
<1>16. SyncWorkIsQueued'
  BY <1>1, <1>5, <1>6, Zenon DEF SyncWorkIsQueued
<1>17. OptimisticIsSync' /\ WaitingIsNotShown'
  BY <1>1, <1>2 DEF OptimisticIsSync, WaitingIsNotShown, Queued, Shown
<1>18. RunningIsNotApplied'
  BY <1>1, <1>2, <1>10 DEF RunningIsNotApplied, Queued
<1>19. PendingStands'
  BY <1>1, <1>2, <1>6, <1>10 DEF PendingStands, Begins, Finishes, Shown
<1> QED
  BY <1>11, <1>12, <1>13, <1>14, <1>15, <1>16, <1>17, <1>18, <1>19 DEF IndInv

\* The hook is pending from the update that StartAction queues, or was so before.
LEMMA StartedPending ==
  ASSUME IndInv, NEW q, NEW lane \in UsedTransitionLanes, NEW byHook \in BOOLEAN,
         scope.open => lane = scope.lane,
         hooks'["transition"].queue = hooks["transition"].queue \o q,
         Shown("transition")' = Shown("transition"),
         scope'.lane = lane, running' = running \cup {started + 1},
         hooked' = IF byHook THEN hooked \cup {started + 1} ELSE hooked,
         root.pendingLanes \subseteq root'.pendingLanes,
         byHook => /\ q = <<Update(SyncLane, lane, Pending), Update(lane, NoLane, started + 1)>>
                   /\ SyncLane \in root'.pendingLanes,
         ~byHook => q = <<>>
  PROVE  PendingStands'
<1>1. /\ TypeOK /\ "transition" \in Hooks /\ ScopeCountsActions /\ PendingStands
      /\ started \in Nat /\ hooked \subseteq 1..started
  BY DEF IndInv, Hooks, TypeOK
<1> DEFINE queue == hooks["transition"].queue
           new == hooks'["transition"].queue
           begins == Update(SyncLane, lane, Pending)
           finishes == Update(lane, NoLane, started + 1)
           B(u) == u.revertLane = lane /\ u.action = Pending
           F(u) == u.revertLane = NoLane /\ u.lane = lane /\ u.action # Pending
           Stands == \E i \in DOMAIN new : /\ B(new[i])
                                           /\ \A j \in i+1..Len(new) : B(new[j]) \/ F(new[j])
                                           /\ \E j \in i+1..Len(new) : F(new[j])
<1> HIDE DEF begins, finishes
<1>2. Len(queue) \in Nat /\ DOMAIN queue = 1..Len(queue) /\ queue \in Seq(UpdatesOf("transition"))
  BY <1>1, HookTypes
<1>3. B(begins) /\ F(finishes)
  BY <1>1, LaneFacts DEF begins, finishes, Update, Pending
<1>4. CASE byHook
  <2>1. new = queue \o <<begins, finishes>>
    BY <1>4 DEF begins, finishes
  <2> DEFINE N == Len(queue)
  <2>2. /\ DOMAIN new = 1..N + 2 /\ Len(new) = N + 2
        /\ \A k \in 1..N : new[k] = queue[k]
        /\ new[N + 1] = begins /\ new[N + 2] = finishes
    BY <1>2, <2>1
  <2> HIDE DEF new, queue, B, F
  <2>3. ASSUME running \cap hooked = {}
        PROVE  Stands
    <3>1. N + 1 \in DOMAIN new /\ N + 2 \in N+1+1..Len(new)
      BY <1>2, <2>2
    <3>2. \A j \in N+1+1..Len(new) : j = N + 2
      BY <1>2, <2>2
    <3> QED
      BY <1>3, <2>2, <3>1, <3>2
  <2>4. ASSUME running \cap hooked # {}
        PROVE  Stands
    <3>1. scope.lane = lane /\ scope'.lane = scope.lane
      BY <1>1, <2>4 DEF ScopeCountsActions
    <3>2. PICK i \in 1..N :
            /\ Begins(queue[i])
            /\ \A j \in i+1..N : Begins(queue[j]) \/ Finishes(queue[j])
      BY <1>1, <1>2, <2>4 DEF PendingStands, queue
    <3>3. \A u : (Begins(u) <=> B(u)) /\ (Finishes(u) <=> F(u))
      BY <3>1 DEF Begins, Finishes, B, F
    <3>4. i \in DOMAIN new /\ B(new[i])
      BY <1>2, <2>2, <3>2, <3>3
    <3>5. N + 2 \in i+1..Len(new)
      BY <1>2, <2>2, <3>2
    <3>6. ASSUME NEW j \in i+1..Len(new)
          PROVE  B(new[j]) \/ F(new[j])
      <4>1. j \in i+1..N \/ j = N + 1 \/ j = N + 2
        <5>1. Len(new) = N + 2 /\ N \in Nat /\ i \in Int /\ j \in i+1..Len(new)
          BY <1>2, <2>2
        <5> HIDE DEF N, new
        <5> QED
          BY <5>1, SMTT(30)
      <4>2. j \in i+1..N => new[j] = queue[j]
        BY <1>2, <2>2
      <4> QED
        BY <1>3, <2>2, <3>2, <3>3, <4>1, <4>2
    <3> QED
      BY <1>3, <2>2, <3>4, <3>5, <3>6
  <2>5. SyncLane \in root'.pendingLanes
    BY <1>4
  <2> QED
    BY <2>3, <2>4, <2>5 DEF PendingStands, Begins, Finishes, new, B, F
<1>5. CASE ~byHook
  <2>1. new = queue
    BY <1>2, <1>5
  <2>2. running' \cap hooked' = running \cap hooked
    <3>1. started + 1 \notin hooked
      BY <1>1
    <3> QED
      BY <1>5, <3>1
  <2>3. ASSUME running \cap hooked # {}
        PROVE  scope'.lane = scope.lane
    BY <1>1, <2>3 DEF ScopeCountsActions
  <2> QED
    BY <1>1, <2>1, <2>2, <2>3, SMTT(30) DEF PendingStands, Begins, Finishes
<1> QED
  BY <1>4, <1>5

LEMMA StartActionStep ==
  ASSUME IndInv, StartAction
  PROVE  IndInv'
<1>1. /\ TypeOK /\ ScopeCountsActions /\ EventIsInScope /\ RunningIsNotApplied
      /\ started \in Nat /\ updates \in Nat /\ running \subseteq 1..started
      /\ hooked \subseteq 1..started /\ {"state", "optimistic", "transition"} = Hooks
  BY DEF IndInv, Hooks, TypeOK
<1> DEFINE lane == RequestTransitionLane
           a == started + 1
           Added(setsState, setsOptimistic, byHook) ==
             [CallbackUpdates(lane, setsState, setsOptimistic) EXCEPT
                !["transition"] = IF byHook THEN <<Update(SyncLane, lane, Pending),
                                                   Update(lane, NoLane, a)>>
                                  ELSE @]
<1>2. PICK setsState \in BOOLEAN, setsOptimistic \in BOOLEAN, byHook \in BOOLEAN :
        /\ setsState \/ setsOptimistic => updates < MaxUpdates
        /\ Dispatch(Added(setsState, setsOptimistic, byHook))
        /\ EntangleAsyncAction(lane)
        /\ updates' = IF setsState \/ setsOptimistic THEN updates + 1 ELSE updates
        /\ hooked' = IF byHook THEN hooked \cup {a} ELSE hooked
        /\ running' = running \cup {a}
        /\ started' = a
  BY Zenon DEF StartAction
<1>3. started < MaxActions /\ CacheEventLane /\ pings' = pings
  BY Zenon DEF StartAction
<1>4. lane \in UsedTransitionLanes /\ (scope.open => lane = scope.lane) /\ eventLane' = lane
  BY <1>1, <1>3, RequestedLane DEF CacheEventLane
<1>5. eventLane' \in UsedTransitionLanes \cup {NoLane} /\ claimed' \in Nat
  BY <1>1, <1>3, CachedLane
<1> DEFINE callback == CallbackUpdates(lane, setsState, setsOptimistic)
           added == Added(setsState, setsOptimistic, byHook)
           q == added["transition"]
           begins == Update(SyncLane, lane, Pending)
           finishes == Update(lane, NoLane, a)
<1> HIDE DEF lane
<1>6. /\ callback = [h \in Hooks |-> callback[h]] /\ callback["transition"] = <<>>
      /\ IsAdded(callback) /\ \A h \in Hooks : callback[h] \in Seq(UpdatesOf(h)')
  BY <1>1, <1>2, <1>4, CallbackFacts, Zenon
<1> HIDE DEF callback, begins, finishes
<1>7. /\ \A h \in Hooks : h # "transition" => added[h] = callback[h]
      /\ byHook => q = <<begins, finishes>>
      /\ ~byHook => q = <<>>
  BY <1>1, <1>6 DEF callback, begins, finishes
<1>8. Dispatch(added)
  BY <1>2
<1> HIDE DEF added, Added
<1>9. /\ begins.lane = SyncLane /\ begins.revertLane = lane /\ begins.action = Pending
      /\ finishes.lane = lane /\ finishes.revertLane = NoLane /\ finishes.action = a
      /\ begins \in UpdatesOf("transition")' /\ finishes \in UpdatesOf("transition")'
  <2>1. a \in 1..started'
    BY <1>1, <1>2
  <2> HIDE DEF a
  <2>2. lane \in Lanes /\ SyncLane \in Lanes
    BY <1>4, LaneFacts
  <2> QED
    BY <1>4, <2>1, <2>2 DEF begins, finishes, Update, UpdatesOf
<1>10. /\ Elements(q) \subseteq {begins, finishes} /\ q \in Seq(UpdatesOf("transition")')
       /\ byHook => Elements(q) = {begins, finishes}
       /\ ~byHook => Elements(q) = {}
  <2> DEFINE S == UpdatesOf("transition")'
  <2>1. begins \in S /\ finishes \in S
    BY <1>9
  <2> HIDE DEF S, q
  <2>2. <<begins, finishes>> \in Seq(S) /\ <<>> \in Seq(S)
    BY <2>1
  <2>3. Elements(<<begins, finishes>>) = {begins, finishes} /\ Elements(<<>>) = {}
    BY Singles
  <2>4. CASE byHook
    BY <1>7, <2>2, <2>3, <2>4 DEF S
  <2>5. CASE ~byHook
    BY <1>7, <2>2, <2>3, <2>5 DEF S
  <2> QED
    BY <2>4, <2>5
<1>11. IsAdded(added)
  <2>1. \A u \in Elements(q) :
          u.lane # NoLane /\ (u.revertLane # NoLane => u.lane = SyncLane)
    <3>1. lane # NoLane /\ SyncLane # NoLane
      BY <1>4, LaneFacts
    <3> QED
      BY <1>9, <1>10, <3>1
  <2> QED
    BY <1>1, <1>6, <1>7, <2>1 DEF IsAdded
<1>12. \A h \in Hooks : added[h] \in Seq(UpdatesOf(h)')
  <2>1. \A h \in Hooks : h # "transition" => added[h] \in Seq(UpdatesOf(h)')
    BY <1>6, <1>7
  <2>2. added["transition"] \in Seq(UpdatesOf("transition")')
    BY <1>10
  <2> QED
    BY <2>1, <2>2
<1>13. /\ started' \in started..MaxActions /\ updates' \in updates..MaxUpdates
       /\ started' \in Nat /\ started <= started' /\ updates' \in Nat /\ updates <= updates'
  <2>1. updates' \in {updates, updates + 1} /\ (updates' # updates => updates < MaxUpdates)
    BY <1>2
  <2>2. updates <= MaxUpdates
    BY <1>1 DEF TypeOK
  <2> QED
    BY <1>1, <1>2, <1>3, <2>1, <2>2, AsyncActionAssumption
<1>14. /\ running' \subseteq 1..started' /\ hooked' \subseteq 1..started'
       /\ running \subseteq running'
       /\ a \notin running /\ a \in running' /\ (byHook => a \in hooked')
       /\ hooked \subseteq hooked'
  BY <1>1, <1>2
<1>15. /\ Cardinality(running') = Cardinality(running) + 1
       /\ running = {} <=> Cardinality(running) = 0
  BY <1>1, <1>2, <1>14, RunningIsFinite, FS_AddElement, FS_EmptySet
<1>16. /\ scope' \in [open : BOOLEAN, count : Nat, lane : UsedTransitionLanes \cup {NoLane}]
       /\ scope'.open /\ scope'.lane = lane /\ scope'.count = Cardinality(running')
  <2>1. scope \in [open : BOOLEAN, count : Nat, lane : UsedTransitionLanes \cup {NoLane}]
    BY <1>1 DEF TypeOK
  <2>2. CASE scope.open
    <3> DEFINE n == scope.count + 1
    <3>1. n \in Nat /\ n = Cardinality(running')
      BY <1>1, <1>15, <2>1 DEF ScopeCountsActions
    <3>2. scope' = [scope EXCEPT !.count = n]
      BY <1>2, <2>2 DEF EntangleAsyncAction
    <3> HIDE DEF n
    <3> QED
      BY <1>4, <2>1, <2>2, <3>1, <3>2
  <2>3. CASE ~scope.open
    <3>1. scope' = [open |-> TRUE, count |-> 1, lane |-> lane]
      BY <1>2, <2>3 DEF EntangleAsyncAction
    <3>2. Cardinality(running') = 1
      BY <1>1, <1>15, <2>3 DEF ScopeCountsActions
    <3> QED
      BY <1>4, <3>1, <3>2
  <2> QED
    BY <2>2, <2>3
<1>17. ScopeCountsActions'
  <2>1. lane # NoLane
    BY <1>4, LaneFacts
  <2> QED
    BY <1>14, <1>16, <2>1 DEF ScopeCountsActions
<1>18. EventIsInScope'
  BY <1>4, <1>16 DEF EventIsInScope
<1>19. /\ hooks'["transition"].memoizedState = hooks["transition"].memoizedState
       /\ hooks'["transition"].baseState = hooks["transition"].baseState
       /\ hooks'["transition"].queue = hooks["transition"].queue \o q
       /\ Queued("transition")' = Queued("transition") \cup Elements(q)
  BY <1>1, <1>8, <1>11, <1>12, <1>13, AddedUpdates, Zenon
<1>20. RunningIsNotApplied'
  <2>1. hooks'["transition"].baseState \notin running'
    <3>1. hooks["transition"].baseState \in 1..started \cup {Idle, Pending}
      BY <1>1, HookTypes DEF StatesOf
    <3> QED
      BY <1>1, <1>2, <1>19, <3>1 DEF RunningIsNotApplied, Idle, Pending
  <2>2. ASSUME NEW u \in Queued("transition")', u.action \in running'
        PROVE  u.action \in hooked' /\ u.lane = scope'.lane /\ u.revertLane = NoLane
    <3>1. CASE u \in Queued("transition")
      <4>1. u.action \in 1..started \cup {Pending}
        BY <1>1, <3>1, HookTypes DEF UpdatesOf
      <4>2. u.action \in running
        BY <1>1, <1>2, <2>2, <4>1 DEF Pending
      <4> QED
        BY <1>1, <1>4, <1>14, <1>16, <3>1, <4>2 DEF RunningIsNotApplied, ScopeCountsActions
    <3>2. CASE u \in Elements(q)
      <4>1. u \in {begins, finishes} /\ byHook
        BY <1>10, <3>2
      <4>2. Pending \notin running'
        BY <1>1, <1>2 DEF Pending
      <4>3. u = finishes
        BY <1>9, <2>2, <4>1, <4>2
      <4> QED
        BY <1>9, <1>14, <1>16, <4>1, <4>3
    <3> QED
      BY <1>19, <3>1, <3>2
  <2> QED
    BY <2>1, <2>2 DEF RunningIsNotApplied
<1>21. PendingStands'
  <2>1. root'.pendingLanes = root.pendingLanes \cup AllLanes(added)
    BY <1>1, <1>8, <1>11, <1>12, <1>13, AddedUpdates, Zenon
  <2>2. byHook => SyncLane \in root'.pendingLanes
    <3>1. byHook => SyncLane \in LanesOf(added["transition"])
      BY <1>9, <1>10 DEF LanesOf
    <3> QED
      BY <1>1, <2>1, <3>1 DEF AllLanes
  <2>3. Shown("transition")' = Shown("transition")
    BY <1>19 DEF Shown
  <2> QED
    BY <1>2, <1>4, <1>7, <1>16, <1>19, <2>1, <2>2, <2>3, StartedPending DEF begins, finishes
<1>22. scope.open => scope'.open
  BY <1>16
<1> QED
  BY <1>3, <1>5, <1>8, <1>11, <1>12, <1>13, <1>14, <1>16, <1>17, <1>18, <1>20, <1>21, <1>22,
     EventStep, Zenon

LEMMA MicrotaskStep ==
  ASSUME IndInv, ProcessRootScheduleInMicrotask
  PROVE  IndInv'
<1>1. /\ UNCHANGED <<scope, claimed, running, hooked, started, updates>>
      /\ eventLane' \in {eventLane, NoLane} /\ microtask' \in BOOLEAN
  BY DEF ProcessRootScheduleInMicrotask
<1>2. CASE SyncLane \in root.pendingLanes
  <2>1. Render({SyncLane}) /\ {SyncLane} \in SUBSET Lanes
    BY <1>2, LaneFacts DEF ProcessRootScheduleInMicrotask
  <2> QED
    BY <1>1, <2>1, RenderStep
<1>3. CASE SyncLane \notin root.pendingLanes
  <2>1. UNCHANGED <<root, hooks, pings>>
    BY <1>3 DEF ProcessRootScheduleInMicrotask
  <2>2. TypeOK'
    <3>1. TypeOK
      BY DEF IndInv
    <3>2. \A h \in Hooks : StatesOf(h)' = StatesOf(h) /\ UpdatesOf(h)' = UpdatesOf(h)
      BY <1>1 DEF StatesOf, UpdatesOf
    <3>3. /\ hooks' = [h \in Hooks |-> hooks'[h]]
          /\ \A h \in Hooks :
               hooks'[h] \in [memoizedState : StatesOf(h)', baseState : StatesOf(h)',
                             queue : Seq(UpdatesOf(h)'), lanes : SUBSET UsedTransitionLanes]
      BY <2>1, <3>1, <3>2, HookTypes DEF TypeOK
    <3>4. eventLane' \in UsedTransitionLanes \cup {NoLane}
      BY <1>1, <3>1 DEF TypeOK
    <3> QED
      BY <1>1, <2>1, <3>1, <3>3, <3>4, Zenon DEF TypeOK
  <2>3. ScopeCountsActions' /\ SuspendedHasListener' /\ LanesAreExact' /\ EventIsInScope'
    BY <1>1, <2>1 DEF IndInv, ScopeCountsActions, SuspendedHasListener, LanesAreExact,
                      EventIsInScope, Queued
  <2>4. SyncWorkIsQueued'
    BY <1>3, <2>1 DEF SyncWorkIsQueued
  <2>5. OptimisticIsSync' /\ WaitingIsNotShown' /\ RunningIsNotApplied'
    BY <1>1, <2>1 DEF IndInv, OptimisticIsSync, WaitingIsNotShown, RunningIsNotApplied, Queued,
                      Shown
  <2>6. PendingStands'
    BY <1>1, <2>1 DEF IndInv, PendingStands, Begins, Finishes, Shown
  <2> QED
    BY <2>2, <2>3, <2>4, <2>5, <2>6 DEF IndInv
<1> QED
  BY <1>2, <1>3

\* The task renders nothing synchronous: the microtask has done that.
LEMMA TaskStep ==
  ASSUME IndInv, PerformWorkOnRoot
  PROVE  IndInv'
<1> DEFINE lanes == GetNextLanes(root, {}, FALSE)
<1>1. TypeOK /\ SyncWorkIsQueued
  BY DEF IndInv
<1>2. lanes \in SUBSET Lanes
  BY <1>1, NextLanes DEF TypeOK, Root
<1>3. /\ Render(lanes)
      /\ UNCHANGED <<scope, eventLane, claimed, microtask, running, hooked, started, updates>>
  BY DEF PerformWorkOnRoot
<1>4. SyncLane \notin root.pendingLanes
  <2>1. ~microtask
    BY DEF PerformWorkOnRoot
  <2> QED
    BY <1>1, <2>1, Zenon DEF SyncWorkIsQueued
<1> HIDE DEF lanes
<1>5. eventLane' \in {eventLane, NoLane} /\ microtask' \in BOOLEAN
  BY <1>1, <1>3 DEF TypeOK
<1> QED
  BY <1>2, <1>3, <1>4, <1>5, RenderStep, Zenon

LEMMA NextStep ==
  ASSUME IndInv, Next
  PROVE  IndInv'
<1>1. CASE StartAction
  BY <1>1, StartActionStep
<1>2. CASE TransitionUpdate
  BY <1>2, TransitionUpdateStep
<1>3. CASE UrgentUpdate
  BY <1>3, UrgentUpdateStep
<1>4. CASE \E a \in Actions : Settle(a)
  BY <1>4, SettleStep
<1>5. CASE ProcessRootScheduleInMicrotask
  BY <1>5, MicrotaskStep
<1>6. CASE PerformWorkOnRoot
  BY <1>6, TaskStep
<1> QED
  BY <1>1, <1>2, <1>3, <1>4, <1>5, <1>6 DEF Next

LEMMA InitIsInvariant ==
  ASSUME Init
  PROVE  IndInv
<1>1. /\ root = IdleRoot(Lanes) /\ scope = NoScope /\ eventLane = NoLane /\ claimed = 0
      /\ microtask = FALSE /\ running = {} /\ hooked = {} /\ pings = {}
      /\ started = 0 /\ updates = 0
      /\ hooks = [h \in Hooks |-> IF h = "transition" THEN Hook(Idle) ELSE Hook({})]
  BY DEF Init
<1>2. ASSUME NEW h \in Hooks
      PROVE  /\ hooks[h] = IF h = "transition" THEN Hook(Idle) ELSE Hook({})
             /\ hooks[h].queue = <<>> /\ Queued(h) = {}
             /\ hooks[h] \in [memoizedState : StatesOf(h), baseState : StatesOf(h),
                             queue : Seq(UpdatesOf(h)), lanes : SUBSET UsedTransitionLanes]
  <2>1. hooks[h] = IF h = "transition" THEN Hook(Idle) ELSE Hook({})
    BY <1>1
  <2>2. hooks[h].queue = <<>>
    BY <2>1 DEF Hook
  <2>3. Queued(h) = {}
    BY <2>2, Singles DEF Queued
  <2>4. \A S : <<>> \in Seq(S)
    OBVIOUS
  <2>5. h = "transition" => Idle \in StatesOf(h)
    BY DEF StatesOf
  <2>6. h # "transition" => {} \in StatesOf(h)
    BY DEF StatesOf
  <2> QED
    BY <2>1, <2>2, <2>3, <2>4, <2>5, <2>6 DEF Hook
<1>3. /\ root \in Root(Lanes)
      /\ root.entangledLanes = {} /\ root.pendingLanes = {} /\ root.suspendedLanes = {}
  BY <1>1 DEF IdleRoot, Root
<1>4. TypeOK
  <2>1. scope \in [open : BOOLEAN, count : Nat, lane : UsedTransitionLanes \cup {NoLane}]
    BY <1>1 DEF NoScope
  <2>2. hooks = [h \in Hooks |-> hooks[h]]
    BY <1>1
  <2>3. started \in 0..MaxActions /\ updates \in 0..MaxUpdates /\ claimed \in Nat
    BY <1>1, AsyncActionAssumption
  <2> QED
    BY <1>1, <1>2, <1>3, <2>1, <2>2, <2>3 DEF TypeOK
<1>5. ScopeCountsActions
  <2>1. scope.open = FALSE /\ scope.count = 0 /\ scope.lane = NoLane
    BY <1>1 DEF NoScope
  <2> QED
    BY <1>1, <2>1, FS_EmptySet DEF ScopeCountsActions
<1>6. SuspendedHasListener /\ LanesAreExact /\ EventIsInScope /\ SyncWorkIsQueued
  BY <1>1, <1>2, <1>3 DEF SuspendedHasListener, LanesAreExact, EventIsInScope, SyncWorkIsQueued
<1>7. OptimisticIsSync /\ WaitingIsNotShown /\ RunningIsNotApplied /\ PendingStands
  BY <1>1, <1>2 DEF OptimisticIsSync, WaitingIsNotShown, RunningIsNotApplied, PendingStands, Hooks
<1> QED
  BY <1>4, <1>5, <1>6, <1>7 DEF IndInv

\* The scope, the lanes of the root, its listeners and the queues of the hooks agree after
\* every step of DevjsFiberAsyncAction.js and of the renders that read it.
THEOREM Invariance == Spec => []IndInv
<1>1. IndInv /\ UNCHANGED vars => IndInv'
  <2> SUFFICES ASSUME IndInv, UNCHANGED vars
               PROVE  IndInv'
    OBVIOUS
  <2>1. UNCHANGED <<root, hooks, scope, eventLane, claimed, microtask, running, hooked, pings,
                    started, updates>>
    BY DEF vars
  <2>2. \A h \in Hooks : StatesOf(h)' = StatesOf(h) /\ UpdatesOf(h)' = UpdatesOf(h)
    BY <2>1 DEF StatesOf, UpdatesOf
  <2>3. TypeOK'
    <3>1. \A h \in Hooks :
            hooks[h] \in [memoizedState : StatesOf(h)', baseState : StatesOf(h)',
                         queue : Seq(UpdatesOf(h)'), lanes : SUBSET UsedTransitionLanes]
      BY <2>2, HookTypes DEF IndInv
    <3> QED
      BY <2>1, <3>1 DEF IndInv, TypeOK
  <2>4. /\ ScopeCountsActions' /\ SuspendedHasListener' /\ LanesAreExact'
        /\ EventIsInScope' /\ SyncWorkIsQueued'
    BY <2>1 DEF IndInv, ScopeCountsActions, SuspendedHasListener, LanesAreExact, EventIsInScope,
                SyncWorkIsQueued, Queued
  <2>5. OptimisticIsSync' /\ WaitingIsNotShown' /\ RunningIsNotApplied'
    BY <2>1 DEF IndInv, OptimisticIsSync, WaitingIsNotShown, RunningIsNotApplied, Queued, Shown
  <2>6. PendingStands'
    BY <2>1 DEF IndInv, PendingStands, Begins, Finishes, Shown
  <2> QED
    BY <2>3, <2>4, <2>5, <2>6 DEF IndInv
<1> QED
  BY <1>1, InitIsInvariant, NextStep, PTL DEF Spec

\* isPending of useTransition is shown while an action that the hook started runs.
THEOREM PendingLasts == Spec => []PendingIsShown
<1>1. IndInv => PendingIsShown
  <2> SUFFICES ASSUME IndInv, ~microtask, running \cap hooked # {}
               PROVE  Shown("transition") = Pending
    BY DEF PendingIsShown
  <2>1. SyncLane \notin root.pendingLanes
    BY Zenon DEF IndInv, SyncWorkIsQueued
  <2> QED
    BY <2>1 DEF IndInv, PendingStands
<1> QED
  BY <1>1, Invariance, PTL

-----------------------------------------------------------------------------
(* What a commit may show *)

LEMMA DispatchShows ==
  ASSUME TypeOK, NEW added, Dispatch(added)
  PROVE  \A h \in Hooks : Shown(h)' = Shown(h)
<1> SUFFICES ASSUME NEW h \in Hooks
             PROVE  Shown(h)' = Shown(h)
  OBVIOUS
<1>1. hooks[h] \in [memoizedState : StatesOf(h), baseState : StatesOf(h),
                   queue : Seq(UpdatesOf(h)), lanes : SUBSET UsedTransitionLanes]
  BY HookTypes
<1>2. \/ hooks' = hooks
      \/ \E queue, lanes : hooks'[h] = [hooks[h] EXCEPT !.queue = queue, !.lanes = lanes]
  BY ZenonT(60) DEF Dispatch
<1> QED
  BY <1>1, <1>2 DEF Shown

\* Only a commit changes what is shown.
LEMMA ShownByCommit ==
  ASSUME TypeOK, [Next]_vars
  PROVE  (\A h \in Hooks : Shown(h)' = Shown(h)) \/ \E R \in SUBSET Lanes : Committed(R)
<1> DEFINE Same == \A h \in Hooks : Shown(h)' = Shown(h)
<1>1. ASSUME hooks' = hooks
      PROVE  Same
  BY <1>1 DEF Shown
<1>2. ASSUME NEW added, Dispatch(added)
      PROVE  Same
  BY <1>2, DispatchShows
<1>3. ASSUME NEW lanes \in SUBSET Lanes, Render(lanes)
      PROVE  Same \/ \E R \in SUBSET Lanes : Committed(R)
  <2>1. PICK R \in SUBSET Lanes : Suspended(R) \/ Committed(R)
    BY <1>3, RenderOutcomes
  <2>2. CASE Suspended(R)
    BY <1>1, <2>2 DEF Suspended
  <2> QED
    BY <2>1, <2>2
<1>4. CASE StartAction
  <2>1. \E added : Dispatch(added)
    BY <1>4, Zenon DEF StartAction
  <2> QED
    BY <1>2, <2>1
<1>5. CASE TransitionUpdate
  <2>1. \E added : Dispatch(added)
    BY <1>5, Zenon DEF TransitionUpdate
  <2> QED
    BY <1>2, <2>1
<1>6. CASE UrgentUpdate
  <2>1. \E added : Dispatch(added)
    BY <1>6, Zenon DEF UrgentUpdate
  <2> QED
    BY <1>2, <2>1
<1>7. CASE \E a \in Actions : Settle(a)
  BY <1>1, <1>7 DEF Settle
<1>8. CASE ProcessRootScheduleInMicrotask
  <2>1. hooks' = hooks \/ Render({SyncLane})
    BY <1>8 DEF ProcessRootScheduleInMicrotask
  <2> QED
    BY <1>1, <1>3, <2>1, LaneFacts
<1>9. CASE PerformWorkOnRoot
  <2>1. Render(GetNextLanes(root, {}, FALSE))
    BY <1>9 DEF PerformWorkOnRoot
  <2>2. GetNextLanes(root, {}, FALSE) \in SUBSET Lanes
    BY NextLanes DEF TypeOK, Root
  <2> QED
    BY <1>3, <2>1, <2>2
<1>10. CASE UNCHANGED vars
  BY <1>1, <1>10 DEF vars
<1> QED
  BY <1>4, <1>5, <1>6, <1>7, <1>8, <1>9, <1>10 DEF Next

\* What a commit shows of the state and of its optimistic value.
LEMMA CommittedStates ==
  ASSUME TypeOK, OptimisticIsSync, NEW R \in SUBSET Lanes, Committed(R),
         NEW h \in {"state", "optimistic"}
  PROVE  /\ \A u \in Queued(h) : Applies(u, R) => u.action \in Shown(h)'
         /\ h = "state" => Shown(h)' \subseteq hooks[h].baseState \cup
                             {u.action : u \in {v \in Queued(h) : Applies(v, R)}}
<1>1. PICK base \in StatesOf(h) :
        /\ hooks'[h] = UpdateReducer(h, base, R).hook
        /\ h # "optimistic" => base = hooks[h].baseState
  BY CommittedHook DEF Hooks
<1> DEFINE hook == hooks'[h]
<1>2. hook = UpdateReducer(h, base, R).hook /\ Shown(h)' = hook.memoizedState /\ h \in Hooks
  BY <1>1 DEF Shown, Hooks
<1> HIDE DEF hook
<1>3. hook.memoizedState = base \cup {u.action : u \in {v \in Queued(h) : Applies(v, R)}}
  BY <1>2, RenderedStates
<1> QED
  BY <1>1, <1>2, <1>3

\* All that overlapping actions do to a state is shown after the last of them settles:
\* while the scope is open its updates are not.
THEOREM ActionsAreTogether == Spec => ActionsAreBatched
<1> DEFINE Batched == scope.open =>
                        \A u \in Queued("state") :
                          u.lane = scope.lane => u.action \notin Shown("state")'
<1>1. IndInv /\ [Next]_vars => Batched
  <2> SUFFICES ASSUME IndInv, [Next]_vars, scope.open, NEW u \in Queued("state"),
                      u.lane = scope.lane
               PROVE  u.action \notin Shown("state")'
    OBVIOUS
  <2>1. /\ TypeOK /\ OptimisticIsSync /\ WaitingIsNotShown /\ "state" \in Hooks
        /\ u.lane # NoLane /\ NoLane \notin Lanes
    BY LaneFacts DEF IndInv, Hooks, ScopeCountsActions
  <2>2. u.action \notin hooks["state"].baseState \cup Shown("state")
    BY <2>1 DEF WaitingIsNotShown
  <2>3. CASE Shown("state")' = Shown("state")
    BY <2>2, <2>3
  <2>4. CASE \E R \in SUBSET Lanes : Committed(R)
    <3>1. PICK R \in SUBSET Lanes : Committed(R)
      BY <2>4
    <3>2. /\ \A v \in Queued("state") : Applies(v, R) => v.action \in Shown("state")'
          /\ Shown("state")' \subseteq hooks["state"].baseState \cup
                                     {v.action : v \in {w \in Queued("state") : Applies(w, R)}}
      BY <2>1, <3>1, CommittedStates
    <3>3. u.revertLane = NoLane
      BY <2>1 DEF OptimisticIsSync
    <3>4. CASE scope.lane \in R
      <4>1. Applies(u, R) /\ ReadsScope(u, R)
        BY <2>1, <3>3, <3>4 DEF Applies, Skips, Reverts, ReadsScope
      <4>2. u.action \in Shown("state")'
        BY <3>2, <4>1
      <4>3. hooks'["state"].memoizedState # Shown("state")
        BY <2>2, <4>2 DEF Shown
      <4>4. \A v \in Queued("state") : ~ReadsScope(v, R)
        BY <2>1, <3>1, <4>3, CommittedHook
      <4> QED
        BY <4>1, <4>4
    <3>5. CASE scope.lane \notin R
      <4>1. ~Applies(u, R)
        BY <2>1, <3>5 DEF Applies, Skips
      <4>2. \A v \in Queued("state") : Applies(v, R) => v.action # u.action
        BY <2>1, <4>1 DEF WaitingIsNotShown
      <4> QED
        BY <2>2, <3>2, <4>2
    <3> QED
      BY <3>4, <3>5
  <2> QED
    BY <2>1, <2>3, <2>4, ShownByCommit
<1>2. Spec => [][Batched]_vars
  BY <1>1, Invariance, PTL DEF Spec
<1> QED
  BY <1>2 DEF ActionsAreBatched

\* An optimistic value is dropped by the commit that shows what it stood for, when its
\* scope has closed.
THEOREM OptimisticValuesLast == Spec => OptimisticUntilDone
<1> DEFINE Last == \A o \in Reverted :
                     /\ ~(scope.open /\ o.revertLane = scope.lane)
                     /\ \A u \in Queued("state") :
                          u.lane = o.revertLane => u.action \in Shown("state")'
<1>1. IndInv /\ [Next]_vars => Last
  <2> SUFFICES ASSUME IndInv, [Next]_vars, NEW o \in Reverted
               PROVE  /\ ~(scope.open /\ o.revertLane = scope.lane)
                      /\ \A u \in Queued("state") :
                           u.lane = o.revertLane => u.action \in Shown("state")'
    OBVIOUS
  <2>1. /\ TypeOK /\ OptimisticIsSync /\ {"state", "optimistic"} \subseteq Hooks
        /\ NoLane \notin Lanes
    BY LaneFacts DEF IndInv, Hooks
  <2>2. /\ o \in Queued("optimistic") /\ o.lane = NoLane
        /\ o.action \in Shown("optimistic") /\ o.action \notin Shown("optimistic")'
    BY DEF Reverted
  <2>3. PICK R \in SUBSET Lanes : Committed(R)
    BY <2>1, <2>2, ShownByCommit
  <2>4. ~Skips(o, R) /\ Reverts(o, R)
    <3>1. ~Applies(o, R)
      BY <2>1, <2>2, <2>3, CommittedStates
    <3> QED
      BY <2>2, <3>1 DEF Applies, Skips
  <2>5. o.revertLane \in R /\ o.revertLane # NoLane
    BY <2>1, <2>4 DEF Reverts
  <2>6. ~(scope.open /\ o.revertLane = scope.lane)
    <3> SUFFICES ASSUME scope.open, o.revertLane = scope.lane
                 PROVE  FALSE
      OBVIOUS
    <3>1. ReadsScope(o, R)
      BY <2>4, <2>5 DEF ReadsScope
    <3>2. hooks'["optimistic"].memoizedState # Shown("optimistic")
      BY <2>2 DEF Shown
    <3>3. \A v \in Queued("optimistic") : ~ReadsScope(v, R)
      BY <2>1, <2>3, <3>2, CommittedHook
    <3> QED
      BY <2>2, <3>1, <3>3
  <2>7. ASSUME NEW u \in Queued("state"), u.lane = o.revertLane
        PROVE  u.action \in Shown("state")'
    <3>1. u.revertLane = NoLane
      BY <2>1 DEF OptimisticIsSync
    <3>2. Applies(u, R)
      BY <2>1, <2>5, <2>7, <3>1 DEF Applies, Skips, Reverts
    <3> QED
      BY <2>1, <2>3, <3>2, CommittedStates
  <2> QED
    BY <2>6, <2>7
<1>2. Spec => [][Last]_vars
  BY <1>1, Invariance, PTL DEF Spec
<1> QED
  BY <1>2 DEF OptimisticUntilDone
=============================================================================

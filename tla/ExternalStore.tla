--------------------------- MODULE ExternalStore ---------------------------
(***************************************************************************)
(* useSyncExternalStore: function components that read mutable stores      *)
(* outside the queues of Dev.js, rendered by one root.                     *)
(*                                                                         *)
(* A component reads one store at a time; changing which one changes both  *)
(* its getSnapshot and its subscribe.  What a render read goes through     *)
(* three stages at different times: the value on the screen (current), the *)
(* mutable instance that the store's listener compares with (inst, written *)
(* by passive effects), and the subscription itself (listening, changed by *)
(* passive effects too).  User code may change a store wherever it runs:   *)
(* in events, also between two slices of a render, in layout effects and   *)
(* in passive effects.                                                     *)
(*                                                                         *)
(* The lanes are reduced to the synchronous one and one transition.        *)
(***************************************************************************)
EXTENDS Integers

CONSTANTS
  LastComponent,   \* components are numbered in tree order from 1
  Stores,
  Values,          \* the snapshots that a store may return
  InitialValue,
  MaxMutations,    \* bound on the changes made to stores
  MaxUpdates       \* bound on the updates that change what a component reads

Components == 1..LastComponent
NoStore == "not mounted"
Reads == Stores \cup {NoStore}
Lanes == {"Sync", "Transition"}

ASSUME ExternalStoreAssumption ==
  /\ LastComponent \in Nat
  /\ NoStore \notin Stores
  /\ InitialValue \in Values
  /\ MaxMutations \in Nat
  /\ MaxUpdates \in Nat

VARIABLES
  store,       \* what getSnapshot returns for each store
  current,     \* the committed tree: what each component reads and showed
  inst,        \* the StoreInstance of each component
  listening,   \* the store that each component's listener is registered with
  pending,     \* the update that waits for each component, if any
  forced,      \* components that forceStoreRerender gave the synchronous lane
  wip,         \* the transition render in progress, if any
  effects,     \* the passive effects of the last commit, still to be run
  pc,          \* what the thread does
  mutations, updates

vars == <<store, current, inst, listening, pending, forced, wip, effects, pc,
          mutations, updates>>

-----------------------------------------------------------------------------
(* Rendering one component. *)

NoUpdate == [lane |-> "none", reads |-> NoStore]
NoEffect == [resubscribe |-> FALSE, update |-> FALSE]
Unmounted == [reads |-> NoStore, value |-> InitialValue]
NoRender == [next |-> 0]

IsMounted(fiber) == fiber.reads # NoStore

\* What the hook leaves for component c when it is rendered with props that
\* make it read store s: its memoized state and the effects it pushes.
MountSyncExternalStore(c, s) ==
  [fiber |-> [reads |-> s, value |-> store[s]],
   effect |-> [resubscribe |-> TRUE, update |-> TRUE],
   changed |-> TRUE]

UpdateSyncExternalStore(c, s) ==
  LET resubscribe == current[c].reads # s
      changed == \/ inst[c].reads # s
                 \/ current[c].value # store[s]
                 \/ resubscribe
  IN  [fiber |-> [reads |-> s, value |-> store[s]],
       effect |-> [resubscribe |-> resubscribe, update |-> changed],
       changed |-> changed]

BailOut(c) == [fiber |-> current[c], effect |-> NoEffect, changed |-> FALSE]

Delete(c) ==
  [fiber |-> Unmounted,
   effect |-> [resubscribe |-> TRUE, update |-> FALSE], changed |-> FALSE]

\* Component c rendered with the updates in "taken" and, in "forcedSet", the
\* components whose lane is rendered without new props.
RenderComponent(c, taken, forcedSet) ==
  LET s == IF c \in taken THEN pending[c].reads ELSE current[c].reads
  IN  IF c \notin taken \cup forcedSet \/ (s = NoStore /\ ~IsMounted(current[c]))
        THEN BailOut(c)
      ELSE IF s = NoStore THEN Delete(c)
      ELSE IF IsMounted(current[c]) THEN UpdateSyncExternalStore(c, s)
      ELSE MountSyncExternalStore(c, s)

TakenBy(lane) == {c \in Components : pending[c].lane = lane}

SyncWork == forced \cup TakenBy("Sync")

-----------------------------------------------------------------------------
(* Committing a tree: [Components -> result of RenderComponent].  A mount  *)
(* brings its new instance along; an update leaves the instance to the     *)
(* passive effects.                                                        *)

CommitRoot(tree, taken) ==
  /\ current' = [c \in Components |-> tree[c].fiber]
  /\ inst' = [c \in Components |->
                IF IsMounted(current[c]) THEN inst[c] ELSE tree[c].fiber]
  /\ effects' = [c \in Components |-> tree[c].effect]
  /\ pending' = [c \in Components |->
                   IF c \in taken THEN NoUpdate ELSE pending[c]]
  /\ wip' = NoRender

HasEffects == \E c \in Components : effects[c] # NoEffect

-----------------------------------------------------------------------------
(* User code *)

RunsUserCode == pc \in {"event", "syncLayout", "layout",
                        "passiveUnmount", "passiveMount"}

\* The listeners that find that the snapshot is not the instance's.  A fiber
\* that was deleted has no root to schedule.
CheckIfSnapshotChanged(c, snapshots) ==
  inst[c].value # snapshots[inst[c].reads]

HandleStoreChange(s, snapshots) ==
  {c \in Components : /\ listening[c] = s
                      /\ IsMounted(current[c])
                      /\ CheckIfSnapshotChanged(c, snapshots)}

Mutate ==
  /\ RunsUserCode
  /\ mutations < MaxMutations
  /\ \E s \in Stores, v \in Values :
       /\ v # store[s]
       /\ store' = [store EXCEPT ![s] = v]
       /\ forced' = forced \cup HandleStoreChange(s, store')
  /\ mutations' = mutations + 1
  /\ UNCHANGED <<current, inst, listening, pending, wip, effects, pc, updates>>

\* A setState of the parent, outside the render.
SetState ==
  /\ pc \in {"event", "syncLayout", "layout"}
  /\ updates < MaxUpdates
  /\ \E c \in Components, lane \in Lanes, s \in Reads :
       /\ pending[c] = NoUpdate
       /\ s # current[c].reads
       /\ pending' = [pending EXCEPT ![c] = [lane |-> lane, reads |-> s]]
  /\ updates' = updates + 1
  /\ UNCHANGED <<store, current, inst, listening, forced, wip, effects, pc,
                 mutations>>

-----------------------------------------------------------------------------
(* Synchronous work: the microtask at the end of an event, and the flushes *)
(* that end commits and passive effects.                                   *)

Microtask ==
  /\ pc = "event"
  /\ SyncWork # {}
  /\ pc' = "sync"
  /\ UNCHANGED <<store, current, inst, listening, pending, forced, wip,
                 effects, mutations, updates>>

\* Mutant: the lanes of the rendered fibers are not reset.
PerformSyncWorkOnRootKeepingLanes ==
  /\ pc = "sync"
  /\ SyncWork # {}
  /\ ~HasEffects
  /\ LET taken == TakenBy("Sync")
     IN  CommitRoot([c \in Components |-> RenderComponent(c, taken, forced)],
                    taken)
  /\ pc' = "syncLayout"
  /\ UNCHANGED <<store, listening, forced, mutations, updates>>

PerformSyncWorkOnRoot ==
  /\ pc = "sync"
  /\ SyncWork # {}
  /\ ~HasEffects
  /\ LET taken == TakenBy("Sync")
     IN  CommitRoot([c \in Components |-> RenderComponent(c, taken, forced)],
                    taken)
  /\ forced' = {}
  /\ pc' = "syncLayout"
  /\ UNCHANGED <<store, listening, mutations, updates>>

NoSyncWorkLeft ==
  /\ pc = "sync"
  /\ SyncWork = {}
  /\ pc' = "event"
  /\ UNCHANGED <<store, current, inst, listening, pending, forced, wip,
                 effects, mutations, updates>>

\* The layout effects are over.  The passive effects of a discrete render
\* follow at once; those of a transition wait.
FlushSpawnedWork ==
  /\ pc \in {"syncLayout", "layout"}
  /\ pc' = IF pc = "syncLayout" /\ HasEffects THEN "passiveUnmount" ELSE "sync"
  /\ UNCHANGED <<store, current, inst, listening, pending, forced, wip,
                 effects, mutations, updates>>

-----------------------------------------------------------------------------
(* Passive effects: run by a task of their own, or by whatever renders     *)
(* first.                                                                  *)

FlushPassiveEffects ==
  /\ HasEffects
  /\ \/ pc = "event" /\ SyncWork = {}
     \/ pc = "sync" /\ SyncWork # {}
  /\ pc' = "passiveUnmount"
  /\ UNCHANGED <<store, current, inst, listening, pending, forced, wip,
                 effects, mutations, updates>>

EffectsToMount ==
  [c \in Components |-> IF IsMounted(current[c]) THEN effects[c] ELSE NoEffect]

\* Mutant: the effects of deleted components are not destroyed.
CommitPassiveUnmountEffectsOfMounted ==
  /\ pc = "passiveUnmount"
  /\ listening' = [c \in Components |->
                     IF effects[c].resubscribe /\ IsMounted(current[c])
                       THEN NoStore ELSE listening[c]]
  /\ effects' = EffectsToMount
  /\ pc' = "passiveMount"
  /\ UNCHANGED <<store, current, inst, pending, forced, wip, mutations, updates>>

CommitPassiveUnmountEffects ==
  /\ pc = "passiveUnmount"
  /\ listening' = [c \in Components |->
                     IF effects[c].resubscribe THEN NoStore ELSE listening[c]]
  /\ effects' = EffectsToMount
  /\ pc' = "passiveMount"
  /\ UNCHANGED <<store, current, inst, pending, forced, wip, mutations, updates>>

\* subscribeToStore, then updateStoreInstance, of the next component.
SubscribeToStore(c) ==
  IF effects[c].resubscribe
    THEN [listening EXCEPT ![c] = current[c].reads]
    ELSE listening

\* Mutant: what changed since the render is not compared.
UpdateStoreInstanceUnchecked(c) ==
  /\ inst' = IF effects[c].update THEN [inst EXCEPT ![c] = current[c]] ELSE inst
  /\ UNCHANGED forced

UpdateStoreInstance(c) ==
  IF effects[c].update
    THEN /\ inst' = [inst EXCEPT ![c] = current[c]]
         /\ forced' = IF current[c].value # store[current[c].reads]
                        THEN forced \cup {c} ELSE forced
    ELSE UNCHANGED <<inst, forced>>

CommitPassiveMountEffects ==
  /\ pc = "passiveMount"
  /\ \E c \in Components :
       /\ effects[c] # NoEffect
       /\ \A d \in 1..(c - 1) : effects[d] = NoEffect
       /\ listening' = SubscribeToStore(c)
       /\ UpdateStoreInstance(c)
       /\ effects' = [effects EXCEPT ![c] = NoEffect]
  /\ UNCHANGED <<store, current, pending, wip, pc, mutations, updates>>

PassiveEffectsFlushed ==
  /\ pc = "passiveMount"
  /\ ~HasEffects
  /\ pc' = "sync"
  /\ UNCHANGED <<store, current, inst, listening, pending, forced, wip,
                 effects, mutations, updates>>

-----------------------------------------------------------------------------
(* The transition, rendered in slices *)

\* A task starts or resumes the render.  Time slicing is off once the lane
\* has expired or the task has timed out: the rest is then rendered
\* synchronously, on top of what earlier slices rendered.
PerformWorkOnRoot ==
  /\ pc = "event"
  /\ SyncWork = {}
  /\ ~HasEffects
  /\ wip # NoRender \/ TakenBy("Transition") # {}
  /\ \E timeSlice \in BOOLEAN :
       wip' = IF wip = NoRender
                THEN [next |-> 1, taken |-> TakenBy("Transition"),
                      tree |-> [c \in Components |-> BailOut(c)],
                      timeSlice |-> timeSlice, everYielded |-> FALSE]
                ELSE [wip EXCEPT !.timeSlice = timeSlice]
  /\ pc' = "render"
  /\ UNCHANGED <<store, current, inst, listening, pending, forced, effects,
                 mutations, updates>>

PerformUnitOfWork ==
  /\ pc = "render"
  /\ wip.next \in Components
  /\ wip' = [wip EXCEPT
               !.next = @ + 1,
               !.tree[wip.next] = RenderComponent(wip.next, wip.taken, {})]
  /\ UNCHANGED <<store, current, inst, listening, pending, forced, effects, pc,
                 mutations, updates>>

YieldToHost ==
  /\ pc = "render"
  /\ wip.next \in Components
  /\ wip.timeSlice
  /\ wip' = [wip EXCEPT !.everYielded = TRUE]
  /\ pc' = "event"
  /\ UNCHANGED <<store, current, inst, listening, pending, forced, effects,
                 mutations, updates>>

\* Mutant: only components that were mounted before are checked.
IsRenderConsistentWithoutMounts ==
  \A c \in Components :
    wip.tree[c].changed /\ IsMounted(current[c]) =>
      wip.tree[c].fiber.value = store[wip.tree[c].fiber.reads]

\* pushStoreConsistencyCheck was called for what a mount or a change read.
IsRenderConsistentWithExternalStores ==
  \A c \in Components :
    wip.tree[c].changed =>
      wip.tree[c].fiber.value = store[wip.tree[c].fiber.reads]

\* The tree is complete.  A render that was sliced to the end and whose
\* stores have changed is made again, synchronously.
CompleteRender ==
  /\ pc = "render"
  /\ wip.next \notin Components
  /\ CommitRoot(IF wip.timeSlice /\ ~IsRenderConsistentWithExternalStores
                  THEN [c \in Components |-> RenderComponent(c, wip.taken, {})]
                  ELSE wip.tree,
                wip.taken)
  /\ pc' = "layout"
  /\ UNCHANGED <<store, listening, forced, mutations, updates>>

-----------------------------------------------------------------------------
Init ==
  /\ store = [s \in Stores |-> InitialValue]
  /\ current = [c \in Components |-> Unmounted]
  /\ inst = [c \in Components |-> Unmounted]
  /\ listening = [c \in Components |-> NoStore]
  /\ pending = [c \in Components |-> NoUpdate]
  /\ forced = {}
  /\ wip = NoRender
  /\ effects = [c \in Components |-> NoEffect]
  /\ pc = "event"
  /\ mutations = 0
  /\ updates = 0

\* What the root does on its own, once it has something to do.
Work ==
  \/ Microtask \/ PerformSyncWorkOnRoot \/ NoSyncWorkLeft
  \/ FlushSpawnedWork
  \/ FlushPassiveEffects \/ CommitPassiveUnmountEffects
  \/ CommitPassiveMountEffects \/ PassiveEffectsFlushed
  \/ PerformWorkOnRoot \/ PerformUnitOfWork \/ CompleteRender

Next == Mutate \/ SetState \/ YieldToHost \/ Work

Spec == Init /\ [][Next]_vars

\* The event loop runs microtasks and tasks, and a component that is rendered
\* returns.  A slice renders at least one component again and again.
FairSpec == Spec /\ WF_vars(Work) /\ SF_vars(PerformUnitOfWork)

-----------------------------------------------------------------------------
Snapshot == [reads : Reads, value : Values]
Effect   == [resubscribe : BOOLEAN, update : BOOLEAN]
Update   == [lane : Lanes, reads : Reads]
Rendered == [fiber : Snapshot, effect : Effect, changed : BOOLEAN]
Render   == [next : 1..(LastComponent + 1), taken : SUBSET Components,
             tree : [Components -> Rendered], timeSlice : BOOLEAN, everYielded : BOOLEAN]

TypeOK ==
  /\ store \in [Stores -> Values]
  /\ current \in [Components -> Snapshot]
  /\ inst \in [Components -> Snapshot]
  /\ listening \in [Components -> Reads]
  /\ pending \in [Components -> Update \cup {NoUpdate}]
  /\ forced \subseteq {c \in Components : IsMounted(current[c])}
  /\ effects \in [Components -> Effect]
  /\ pc \in {"event", "sync", "syncLayout", "layout", "passiveUnmount",
             "passiveMount", "render"}
  /\ wip \in Render \cup {NoRender}
  /\ pc = "render" => wip # NoRender
  /\ mutations \in Nat /\ updates \in Nat

IsStale(c) == IsMounted(current[c]) /\ current[c].value # store[current[c].reads]

\* No change of a store is missed, whenever it is made: a component that shows
\* an old snapshot is to be rendered again synchronously, or a passive effect
\* that is still to run will compare the snapshot.  Neither the listener
\* alone nor the check of updateStoreInstance alone would give it, because
\* the listener compares with an instance that passive effects write late.
NoChangeMissed ==
  \A c \in Components : IsStale(c) => c \in forced \/ effects[c].update

\* The three stages agree, but for what an effect is still to bring up to date: a
\* component listens to the store it shows, a deleted one to none, and the
\* instance that its listener compares with is what it shows.
StagesAgree ==
  \A c \in Components :
    /\ ~effects[c].resubscribe => listening[c] = current[c].reads
    /\ IsMounted(current[c]) /\ ~effects[c].update =>
         inst[c] = current[c] /\ ~effects[c].resubscribe
    /\ effects[c].update => IsMounted(current[c])
    /\ pc = "passiveMount" /\ effects[c] # NoEffect => IsMounted(current[c])

\* What a render holds for component c agrees with what is on the screen: it is the
\* same, or an effect will tell the instance and the subscription.
Agrees(c, rendered) ==
  /\ IsMounted(rendered.fiber) =>
       IF rendered.changed THEN rendered.effect.update
       ELSE rendered.effect = NoEffect /\ rendered.fiber = current[c]
  /\ ~IsMounted(rendered.fiber) => ~rendered.effect.update
  /\ ~rendered.effect.resubscribe => rendered.fiber.reads = current[c].reads

IsFresh(fiber) == IsMounted(fiber) => fiber.value = store[fiber.reads]

\* A render goes on only when nothing synchronous is left to be done, so that the
\* screen is fresh then; and so is what it rendered itself, unless it has yielded.
RenderIsSound ==
  /\ pc = "render" => SyncWork = {} /\ ~HasEffects
  /\ wip # NoRender =>
       /\ wip.taken \subseteq TakenBy("Transition")
       /\ ~wip.everYielded => pc = "render"
       /\ \A c \in Components :
            /\ Agrees(c, wip.tree[c])
            /\ ~wip.everYielded => IsFresh(wip.tree[c].fiber)

\* The inductive invariant.
IndInv ==
  /\ TypeOK
  /\ NoChangeMissed
  /\ StagesAgree
  /\ RenderIsSound

\* Components that show the same store show the same snapshot of it.
Whole(tree) ==
  \A c, d \in Components :
    tree[c].reads = tree[d].reads /\ IsMounted(tree[c])
      => tree[c].value = tree[d].value

Commits == pc' \in {"syncLayout", "layout"} /\ pc \notin {"syncLayout", "layout"}

\* No commit tears a store, if its render was sliced to the end or never was:
\* this is what the consistency check and the synchronous render after it
\* are for.
CommitsAreWhole ==
  [][Commits /\ (pc = "sync" \/ wip.timeSlice \/ ~wip.everYielded)
       => Whole(current')]_vars

\* "Check if this render may have yielded to a concurrent event, and if so,
\* confirm that any newly rendered stores are consistent"
\* (performWorkOnRoot): no commit tears a store, however it was rendered.
EveryCommitIsWhole == [][Commits => Whole(current')]_vars

\* When stores and updates come to rest, so does the screen, and it shows
\* what the stores hold: the listeners, the instance check and the forced
\* synchronous renders leave nothing stale, and do not chase one another.
ScreenCatchesUp ==
  <>[](/\ forced = {}
       /\ \A c \in Components : ~IsStale(c) /\ pending[c] = NoUpdate)
=============================================================================

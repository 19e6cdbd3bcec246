------------------------ MODULE ExternalStore_proofs ------------------------
(***************************************************************************)
(* No change of an external store is missed and no commit that is checked  *)
(* tears, for any number of components and stores and any values: THEOREMS *)
(* NothingIsMissed and WholeCommits.                                       *)
(*                                                                         *)
(* A change is seen by a listener or by updateStoreInstance, whichever     *)
(* comes first.  Neither knows what is on the screen, but the instance     *)
(* that passive effects write; the invariant therefore says how the screen,*)
(* the instance and the subscription agree (StagesAgree), and that the     *)
(* results of a render will make them agree again when they are committed  *)
(* (RenderIsSound).                                                        *)
(***************************************************************************)
EXTENDS ExternalStore, TLAPS

-----------------------------------------------------------------------------
(* Rendering and committing *)

\* Nothing is on the screen that a forced render or an effect is not to repair.
LEMMA ScreenIsFresh ==
  ASSUME IndInv, ~HasEffects, forced = {}, NEW c \in Components
  PROVE  ~IsStale(c)
  BY DEF IndInv, TypeOK, NoChangeMissed, HasEffects, NoEffect, Effect

\* What rendering a component returns agrees with the screen, and is fresh when a
\* component that shows an old snapshot is among those that are rendered.
LEMMA RenderComponentAgrees ==
  ASSUME TypeOK, NEW c \in Components,
         NEW taken \in SUBSET Components, NEW forcedSet \in SUBSET Components
  PROVE  /\ RenderComponent(c, taken, forcedSet) \in Rendered
         /\ Agrees(c, RenderComponent(c, taken, forcedSet))
         /\ (IsStale(c) => c \in taken \cup forcedSet)
              => IsFresh(RenderComponent(c, taken, forcedSet).fiber)
<1> DEFINE s == IF c \in taken THEN pending[c].reads ELSE current[c].reads
           r == RenderComponent(c, taken, forcedSet)
<1>1. s \in Reads /\ current[c] \in Snapshot
  BY DEF TypeOK, Update, NoUpdate, Snapshot, Reads
<1>2. CASE c \notin taken \cup forcedSet \/ (s = NoStore /\ ~IsMounted(current[c]))
  <2>1. r = BailOut(c)
    BY <1>2 DEF RenderComponent
  <2> QED
    BY <1>1, <1>2, <2>1
    DEF BailOut, Rendered, Agrees, IsFresh, IsMounted, IsStale, NoEffect, Effect, Snapshot
<1>3. CASE c \in taken \cup forcedSet /\ s = NoStore /\ IsMounted(current[c])
  <2>1. r = Delete(c)
    BY <1>3 DEF RenderComponent
  <2> QED
    BY <1>1, <1>3, <2>1, ExternalStoreAssumption
    DEF Delete, Rendered, Agrees, IsFresh, IsMounted, Unmounted, Effect, Snapshot, Reads
<1>4. CASE c \in taken \cup forcedSet /\ s # NoStore
  <2>1. r = IF IsMounted(current[c]) THEN UpdateSyncExternalStore(c, s)
            ELSE MountSyncExternalStore(c, s)
    BY <1>4 DEF RenderComponent
  <2>2. s \in Stores /\ store[s] \in Values
    BY <1>1, <1>4 DEF Reads, TypeOK
  <2>3. CASE IsMounted(current[c])
    <3> DEFINE resubscribe == current[c].reads # s
               changed == \/ inst[c].reads # s
                          \/ current[c].value # store[s]
                          \/ resubscribe
    <3>1. r = [fiber |-> [reads |-> s, value |-> store[s]],
               effect |-> [resubscribe |-> resubscribe, update |-> changed],
               changed |-> changed]
      BY <2>1, <2>3, Zenon DEF UpdateSyncExternalStore
    <3>2. resubscribe \in BOOLEAN /\ changed \in BOOLEAN
      OBVIOUS
    <3>3. r \in Rendered
      BY <1>1, <2>2, <3>1, <3>2 DEF Rendered, Effect, Snapshot
    <3>4. ~changed => [reads |-> s, value |-> store[s]] = current[c]
      BY <1>1 DEF Snapshot
    <3>5. resubscribe => changed
      OBVIOUS
    <3> HIDE DEF changed, resubscribe, r
    <3>6. /\ ~changed => r.fiber = current[c] /\ r.effect = NoEffect
          /\ changed => r.effect.update
          /\ r.changed <=> changed
          /\ r.effect.resubscribe <=> resubscribe
          /\ r.fiber = [reads |-> s, value |-> store[s]]
      BY <3>1, <3>2, <3>4, <3>5 DEF NoEffect
    <3> QED
      BY <1>4, <3>3, <3>5, <3>6 DEF Agrees, IsFresh, IsMounted, resubscribe, r
  <2>4. CASE ~IsMounted(current[c])
    BY <1>1, <1>4, <2>1, <2>2, <2>4
    DEF MountSyncExternalStore, Rendered, Agrees, IsFresh, IsMounted, Effect, Snapshot, Reads
  <2> QED
    BY <2>3, <2>4
<1> QED
  BY <1>2, <1>3, <1>4

\* A commit of a tree that agrees with the screen makes the stages agree, when the
\* effects of the last commit have run.
LEMMA CommitRootAgrees ==
  ASSUME IndInv, ~HasEffects, pc' # "passiveMount",
         NEW tree \in [Components -> Rendered], NEW taken \in SUBSET Components,
         \A c \in Components : Agrees(c, tree[c]),
         CommitRoot(tree, taken)
  PROVE  /\ current' \in [Components -> Snapshot] /\ inst' \in [Components -> Snapshot]
         /\ effects' \in [Components -> Effect]
         /\ pending' \in [Components -> Update \cup {NoUpdate}]
         /\ wip' = NoRender
         /\ \A c \in Components : current'[c] = tree[c].fiber
         /\ listening' = listening => StagesAgree'
<1> USE DEF CommitRoot
<1>1. current' \in [Components -> Snapshot] /\ inst' \in [Components -> Snapshot]
  BY DEF IndInv, TypeOK, Rendered
<1>2. effects' \in [Components -> Effect]
  BY DEF Rendered
<1>3. pending' \in [Components -> Update \cup {NoUpdate}]
  BY DEF IndInv, TypeOK
<1>4. ASSUME listening' = listening, NEW c \in Components
      PROVE  /\ ~effects'[c].resubscribe => listening'[c] = current'[c].reads
             /\ IsMounted(current'[c]) /\ ~effects'[c].update =>
                  inst'[c] = current'[c] /\ ~effects'[c].resubscribe
             /\ effects'[c].update => IsMounted(current'[c])
  <2>1. ~effects[c].resubscribe /\ ~effects[c].update
    BY DEF HasEffects, NoEffect
  <2>2. /\ listening[c] = current[c].reads
        /\ IsMounted(current[c]) => inst[c] = current[c]
    BY <2>1 DEF IndInv, StagesAgree
  <2>3. /\ current'[c] = tree[c].fiber /\ effects'[c] = tree[c].effect
        /\ inst'[c] = IF IsMounted(current[c]) THEN inst[c] ELSE tree[c].fiber
    OBVIOUS
  <2>4. Agrees(c, tree[c])
    OBVIOUS
  <2> QED
    BY <1>4, <2>2, <2>3, <2>4 DEF Agrees, NoEffect
<1> QED
  BY <1>1, <1>2, <1>3, <1>4 DEF StagesAgree

-----------------------------------------------------------------------------
(* Each step keeps the invariant *)

LEMMA InitIndInv == Init => IndInv
  BY ExternalStoreAssumption
  DEF Init, IndInv, TypeOK, NoChangeMissed, StagesAgree, RenderIsSound, IsStale, IsMounted,
      Unmounted, NoUpdate, NoEffect, NoRender, Snapshot, Effect, Update, Reads

\* A change of a store: the listeners know the store that their component shows, and
\* the snapshot that it shows, unless an effect is to tell them.
LEMMA MutateIndInv == ASSUME IndInv, Mutate PROVE IndInv'
<1> USE DEF IndInv, Mutate
<1>1. PICK s \in Stores, v \in Values :
        /\ v # store[s]
        /\ store' = [store EXCEPT ![s] = v]
        /\ forced' = forced \cup HandleStoreChange(s, store')
  OBVIOUS
<1>2. TypeOK'
  BY <1>1 DEF TypeOK, RunsUserCode, HandleStoreChange
<1>3. ASSUME NEW c \in Components, IsStale(c)', ~effects'[c].update
      PROVE  c \in forced'
  <2>1. IsMounted(current[c]) /\ ~effects[c].update
    BY <1>3 DEF IsStale
  <2>2. inst[c] = current[c] /\ listening[c] = current[c].reads
    BY <2>1 DEF StagesAgree
  <2>3. CASE current[c].reads = s
    BY <1>1, <1>3, <2>1, <2>2, <2>3 DEF HandleStoreChange, CheckIfSnapshotChanged, IsStale
  <2>4. CASE current[c].reads # s
    <3>1. store'[current[c].reads] = store[current[c].reads]
      BY <1>1, <2>1, <2>4 DEF TypeOK, Snapshot, Reads, IsMounted
    <3>2. IsStale(c)
      BY <1>3, <3>1 DEF IsStale
    <3> QED
      BY <1>1, <2>1, <3>2 DEF NoChangeMissed
  <2> QED
    BY <2>3, <2>4
<1>4. NoChangeMissed'
  BY <1>3 DEF NoChangeMissed
<1>5. StagesAgree'
  BY DEF StagesAgree
<1>6. RenderIsSound'
  BY DEF RenderIsSound, RunsUserCode, TakenBy, Agrees
<1> QED
  BY <1>2, <1>4, <1>5, <1>6

LEMMA SetStateIndInv == ASSUME IndInv, SetState PROVE IndInv'
<1> USE DEF IndInv, SetState
<1>1. PICK c \in Components, lane \in Lanes, s \in Reads :
        /\ pending[c] = NoUpdate
        /\ pending' = [pending EXCEPT ![c] = [lane |-> lane, reads |-> s]]
  OBVIOUS
<1>2. TypeOK'
  BY <1>1 DEF TypeOK, Update
<1>3. TakenBy("Transition") \subseteq TakenBy("Transition")'
  BY <1>1 DEF TakenBy, TypeOK, NoUpdate
<1>4. NoChangeMissed' /\ StagesAgree'
  BY DEF NoChangeMissed, IsStale, StagesAgree
<1>5. RenderIsSound'
  BY <1>3 DEF RenderIsSound, Agrees, IsFresh
<1> QED
  BY <1>2, <1>4, <1>5

\* Steps that only move the thread on.
LEMMA ThreadIndInv ==
  ASSUME IndInv, Microtask \/ NoSyncWorkLeft \/ FlushSpawnedWork \/ FlushPassiveEffects
                 \/ PassiveEffectsFlushed
  PROVE  IndInv'
<1> USE DEF IndInv, Microtask, NoSyncWorkLeft, FlushSpawnedWork, FlushPassiveEffects,
            PassiveEffectsFlushed
<1>1. /\ UNCHANGED <<store, current, inst, listening, pending, forced, wip, effects,
                     mutations, updates>>
      /\ pc # "render" /\ pc' \in {"event", "sync", "passiveUnmount"}
  BY Zenon
<1>2. TypeOK'
  BY <1>1 DEF TypeOK
<1>3. NoChangeMissed' /\ StagesAgree'
  BY <1>1 DEF NoChangeMissed, IsStale, StagesAgree
<1>4. RenderIsSound'
  BY <1>1 DEF RenderIsSound, Agrees, IsFresh, TakenBy
<1> QED
  BY <1>2, <1>3, <1>4

LEMMA PerformSyncWorkOnRootIndInv == ASSUME IndInv, PerformSyncWorkOnRoot PROVE IndInv'
<1> USE DEF PerformSyncWorkOnRoot
<1> DEFINE taken == TakenBy("Sync")
           tree == [c \in Components |-> RenderComponent(c, taken, forced)]
<1>1. /\ IndInv /\ ~HasEffects /\ pc' = "syncLayout" /\ forced' = {}
      /\ taken \in SUBSET Components /\ forced \in SUBSET Components
      /\ CommitRoot(tree, taken)
      /\ UNCHANGED <<store, listening, mutations, updates>>
  BY DEF IndInv, TypeOK, TakenBy
<1>2. ASSUME NEW c \in Components
      PROVE  tree[c] \in Rendered /\ Agrees(c, tree[c]) /\ IsFresh(tree[c].fiber)
  <2>1. IsStale(c) => c \in forced
    BY <1>1 DEF IndInv, NoChangeMissed, HasEffects, NoEffect
  <2> QED
    BY <1>1, <2>1, RenderComponentAgrees DEF IndInv
<1>3. tree \in [Components -> Rendered]
  BY <1>2
<1> HIDE DEF tree, taken
<1>4. /\ current' \in [Components -> Snapshot] /\ inst' \in [Components -> Snapshot]
      /\ effects' \in [Components -> Effect]
      /\ pending' \in [Components -> Update \cup {NoUpdate}]
      /\ wip' = NoRender
      /\ \A c \in Components : current'[c] = tree[c].fiber
      /\ StagesAgree'
  BY <1>1, <1>2, <1>3, CommitRootAgrees
<1>5. TypeOK'
  BY <1>1, <1>4 DEF IndInv, TypeOK
<1>6. NoChangeMissed'
  BY <1>1, <1>2, <1>4 DEF NoChangeMissed, IsStale, IsFresh
<1>7. RenderIsSound'
  BY <1>1, <1>4 DEF RenderIsSound
<1> QED
  BY <1>4, <1>5, <1>6, <1>7 DEF IndInv

LEMMA CommitPassiveUnmountEffectsIndInv ==
  ASSUME IndInv, CommitPassiveUnmountEffects PROVE IndInv'
<1> USE DEF IndInv, CommitPassiveUnmountEffects
<1>1. ASSUME NEW c \in Components
      PROVE  /\ effects'[c] = IF IsMounted(current[c]) THEN effects[c] ELSE NoEffect
             /\ listening'[c] = IF effects[c].resubscribe THEN NoStore ELSE listening[c]
  BY DEF EffectsToMount
<1>2. TypeOK'
  BY DEF TypeOK, EffectsToMount, NoEffect, Effect, Reads
<1>3. NoChangeMissed'
  BY <1>1 DEF NoChangeMissed, IsStale
<1>4. StagesAgree'
  BY <1>1 DEF StagesAgree, NoEffect, IsMounted
<1>5. RenderIsSound'
  BY DEF RenderIsSound, Agrees, IsFresh, TakenBy
<1> QED
  BY <1>2, <1>3, <1>4, <1>5

LEMMA CommitPassiveMountEffectsIndInv ==
  ASSUME IndInv, CommitPassiveMountEffects PROVE IndInv'
<1> USE DEF IndInv, CommitPassiveMountEffects
<1>1. PICK c \in Components :
        /\ effects[c] # NoEffect
        /\ listening' = SubscribeToStore(c)
        /\ UpdateStoreInstance(c)
        /\ effects' = [effects EXCEPT ![c] = NoEffect]
  OBVIOUS
<1>2. IsMounted(current[c])
  BY <1>1 DEF StagesAgree
<1>3. forced \subseteq forced' /\ forced' \subseteq forced \cup {c}
  BY <1>1 DEF UpdateStoreInstance
<1>4. TypeOK'
  <2>1. inst' \in [Components -> Snapshot] /\ forced' \subseteq Components
    BY <1>1 DEF TypeOK, UpdateStoreInstance
  <2>2. listening' \in [Components -> Reads]
    BY <1>1 DEF TypeOK, SubscribeToStore, Snapshot
  <2>3. effects' \in [Components -> Effect]
    BY <1>1 DEF TypeOK, NoEffect, Effect
  <2>4. forced' \subseteq {d \in Components : IsMounted(current'[d])}
    BY <1>2, <1>3 DEF TypeOK
  <2> QED
    BY <2>1, <2>2, <2>3, <2>4 DEF TypeOK
<1>5. ASSUME NEW d \in Components, IsStale(d)'
      PROVE  d \in forced' \/ effects'[d].update
  <2>1. d \in forced \/ effects[d].update
    BY <1>5 DEF NoChangeMissed, IsStale
  <2>2. d = c /\ effects[c].update => c \in forced'
    BY <1>1, <1>5 DEF UpdateStoreInstance, IsStale
  <2>3. d # c => effects'[d] = effects[d]
    BY <1>1 DEF TypeOK
  <2> QED
    BY <1>3, <2>1, <2>2, <2>3
<1>6. ASSUME NEW d \in Components
      PROVE  /\ d # c => /\ effects'[d] = effects[d] /\ listening'[d] = listening[d]
                         /\ inst'[d] = inst[d]
             /\ effects'[c] = NoEffect
             /\ listening'[c] = current[c].reads
             /\ inst'[c] = current[c]
  BY <1>1, <1>2 DEF TypeOK, SubscribeToStore, UpdateStoreInstance, StagesAgree
<1>7. NoChangeMissed'
  BY <1>5 DEF NoChangeMissed
<1>8. StagesAgree'
  BY <1>1, <1>2, <1>6 DEF StagesAgree, NoEffect
<1>9. RenderIsSound'
  BY DEF RenderIsSound, Agrees, IsFresh, TakenBy
<1> QED
  BY <1>4, <1>7, <1>8, <1>9

-----------------------------------------------------------------------------
(* The transition *)

LEMMA PerformWorkOnRootIndInv == ASSUME IndInv, PerformWorkOnRoot PROVE IndInv'
<1> USE DEF IndInv, PerformWorkOnRoot
<1>1. PICK timeSlice \in BOOLEAN :
        wip' = IF wip = NoRender
                 THEN [next |-> 1, taken |-> TakenBy("Transition"),
                       tree |-> [c \in Components |-> BailOut(c)],
                       timeSlice |-> timeSlice, everYielded |-> FALSE]
                 ELSE [wip EXCEPT !.timeSlice = timeSlice]
  OBVIOUS
<1>2. ASSUME NEW c \in Components
      PROVE  BailOut(c) \in Rendered /\ Agrees(c, BailOut(c)) /\ IsFresh(BailOut(c).fiber)
  <2>1. ~IsStale(c)
    BY ScreenIsFresh DEF SyncWork
  <2> QED
    BY <2>1 DEF BailOut, Agrees, IsFresh, IsStale, Rendered, TypeOK, NoEffect, Effect
<1>3. CASE wip = NoRender
  <2>1. wip' \in Render
    BY <1>1, <1>2, <1>3, ExternalStoreAssumption DEF Render, TakenBy
  <2>2. wip' # NoRender
    BY <1>1, <1>3 DEF NoRender
  <2>3. /\ wip'.taken = TakenBy("Transition")
        /\ \A c \in Components : wip'.tree[c] = BailOut(c)
    BY <1>1, <1>3
  <2>4. ASSUME NEW c \in Components
        PROVE  Agrees(c, wip.tree[c])' /\ IsFresh(wip.tree[c].fiber)'
    BY <1>2, <2>3 DEF Agrees, IsFresh
  <2>5. TypeOK'
    BY <2>1, <2>2 DEF TypeOK
  <2>6. NoChangeMissed' /\ StagesAgree'
    BY DEF NoChangeMissed, IsStale, StagesAgree
  <2>7. RenderIsSound'
    <3>1. (pc = "render" => SyncWork = {} /\ ~HasEffects)'
      BY DEF SyncWork, HasEffects, TakenBy
    <3>2. (wip.taken \subseteq TakenBy("Transition"))'
      BY <2>3 DEF TakenBy
    <3> QED
      BY <2>4, <3>1, <3>2 DEF RenderIsSound
  <2> QED
    BY <2>5, <2>6, <2>7
<1>4. CASE wip # NoRender
  <2>1. wip \in Render
    BY <1>4 DEF TypeOK
  <2>2. /\ wip' \in Render /\ wip'.taken = wip.taken /\ wip'.tree = wip.tree
        /\ wip'.everYielded = wip.everYielded
    BY <1>1, <1>4, <2>1 DEF Render
  <2>3. wip' # NoRender
    BY <2>2 DEF Render, NoRender
  <2>4. TypeOK'
    BY <2>2, <2>3 DEF TypeOK
  <2>5. NoChangeMissed' /\ StagesAgree'
    BY DEF NoChangeMissed, IsStale, StagesAgree
  <2>6. RenderIsSound'
    BY <1>4, <2>2 DEF RenderIsSound, TakenBy, SyncWork, HasEffects, Agrees, IsFresh
  <2> QED
    BY <2>4, <2>5, <2>6
<1> QED
  BY <1>3, <1>4

\* The render with the result of one more component.
LEMMA NextRender ==
  ASSUME NEW w \in Render, NEW c \in Components, w.next = c, NEW r \in Rendered
  PROVE  [w EXCEPT !.next = w.next + 1, !.tree[c] = r] \in Render
<1> DEFINE t == [w.tree EXCEPT ![c] = r]
<1>1. w.next + 1 \in 1..(LastComponent + 1)
  BY ExternalStoreAssumption DEF Components
<1>2. t \in [Components -> Rendered]
  BY DEF Render
<1> HIDE DEF t
<1>3. [w EXCEPT !.next = w.next + 1, !.tree = t] \in Render
  BY <1>1, <1>2 DEF Render
<1> QED
  BY <1>3 DEF t

LEMMA PerformUnitOfWorkIndInv == ASSUME IndInv, PerformUnitOfWork PROVE IndInv'
<1> USE DEF IndInv, PerformUnitOfWork
<1> DEFINE c == wip.next
           r == RenderComponent(c, wip.taken, {})
<1>1. /\ wip # NoRender /\ wip \in Render /\ c \in Components
      /\ wip.taken \in SUBSET Components
  BY DEF TypeOK, RenderIsSound, TakenBy
<1>2. r \in Rendered /\ Agrees(c, r) /\ IsFresh(r.fiber)
  <2>1. ~IsStale(c)
    BY <1>1, ScreenIsFresh DEF RenderIsSound, SyncWork
  <2> QED
    BY <1>1, <2>1, RenderComponentAgrees
<1> HIDE DEF r
<1>3. wip' = [wip EXCEPT !.next = wip.next + 1, !.tree[c] = r]
  BY DEF r
<1>4. /\ wip'.taken = wip.taken /\ wip'.everYielded = wip.everYielded
      /\ wip'.tree = [wip.tree EXCEPT ![c] = r]
      /\ wip' \in Render
  <2>1. wip.next = c
    OBVIOUS
  <2> HIDE DEF c, IndInv, PerformUnitOfWork
  <2>2. wip \in Render /\ c \in Components /\ r \in Rendered
    BY <1>1, <1>2
  <2>3. wip' = [wip EXCEPT !.next = wip.next + 1, !.tree[c] = r]
    BY <1>3
  <2>4. wip' \in Render
    BY <2>1, <2>2, <2>3, NextRender
  <2>5. wip'.taken = wip.taken
    BY <2>2, <2>3 DEF Render
  <2>6. wip'.everYielded = wip.everYielded
    BY <2>2, <2>3 DEF Render
  <2>7. wip'.tree = [wip.tree EXCEPT ![c] = r]
    BY <2>2, <2>3 DEF Render
  <2> QED
    BY <2>4, <2>5, <2>6, <2>7, Zenon
<1>5. wip' # NoRender
  BY <1>4 DEF Render, NoRender
<1>6. TypeOK'
  BY <1>4, <1>5 DEF TypeOK
<1>7. NoChangeMissed' /\ StagesAgree'
  BY DEF NoChangeMissed, IsStale, StagesAgree
<1>8. ASSUME NEW d \in Components
      PROVE  /\ Agrees(d, wip'.tree[d])
             /\ ~wip.everYielded => IsFresh(wip'.tree[d].fiber)
  <2>1. wip'.tree[d] = IF d = c THEN r ELSE wip.tree[d]
    BY <1>1, <1>4 DEF Render
  <2> QED
    BY <1>1, <1>2, <2>1 DEF RenderIsSound
<1>9. RenderIsSound'
  BY <1>1, <1>4, <1>8, SMTT(30) DEF RenderIsSound, TakenBy, SyncWork, HasEffects, Agrees, IsFresh
<1> QED
  BY <1>6, <1>7, <1>9

LEMMA YieldToHostIndInv == ASSUME IndInv, YieldToHost PROVE IndInv'
<1> USE DEF IndInv, YieldToHost
<1>1. wip # NoRender /\ wip \in Render
  BY DEF TypeOK
<1>2. /\ wip' \in Render /\ wip'.taken = wip.taken /\ wip'.tree = wip.tree
      /\ wip'.everYielded = TRUE
  BY <1>1 DEF Render
<1>3. TypeOK'
  BY <1>2 DEF TypeOK
<1>4. NoChangeMissed' /\ StagesAgree'
  BY DEF NoChangeMissed, IsStale, StagesAgree
<1>5. RenderIsSound'
  BY <1>1, <1>2 DEF RenderIsSound, TakenBy, Agrees
<1> QED
  BY <1>3, <1>4, <1>5

\* What a completed render commits: all of it agrees with the screen, and it is fresh
\* unless the render was sliced and then finished without slicing.
LEMMA CompletedTree ==
  ASSUME IndInv, CompleteRender
  PROVE  \E tree \in [Components -> Rendered] :
           /\ CommitRoot(tree, wip.taken)
           /\ \A c \in Components :
                /\ Agrees(c, tree[c])
                /\ IsFresh(tree[c].fiber) \/ tree[c].effect.update
                /\ wip.timeSlice \/ ~wip.everYielded => IsFresh(tree[c].fiber)
<1> USE DEF IndInv, CompleteRender
<1>1. /\ wip # NoRender /\ wip \in Render
      /\ wip.taken \in SUBSET Components
      /\ \A c \in Components : ~IsStale(c)
  BY ScreenIsFresh DEF TypeOK, RenderIsSound, TakenBy, SyncWork
<1>2. CASE wip.timeSlice /\ ~IsRenderConsistentWithExternalStores
  <2> DEFINE tree == [c \in Components |-> RenderComponent(c, wip.taken, {})]
  <2>1. \A c \in Components :
          tree[c] \in Rendered /\ Agrees(c, tree[c]) /\ IsFresh(tree[c].fiber)
    BY <1>1, RenderComponentAgrees
  <2>2. CommitRoot(tree, wip.taken) /\ tree \in [Components -> Rendered]
    BY <1>2, <2>1
  <2> QED
    BY <2>1, <2>2
<1>3. CASE ~(wip.timeSlice /\ ~IsRenderConsistentWithExternalStores)
  <2>1. CommitRoot(wip.tree, wip.taken) /\ wip.tree \in [Components -> Rendered]
    BY <1>1, <1>3 DEF Render
  <2>2. ASSUME NEW c \in Components
        PROVE  /\ Agrees(c, wip.tree[c])
               /\ IsFresh(wip.tree[c].fiber) \/ wip.tree[c].effect.update
               /\ wip.timeSlice \/ ~wip.everYielded => IsFresh(wip.tree[c].fiber)
    <3>1. Agrees(c, wip.tree[c])
      BY <1>1 DEF RenderIsSound
    <3>2. ~wip.everYielded => IsFresh(wip.tree[c].fiber)
      BY <1>1 DEF RenderIsSound
    <3>3. IsMounted(wip.tree[c].fiber) /\ ~wip.tree[c].changed => IsFresh(wip.tree[c].fiber)
      BY <1>1, <3>1 DEF Agrees, IsFresh, IsStale
    <3>4. IsMounted(wip.tree[c].fiber) /\ wip.tree[c].changed => wip.tree[c].effect.update
      BY <3>1 DEF Agrees
    <3>5. wip.timeSlice /\ wip.tree[c].changed => IsFresh(wip.tree[c].fiber)
      BY <1>3 DEF IsRenderConsistentWithExternalStores, IsFresh
    <3>6. ~IsMounted(wip.tree[c].fiber) => IsFresh(wip.tree[c].fiber)
      BY DEF IsFresh
    <3> QED
      BY <3>1, <3>2, <3>3, <3>4, <3>5, <3>6
  <2> QED
    BY <2>1, <2>2
<1> QED
  BY <1>2, <1>3

LEMMA CompleteRenderIndInv == ASSUME IndInv, CompleteRender PROVE IndInv'
<1> USE DEF CompleteRender
<1>1. PICK tree \in [Components -> Rendered] :
        /\ CommitRoot(tree, wip.taken)
        /\ \A c \in Components : /\ Agrees(c, tree[c])
                                 /\ IsFresh(tree[c].fiber) \/ tree[c].effect.update
  BY CompletedTree
<1>2. /\ ~HasEffects /\ forced = {} /\ wip.taken \in SUBSET Components
      /\ UNCHANGED <<store, listening, forced, mutations, updates>> /\ pc' = "layout"
  BY DEF IndInv, TypeOK, RenderIsSound, TakenBy, SyncWork
<1>3. /\ current' \in [Components -> Snapshot] /\ inst' \in [Components -> Snapshot]
      /\ effects' \in [Components -> Effect]
      /\ pending' \in [Components -> Update \cup {NoUpdate}]
      /\ wip' = NoRender
      /\ \A c \in Components : current'[c] = tree[c].fiber
      /\ StagesAgree'
  BY <1>1, <1>2, CommitRootAgrees
<1>4. \A c \in Components : effects'[c] = tree[c].effect
  BY <1>1 DEF CommitRoot
<1>5. TypeOK'
  BY <1>2, <1>3 DEF IndInv, TypeOK
<1>6. NoChangeMissed'
  BY <1>1, <1>2, <1>3, <1>4 DEF NoChangeMissed, IsStale, IsFresh
<1>7. RenderIsSound'
  BY <1>2, <1>3 DEF RenderIsSound
<1> QED
  BY <1>3, <1>5, <1>6, <1>7 DEF IndInv

-----------------------------------------------------------------------------
(* The theorems *)

LEMMA NextIndInv == IndInv /\ [Next]_vars => IndInv'
<1> SUFFICES ASSUME IndInv, [Next]_vars PROVE IndInv'
  OBVIOUS
<1>1. CASE Next
  BY <1>1, MutateIndInv, SetStateIndInv, ThreadIndInv, PerformSyncWorkOnRootIndInv,
     CommitPassiveUnmountEffectsIndInv, CommitPassiveMountEffectsIndInv,
     PerformWorkOnRootIndInv, PerformUnitOfWorkIndInv, YieldToHostIndInv,
     CompleteRenderIndInv, Zenon
  DEF Next, Work
<1>2. CASE UNCHANGED vars
  <2>1. TypeOK' /\ NoChangeMissed' /\ StagesAgree'
    BY <1>2 DEF vars, IndInv, TypeOK, NoChangeMissed, IsStale, StagesAgree
  <2>2. RenderIsSound'
    BY <1>2 DEF vars, IndInv, RenderIsSound, TakenBy, SyncWork, HasEffects, Agrees, IsFresh
  <2> QED
    BY <2>1, <2>2 DEF IndInv
<1> QED
  BY <1>1, <1>2

\* The screen, the instances, the subscriptions and the results of the render in
\* progress agree but for what an effect that is still to run repairs (useSyncExternalStore:
\* the hook, its listeners, its passive effects and the render consistency check).
THEOREM Invariance == Spec => []IndInv
<1> QED
  BY InitIndInv, NextIndInv, PTL DEF Spec

\* No change of a store is missed, in an event, between two slices of a render, in a
\* layout effect or in a passive effect (handleStoreChange, updateStoreInstance).
THEOREM NothingIsMissed == Spec => []NoChangeMissed
<1>1. IndInv => NoChangeMissed
  BY DEF IndInv
<1> QED
  BY <1>1, Invariance, PTL

\* A tree that shows only snapshots that the stores return now is whole.
LEMMA FreshTreeIsWhole ==
  ASSUME NEW tree \in [Components -> Rendered], NEW taken, CommitRoot(tree, taken),
         \A c \in Components : IsFresh(tree[c].fiber)
  PROVE  Whole(current')
  BY DEF Whole, CommitRoot, IsFresh, IsMounted

LEMMA CommitIsWhole ==
  ASSUME IndInv, [Next]_vars, Commits, pc = "sync" \/ wip.timeSlice \/ ~wip.everYielded
  PROVE  Whole(current')
<1>1. PerformSyncWorkOnRoot \/ CompleteRender
  BY DEF Commits, Next, Work, vars, Mutate, SetState, Microtask, NoSyncWorkLeft,
     FlushSpawnedWork, FlushPassiveEffects, CommitPassiveUnmountEffects,
     CommitPassiveMountEffects, PassiveEffectsFlushed, PerformWorkOnRoot,
     PerformUnitOfWork, YieldToHost
<1>2. CASE PerformSyncWorkOnRoot
  <2> DEFINE taken == TakenBy("Sync")
             tree == [c \in Components |-> RenderComponent(c, taken, forced)]
  <2>1. /\ CommitRoot(tree, taken) /\ ~HasEffects
        /\ taken \in SUBSET Components /\ forced \in SUBSET Components
    BY <1>2 DEF PerformSyncWorkOnRoot, IndInv, TypeOK, TakenBy
  <2>2. ASSUME NEW c \in Components
        PROVE  tree[c] \in Rendered /\ IsFresh(tree[c].fiber)
    <3>1. IsStale(c) => c \in forced
      BY <2>1 DEF IndInv, NoChangeMissed, HasEffects, NoEffect
    <3> QED
      BY <2>1, <3>1, RenderComponentAgrees DEF IndInv
  <2>3. tree \in [Components -> Rendered]
    BY <2>2
  <2> HIDE DEF tree, taken
  <2> QED
    BY <2>1, <2>2, <2>3, FreshTreeIsWhole
<1>3. CASE CompleteRender
  <2>1. wip.timeSlice \/ ~wip.everYielded
    BY <1>3 DEF CompleteRender
  <2>2. PICK tree \in [Components -> Rendered] :
          CommitRoot(tree, wip.taken) /\ \A c \in Components : IsFresh(tree[c].fiber)
    BY <1>3, <2>1, CompletedTree
  <2> QED
    BY <2>2, FreshTreeIsWhole
<1> QED
  BY <1>1, <1>2, <1>3

\* No commit shows two snapshots of one store, if its render was sliced to the end or
\* never (isRenderConsistentWithExternalStores and the synchronous render after it).
THEOREM WholeCommits == Spec => CommitsAreWhole
<1>1. IndInv /\ [Next]_vars
        => [Commits /\ (pc = "sync" \/ wip.timeSlice \/ ~wip.everYielded)
              => Whole(current')]_vars
  BY CommitIsWhole
<1> QED
  BY <1>1, Invariance, PTL DEF Spec, CommitsAreWhole
=============================================================================

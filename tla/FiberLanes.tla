----------------------------- MODULE FiberLanes -----------------------------
(***************************************************************************)
(* The lanes of the reconciler (DevjsFiberLane.js).  A lane is the index   *)
(* of its bit, 0 the most urgent, and lanes are a set of them.  The lane   *)
(* fields of a root are a record, and each function of the source that     *)
(* changes them is an operator from such a record to the next one.         *)
(*                                                                         *)
(* expirationTimes is abstracted to timedLanes, the lanes that have one.   *)
(* The feature flags have the values of DevjsFeatureFlags.js.              *)
(***************************************************************************)
EXTENDS Integers

Lane   == 0..30
NoLane == -1

SyncHydrationLane       == 0
SyncLane                == 1
InputContinuousLane     == 3
DefaultLane             == 5
SyncUpdateLanes         == {SyncLane, InputContinuousLane, DefaultLane}
TransitionUpdateLanes   == 8..17
TransitionDeferredLanes == 18..21
TransitionLanes         == TransitionUpdateLanes \cup TransitionDeferredLanes
RetryLanes              == 22..25
NonIdleLanes            == 0..26
IdleLane                == 28
DeferredLane            == 30
BlockingLanes           == 0..6

\* The lanes that time out when they are starved (computeExpirationTime).
ExpiringLanes == 0..21

Root(lanes) ==
  [pendingLanes : SUBSET lanes, suspendedLanes : SUBSET lanes,
   pingedLanes : SUBSET lanes, warmLanes : SUBSET lanes,
   expiredLanes : SUBSET lanes, timedLanes : SUBSET lanes,
   entangledLanes : SUBSET lanes, entanglements : [lanes -> SUBSET lanes]]

IdleRoot(lanes) ==
  [pendingLanes |-> {}, suspendedLanes |-> {}, pingedLanes |-> {}, warmLanes |-> {},
   expiredLanes |-> {}, timedLanes |-> {},
   entangledLanes |-> {}, entanglements |-> [l \in lanes |-> {}]]

-----------------------------------------------------------------------------
(* What to work on next *)

HighestPriorityLane(lanes) == CHOOSE l \in lanes : \A other \in lanes : l <= other

\* Lanes that are rendered in one batch.
Batch(lane) ==
  CASE lane \in TransitionUpdateLanes   -> TransitionUpdateLanes
    [] lane \in TransitionDeferredLanes -> TransitionDeferredLanes
    [] lane \in RetryLanes              -> RetryLanes
    [] lane = DeferredLane              -> {}
    [] OTHER                            -> {lane}

HighestPriorityLanes(lanes) ==
  IF lanes \cap SyncUpdateLanes # {} THEN lanes \cap SyncUpdateLanes
  ELSE IF lanes = {} THEN {}
  ELSE lanes \cap Batch(HighestPriorityLane(lanes))

\* Fresh updates first, then work that was pinged, then work to warm up; idle
\* work only when there is no other.
NextLanesIgnoringWip(root, rootHasPendingCommit) ==
  LET nonIdle   == root.pendingLanes \cap NonIdleLanes
      lanes     == IF nonIdle # {} THEN nonIdle ELSE root.pendingLanes
      unblocked == lanes \ root.suspendedLanes
      pinged    == IF nonIdle # {} THEN nonIdle \cap root.pingedLanes ELSE root.pingedLanes
      toPrewarm == IF rootHasPendingCommit THEN {} ELSE lanes \ root.warmLanes
  IN HighestPriorityLanes(IF unblocked # {} THEN unblocked
                          ELSE IF pinged # {} THEN pinged ELSE toPrewarm)

\* Work in progress is interrupted by more urgent work only, and a transition
\* not by a default update.
KeepsWorking(root, wipLanes, nextLanes) ==
  /\ wipLanes # {} /\ wipLanes # nextLanes
  /\ wipLanes \cap root.suspendedLanes = {}
  /\ \/ HighestPriorityLane(nextLanes) >= HighestPriorityLane(wipLanes)
     \/ /\ HighestPriorityLane(nextLanes) = DefaultLane
        /\ HighestPriorityLane(wipLanes) \in TransitionLanes

GetNextLanes(root, wipLanes, rootHasPendingCommit) ==
  LET nextLanes == NextLanesIgnoringWip(root, rootHasPendingCommit)
  IN IF root.pendingLanes = {} \/ nextLanes = {} THEN {}
     ELSE IF KeepsWorking(root, wipLanes, nextLanes) THEN wipLanes ELSE nextLanes

\* The lanes are suspended and not pinged: rendering them is speculative.
IsPrerendering(root, renderLanes) ==
  renderLanes \cap (root.pendingLanes \ (root.suspendedLanes \ root.pingedLanes)) = {}

IncludesSyncLane(lanes) == lanes \cap {SyncLane, SyncHydrationLane} # {}

\* The lanes and those entangled with one of them.
GetEntangledLanes(root, renderLanes) ==
  LET lanes == IF InputContinuousLane \in renderLanes
               THEN renderLanes \cup (renderLanes \cap {DefaultLane})
               ELSE renderLanes
  IN lanes \cup UNION {root.entanglements[l] : l \in lanes \cap root.entangledLanes}

-----------------------------------------------------------------------------
(* Marking the root *)

\* An update that is not idle may unblock whatever is suspended.
MarkRootUpdated(root, lane) ==
  LET updated == [root EXCEPT !.pendingLanes = @ \cup {lane}]
  IN IF lane = IdleLane THEN updated
     ELSE [updated EXCEPT !.suspendedLanes = {}, !.pingedLanes = {}, !.warmLanes = {}]

MarkRootSuspended(root, lanes, didAttemptEntireTree) ==
  [root EXCEPT !.suspendedLanes = @ \cup lanes,
               !.pingedLanes    = @ \ lanes,
               !.warmLanes      = IF didAttemptEntireTree THEN @ \cup lanes ELSE @,
               !.timedLanes     = @ \ lanes]

MarkRootPinged(root, lanes) ==
  [root EXCEPT !.pingedLanes = @ \cup (root.suspendedLanes \cap lanes),
               !.warmLanes   = @ \ lanes]

MarkRootFinished(root, remainingLanes) ==
  [pendingLanes   |-> remainingLanes,
   suspendedLanes |-> {}, pingedLanes |-> {}, warmLanes |-> {},
   expiredLanes   |-> root.expiredLanes \cap remainingLanes,
   timedLanes     |-> root.timedLanes \ (root.pendingLanes \ remainingLanes),
   entangledLanes |-> root.entangledLanes \cap remainingLanes,
   entanglements  |-> [l \in DOMAIN root.entanglements |->
                         IF l \in root.pendingLanes \ remainingLanes THEN {}
                         ELSE root.entanglements[l]]]

\* Each of the lanes with each other, and with what one of them is entangled with.
MarkRootEntangled(root, lanes) ==
  [root EXCEPT
     !.entangledLanes = @ \cup lanes,
     !.entanglements  = [l \in DOMAIN @ |->
        IF /\ l \in root.entangledLanes \cup lanes
           /\ l \in lanes \/ root.entanglements[l] \cap lanes # {}
        THEN @[l] \cup lanes ELSE @[l]]]

\* late: the lanes whose expiration time has passed.
MarkStarvedLanesAsExpired(root, late) ==
  LET lanes == root.pendingLanes \ RetryLanes
      isCpuBound(l) == l \notin root.suspendedLanes \/ l \in root.pingedLanes
  IN [root EXCEPT
        !.timedLanes   = @ \cup {l \in lanes \cap ExpiringLanes : isCpuBound(l)},
        !.expiredLanes = @ \cup (lanes \cap root.timedLanes \cap late)]
=============================================================================

------------------------- MODULE MCConcurrentRoot -------------------------
(* Small instances of ConcurrentRoot: see the cfg files. *)
EXTENDS ConcurrentRoot

SyncAndTransition == {SyncLane, 8}
SyncAndTransitions == {SyncLane, 8, 9}
NothingOrAll == {{}, Child}
=============================================================================

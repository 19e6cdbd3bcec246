------------------------ MODULE MCClassUpdateQueue ------------------------
(* Small instances of ClassUpdateQueue: see the cfg files. *)
EXTENDS ClassUpdateQueue

\* One lane of each kind that updates are made in.
MCUpdateLanes == {SyncLane, DefaultLane, 8}
=============================================================================

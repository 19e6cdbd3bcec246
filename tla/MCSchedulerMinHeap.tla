------------------------ MODULE MCSchedulerMinHeap ------------------------
(***************************************************************************)
(* The heap with up to six nodes: three levels, the last one incomplete,   *)
(* so that a node has both children, one child or none.  Three sort        *)
(* indices for six ids make ties between deadlines frequent.               *)
(***************************************************************************)
EXTENDS SchedulerMinHeap

MCIds == 1..6
MCSortIndices == {1, 2, 3}
=============================================================================

---------------------------- MODULE MCScheduler ----------------------------
(***************************************************************************)
(* The Scheduler on a clock of a few units.  Two of the five priority      *)
(* levels are kept: one that expires within the run and one that does not. *)
(***************************************************************************)
EXTENDS Scheduler

MCTwoTimeouts == [p \in {"UserBlockingPriority", "NormalPriority"} |->
                    IF p = "UserBlockingPriority" THEN 1 ELSE 4]

MCOneDelay == {1}
MCFrameIntervals == {1, 2}
=============================================================================

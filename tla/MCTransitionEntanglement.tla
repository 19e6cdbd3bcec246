---------------------- MODULE MCTransitionEntanglement ----------------------
(* Small instances of TransitionEntanglement: see the cfg files. *)
EXTENDS TransitionEntanglement

ThreeTransitions == {8, 9, 10}
=============================================================================

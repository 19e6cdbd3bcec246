--------------------------- MODULE MCAsyncAction ---------------------------
(* A small instance of AsyncAction: see the cfg file. *)
EXTENDS AsyncAction
=============================================================================

-------------------------- MODULE MCExternalStore --------------------------
(* Small instances of ExternalStore: see the cfg files. *)
EXTENDS ExternalStore

MCStores == {"s", "t"}
MCStore == {"s"}
MCValues == {0, 1}
=============================================================================
